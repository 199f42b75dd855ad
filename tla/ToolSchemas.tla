---------------------------- MODULE ToolSchemas ----------------------------
(***************************************************************************)
(* The parameters of a tool, a JSON Schema: normalizeToolParameters of     *)
(* tool_compat.go (the same file in the plugin) rewrites it for the first  *)
(* attempt, and more radically for the conservative second attempt after a *)
(* rejection.                                                              *)
(*                                                                         *)
(* A schema is a function from keywords to values; "defs" stands for $defs *)
(* and definitions, "id" for $id, $anchor and $dynamicAnchor, "ref" for    *)
(* $ref, with the name of a definition or an id as value.  That an $id     *)
(* below the root begins a document of its own, in which references start  *)
(* anew, is not modelled, nor is $dynamicRef.  Types and the values of     *)
(* enum are sets, a type that is one string is a set of one.  [bool |-> b] *)
(* is a boolean schema.  A JSON value is [type, value], its value a        *)
(* function for an object and a sequence for an array.                     *)
(***************************************************************************)
EXTENDS Naturals, Sequences, FiniteSets

CONSTANTS
    Schemas,       \* schemas of the clients, and all that is below them
    Values,        \* JSON values
    Arguments,     \* JSON objects a tool may be called with
    DepthLimit,    \* toolCompatibilitySchemaDepth: 16
    Accepts(_, _, _)   \* whether a schema takes a value, given what references name

Empty == [k \in {} |-> k]
Has(s, k) == k \in DOMAIN s
DefsOf(s) == IF Has(s, "defs") THEN s.defs ELSE Empty
DefinitionMaps == {DefsOf(s) : s \in Schemas}

SchemaMaps == {"properties", "dependentSchemas"}
SubSchemas == {"items", "additionalProperties", "not", "if", "then", "else"}
SchemaLists == {"allOf", "anyOf", "oneOf"}

\* What is below the given keywords, and what is beside a reference.
Children(s, keywords) == {s[k] : k \in SubSchemas \cap keywords}
                         \cup UNION {{s[k][p] : p \in DOMAIN s[k]} : k \in SchemaMaps \cap keywords}
Members(s, keywords) == UNION {{s[k][i] : i \in DOMAIN s[k]} : k \in SchemaLists \cap keywords}
Beside(s) == [k \in DOMAIN s \ {"ref"} |-> s[k]]

ASSUME SchemasAssumption ==
    /\ DepthLimit \in Nat /\ Empty \in Schemas
    /\ \A s \in Schemas :
           /\ Children(s, DOMAIN s) \subseteq Schemas /\ Members(s, DOMAIN s) \subseteq Schemas
           /\ Beside(s) \in Schemas
           /\ \A d \in DOMAIN DefsOf(s) : DefsOf(s)[d] \in Schemas

ASSUME ValuesAssumption ==
    /\ Arguments \subseteq {v \in Values : v.type = "object"}
    /\ \A v \in Values : v.type \in {"object", "array"} =>
           \A p \in DOMAIN v.value : v.value[p] \in Values

-----------------------------------------------------------------------------
\* shouldDropSchemaKeyword: what says nothing of a value, and the identifiers,
\* which a reference may name.
Annotations == {"$schema", "examples", "readOnly"}
AlwaysDropped == Annotations \cup {"id"}
Dropped(m) ==
    AlwaysDropped \cup
    IF m = "fallback" THEN {"ref", "defs", "dependentRequired", "dependentSchemas"}
    ELSE {}

\* makeNullableSchemaType: without a type, an object or null.
NullForgotten(s) == IF Has(s, "type") THEN s.type ELSE {"object"}
NullableType(s) == IF Has(s, "type") THEN s.type \cup {"null"} ELSE {"object", "null"}

Nullable(s) == Has(s, "nullable") /\ s.nullable

\* The keyword const alone.
KeywordsWithoutConst(s, m) == (DOMAIN s \ Dropped(m)) \ {"const", "nullable"}

\* Keywords of the result: nullable becomes a type, const an enum.
KeywordsOf(s, m) ==
    ((DOMAIN s \ Dropped(m)) \ {"const", "nullable"})
        \cup (IF Nullable(s) THEN {"type"} ELSE {})
        \cup (IF Has(s, "const") THEN {"enum"} ELSE {})

\* What normalizeSchemaNode makes of the value of a keyword with so many levels
\* left, where "below" is what it makes of schemas one level down and "members"
\* two.  The list itself may be beyond the limit.
NormalValue(s, k, left, below, members) ==
    CASE k = "type" -> IF Nullable(s) THEN NullableType(s) ELSE s.type
      [] k = "enum" -> IF Has(s, "const") THEN {s.const} ELSE s.enum
      [] k \in SchemaMaps -> [p \in DOMAIN s[k] |-> below[s[k][p]]]
      [] k \in SubSchemas -> below[s[k]]
      [] k \in SchemaLists ->
            IF left = 1 THEN Empty ELSE [i \in DOMAIN s[k] |-> members[s[k][i]]]
      [] OTHER -> s[k]

NormalKeywords(s, m, left, below, members) ==
    [k \in KeywordsOf(s, m) |-> NormalValue(s, k, left, below, members)]

\* In the second attempt a reference to a definition is resolved.
Resolves(s, defs, m) == m = "fallback" /\ Has(s, "ref") /\ s.ref \in DOMAIN defs

\* What stands beside a reference still applies.
Resolution(s, defs, below) ==
    IF DOMAIN Beside(s) = {} THEN below[defs[s.ref]]
    ELSE [allOf |-> <<below[defs[s.ref]], below[Beside(s)]>>]

NormalNode(s, defs, m, left, below, members) ==
    IF Has(s, "bool") THEN IF s.bool THEN Empty ELSE [not |-> Empty]
    ELSE IF Resolves(s, defs, m) THEN Resolution(s, defs, below)
    ELSE NormalKeywords(s, m, left, below, members)

NormalLevel(defs, m, left, below, members) ==
    [s \in Schemas |-> NormalNode(s, defs, m, left, below, members)]

\* normalizeSchemaNode, by the number of levels that are left; a list is a level.
Normal(defs, m) ==
    LET normal[left \in Nat] ==
            IF left = 0 THEN [s \in Schemas |-> Empty]
            ELSE NormalLevel(defs, m, left, normal[left - 1],
                             IF left = 1 THEN Empty ELSE normal[left - 2])
    IN  normal

DefaultParameters == [type |-> {"object"}, properties |-> Empty]

\* normalizeToolParameters: the root is an object schema, whatever it was.
NormalParameters(s, m) ==
    LET n == Normal(DefsOf(s), m)[DepthLimit + 1][s]
    IN  IF Has(s, "bool") \/ (Has(n, "type") /\ "object" \notin n.type)
        THEN DefaultParameters
        ELSE [k \in DOMAIN n \cup {"type", "properties"} |->
                CASE k = "type" -> {"object"}
                  [] k = "properties" /\ ~Has(n, k) -> Empty
                  [] OTHER -> n[k]]

\* The schemas that normalizeSchemaNode comes to, one and two levels below a
\* schema, and at each depth below a root.
Nested(s, defs, m) ==
    IF Resolves(s, defs, m) THEN {defs[s.ref], Beside(s)}
    ELSE Children(s, DOMAIN s \ Dropped(m))
Listed(s, defs, m) ==
    IF Resolves(s, defs, m) THEN {} ELSE Members(s, DOMAIN s \ Dropped(m))

VisitedNext(defs, m, above, twoAbove) ==
    (UNION {Nested(s, defs, m) : s \in above})
        \cup (UNION {Listed(s, defs, m) : s \in twoAbove})

Visited(root, m) ==
    LET visited[depth \in Nat] ==
            IF depth = 0 THEN {root}
            ELSE VisitedNext(DefsOf(root), m, visited[depth - 1],
                             IF depth = 1 THEN {} ELSE visited[depth - 2])
    IN  visited

Visits(root, m) == UNION {Visited(root, m)[depth] : depth \in 0 .. DepthLimit}

\* What the references below a root may name: its definitions, and the schemas
\* with an id, which are where normalizeSchemaNode comes to or in definitions.
Named == {s.ref : s \in {t \in Schemas : Has(t, "ref")}}
InDefinitions(root) == UNION {Visits(DefsOf(root)[d], "normal") : d \in DOMAIN DefsOf(root)}
Bearers(root) ==
    {s \in Visits(root, "normal") \cup InDefinitions(root) : Has(s, "id") /\ s.id \in Named}
Targets(root) ==
    [n \in DOMAIN DefsOf(root) \cup {s.id : s \in Bearers(root)} |->
        IF n \in DOMAIN DefsOf(root) THEN DefsOf(root)[n]
        ELSE CHOOSE s \in Bearers(root) : s.id = n]
TargetMaps == {Empty} \cup {Targets(s) : s \in Schemas}

-----------------------------------------------------------------------------
\* What a schema says of a value, by JSON Schema and, for nullable, by OpenAPI.
AllowsObject(s, defs, v) ==
    LET fields == DOMAIN v.value
        known == IF Has(s, "properties") THEN DOMAIN s.properties ELSE {}
    IN  /\ \A p \in fields \cap known : Accepts(s.properties[p], defs, v.value[p])
        /\ Has(s, "required") => s.required \subseteq fields
        /\ Has(s, "additionalProperties") =>
               \A p \in fields \ known : Accepts(s.additionalProperties, defs, v.value[p])
        /\ Has(s, "dependentRequired") =>
               \A p \in fields \cap DOMAIN s.dependentRequired :
                   s.dependentRequired[p] \subseteq fields
        /\ Has(s, "dependentSchemas") =>
               \A p \in fields \cap DOMAIN s.dependentSchemas :
                   Accepts(s.dependentSchemas[p], defs, v)

Accepting(s, k, defs, v) == {i \in DOMAIN s[k] : Accepts(s[k][i], defs, v)}

AllowsCombined(s, defs, v) ==
    /\ Has(s, "allOf") => Accepting(s, "allOf", defs, v) = DOMAIN s.allOf
    /\ Has(s, "anyOf") => Accepting(s, "anyOf", defs, v) # {}
    /\ Has(s, "oneOf") => Cardinality(Accepting(s, "oneOf", defs, v)) = 1
    /\ Has(s, "not") => ~Accepts(s.not, defs, v)
    /\ Has(s, "if") /\ Has(s, "then") /\ Accepts(s.if, defs, v) => Accepts(s.then, defs, v)
    /\ Has(s, "if") /\ Has(s, "else") /\ ~Accepts(s.if, defs, v) => Accepts(s.else, defs, v)
    /\ Has(s, "ref") /\ s.ref \in DOMAIN defs => Accepts(defs[s.ref], defs, v)

Allows(s, defs, v) ==
    IF Has(s, "bool") THEN s.bool
    ELSE /\ Has(s, "type") => v.type \in s.type \/ (v.type = "null" /\ Nullable(s))
         /\ Has(s, "enum") => v \in s.enum
         /\ Has(s, "const") => v = s.const
         /\ v.type = "object" => AllowsObject(s, defs, v)
         /\ v.type = "array" /\ Has(s, "items") =>
                \A i \in DOMAIN v.value : Accepts(s.items, defs, v.value[i])
         /\ AllowsCombined(s, defs, v)

\* Whoever checks arguments keeps to what schemas say, those of the clients and
\* those they are rewritten to.
Obeys(s, defs) == \A v \in Values : Accepts(s, defs, v) <=> Allows(s, defs, v)
NormalForms(m) ==
    {Normal(defs, m)[left][s] : defs \in DefinitionMaps, left \in 0 .. DepthLimit + 1, s \in Schemas}
Modes == {"normal", "fallback"}
ASSUME JsonSchemaAssumption ==
    \A targets \in TargetMaps :
        /\ \A s \in Schemas : Obeys(s, targets)
        /\ \A m \in Modes :
               /\ \A s \in NormalForms(m) : Obeys(s, targets)
               /\ \A s \in Schemas : Obeys(NormalParameters(s, m), targets)

AcceptedBy(s) == LET targets == Targets(s) IN {v \in Arguments : Accepts(s, targets, v)}

-----------------------------------------------------------------------------
VARIABLES
    parameters,       \* Function.Parameters of the client's tools
    mode,             \* compatibilityMode of the attempt
    sentParameters    \* what was made of them, none before

schemaVars == <<parameters, mode, sentParameters>>

NotMade == [made |-> FALSE]

\* Part of taking a tool; each attempt begins with the parameters of the client.
MakeParameters ==
    /\ sentParameters' = NormalParameters(parameters, mode)
    /\ UNCHANGED <<parameters, mode>>

-----------------------------------------------------------------------------
\* No list is cut at the limit, which would leave its keyword with a schema; and
\* nothing at all is beyond the limit.
NoListCut(root, m) == \A s \in Visited(root, m)[DepthLimit] : DOMAIN s \cap SchemaLists = {}
NothingCut(root, m) == NoListCut(root, m) /\ Visited(root, m)[DepthLimit + 1] = {}

\* What is left out below these keywords may make a value unacceptable.
Inverting == {"not", "if", "oneOf"}

\* A schema no keyword of which is dropped but annotations and an id no reference
\* names, whose const is in its enum, and that has a type if it is nullable.
Typed(s) == Nullable(s) => Has(s, "type")
Plain(s, m) ==
    /\ Typed(s)
    /\ Has(s, "const") /\ Has(s, "enum") => s.const \in s.enum
    /\ DOMAIN s \cap Dropped(m) \subseteq AlwaysDropped
    /\ Has(s, "id") => s.id \notin Named

ObjectRoot(s) == ~Has(s, "bool") /\ (Has(s, "type") => "object" \in s.type)

\* "Nullable types, constants, local references and nested schema containers are
\* normalized while preserving argument constraints" (README.md): a tool offered
\* in a first attempt takes the arguments the client's schema takes, no more and
\* no fewer.  Left aside: a root that is no object schema, nullable without a
\* type, a const outside its enum, what is nested beyond the limit, and a schema
\* whose id a reference names: the id is dropped and the reference sent, so that
\* it is lost, whatever README.md says of local references.
SchemaKeepsArguments ==
    /\ sentParameters # NotMade /\ mode = "normal"
    /\ ObjectRoot(parameters) /\ NothingCut(parameters, mode)
    /\ \A s \in Visits(parameters, mode) : Plain(s, mode)
    => AcceptedBy(sentParameters) = AcceptedBy(parameters)

\* The second attempt sends "simplified" schemas (README.md): references
\* resolved as deep as the limit, keywords left out, and still no argument is
\* lost that the client's schema takes.  Left aside: what turns leaving out
\* into forbidding, unless nothing is left out, and lists cut at the limit.
FallbackOnlyLoosens ==
    /\ sentParameters # NotMade /\ mode = "fallback"
    /\ \/ /\ NoListCut(parameters, mode)
          /\ \A s \in Visits(parameters, mode) : Typed(s) /\ DOMAIN s \cap Inverting = {}
       \/ /\ NothingCut(parameters, mode)
          /\ \A s \in Visits(parameters, mode) : Plain(s, mode)
    => AcceptedBy(parameters) \subseteq AcceptedBy(sentParameters)
=============================================================================
