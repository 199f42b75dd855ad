--------------------------- MODULE MCSendRequest ---------------------------
(* Instance of SendRequest for TLC: requests of up to two tools and two       *)
(* calls, and of three tools and one call, without images; requests of up to  *)
(* three messages with images and a tool; requests of models and wire ids     *)
(* with an image or none, for answers of up to three entries; parameters of   *)
(* every keyword, in and below every keyword that holds schemas; and          *)
(* conversations of up to three messages.                                     *)
(*                                                                            *)
(* "a.b" and "a b" are both cleaned to "a_b"; "a b" and the long name have    *)
(* the same hashed name, which is also a name the client uses; and the long   *)
(* name numbered 2 is the cleaned "a.b".                                      *)
EXTENDS SendRequest

MCNames == {"a.b", "a b", "a_h", "long"}
MCCompatible == {"a_b", "a_h", "h_h", "a_h_2", "a_h_3", "h_2", "h_3"}
MCShort == {"a.b", "a b", "a_h"}
MCClean == [n \in MCShort |-> IF n = "a_h" THEN "a_h" ELSE "a_b"]
MCHashed == [n \in MCNames |-> IF n = "a_h" THEN "h_h" ELSE "a_h"]
MCIndices == {2, 3}
MCNumbered ==
    [n \in MCNames |-> [k \in MCIndices |->
        CASE n = "a_h" -> IF k = 2 THEN "h_2" ELSE "h_3"
          [] n = "long" -> IF k = 2 THEN "a_b" ELSE "a_h_3"
          [] OTHER -> IF k = 2 THEN "a_h_2" ELSE "a_h_3"]]

MCDefinitions == BoundedSeq(MCNames, 3) \cup BoundedSeq(MCNames \cup {""}, 2)
MCHistories == BoundedSeq(MCNames \cup {""}, 2)

Image(source, size, spaces, valid) ==
    [kind |-> "image", source |-> source, size |-> size, spaces |-> spaces, valid |-> valid]

\* With limits of 4 and 6 bytes: an image that has room to spare, two whose
\* encoded length is that of a smaller and a larger one, one over the limit,
\* one that is no image, and one with too much white space.
MCParts == {
    [kind |-> "text", source |-> "inline", size |-> 0, spaces |-> 0, valid |-> FALSE],
    [kind |-> "nested", source |-> "inline", size |-> 1, spaces |-> 0, valid |-> TRUE],
    Image("inline", 1, 1, TRUE), Image("inline", 4, 0, TRUE), Image("inline", 5, 0, TRUE),
    Image("inline", 1, 9, TRUE), Image("inline", 1, 0, FALSE),
    Image("remote", 2, 0, TRUE), Image("remote", 5, 0, TRUE), Image("remote", 2, 0, FALSE) }

Messages(n) == [system : BOOLEAN, parts : BoundedSeq(MCParts, n)]
Roomy == {p \in MCParts : p.valid /\ p.size \in {1, 2, 4} /\ p.spaces < 2}
WithImages == {<<[system |-> FALSE, parts |-> ps]>> : ps \in BoundedSeq(Roomy, 4)}
              \cup {<<m, n>> : m \in Messages(2), n \in Messages(1)}
              \cup BoundedSeq([system : {FALSE}, parts : BoundedSeq(Roomy, 1)], 3)
WithImagesOrNone == WithImages \cup {<<>>}

Entry(family, suffix, context, featured, takes, id) ==
    [wire |-> id, family |-> family, suffix |-> suffix, context |-> context,
     featured |-> featured, images |-> takes]

MCFamilies == {"glm", "glm-1m", "opus"}
MCLabels == {<<0, "">>, <<100, "k">>, <<200, "k">>, <<1, "m">>}
MCSibling ==
    [f \in MCFamilies, l \in MCLabels |->
        f \o CASE l[1] = 0 -> "-0" [] l[1] = 100 -> "-100k" [] l[1] = 200 -> "-200k"
                 [] l[1] = 1 -> "-1m"]
MCSortedIds == <<"glm", "glm-1m", "glm-1m-1m", "glm-200k", "opus", "opus-200k">>
MCEfforts == {"", "x-high", "maximum", "auto"}
MCStatic == [id \in {"swe"} |-> "swe"]

\* Two windows have one label, and one is unknown.  A family is named like the
\* sibling of another, and a wire like a family.  Two names have the same tier.
K == 1000
MCEntries == {
    Entry("glm", {"x-high", "high"}, 200*K, TRUE, TRUE, "glm-h"),
    Entry("glm", {"max", "thinking"}, 200*K, FALSE, TRUE, "glm-x"),
    Entry("glm", {"max"}, 1000*K, FALSE, FALSE, "glm-x3"),
    Entry("glm", {"x-high", "high"}, 1049*K, FALSE, FALSE, "glm-h4"),
    Entry("glm", {"low"}, 1049*K, FALSE, FALSE, "glm-l4"),
    Entry("glm", {"low"}, 100*K, FALSE, TRUE, "glm-l1"),
    Entry("glm", {"high", "fast"}, 200*K, TRUE, TRUE, "glm-fast"),
    Entry("opus", {}, 0, TRUE, FALSE, "opus"),
    Entry("opus", {"medium"}, 200*K, FALSE, FALSE, "opus-m"),
    Entry("opus", {"no thinking", "high"}, 0, TRUE, TRUE, "opus-n"),
    Entry("glm-1m", {"max"}, 200*K, TRUE, TRUE, "other"),
    Entry("", {"high"}, 200*K, TRUE, TRUE, "odd") }
MCAnswers == BoundedSeq(MCEntries, 3)
Offers ==
    BoundedSeq(MCEntries, 2)
    \cup BoundedSeq({e \in MCEntries : e.wire \notin {"opus-m", "opus-n", "odd"}}, 3)
\* Answers of a featured entry and up to two that are offered beside it.
Featuring(wires) ==
    {<<e>> \o es : e \in {x \in MCEntries : x.wire \in wires},
                  es \in BoundedSeq({x \in MCEntries : x.wire \notin {"glm-fast", "odd"}}, 2)}

OneImage == <<[system |-> FALSE, parts |-> <<Image("inline", 4, 0, TRUE)>>]>>
Auto == [mode |-> "auto", selected |-> ""]

Naming(definitions, histories) ==
    [messages : {<<>>}, defs : definitions, history : histories,
     choice : ToolChoices, answer : {<<>>}, model : {"swe"}, effort : {""}]
Seeing(answers, models, efforts) ==
    [messages : {OneImage}, defs : {<<>>}, history : {<<>>}, choice : {Auto},
     answer : answers, model : models, effort : efforts]
MCRequests ==
    Naming(BoundedSeq(MCNames \cup {""}, 2), MCHistories)
    \cup Naming(BoundedSeq(MCNames, 3), BoundedSeq(MCNames, 1))
    \cup [messages : WithImages, defs : {<<"a.b">>}, history : {<<>>},
               choice : {Auto}, answer : {<<>>}, model : {"swe"}, effort : {""}]
    \cup [messages : {<<>>}, defs : {<<>>}, history : {<<>>}, choice : {Auto},
               answer : Offers, model : {"glm"}, effort : {"maximum"}]
    \cup Seeing(Featuring({"glm-h", "opus", "opus-n"}), {"glm-1m"}, {"maximum"})
    \cup Seeing(Featuring({"glm-h"}), {"glm-1m", "glm-h4"}, {""})
    \cup Seeing(Featuring({"opus", "opus-n"}), {"opus"}, {""})
-----------------------------------------------------------------------------
\* Values and schemas.  Every leaf stands alone and below every keyword, as a
\* property of every root; "e" is a definition that refers to itself.
Json(t, v) == [type |-> t, value |-> v]
NullValue == Json("null", <<>>)
X == Json("string", "x")
Y == Json("string", "y")
Objects(values) ==
    {Json("object", f) : f \in UNION {[fields -> values] : fields \in SUBSET {"p", "q"}}}
MCArguments ==
    Objects({NullValue, X, Y, Json("array", <<Y, NullValue>>), Json("object", [p |-> X])})
MCValues ==
    MCArguments \cup {X, Y, NullValue, Json("array", <<Y, NullValue>>)}

Str == [type |-> {"string"}]
Leaves == {
    [bool |-> TRUE], [bool |-> FALSE], Empty, Str,
    [type |-> {"string", "null"}, examples |-> {X}],
    [type |-> {"string"}, nullable |-> TRUE], [type |-> {"object"}, nullable |-> FALSE],
    [nullable |-> TRUE], [type |-> {"string"}, nullable |-> TRUE, enum |-> {Y, NullValue}],
    [const |-> X], [const |-> X, enum |-> {X, Y}], [const |-> Y, enum |-> {X}],
    [enum |-> {X, NullValue}],
    [ref |-> "d"], [ref |-> "e"], [ref |-> "d", type |-> {"string"}], [ref |-> "e", enum |-> {Y}] }
Kids == Leaves \cup UNION {
    {[type |-> {"object"}, properties |-> [p |-> l]], [type |-> {"array"}, items |-> l],
     [not |-> l], [allOf |-> <<Str, l>>], [anyOf |-> <<l, [type |-> {"null"}]>>],
     [oneOf |-> <<l, Str>>], [if |-> l, then |-> Str], [if |-> Str, then |-> l, else |-> l]} :
    l \in Leaves \ {Empty, Str, [bool |-> TRUE], [type |-> {"object"}, nullable |-> FALSE],
                    [enum |-> {X, NullValue}]}}
Identified == [id |-> "n", type |-> {"string"}]
LocalDefs == [d |-> [type |-> {"string"}, nullable |-> TRUE],
              e |-> [anyOf |-> <<Str, [properties |-> [p |-> [ref |-> "e"]]]>>],
              r |-> [type |-> {"object"}, nullable |-> TRUE,
                     properties |-> [p |-> [allOf |-> <<[ref |-> "d"], [const |-> X]>>]]],
              k |-> Identified]
Roots == {[type |-> {"object"}, properties |-> [p |-> k]] : k \in Kids} \cup UNION {
    {[properties |-> [p |-> k, q |-> [ref |-> "d"]], required |-> {"p"},
      additionalProperties |-> [bool |-> FALSE], defs |-> LocalDefs],
     [type |-> {"object", "null"}, additionalProperties |-> k,
      dependentRequired |-> [p |-> {"q"}], defs |-> LocalDefs]} :
    k \in Kids} \cup UNION {
    {[not |-> [properties |-> [q |-> l]], required |-> {"p"}],
     [type |-> {"object"}, nullable |-> TRUE,
      dependentSchemas |-> [p |-> [properties |-> [q |-> l]]], defs |-> LocalDefs],
     [anyOf |-> <<[required |-> {"p"}], [properties |-> [q |-> l]]>>, defs |-> LocalDefs],
     [type |-> {"string"}, properties |-> [p |-> l], defs |-> LocalDefs],
     [ref |-> "r", properties |-> [q |-> l], defs |-> LocalDefs]} :
    l \in Leaves}
\* An id that a reference names, below the root, in the root and in definitions,
\* and one that no reference names.
WithIds == {
    [type |-> {"object"}, properties |-> [p |-> Identified, q |-> [ref |-> "n"]]],
    [id |-> "n", properties |-> [p |-> [ref |-> "n"]], required |-> {"q"}],
    [properties |-> [p |-> [ref |-> "n"]], defs |-> LocalDefs],
    [id |-> "u", type |-> {"object"}, properties |-> [p |-> Str]] }
MCParameters ==
    Roots \cup WithIds \cup {Empty, [bool |-> FALSE], [ref |-> "r", defs |-> LocalDefs]}

\* What is below and beside the parameters.
MCSchemas ==
    MCParameters \cup Kids \cup {[enum |-> {Y}], [type |-> {"null"}], [required |-> {"p"}]}
    \cup {[properties |-> [q |-> l]] : l \in Leaves}
    \cup {[properties |-> [q |-> l], defs |-> LocalDefs] : l \in Leaves}
    \cup {[defs |-> LocalDefs], LocalDefs.d, LocalDefs.e, LocalDefs.r,
          [properties |-> [p |-> [ref |-> "e"]]], [allOf |-> <<[ref |-> "d"], [const |-> X]>>],
          Identified, [ref |-> "n"]}

\* A checker of arguments, keyword by keyword; TLC shows that it keeps to Allows.
RECURSIVE MCAccepts(_, _, _)
MCAccepts(s, d, v) ==
    LET Takes(t) == MCAccepts(t, d, v)
        TakesAt(t, p) == MCAccepts(t, d, v.value[p])
        Taking(k) == {i \in DOMAIN s[k] : Takes(s[k][i])}
        known == IF "properties" \in DOMAIN s THEN DOMAIN s.properties ELSE {}
        OfObject(k) ==
            CASE k = "properties" -> \A p \in DOMAIN v.value \cap known : TakesAt(s[k][p], p)
              [] k = "additionalProperties" -> \A p \in DOMAIN v.value \ known : TakesAt(s[k], p)
              [] k = "required" -> s[k] \subseteq DOMAIN v.value
              [] k = "dependentRequired" ->
                    \A p \in DOMAIN v.value \cap DOMAIN s[k] : s[k][p] \subseteq DOMAIN v.value
              [] k = "dependentSchemas" ->
                    \A p \in DOMAIN v.value \cap DOMAIN s[k] : Takes(s[k][p])
              [] OTHER -> TRUE
        Keeps(k) ==
            CASE k = "bool" -> s[k]
              [] k = "type" -> v.type \in s[k] \cup (IF Nullable(s) THEN {"null"} ELSE {})
              [] k = "enum" -> v \in s[k]
              [] k = "const" -> v = s[k]
              [] k = "items" -> v.type = "array" => \A i \in DOMAIN v.value : TakesAt(s[k], i)
              [] k = "allOf" -> Taking(k) = DOMAIN s[k]
              [] k = "anyOf" -> Taking(k) # {}
              [] k = "oneOf" -> Cardinality(Taking(k)) = 1
              [] k = "not" -> ~Takes(s[k])
              [] k = "if" -> LET k2 == IF Takes(s[k]) THEN "then" ELSE "else"
                             IN  k2 \in DOMAIN s => Takes(s[k2])
              [] k = "ref" -> s[k] \in DOMAIN d => Takes(d[s[k]])
              [] OTHER -> v.type = "object" => OfObject(k)
    IN  \A k \in DOMAIN s : Keeps(k)

\* Ids made up for a call, one of which a client sends back with a result.
MCSynthesised ==
    [n \in MCCompatible \cup {""} |-> [i \in Nat |-> n \o IF i = 0 THEN ":0" ELSE ":1"]]
Spoke(role, text, ids, result) ==
    [role |-> role, text |-> text, calls |-> ids, result |-> result]
MCSpeeches == {
    Spoke("system", TRUE, <<>>, ""), Spoke("developer", FALSE, <<>>, ""),
    Spoke("user", TRUE, <<>>, ""),
    Spoke("assistant", FALSE, <<"c">>, ""), Spoke("assistant", TRUE, <<"d", "c">>, ""),
    Spoke("assistant", FALSE, <<"", "c">>, ""), Spoke("assistant", FALSE, <<"a_b:0">>, ""),
    Spoke("tool", TRUE, <<>>, "c"), Spoke("tool", TRUE, <<>>, "a_b:0") }
MCConversations == {c \in BoundedSeq(MCSpeeches, 3) : CallCount(c) <= 3}

\* The calls of the other requests, in one message without ids.
OneTurn(n) == <<Spoke("assistant", FALSE, [i \in 1 .. n |-> ""], "")>>

Sending(requests, schemas, modes, conversations, limits) ==
    [requests |-> requests, parameters |-> schemas, modes |-> modes,
     conversations |-> conversations, limits |-> limits]
Talks ==
    [messages : {<<>>}, defs : {<<"a.b">>}, history : BoundedSeq({"a.b", "a b"}, 3),
     choice : {Auto}, answer : {<<>>}, model : {"swe"}, effort : {""}]
Silent == {r \in Talks : r.history = <<>>}
MCKinds == {
    Sending(MCRequests, {Empty}, {"normal"}, {OneTurn(n) : n \in 0 .. 2}, {FALSE}),
    Sending(Silent, MCParameters, {"normal", "fallback"}, {<<>>}, {FALSE}),
    Sending(Talks, {Empty}, {"normal"}, MCConversations, {TRUE}) }
MCAllConversations == UNION {k.conversations : k \in MCKinds}
MCAllRequests == MCRequests \cup Talks
MCAllHistories == MCHistories \cup BoundedSeq({"a.b", "a b"}, 3)
=============================================================================
