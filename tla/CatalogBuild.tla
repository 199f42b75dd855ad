---------------------------- MODULE CatalogBuild ----------------------------
(***************************************************************************)
(* What becomes of a client's model and effort: buildCatalog turns the     *)
(* answer of GetCliModelConfigs into a list of models and tables, and      *)
(* resolveModelWire and lookupModelImageSupport read them while a request  *)
(* is prepared (modelsfetch.go, models.go).  A background refresh may      *)
(* store the tables anew at any time.                                      *)
(*                                                                         *)
(* Ids of models and of wires are strings of one kind: both are keys of    *)
(* one table and a client may send either.  A display name is its family   *)
(* and the words that follow it.                                           *)
(***************************************************************************)
EXTENDS Integers, Sequences, SequencesExt

CONSTANTS
    Families,   \* slugs of families, which are the plain ids of models
    Sibling,    \* Sibling[f, l]: the id of a family for a window with a label
    SortedIds,  \* all ids a list may have, in the order it is sorted in
    Efforts,    \* reasoning efforts, trimmed and in lower case
    Static,     \* codeiumModels, from ids to wires
    Answers     \* possible answers of GetCliModelConfigs

\* No wire, no family, no tier.
Absent == ""

\* A model entry; its suffix is the words of the display name that are looked for.
Words == {"fast", "priority", "no thinking", "none", "minimal", "x-high", "xhigh",
          "high", "medium", "low", "max", "thinking"}
ModelEntry == [wire : STRING, family : Families \cup {Absent}, suffix : SUBSET Words,
               context : Nat, featured : BOOLEAN, images : BOOLEAN]

ASSUME AnswersAssumption == Answers \subseteq Seq(ModelEntry)

\* ctxLabel: 200000 is 200k, 1000000 and 1048576 are both 1m.
CtxLabel(n) ==
    CASE n >= 1000000 -> <<(n + 500000) \div 1000000, "m">>
      [] n >= 1000 /\ n < 1000000 -> <<(n + 500) \div 1000, "k">>
      [] OTHER -> <<n, "">>

\* A slug, a hyphen and a label: no other label gives this id to the family, and
\* the family has another one.
ASSUME SiblingAssumption ==
    \A p, q \in DOMAIN Sibling :
        p[1] = q[1] => Sibling[p] # p[1] /\ (Sibling[p] = Sibling[q] => p = q)

ASSUME LabelsAssumption ==
    \A es \in Answers : \A i \in 1 .. Len(es) :
        es[i].family # Absent => <<es[i].family, CtxLabel(es[i].context)>> \in DOMAIN Sibling

VARIABLES
    answer,     \* entries of the answer of GetCliModelConfigs
    catalog,    \* dynamicCatalogs of the account
    model,      \* model and reasoning effort of the request
    effort,
    wire        \* field 21 of the request that is sent, Absent before

catalogVars == <<answer, catalog, model, effort, wire>>

-----------------------------------------------------------------------------
\* tierFromDisplay: the first of these that the suffix has.  Fast variants have
\* no tier, a name without suffix is the medium one.
TierOrder == <<"minimal", "x-high", "xhigh", "high", "medium", "low", "max">>
TierFromDisplay(suffix) ==
    CASE suffix \cap {"fast", "priority"} # {} -> Absent
      [] suffix = {} -> "medium"
      [] suffix \cap {"fast", "priority"} = {}
         /\ ("no thinking" \in suffix \/ suffix = {"none"}) -> "none"
      [] OTHER ->
             LET known == SelectSeq(TierOrder, LAMBDA w : w \in suffix)
             IN  CASE known = <<>> -> Absent
                   [] known # <<>> /\ Head(known) = "x-high" -> "xhigh"
                   [] OTHER -> Head(known)
Tier(e) == TierFromDisplay(e.suffix)

NormalizeEffort(eff) ==
    CASE eff \in {"minimal", "low", "medium", "high", "xhigh", "max", "none"} -> eff
      [] eff \in {"auto", "default"} -> "medium"
      [] eff \in {"x-high", "very-high", "veryhigh"} -> "xhigh"
      [] eff = "maximum" -> "max"
      [] eff \in {"off", "no", "disabled"} -> "none"
      [] OTHER -> Absent

\* parseModelEntries leaves out what has no wire id, and both passes what has
\* no family.
Usable(e) == e.wire # Absent /\ e.family # Absent

\* Pass 1: what the picker features of a family.  A later entry replaces it.
Features(e, f) == Usable(e) /\ e.family = f /\ e.featured /\ Tier(e) # Absent
FeaturedFamilies(es) == {f \in Families : \E i \in 1 .. Len(es) : Features(es[i], f)}
Featured(es, f) == es[Max({i \in 1 .. Len(es) : Features(es[i], f)})]

Window(es, f) == Featured(es, f).context

\* Pass 2: entries with the window of the featured one, or larger, of such a
\* family.  Fast variants have no tier.
Surfaced(es, e) ==
    /\ Usable(e) /\ Tier(e) # Absent
    /\ e.family \in FeaturedFamilies(es)
    /\ Window(es, e.family) > 0 => e.context >= Window(es, e.family)

SiblingId(e) == Sibling[e.family, CtxLabel(e.context)]
IdIgnoringWindow(es, e) == e.family
IdOf(es, e) ==
    IF Window(es, e.family) > 0 /\ e.context > Window(es, e.family) THEN SiblingId(e)
    ELSE e.family

\* families[id] is made of the entries at these places.
Bucket(es, id) == {i \in 1 .. Len(es) : Surfaced(es, es[i]) /\ IdOf(es, es[i]) = id}
ListedIds(es) == {IdOf(es, e) : e \in {x \in Range(es) : Surfaced(es, x)}}

\* families[id]: the first entry of a tier keeps it.
TierTable(es, id) ==
    [t \in {Tier(es[i]) : i \in Bucket(es, id)} |->
        es[Min({i \in Bucket(es, id) : Tier(es[i]) = t})].wire]

\* baseWire[id]: the tier the picker features, or the first one met ranging over
\* a map, which may be any.
AnyTier(es, id) == Range(TierTable(es, id))
DefaultWires(es, id) ==
    LET tiers == TierTable(es, id)
        tier == Tier(Featured(es, es[Min(Bucket(es, id))].family))
    IN  IF tier \in DOMAIN tiers THEN {tiers[tier]} ELSE Range(tiers)

WireTakesImages(es, w) == es[Max({i \in 1 .. Len(es) : es[i].wire = w})].images

\* buildModelImageSupport: each model of the sorted list writes its id, its
\* default wire, which is one of its wires, and all its wires with what is known
\* of the default wire.  The last one to write a name decides.
NamesOf(es, id) == {id} \cup Range(TierTable(es, id))
Writers(es, ids, x) ==
    {k \in 1 .. Len(SortedIds) : SortedIds[k] \in ids /\ x \in NamesOf(es, SortedIds[k])}
SupportOfIds(es, base) == [id \in DOMAIN base |-> WireTakesImages(es, base[id])]
ImageSupport(es, base) ==
    [x \in UNION {NamesOf(es, id) : id \in DOMAIN base} |->
        WireTakesImages(es, base[SortedIds[Max(Writers(es, DOMAIN base, x))]])]

BaseWires(es) ==
    {base \in [ListedIds(es) -> UNION {DefaultWires(es, id) : id \in ListedIds(es)}] :
        \A id \in ListedIds(es) : base[id] \in DefaultWires(es, id)}

\* An answer that gives no model is not stored.
Catalogues(es) ==
    IF ListedIds(es) = {} THEN {}
    ELSE {[families |-> [id \in ListedIds(es) |-> TierTable(es, id)],
           baseWire |-> base, imageSupport |-> ImageSupport(es, base)] :
             base \in BaseWires(es)}

ASSUME SortedAssumption ==
    SortedIds \in Seq(STRING) /\ \A es \in Answers : ListedIds(es) \subseteq ToSet(SortedIds)

NoCatalog == [families |-> <<>>, baseWire |-> <<>>, imageSupport |-> <<>>]

-----------------------------------------------------------------------------
\* resolveModelWire: an id nobody knows is passed on as it is.
ResolveDefault(c, id, eff) ==
    CASE id \in DOMAIN c.families -> c.baseWire[id]
      [] id \notin DOMAIN c.families /\ id \in DOMAIN Static -> Static[id]
      [] OTHER -> id
ResolveModelWire(c, id, eff) ==
    IF id \in DOMAIN c.families /\ NormalizeEffort(eff) \in DOMAIN c.families[id]
    THEN c.families[id][NormalizeEffort(eff)]
    ELSE ResolveDefault(c, id, eff)

\* lookupModelImageSupport
LookupImageSupport(c, id, eff) ==
    LET resolved == ResolveModelWire(c, id, eff)
        said(x) == IF c.imageSupport[x] THEN "yes" ELSE "no"
    IN  CASE id \in DOMAIN c.imageSupport -> said(id)
          [] id \notin DOMAIN c.imageSupport /\ resolved \in DOMAIN c.imageSupport ->
                 said(resolved)
          [] OTHER -> "unknown"

\* storeDynamicCatalog at the end of a fetch.
Refetch ==
    /\ catalog' \in Catalogues(answer)
    /\ UNCHANGED <<answer, model, effort, wire>>

\* The request is encoded.
EncodeModel ==
    /\ wire = Absent
    /\ wire' = ResolveModelWire(catalog, model, effort)
    /\ UNCHANGED <<answer, catalog, model, effort>>

-----------------------------------------------------------------------------
\* No entry of another family has an id of this one.
OwnIds(f) ==
    \A i, j \in 1 .. Len(answer) :
        Surfaced(answer, answer[i]) /\ Surfaced(answer, answer[j])
        /\ answer[i].family = f /\ answer[j].family # f
            => IdOf(answer, answer[i]) # IdOf(answer, answer[j])

\* The entry at place i is the only one of its family that is featured.
OnlyFeatured(i) ==
    /\ Features(answer[i], answer[i].family)
    /\ \A k \in 1 .. Len(answer) : Features(answer[k], answer[i].family) => k = i

\* Entries of the family of d whose window is that of d, or larger and labelled
\* like that of e.
Larger(d, e) == d.context > 0 /\ e.context > d.context
SameWindow(d, e, x) ==
    IF Larger(d, e) THEN Larger(d, x) /\ CtxLabel(x.context) = CtxLabel(e.context)
    ELSE d.context = 0 \/ x.context = d.context
Peers(d, e) ==
    {x \in Range(answer) :
        Usable(x) /\ x.family = d.family /\ Tier(x) # Absent /\ SameWindow(d, e, x)}

PromisedId(d, e) == IF Larger(d, e) THEN SiblingId(e) ELSE d.family

\* The id of e resolves to one of its peers, of the effort asked for if there is
\* one and else of the effort of d if there is one.
ResolvesAmong(d, e, eff) ==
    LET t == NormalizeEffort(eff)
        tiers == {Tier(x) : x \in Peers(d, e)}
    IN  \E x \in Peers(d, e) :
            /\ x.wire = ResolveModelWire(catalog, PromisedId(d, e), eff)
            /\ t \in tiers => Tier(x) = t
            /\ t \notin tiers /\ Tier(d) \in tiers => Tier(x) = Tier(d)

\* "every context/effort combination is reachable" (modelsfetch.go:333), read
\* off the answer: for every variant of a family with one featured entry, the
\* family's id, or its sibling for a larger window, resolves to a variant of that
\* family and window, of the effort asked for if there is one and else of the
\* featured effort if there is one.
ResolvedAsPromised ==
    catalog # NoCatalog => \A i, j \in 1 .. Len(answer) :
        LET d == answer[i]
            e == answer[j]
        IN  OnlyFeatured(i) /\ e \in Peers(d, e) /\ OwnIds(d.family)
                => \A eff \in Efforts : ResolvesAmong(d, e, eff)

\* A refresh with the same answer does not change what the plain id of a family
\* stands for, whatever the order in which a map is ranged over.
PlainIdsStable ==
    [][catalog # NoCatalog /\ catalog' # catalog =>
          \A f \in {g \in FeaturedFamilies(answer) : OwnIds(g)} : \A eff \in Efforts :
              ResolveModelWire(catalog', f, eff) = ResolveModelWire(catalog, f, eff)]_catalogVars
=============================================================================
