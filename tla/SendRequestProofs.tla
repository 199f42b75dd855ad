------------------------ MODULE SendRequestProofs ------------------------
EXTENDS SendRequest, SequenceLemmas

(***************************************************************************)
(* Proofs about ImageBudget for requests of any length, images of any size *)
(* and any limits.  The limits are inductive together with the types: what *)
(* is left for an image is computed from the totals of the messages before *)
(* and from the images of its own message, and only what fits is taken.    *)
(***************************************************************************)
\* The part that is looked at is one of the request's.
LEMMA PartTyped ==
    ASSUME ImagesTypeOK, Len(given) < Len(messages), part < Len(Message.parts)
    PROVE  /\ Message.parts[part + 1] \in Parts
           /\ Message.parts[part + 1].size \in Nat
  <1>1. messages \in Seq([system : BOOLEAN, parts : Seq(Parts)])
    BY MessagesAssumption DEF ImagesTypeOK
  <1>2. Len(given) \in Nat
    BY DEF ImagesTypeOK
  <1>3. Message \in [system : BOOLEAN, parts : Seq(Parts)]
    BY <1>1, <1>2, ElementTyped DEF Message
  <1>4. Message.parts \in Seq(Parts)
    BY <1>3
  <1>5. Message.parts[part + 1] \in Parts
    BY <1>4, ElementTyped DEF ImagesTypeOK
  <1> QED
    BY <1>5, MessagesAssumption DEF Part

-----------------------------------------------------------------------------
\* What is left for the image at hand, and where it stands: a fetch is begun
\* only for a part there is room for.
FetchInv ==
    stage = "fetch" =>
        /\ Len(given) < Len(messages)
        /\ part < Len(Message.parts)
        /\ CountLeft

LimitsInv == ImagesTypeOK /\ WithinLimits /\ FetchInv

LEMMA LimitsInit == ImagesInit => LimitsInv
  BY LimitsAssumption, EmptyTyped
     DEF ImagesInit, LimitsInv, ImagesTypeOK, WithinLimits, FetchInv, Reasons

LEMMA RefuseKeeps ==
    ASSUME LimitsInv, NEW why \in Reasons, Refuse(why)
    PROVE  LimitsInv'
  BY DEF Refuse, LimitsInv, ImagesTypeOK, WithinLimits, FetchInv, imageRequest,
         totals, current

\* An image that fits what is left may be taken.
LEMMA TakeKeeps ==
    ASSUME LimitsInv, NEW p \in Parts, p.size \in Nat, p.size <= ImageLimit,
           CountLeft, Take(p), loads' = loads
    PROVE  LimitsInv'
  <1>1. /\ images \in Seq(Parts) /\ images' = Append(images, p)
        /\ preparedBytes' = preparedBytes + p.size /\ part' = part + 1
        /\ stage' = "parts" /\ reason' = reason
        /\ UNCHANGED <<messages, support, totalCount, totalBytes, given>>
    BY DEF LimitsInv, ImagesTypeOK, Take, imageRequest, totals
  <1>2. /\ images' \in Seq(Parts) /\ Len(images') = Len(images) + 1
        /\ \A i \in 1 .. Len(images) : images'[i] = images[i]
        /\ images'[Len(images) + 1] = p
    BY <1>1, AppendTyped, AppendIs
  <1>3. Len(images) \in Nat
    BY <1>1
  <1>4. p.size <= MaxImageBytes /\ totalBytes + preparedBytes + p.size <= MaxTotalBytes
    BY LimitsAssumption DEF ImageLimit, BytesLeft, LimitsInv, ImagesTypeOK
  <1>5. totalCount + Len(images) + 1 <= MaxImages
    BY <1>3, LimitsAssumption DEF CountLeft, LimitsInv, ImagesTypeOK
  <1>6. ImagesTypeOK'
    BY <1>1, <1>2, <1>3, <1>5, LimitsAssumption DEF LimitsInv, ImagesTypeOK
  <1>7. \A i \in 1 .. Len(images') : images'[i].size <= MaxImageBytes
    <2> SUFFICES ASSUME NEW i \in 1 .. Len(images')
                 PROVE  images'[i].size <= MaxImageBytes
      OBVIOUS
    <2>1. CASE i \in 1 .. Len(images)
      BY <2>1, <1>2 DEF LimitsInv, WithinLimits
    <2>2. CASE i = Len(images) + 1
      BY <2>2, <1>2, <1>4
    <2> QED
      BY <2>1, <2>2, <1>2, <1>3
  <1>8. WithinLimits'
    BY <1>1, <1>2, <1>3, <1>4, <1>5, <1>7 DEF LimitsInv, ImagesTypeOK, WithinLimits
  <1>9. FetchInv'
    BY <1>1 DEF FetchInv
  <1> QED
    BY <1>6, <1>8, <1>9 DEF LimitsInv

LEMMA LimitsNext == LimitsInv /\ [ImageStep]_imageVars => LimitsInv'
  <1> SUFFICES ASSUME LimitsInv, [ImageStep]_imageVars PROVE LimitsInv'
    OBVIOUS
  <1> USE DEF InPart, InMessage, MayLoad, ThisPart
  <1>0. {"support", "system", "count", "total", "size", "invalid", "fetch"} \subseteq Reasons
    BY DEF Reasons
  <1>1. CASE CheckSupport
    BY <1>1, <1>0, RefuseKeeps
       DEF CheckSupport, LimitsInv, ImagesTypeOK, WithinLimits, FetchInv, imageRequest,
           totals, current
  <1>2. CASE CheckRoles
    BY <1>2, <1>0, RefuseKeeps
       DEF CheckRoles, LimitsInv, ImagesTypeOK, WithinLimits, FetchInv, imageRequest,
           totals, current
  <1>3. CASE SkipText
    BY <1>3 DEF SkipText, LimitsInv, ImagesTypeOK, WithinLimits, FetchInv, imageRequest,
                totals
  <1>4. CASE OutOfCount
    BY <1>4, <1>0, RefuseKeeps DEF OutOfCount
  <1>5. CASE OutOfBytes
    BY <1>5, <1>0, RefuseKeeps DEF OutOfBytes
  <1>6. CASE TakeInline
    <2>1. CASE Refuse("size") \/ Refuse("invalid")
      BY <2>1, <1>0, RefuseKeeps
    <2>2. CASE Fits(ThisPart) /\ Take(ThisPart) /\ UNCHANGED loads
      <3>1. ThisPart \in Parts /\ ThisPart.size \in Nat
        BY <1>6, PartTyped DEF TakeInline, LimitsInv
      <3>2. CountLeft /\ ThisPart.size <= ImageLimit
        BY <1>6, <2>2 DEF TakeInline, Fits
      <3> QED
        BY <2>2, <3>1, <3>2, TakeKeeps
    <2> QED
      BY <1>6, <2>1, <2>2 DEF TakeInline
  <1>7. CASE StartFetch
    BY <1>7 DEF StartFetch, LimitsInv, ImagesTypeOK, WithinLimits, FetchInv, imageRequest,
                totals, current, CountLeft, Message
  <1>8. CASE FetchEnds
    <2> DEFINE p == Message.parts[part + 1]
    <2>1. CASE Refuse("size") \/ Refuse("invalid")
      BY <2>1, <1>0, RefuseKeeps
    <2>2. CASE p.size <= ImageLimit /\ Take(p) /\ UNCHANGED loads
      <3>1. CountLeft /\ Len(given) < Len(messages) /\ part < Len(Message.parts)
        BY <1>8 DEF FetchEnds, LimitsInv, FetchInv
      <3>2. p \in Parts /\ p.size \in Nat
        BY <3>1, PartTyped DEF LimitsInv
      <3> QED
        BY <2>2, <3>1, <3>2, TakeKeeps
    <2> QED
      BY <1>8, <2>1, <2>2 DEF FetchEnds
  <1>9. CASE FetchFails
    BY <1>9, <1>0, RefuseKeeps DEF FetchFails
  <1>10. CASE EndMessage
    <2>1. CASE Refuse("total")
      BY <2>1, <1>0, RefuseKeeps
    <2>2. CASE ~OverLimits /\ KeepImages
      <3>1. /\ totalCount' = totalCount + Len(images)
            /\ totalBytes' = totalBytes + preparedBytes
            /\ given' = Append(given, images)
            /\ part' = 0 /\ images' = <<>> /\ preparedBytes' = 0
            /\ UNCHANGED <<messages, support, stage, loads, reason>>
        BY <2>2 DEF KeepImages, AddTotals, imageRequest
      <3>2. images \in Seq(Parts) /\ Len(images) \in Nat
        BY DEF LimitsInv, ImagesTypeOK
      <3>3. given' \in Seq(Seq(Parts))
        BY <3>1, <3>2, AppendTyped DEF LimitsInv, ImagesTypeOK
      <3>4. images' \in Seq(Parts) /\ Len(images') = 0
        BY <3>1, EmptyTyped
      <3>5. ImagesTypeOK'
        BY <3>1, <3>2, <3>3, <3>4, LimitsAssumption DEF LimitsInv, ImagesTypeOK
      <3>6. WithinLimits'
        BY <2>2, <3>1, <3>2, <3>4, LimitsAssumption
           DEF LimitsInv, ImagesTypeOK, WithinLimits, OverLimits
      <3>7. FetchInv'
        BY <1>10, <3>1 DEF EndMessage, FetchInv
      <3> QED
        BY <3>5, <3>6, <3>7 DEF LimitsInv
    <2> QED
      BY <1>10, <2>1, <2>2 DEF EndMessage
  <1>11. CASE EndImages
    BY <1>11 DEF EndImages, LimitsInv, ImagesTypeOK, WithinLimits, FetchInv, imageRequest,
                 totals, current
  <1>12. CASE UNCHANGED imageVars
    BY <1>12 DEF imageVars, LimitsInv, ImagesTypeOK, WithinLimits, FetchInv, CountLeft,
                 Message
  <1> QED
    BY <1>1, <1>2, <1>3, <1>4, <1>5, <1>6, <1>7, <1>8, <1>9, <1>10, <1>11, <1>12
       DEF ImageStep

-----------------------------------------------------------------------------
\* The type invariant of the preparation of images.
THEOREM ImagesTyped == ImagesSpec => []ImagesTypeOK
  <1>1. LimitsInv => ImagesTypeOK
    BY DEF LimitsInv
  <1> QED
    BY LimitsInit, LimitsNext, <1>1, PTL DEF ImagesSpec

\* The three limits hold at every step, not only when a message is complete, so
\* the second look at them (OverLimits) never refuses anything.
THEOREM LimitsKept == ImagesSpec => [](WithinLimits /\ ~OverLimits)
  <1>1. LimitsInv => WithinLimits /\ ~OverLimits
    BY LimitsAssumption DEF LimitsInv, ImagesTypeOK, WithinLimits, OverLimits
  <1> QED
    BY LimitsInit, LimitsNext, <1>1, PTL DEF ImagesSpec

-----------------------------------------------------------------------------
SupportChecked ==
    \A i \in 1 .. Len(messages) : HasImage(messages[i]) => support # "no"
RolesChecked ==
    \A i \in 1 .. Len(messages) : HasImage(messages[i]) => ~messages[i].system

\* A fetch is begun after both checks.
ChecksFirst ==
    /\ stage \in {"roles", "parts", "fetch", "prepared"} \/ loads > 0 => SupportChecked
    /\ stage \in {"parts", "fetch", "prepared"} \/ loads > 0 => RolesChecked
    /\ stage \in {"support", "roles"} => loads = 0

\* A fetch that has ended gave an image, or the request is refused.
LoadsCounted ==
    /\ loads <= MaxImages
    /\ stage = "fetch" => loads <= totalCount + Len(images) + 1
    /\ stage \in {"support", "roles", "parts"} => loads <= totalCount + Len(images)

LoadsInv == ChecksFirst /\ LoadsCounted

LEMMA LoadsInit == ImagesInit => LoadsInv
  <1> SUFFICES ASSUME ImagesInit PROVE LoadsInv
    OBVIOUS
  <1>1. stage = "support" /\ loads = 0 /\ totalCount = 0 /\ Len(images) = 0
    BY DEF ImagesInit
  <1> QED
    BY <1>1, LimitsAssumption DEF LoadsInv, ChecksFirst, LoadsCounted

\* A step that leaves the request alone keeps what its checks found.
LEMMA ChecksKept ==
    ASSUME UNCHANGED imageRequest
    PROVE  (SupportChecked' <=> SupportChecked) /\ (RolesChecked' <=> RolesChecked)
  BY DEF imageRequest, SupportChecked, RolesChecked, HasImage

LEMMA RefuseBounded ==
    ASSUME LoadsInv, NEW why, Refuse(why)
    PROVE  LoadsInv'
  BY ChecksKept DEF Refuse, LoadsInv, ChecksFirst, LoadsCounted

\* An image taken makes up for the fetch that gave it.
LEMMA TakeBounded ==
    ASSUME LimitsInv, LoadsInv, stage \in {"parts", "fetch"}, NEW p \in Parts,
           Take(p), loads' = loads
    PROVE  LoadsInv'
  <1>1. Len(images') = Len(images) + 1 /\ Len(images) \in Nat
    BY AppendIs DEF Take, LimitsInv, ImagesTypeOK
  <1>2. /\ stage' = "parts" /\ totalCount' = totalCount /\ UNCHANGED imageRequest
        /\ totalCount \in Nat /\ loads \in Nat
    BY DEF Take, totals, LimitsInv, ImagesTypeOK
  <1> QED
    BY <1>1, <1>2, ChecksKept DEF LoadsInv, ChecksFirst, LoadsCounted

LEMMA LoadsNext == LimitsInv /\ LoadsInv /\ [ImageStep]_imageVars => LoadsInv'
  <1> SUFFICES ASSUME LimitsInv, LoadsInv, [ImageStep]_imageVars PROVE LoadsInv'
    OBVIOUS
  <1>0. /\ totalCount \in Nat /\ loads \in Nat /\ Len(images) \in Nat
        /\ totalCount + Len(images) <= MaxImages
    BY DEF LimitsInv, ImagesTypeOK, WithinLimits
  <1>1. CASE CheckSupport
    <2>1. CASE Refuse("support")
      BY <2>1, RefuseBounded
    <2>2. CASE /\ ~((\E i \in 1 .. Len(messages) : HasImage(messages[i])) /\ support = "no")
               /\ stage' = "roles" /\ UNCHANGED <<imageRequest, totals, current, loads>>
      <3>1. SupportChecked
        BY <2>2 DEF SupportChecked
      <3>2. loads = 0
        BY <1>1 DEF CheckSupport, LoadsInv, ChecksFirst
      <3> QED
        BY <1>0, <2>2, <3>1, <3>2, ChecksKept
           DEF LoadsInv, ChecksFirst, LoadsCounted, totals, current
    <2> QED
      BY <1>1, <2>1, <2>2 DEF CheckSupport
  <1>2. CASE CheckRoles
    <2>1. CASE Refuse("system")
      BY <2>1, RefuseBounded
    <2>2. CASE /\ ~(\E i \in 1 .. Len(messages) : messages[i].system /\ HasImage(messages[i]))
               /\ stage' = "parts" /\ UNCHANGED <<imageRequest, totals, current, loads>>
      <3>1. RolesChecked
        BY <2>2 DEF RolesChecked
      <3>2. loads = 0 /\ SupportChecked
        BY <1>2 DEF CheckRoles, LoadsInv, ChecksFirst
      <3> QED
        BY <1>0, <2>2, <3>1, <3>2, ChecksKept
           DEF LoadsInv, ChecksFirst, LoadsCounted, totals, current
    <2> QED
      BY <1>2, <2>1, <2>2 DEF CheckRoles
  <1>3. CASE SkipText
    BY <1>3, ChecksKept DEF SkipText, LoadsInv, ChecksFirst, LoadsCounted, totals
  <1>4. CASE OutOfCount \/ OutOfBytes \/ FetchFails
    BY <1>4, RefuseBounded DEF OutOfCount, OutOfBytes, FetchFails
  <1>5. CASE TakeInline
    <2>1. CASE Refuse("size") \/ Refuse("invalid")
      BY <2>1, RefuseBounded
    <2>2. CASE Take(ThisPart) /\ UNCHANGED loads
      <3>1. ThisPart \in Parts /\ stage = "parts"
        BY <1>5, PartTyped
           DEF TakeInline, MayLoad, InPart, InMessage, ThisPart, LimitsInv
      <3> QED
        BY <2>2, <3>1, TakeBounded
    <2> QED
      BY <1>5, <2>1, <2>2 DEF TakeInline
  <1>6. CASE StartFetch
    <2>1. /\ stage = "parts" /\ CountLeft /\ stage' = "fetch" /\ loads' = loads + 1
          /\ UNCHANGED <<imageRequest, totals, current>>
      BY <1>6 DEF StartFetch, MayLoad, InPart, InMessage
    <2>2. totalCount + Len(images) + 1 <= MaxImages
      BY <1>0, <2>1, LimitsAssumption DEF CountLeft
    <2> QED
      BY <1>0, <2>1, <2>2, LimitsAssumption, ChecksKept
         DEF LoadsInv, ChecksFirst, LoadsCounted, totals, current
  <1>7. CASE FetchEnds
    <2> DEFINE p == Message.parts[part + 1]
    <2>1. CASE Refuse("size") \/ Refuse("invalid")
      BY <2>1, RefuseBounded
    <2>2. CASE Take(p) /\ UNCHANGED loads
      <3>1. p \in Parts /\ stage = "fetch"
        BY <1>7, PartTyped DEF FetchEnds, LimitsInv, FetchInv
      <3> QED
        BY <2>2, <3>1, TakeBounded
    <2> QED
      BY <1>7, <2>1, <2>2 DEF FetchEnds
  <1>8. CASE EndMessage
    <2>1. CASE Refuse("total")
      BY <2>1, RefuseBounded
    <2>2. CASE KeepImages
      <3>1. /\ totalCount' = totalCount + Len(images) /\ Len(images') = 0
            /\ UNCHANGED <<imageRequest, stage, loads>>
        BY <2>2 DEF KeepImages, AddTotals
      <3>2. stage = "parts"
        BY <1>8 DEF EndMessage, InMessage
      <3> QED
        BY <1>0, <3>1, <3>2, ChecksKept DEF LoadsInv, ChecksFirst, LoadsCounted
    <2> QED
      BY <1>8, <2>1, <2>2 DEF EndMessage
  <1>9. CASE EndImages
    BY <1>9, ChecksKept DEF EndImages, LoadsInv, ChecksFirst, LoadsCounted
  <1>10. CASE UNCHANGED imageVars
    BY <1>10, ChecksKept DEF imageVars, imageRequest, LoadsInv, ChecksFirst, LoadsCounted
  <1> QED
    BY <1>1, <1>2, <1>3, <1>4, <1>5, <1>6, <1>7, <1>8, <1>9, <1>10 DEF ImageStep

LEMMA LoadsAreBounded == LimitsInv /\ LoadsInv => LoadsBounded
  BY DEF LoadsInv, ChecksFirst, LoadsCounted, LoadsBounded, SupportChecked, RolesChecked

\* However long a request is and whatever its images are, no more remote images
\* are fetched than a request may have, and none for a request that is refused
\* for its model or its roles.
THEOREM FetchesBounded == ImagesSpec => []LoadsBounded
  BY LimitsInit, LimitsNext, LoadsInit, LoadsNext, LoadsAreBounded, PTL DEF ImagesSpec

-----------------------------------------------------------------------------
(***************************************************************************)
(* That the limits alone decide.  The size of a sequence of images is a    *)
(* fold, and the images of a request are a concatenation of concatenations,*)
(* so the running totals are compared with them by induction, once, in the *)
(* lemmas of SequenceLemmas; the invariant then says how far the loops are.*)
(***************************************************************************)
\* The sizes of images, and the size of a sequence of them, which is their sum.
Sizes(ps) == [i \in 1 .. Len(ps) |-> ps[i].size]

LEMMA SizesTyped ==
    ASSUME NEW ps \in Seq(Parts)
    PROVE  /\ Sizes(ps) \in Seq(Nat) /\ Len(Sizes(ps)) = Len(ps)
           /\ \A i \in 1 .. Len(ps) : Sizes(ps)[i] = ps[i].size /\ ps[i].size \in Nat
<1>1. \A i \in 1 .. Len(ps) : ps[i] \in Parts
  OBVIOUS
<1>2. \A p \in Parts : p.size \in Nat
  BY MessagesAssumption DEF Part
<1> QED
  BY <1>1, <1>2 DEF Sizes

LEMMA SizeOfIs ==
    ASSUME NEW ps \in Seq(Parts), NEW g, Totals(g, Sizes(ps), 0)
    PROVE  SizeOf(ps) = g[1 .. Len(ps)]
<1> DEFINE Folds(h) == h = [s \in SUBSET (DOMAIN ps) |->
               IF s = {} THEN 0 ELSE LET x == Max(s) IN h[s \ {x}] + ps[x].size]
           f == CHOOSE h : Folds(h)
<1>1. DOMAIN ps = 1 .. Len(ps) /\ Len(ps) \in Nat
  OBVIOUS
<1>2. /\ Len(Sizes(ps)) = Len(ps)
      /\ \A i \in 1 .. Len(ps) : Sizes(ps)[i] = ps[i].size
  BY SizesTyped
<1>3. \A s \in SUBSET (1 .. Len(ps)) : s # {} => Max(s) \in 1 .. Len(ps)
  BY <1>1, MaxIs
<1>4. ASSUME NEW h PROVE Folds(h) <=> Totals(h, Sizes(ps), 0)
  <2>1. \A s \in SUBSET (1 .. Len(ps)) : s # {} => Sizes(ps)[Max(s)] = ps[Max(s)].size
    BY <1>2, <1>3
  <2> QED
    BY <1>1, <1>2, <2>1 DEF Totals
<1>5. SizeOf(ps) = f[DOMAIN ps]
  BY DEF SizeOf, FoldLeft, MapThenFoldSet
<1> HIDE DEF Folds
<1>6. Folds(f)
  BY <1>4
<1>7. f = g
  BY <1>1, <1>2, <1>4, <1>6, TotalsUnique
<1> QED
  BY <1>1, <1>5, <1>7

LEMMA SizeOfEmpty == SizeOf(<<>>) = 0
<1>1. <<>> \in Seq(Parts)
  OBVIOUS
<1>2. PICK g : Totals(g, Sizes(<<>>), 0)
  BY <1>1, SizesTyped, TotalsExists
<1>3. SizeOf(<<>>) = g[1 .. Len(<<>>)]
  BY <1>1, <1>2, SizeOfIs
<1>4. 1 .. Len(<<>>) = {} /\ 1 .. Len(Sizes(<<>>)) = {}
  <2>1. Len(<<>>) = 0
    OBVIOUS
  <2>2. Len(Sizes(<<>>)) = Len(<<>>)
    BY <1>1, SizesTyped, Zenon
  <2> QED
    BY <2>1, <2>2
<1>5. g[{}] = 0
  BY <1>2, <1>4 DEF Totals
<1> QED
  BY <1>3, <1>4, <1>5

LEMMA SizeOfAppend ==
    ASSUME NEW ps \in Seq(Parts), NEW p \in Parts
    PROVE  /\ SizeOf(ps) \in Nat
           /\ SizeOf(Append(ps, p)) = SizeOf(ps) + p.size
<1> DEFINE more == Append(ps, p)
           w == Sizes(ps)
<1>1. more \in Seq(Parts) /\ Len(more) = Len(ps) + 1 /\ Len(ps) \in Nat
  OBVIOUS
<1>2. w \in Seq(Nat) /\ Len(w) = Len(ps) /\ p.size \in Nat
  BY SizesTyped, MessagesAssumption DEF Part
<1>3. Sizes(more) = Append(w, p.size)
  BY DEF Sizes
<1> HIDE DEF more, w
<1>4. PICK g \in [SUBSET (1 .. Len(w)) -> Nat] : Totals(g, w, 0)
  BY <1>2, TotalsExists
<1>5. PICK h : Totals(h, Append(w, p.size), 0) /\ h[1 .. Len(w) + 1] = g[1 .. Len(w)] + p.size
  <2> DEFINE size == p.size
  <2>1. size \in Nat /\ 0 \in Nat
    BY <1>2
  <2> HIDE DEF size
  <2>2. \E h \in [SUBSET (1 .. Len(w) + 1) -> Nat] :
           /\ Totals(h, Append(w, size), 0) /\ h[1 .. Len(w) + 1] = g[1 .. Len(w)] + size
    <3>1. w \in Seq(Nat) /\ Totals(g, w, 0)
      BY <1>2, <1>4
    <3> QED
      BY <2>1, <3>1, TotalsExtends, Zenon
  <2> QED
    BY <2>2, Zenon DEF size
<1>6. SizeOf(ps) = g[1 .. Len(ps)]
  BY <1>4, SizeOfIs DEF w
<1>7. SizeOf(more) = h[1 .. Len(more)]
  BY <1>1, <1>3, <1>5, SizeOfIs
<1>8. g[1 .. Len(w)] \in Nat
  BY <1>4
<1> QED
  BY <1>1, <1>2, <1>5, <1>6, <1>7, <1>8 DEF more

LEMMA SizeOfConcat ==
    ASSUME NEW ps \in Seq(Parts), NEW qs \in Seq(Parts)
    PROVE  SizeOf(ps \o qs) = SizeOf(ps) + SizeOf(qs) /\ SizeOf(qs) \in Nat
<1> DEFINE Adds(q) == SizeOf(ps \o q) = SizeOf(ps) + SizeOf(q) /\ SizeOf(q) \in Nat
           Adding == {n \in Nat : \A q \in Seq(Parts) : Len(q) = n => Adds(q)}
<1>0. SizeOf(ps) \in Nat
  <2>1. CASE ps = <<>>
    BY <2>1, SizeOfEmpty
  <2>2. CASE ps # <<>>
    <3>1. ps[1] \in Parts
      BY <2>2
    <3> QED
      BY <3>1, SizeOfAppend
  <2> QED
    BY <2>1, <2>2
<1>1. 0 \in Adding
  <2>1. SUFFICES ASSUME NEW q \in Seq(Parts), Len(q) = 0 PROVE Adds(q)
    <3> HIDE DEF Adds
    <3> QED
      OBVIOUS
  <2>2. q = <<>> /\ ps \o q = ps
    BY <2>1
  <2> QED
    BY <1>0, <2>2, SizeOfEmpty
<1>2. ASSUME NEW n \in Adding PROVE n + 1 \in Adding
  <2>1. SUFFICES ASSUME NEW q \in Seq(Parts), Len(q) = n + 1 PROVE Adds(q)
    <3> HIDE DEF Adds
    <3> QED
      BY <1>2
  <2> DEFINE front == SubSeq(q, 1, n)
             p == q[n + 1]
  <2>2. front \in Seq(Parts) /\ Len(front) = n /\ p \in Parts /\ q = Append(front, p)
    BY <1>2, <2>1
  <2>3. ps \o q = Append(ps \o front, p)
    BY <2>2
  <2>4. Adds(front)
    <3> HIDE DEF Adds, front
    <3> QED
      BY <1>2, <2>2
  <2>5. ps \o front \in Seq(Parts) /\ p.size \in Nat
    BY <2>2, ConcatTyped, MessagesAssumption DEF Part
  <2>6. SizeOf(ps \o q) = SizeOf(ps \o front) + p.size
    BY <2>2, <2>3, <2>5, SizeOfAppend, Zenon
  <2>7. SizeOf(q) = SizeOf(front) + p.size
    BY <2>2, SizeOfAppend, Zenon
  <2> HIDE DEF front, p
  <2> QED
    BY <1>0, <2>4, <2>5, <2>6, <2>7
<1>3. Adding \subseteq Nat
  OBVIOUS
<1>4. Len(qs) \in Adding
  <2> HIDE DEF Adding
  <2>1. \A n \in Nat : n \in Adding
    BY <1>1, <1>2, <1>3, InductionOnSet
  <2> QED
    BY <2>1
<1> HIDE DEF Adds
<1>5. Adds(qs)
  BY <1>4
<1> QED
  BY <1>5 DEF Adds
Joins(u, s, t) ==
    /\ u \in Seq(Parts) /\ Len(u) = Len(s) + Len(t)
    /\ \A i \in 1 .. Len(s) : u[i] = s[i]
    /\ \A i \in 1 .. Len(t) : u[Len(s) + i] = t[i]
    /\ SizeOf(u) = SizeOf(s) + SizeOf(t)
    /\ Len(s) \in Nat /\ Len(t) \in Nat
    /\ SizeOf(s) \in Nat /\ SizeOf(t) \in Nat

LEMMA Joined ==
    ASSUME NEW s \in Seq(Parts), NEW t \in Seq(Parts)
    PROVE  Joins(s \o t, s, t)
<1> DEFINE u == s \o t
<1>1. u \in Seq(Parts) /\ Len(u) = Len(s) + Len(t) /\ Len(s) \in Nat /\ Len(t) \in Nat
  OBVIOUS
<1>2. /\ \A i \in 1 .. Len(s) : u[i] = s[i]
      /\ \A i \in 1 .. Len(t) : u[Len(s) + i] = t[i]
  BY ConcatIs
<1>3. SizeOf(s \o t) = SizeOf(s) + SizeOf(t) /\ SizeOf(t) \in Nat
  BY SizeOfConcat, Zenon
<1>4. SizeOf(s) \in Nat
  BY SizeOfConcat, Zenon
<1> QED
  BY <1>1, <1>2, <1>3, <1>4, Zenon DEF Joins

\* A sequence of images has those before, mine and then p.
HasNext(all, before, mine, p) ==
    /\ Len(all) >= Len(before) + Len(mine) + 1
    /\ SizeOf(all) >= SizeOf(before) + SizeOf(mine) + p.size
    /\ \E i \in 1 .. Len(all) : all[i] = p

\* What a sequence of images has at the place of one of them.
LEMMA OneOf ==
    ASSUME NEW before \in Seq(Parts), NEW mine \in Seq(Parts), NEW p \in Parts,
           NEW later \in Seq(Parts), NEW after \in Seq(Parts),
           NEW one, one = <<p>>, NEW rest, rest = one \o later,
           NEW these, these = mine \o rest, NEW ahead, ahead = these \o after,
           NEW all, all = before \o ahead
    PROVE  HasNext(all, before, mine, p)
<1>0. p.size \in Nat
  BY MessagesAssumption DEF Part
<1>7. one \in Seq(Parts) /\ Len(one) = 1 /\ one[1] = p /\ SizeOf(one) = p.size
  <2>1. one \in Seq(Parts) /\ Len(one) = 1 /\ one[1] = p /\ one = Append(<<>>, p)
    OBVIOUS
  <2>2. SizeOf(Append(<<>>, p)) = SizeOf(<<>>) + p.size
    BY EmptyTyped, SizeOfAppend
  <2> QED
    BY <1>0, <2>1, <2>2, SizeOfEmpty
<1>8. Joins(rest, one, later)
  BY <1>7, Joined, Zenon
<1>9. rest \in Seq(Parts)
  BY <1>8 DEF Joins
<1>10. Joins(these, mine, rest)
  BY <1>9, Joined, Zenon
<1>11. these \in Seq(Parts)
  BY <1>10 DEF Joins
<1>12. Joins(ahead, these, after)
  BY <1>11, Joined, Zenon
<1>13. ahead \in Seq(Parts)
  BY <1>12 DEF Joins
<1>19. Joins(all, before, ahead)
  BY <1>13, Joined, Zenon
<1> USE DEF Joins
<1>14. Len(mine) + 1 \in 1 .. Len(ahead) /\ Len(mine) + 1 \in 1 .. Len(these)
  BY <1>7, <1>8, <1>10, <1>12
<1>15. all[Len(before) + (Len(mine) + 1)] = p
  <2>1. all[Len(before) + (Len(mine) + 1)] = ahead[Len(mine) + 1]
    BY <1>19, <1>14, Zenon
  <2>2. ahead[Len(mine) + 1] = these[Len(mine) + 1]
    BY <1>12, <1>14, Zenon
  <2>3. 1 \in 1 .. Len(rest) /\ 1 \in 1 .. Len(one)
    BY <1>7, <1>8
  <2>4. these[Len(mine) + 1] = rest[1]
    BY <1>10, <2>3, Zenon
  <2>5. rest[1] = one[1]
    BY <1>8, <2>3, Zenon
  <2> QED
    BY <1>7, <2>1, <2>2, <2>4, <2>5, Zenon
<1>16. Len(before) + (Len(mine) + 1) \in 1 .. Len(all)
  BY <1>19, <1>14, <1>10
<1>17. \E i \in 1 .. Len(all) : all[i] = p
  BY <1>15, <1>16, Zenon
<1>18. /\ Len(all) >= Len(before) + Len(mine) + 1
       /\ SizeOf(all) >= SizeOf(before) + SizeOf(mine) + p.size
  <2> USE <1>0, <1>7
  <2>1. Len(all) >= Len(before) + Len(mine) + 1
    BY <1>8, <1>10, <1>12, <1>19
  <2>2. SizeOf(all) >= SizeOf(before) + SizeOf(mine) + p.size
    <3>1. SizeOf(rest) = p.size + SizeOf(later) /\ SizeOf(later) \in Nat
      BY <1>8, Zenon
    <3>2. /\ SizeOf(these) = SizeOf(mine) + SizeOf(rest) /\ SizeOf(mine) \in Nat
          /\ SizeOf(ahead) = SizeOf(these) + SizeOf(after) /\ SizeOf(after) \in Nat
          /\ SizeOf(all) = SizeOf(before) + SizeOf(ahead) /\ SizeOf(before) \in Nat
      BY <1>10, <1>12, <1>19, Zenon
    <3> QED
      BY <3>1, <3>2
  <2> QED
    BY <2>1, <2>2, Zenon
<1> QED
  BY <1>19, <1>17, <1>18, Zenon DEF HasNext

LEMMA OneOfMany ==
    ASSUME NEW before \in Seq(Parts), NEW mine \in Seq(Parts), NEW p \in Parts,
           NEW later \in Seq(Parts), NEW after \in Seq(Parts)
    PROVE  HasNext(before \o ((mine \o (<<p>> \o later)) \o after), before, mine, p)
  BY OneOf, Zenon

-----------------------------------------------------------------------------
\* The images of each message, and those of a message part by part.
PartImages(m) == [k \in 1 .. Len(m.parts) |-> ImageOf(m.parts[k])]
MessageImages == [i \in 1 .. Len(messages) |-> ImagesIn(messages[i])]
AllImages == FlattenSeq(MessageImages)

MessageForm == [system : BOOLEAN, parts : Seq(Parts)]

LEMMA ImagesInIs ==
    ASSUME NEW m \in MessageForm
    PROVE  /\ PartImages(m) \in Seq(Seq(Parts)) /\ Len(PartImages(m)) = Len(m.parts)
           /\ \A k \in Nat : k < Len(m.parts) => PartImages(m)[k + 1] = ImageOf(m.parts[k + 1])
           /\ ImagesIn(m) = FlattenSeq(PartImages(m))
           /\ ImagesIn(m) \in Seq(Parts)
<1>1. m.parts \in Seq(Parts)
  BY DEF MessageForm
<1>2. \A k \in 1 .. Len(m.parts) : ImageOf(m.parts[k]) \in Seq(Parts)
  BY <1>1 DEF ImageOf
<1>3. PartImages(m) \in Seq(Seq(Parts)) /\ Len(PartImages(m)) = Len(m.parts)
  BY <1>1, <1>2 DEF PartImages
<1>4. \A k \in Nat : k < Len(m.parts) => PartImages(m)[k + 1] = ImageOf(m.parts[k + 1])
  BY <1>1 DEF PartImages
<1>5. ImagesIn(m) = FlattenSeq(PartImages(m))
  BY DEF ImagesIn, PartImages
<1> QED
  BY <1>3, <1>4, <1>5, FlattenTyped

LEMMA MessageImagesIs ==
    ASSUME ImagesTypeOK
    PROVE  /\ messages \in Seq(MessageForm)
           /\ MessageImages \in Seq(Seq(Parts)) /\ Len(MessageImages) = Len(messages)
           /\ \A n \in Nat : n < Len(messages) =>
                  /\ messages[n + 1] \in MessageForm
                  /\ MessageImages[n + 1] = ImagesIn(messages[n + 1])
           /\ AllImages \in Seq(Parts)
<1>1. messages \in Seq(MessageForm)
  BY MessagesAssumption DEF ImagesTypeOK, MessageForm
<1>2. \A i \in 1 .. Len(messages) : ImagesIn(messages[i]) \in Seq(Parts)
  BY <1>1, ImagesInIs
<1>3. MessageImages \in Seq(Seq(Parts)) /\ Len(MessageImages) = Len(messages)
  BY <1>1, <1>2 DEF MessageImages
<1>4. \A n \in Nat : n < Len(messages) =>
          /\ messages[n + 1] \in MessageForm
          /\ MessageImages[n + 1] = ImagesIn(messages[n + 1])
  BY <1>1 DEF MessageImages
<1> QED
  BY <1>1, <1>3, <1>4, FlattenTyped DEF AllImages

-----------------------------------------------------------------------------
\* What is prepared is what the request has so far: the images of the messages
\* behind, then those of the parts behind in the message at hand.
Taken == FlattenSeq(given)

Prepares ==
    /\ Len(given) <= Len(messages)
    /\ given = SubSeq(MessageImages, 1, Len(given))
    /\ Len(given) < Len(messages) =>
           /\ part <= Len(Message.parts)
           /\ images = FlattenSeq(SubSeq(PartImages(Message), 1, part))
    /\ Len(given) = Len(messages) => images = <<>>

\* The totals are those of the images prepared, each of which was found valid.
Totalled ==
    /\ totalCount = Len(Taken)
    /\ totalBytes = SizeOf(Taken)
    /\ preparedBytes = SizeOf(images)
    /\ \A i \in 1 .. Len(Taken) : Taken[i].valid /\ Taken[i].size <= MaxImageBytes
    /\ \A i \in 1 .. Len(images) : images[i].valid

Verdict ==
    /\ stage = "fetch" => ThisPart.kind = "image"
    /\ stage = "prepared" => Len(given) = Len(messages)
    /\ stage = "refused" /\ reason # "fetch" => ~Allowed \/ Spaced

DecideInv == Prepares /\ Totalled /\ Verdict

LEMMA EncodedMonotone ==
    ASSUME NEW m \in Nat, NEW n \in Nat, m <= n
    PROVE  EncodedLen(m) <= EncodedLen(n) /\ EncodedLen(m) \in Nat
  BY DEF EncodedLen

\* A request has the images taken so far and the one at hand.
LEMMA ImageAtHand ==
    ASSUME ImagesTypeOK, Prepares, Totalled,
           Len(given) < Len(messages), part < Len(Message.parts), ThisPart.kind = "image"
    PROVE  /\ Len(AllImages) >= totalCount + Len(images) + 1
           /\ SizeOf(AllImages) >= totalBytes + preparedBytes + ThisPart.size
           /\ \E i \in 1 .. Len(AllImages) : AllImages[i] = ThisPart
<1> DEFINE n == Len(given)
           p == ThisPart
<1>1. n \in Nat /\ part \in Nat /\ images \in Seq(Parts) /\ p \in Parts /\ p.size \in Nat
  BY PartTyped DEF ImagesTypeOK, ThisPart
<1>2. /\ MessageImages \in Seq(Seq(Parts)) /\ n < Len(MessageImages)
      /\ Message \in MessageForm /\ MessageImages[n + 1] = ImagesIn(Message)
  BY <1>1, MessageImagesIs DEF Message
<1>3. /\ PartImages(Message) \in Seq(Seq(Parts)) /\ part < Len(PartImages(Message))
      /\ PartImages(Message)[part + 1] = <<p>>
      /\ ImagesIn(Message) = FlattenSeq(PartImages(Message))
  BY <1>1, <1>2, ImagesInIs DEF ImageOf, ThisPart
<1>4. PICK after \in Seq(Parts) : AllImages = Taken \o (ImagesIn(Message) \o after)
  <2>1. PICK after \in Seq(Parts) :
           FlattenSeq(MessageImages) =
               FlattenSeq(SubSeq(MessageImages, 1, n)) \o (MessageImages[n + 1] \o after)
    BY <1>1, <1>2, FlattenCut
  <2> QED
    BY <1>2, <2>1 DEF AllImages, Taken, Prepares
<1>5. PICK later \in Seq(Parts) : ImagesIn(Message) = images \o (<<p>> \o later)
  <2>1. PICK later \in Seq(Parts) :
           FlattenSeq(PartImages(Message)) =
               FlattenSeq(SubSeq(PartImages(Message), 1, part)) \o
                   (PartImages(Message)[part + 1] \o later)
    BY <1>1, <1>3, FlattenCut
  <2> QED
    BY <1>3, <2>1 DEF Prepares
<1>6. Taken \in Seq(Parts)
  BY FlattenTyped DEF Taken, ImagesTypeOK
<1> HIDE DEF n, p
<1>7. HasNext(Taken \o ((images \o (<<p>> \o later)) \o after), Taken, images, p)
  BY <1>1, <1>6, OneOfMany, Zenon
<1>8. AllImages = Taken \o ((images \o (<<p>> \o later)) \o after)
  BY <1>4, <1>5, Zenon
<1>9. HasNext(AllImages, Taken, images, p)
  BY <1>7, <1>8, Zenon
<1>10. totalCount = Len(Taken) /\ totalBytes = SizeOf(Taken) /\ preparedBytes = SizeOf(images)
  BY DEF Totalled
<1> QED
  BY <1>9, <1>10, Zenon DEF p, HasNext

\* A request refused for what it has is one that is not allowed, or an encoding
\* of it has too much white space.
Refusable == ~Allowed \/ Spaced

LEMMA AllowedIs ==
    /\ Allowed => /\ Len(AllImages) <= MaxImages /\ SizeOf(AllImages) <= MaxTotalBytes
                  /\ \A i \in 1 .. Len(AllImages) :
                         AllImages[i].valid /\ AllImages[i].size <= MaxImageBytes
    /\ SupportChecked /\ RolesChecked
       /\ Len(AllImages) <= MaxImages /\ SizeOf(AllImages) <= MaxTotalBytes
       /\ (\A i \in 1 .. Len(AllImages) :
              AllImages[i].valid /\ AllImages[i].size <= MaxImageBytes) => Allowed
    /\ Allowed => SupportChecked /\ RolesChecked
  BY DEF Allowed, AllImages, MessageImages, SupportChecked, RolesChecked

\* A step that takes nothing keeps what is prepared, and what a request may have.
LEMMA NothingTaken ==
    ASSUME DecideInv, UNCHANGED <<imageRequest, totals, current>>
    PROVE  /\ Prepares' /\ Totalled' /\ (Refusable' <=> Refusable)
           /\ ThisPart' = ThisPart
<1>1. /\ UNCHANGED <<messages, support, totalCount, totalBytes, given>>
      /\ UNCHANGED <<part, images, preparedBytes>>
  BY DEF imageRequest, totals, current
<1>2. Prepares' /\ ThisPart' = ThisPart
  BY <1>1 DEF DecideInv, Prepares, MessageImages, PartImages, Message, ThisPart, ImagesIn,
              ImageOf
<1>3. Totalled'
  BY <1>1 DEF DecideInv, Totalled, Taken
<1>4. Refusable' <=> Refusable
  BY <1>1 DEF Refusable, Allowed, Spaced, HasImage, ImagesIn, ImageOf
<1> QED
  BY <1>2, <1>3, <1>4

LEMMA RefuseDecides ==
    ASSUME DecideInv, NEW why, Refuse(why), why # "fetch" => Refusable
    PROVE  DecideInv'
<1>1. stage' = "refused" /\ reason' = why /\ UNCHANGED <<imageRequest, totals, current>>
  BY DEF Refuse
<1>2. Prepares' /\ Totalled' /\ (Refusable' <=> Refusable)
  BY <1>1, NothingTaken
<1> QED
  BY <1>1, <1>2 DEF DecideInv, Verdict, Refusable

\* The limits met by the image at hand are those of the whole request.
LEMMA LimitMet ==
    ASSUME LimitsInv, DecideInv,
           Len(given) < Len(messages), part < Len(Message.parts), ThisPart.kind = "image"
    PROVE  /\ ~CountLeft => ~Allowed
           /\ ThisPart.size > ImageLimit => ~Allowed
           /\ ~ThisPart.valid => ~Allowed
           /\ BytesLeft <= 0 => ~Allowed
           /\ ~Fits(ThisPart) => Refusable
<1>1. /\ Len(AllImages) >= totalCount + Len(images) + 1
      /\ SizeOf(AllImages) >= totalBytes + preparedBytes + ThisPart.size
      /\ \E i \in 1 .. Len(AllImages) : AllImages[i] = ThisPart
  BY ImageAtHand DEF LimitsInv, DecideInv
<1>2. /\ totalCount \in Nat /\ totalBytes \in Nat /\ preparedBytes \in Nat
      /\ Len(images) \in Nat /\ ThisPart.size \in Nat /\ ThisPart \in Parts
      /\ part \in Nat /\ Len(given) \in Nat
  BY PartTyped DEF LimitsInv, ImagesTypeOK, ThisPart
<1>3. AllImages \in Seq(Parts)
  BY MessageImagesIs DEF LimitsInv
<1>4. Len(AllImages) \in Nat /\ SizeOf(AllImages) \in Nat
  BY <1>3, SizeOfConcat
<1>5. ~CountLeft => ~Allowed
  BY <1>1, <1>2, <1>4, AllowedIs, LimitsAssumption DEF CountLeft
<1>6. ~ThisPart.valid => ~Allowed
  BY <1>1, AllowedIs
<1>7. ThisPart.size > BytesLeft => ~Allowed
  BY <1>1, <1>2, <1>4, AllowedIs, LimitsAssumption DEF BytesLeft
<1>8. ThisPart.size > MaxImageBytes => ~Allowed
  <2>1. PICK i \in 1 .. Len(AllImages) : AllImages[i] = ThisPart
    BY <1>1
  <2>2. Allowed => ThisPart.size <= MaxImageBytes
    BY <2>1, AllowedIs
  <2> QED
    BY <1>2, <2>2, LimitsAssumption
<1>9. ThisPart.size > ImageLimit => ~Allowed
  BY <1>7, <1>8 DEF ImageLimit
<1>10. BytesLeft <= 0 => ~Allowed
  <2>1. ThisPart.valid => ThisPart.size > 0
    BY <1>2, MessagesAssumption
  <2>2. BytesLeft \in Int
    BY <1>2, LimitsAssumption DEF BytesLeft
  <2> QED
    BY <1>2, <1>6, <1>7, <2>1, <2>2
<1>11. ~Fits(ThisPart) => Refusable
  <2>1. SUFFICES ASSUME ~Fits(ThisPart), ThisPart.size <= ImageLimit PROVE Spaced
    <3>1. ImageLimit \in Int
      BY <1>2, LimitsAssumption DEF BytesLeft, ImageLimit
    <3> QED
      BY <1>2, <1>9, <3>1 DEF Refusable
  <2>2. ImageLimit \in Nat
    BY <1>2, <2>1, LimitsAssumption DEF BytesLeft, ImageLimit
  <2>3. /\ EncodedLen(ThisPart.size) <= EncodedLen(ImageLimit)
        /\ EncodedLen(ThisPart.size) \in Nat /\ EncodedLen(ImageLimit) \in Nat
    <3> DEFINE size == ThisPart.size
               limit == ImageLimit
    <3>1. size \in Nat /\ limit \in Nat /\ size <= limit
      BY <1>2, <2>1, <2>2
    <3> HIDE DEF size, limit
    <3>2. /\ EncodedLen(size) <= EncodedLen(limit)
          /\ EncodedLen(size) \in Nat /\ EncodedLen(limit) \in Nat
      BY <3>1, EncodedMonotone
    <3> QED
      BY <3>2 DEF size, limit
  <2>4. ~(EncodedLen(ThisPart.size) + ThisPart.spaces <= EncodedLen(ImageLimit) + Slack)
    BY <2>1, <2>3 DEF Fits, EncodedFits
  <2>5. ThisPart.spaces \in Nat
    BY <1>2, MessagesAssumption DEF Part
  <2>6. ThisPart.spaces > Slack
    BY <2>3, <2>4, <2>5, LimitsAssumption
  <2>7. /\ messages \in Seq(MessageForm)
    BY MessageImagesIs DEF LimitsInv
  <2>8. Len(given) + 1 \in 1 .. Len(messages) /\ messages[Len(given) + 1] \in MessageForm
    BY <1>2, <2>7
  <2>9. part + 1 \in 1 .. Len(messages[Len(given) + 1].parts)
    <3>1. messages[Len(given) + 1].parts \in Seq(Parts)
      BY <2>8 DEF MessageForm
    <3> QED
      BY <1>2, <3>1 DEF Message
  <2> QED
    BY <2>6, <2>8, <2>9 DEF Spaced, ThisPart, Message
<1> QED
  BY <1>5, <1>6, <1>9, <1>10, <1>11

-----------------------------------------------------------------------------
\* The parts of the message at hand, and what they are made into one further on.
LEMMA PartAtHand ==
    ASSUME ImagesTypeOK, Len(given) < Len(messages), part < Len(Message.parts)
    PROVE  /\ PartImages(Message) \in Seq(Seq(Parts))
           /\ ImageOf(ThisPart) \in Seq(Parts)
           /\ FlattenSeq(SubSeq(PartImages(Message), 1, part + 1)) =
                  FlattenSeq(SubSeq(PartImages(Message), 1, part)) \o ImageOf(ThisPart)
<1>1. part \in Nat /\ Len(given) \in Nat
  BY DEF ImagesTypeOK
<1>2. Message \in MessageForm
  BY <1>1, MessageImagesIs DEF Message
<1>3. /\ PartImages(Message) \in Seq(Seq(Parts)) /\ part < Len(PartImages(Message))
      /\ PartImages(Message)[part + 1] = ImageOf(ThisPart)
  BY <1>1, <1>2, ImagesInIs DEF ThisPart
<1>4. ImageOf(ThisPart) \in Seq(Parts)
  BY PartTyped DEF ImageOf, ThisPart
<1> QED
  BY <1>1, <1>3, <1>4, FlattenFirst

LEMMA TakeDecides ==
    ASSUME LimitsInv, DecideInv, Len(given) < Len(messages), part < Len(Message.parts),
           ThisPart.kind = "image", ThisPart.valid, Take(ThisPart)
    PROVE  DecideInv'
<1> DEFINE p == ThisPart
<1>1. /\ UNCHANGED <<messages, support, totalCount, totalBytes, given>>
      /\ images' = Append(images, p) /\ preparedBytes' = preparedBytes + p.size
      /\ part' = part + 1 /\ stage' = "parts"
  BY DEF Take, imageRequest, totals
<1>2. images \in Seq(Parts) /\ p \in Parts /\ part \in Nat
  BY PartTyped DEF LimitsInv, ImagesTypeOK, ThisPart
<1>3. Message' = Message /\ PartImages(Message)' = PartImages(Message)
  BY <1>1 DEF Message, PartImages, ImageOf
<1>4. images' = FlattenSeq(SubSeq(PartImages(Message), 1, part + 1))
  <2>1. FlattenSeq(SubSeq(PartImages(Message), 1, part + 1)) = images \o ImageOf(p)
    BY PartAtHand DEF LimitsInv, DecideInv, Prepares
  <2>2. images \o ImageOf(p) = Append(images, p)
    BY <1>2 DEF ImageOf
  <2> QED
    BY <1>1, <2>1, <2>2
<1>5. Prepares'
  <2>1. Len(given) <= Len(messages) /\ given = SubSeq(MessageImages, 1, Len(given))
    BY DEF DecideInv, Prepares
  <2>2. Len(messages) \in Nat /\ Len(given) \in Nat
    BY MessageImagesIs DEF LimitsInv, ImagesTypeOK
  <2>3. MessageImages' = MessageImages
    BY <1>1 DEF MessageImages, ImagesIn, ImageOf
  <2>4. part + 1 <= Len(Message.parts)
    <3>1. Message \in MessageForm
      BY <2>2, MessageImagesIs DEF LimitsInv, Message
    <3>2. Message.parts \in Seq(Parts)
      BY <3>1 DEF MessageForm
    <3> QED
      BY <1>2, <3>2
  <2> HIDE DEF p
  <2> QED
    BY <1>1, <1>3, <1>4, <2>1, <2>2, <2>3, <2>4 DEF Prepares
<1>6. SizeOf(images') = SizeOf(images) + p.size
  BY <1>1, <1>2, SizeOfAppend
<1>7. \A i \in 1 .. Len(images') : images'[i].valid
  <2>1. /\ Len(images') = Len(images) + 1 /\ Len(images) \in Nat
        /\ images'[Len(images) + 1] = p
        /\ \A i \in 1 .. Len(images) : images'[i] = images[i]
    BY <1>1, <1>2, AppendIs
  <2>2. \A i \in 1 .. Len(images) : images[i].valid
    BY DEF DecideInv, Totalled
  <2>3. \A i \in 1 .. Len(images') : i \in 1 .. Len(images) \/ i = Len(images) + 1
    BY <2>1
  <2> QED
    BY <2>1, <2>2, <2>3
<1>8. Totalled'
  <2>1. Taken' = Taken
    BY <1>1 DEF Taken
  <2> QED
    BY <1>1, <1>6, <1>7, <2>1 DEF DecideInv, Totalled
<1> QED
  BY <1>1, <1>5, <1>8 DEF DecideInv, Verdict

LEMMA SkipDecides ==
    ASSUME LimitsInv, DecideInv, SkipText
    PROVE  DecideInv'
<1>1. /\ Len(given) < Len(messages) /\ part < Len(Message.parts) /\ stage = "parts"
      /\ ImageOf(ThisPart) = <<>>
  BY DEF SkipText, InPart, InMessage, ImageOf
<1>2. /\ UNCHANGED <<messages, support, totalCount, totalBytes, given>>
      /\ UNCHANGED <<images, preparedBytes, stage, reason>>
      /\ part' = part + 1
  BY DEF SkipText, imageRequest, totals
<1>3. images \in Seq(Parts) /\ part \in Nat
  BY DEF LimitsInv, ImagesTypeOK
<1>4. images = FlattenSeq(SubSeq(PartImages(Message), 1, part + 1))
  <2>1. FlattenSeq(SubSeq(PartImages(Message), 1, part + 1)) = images \o <<>>
    BY <1>1, PartAtHand DEF LimitsInv, DecideInv, Prepares
  <2> QED
    BY <1>3, <2>1, ConcatEmpty
<1>5. Prepares'
  <2>1. Len(given) <= Len(messages) /\ given = SubSeq(MessageImages, 1, Len(given))
    BY DEF DecideInv, Prepares
  <2>2. Len(messages) \in Nat /\ Len(given) \in Nat
    BY MessageImagesIs DEF LimitsInv, ImagesTypeOK
  <2>3. MessageImages' = MessageImages /\ Message' = Message
        /\ PartImages(Message)' = PartImages(Message)
    BY <1>2 DEF MessageImages, Message, PartImages, ImagesIn, ImageOf
  <2>4. part + 1 <= Len(Message.parts)
    <3>1. Message \in MessageForm
      BY <1>1, <2>2, MessageImagesIs DEF LimitsInv, Message
    <3>2. Message.parts \in Seq(Parts)
      BY <3>1 DEF MessageForm
    <3> QED
      BY <1>1, <1>3, <3>2
  <2> QED
    BY <1>1, <1>2, <1>4, <2>1, <2>2, <2>3, <2>4 DEF Prepares
<1>6. Totalled'
  BY <1>2 DEF DecideInv, Totalled, Taken
<1> QED
  BY <1>1, <1>2, <1>5, <1>6 DEF DecideInv, Verdict

\* A message that is done has all its images, and its successor none yet.
LEMMA KeepDecides ==
    ASSUME LimitsInv, DecideInv, EndMessage, KeepImages
    PROVE  DecideInv'
<1> DEFINE n == Len(given)
<1>1. n \in Nat /\ n < Len(messages) /\ part = Len(Message.parts) /\ stage = "parts"
  BY DEF EndMessage, InMessage, LimitsInv, ImagesTypeOK
<1>2. /\ UNCHANGED <<messages, support, stage, reason>>
      /\ totalCount' = totalCount + Len(images) /\ totalBytes' = totalBytes + preparedBytes
      /\ given' = Append(given, images)
      /\ part' = 0 /\ images' = <<>> /\ preparedBytes' = 0
  BY DEF KeepImages, AddTotals, imageRequest
<1>3. /\ images \in Seq(Parts) /\ given \in Seq(Seq(Parts))
      /\ messages \in Seq(MessageForm)
      /\ MessageImages \in Seq(Seq(Parts)) /\ Len(MessageImages) = Len(messages)
      /\ Message \in MessageForm /\ MessageImages[n + 1] = ImagesIn(Message)
  BY <1>1, MessageImagesIs DEF LimitsInv, ImagesTypeOK, Message
<1>4. images = MessageImages[n + 1]
  <2>1. images = FlattenSeq(SubSeq(PartImages(Message), 1, part))
    BY <1>1 DEF DecideInv, Prepares
  <2>2. /\ PartImages(Message) \in Seq(Seq(Parts))
        /\ Len(PartImages(Message)) = part
        /\ ImagesIn(Message) = FlattenSeq(PartImages(Message))
    BY <1>1, <1>3, ImagesInIs
  <2>3. SubSeq(PartImages(Message), 1, part) = PartImages(Message)
    BY <2>2
  <2> QED
    BY <1>3, <2>1, <2>2, <2>3
<1>5. given' = SubSeq(MessageImages, 1, n + 1) /\ Len(given') = n + 1
  <2>1. given = SubSeq(MessageImages, 1, n)
    BY DEF DecideInv, Prepares
  <2>2. Append(SubSeq(MessageImages, 1, n), MessageImages[n + 1]) =
            SubSeq(MessageImages, 1, n + 1)
    <3> DEFINE T == Seq(Parts)
    <3>1. MessageImages \in Seq(T) /\ n + 1 <= Len(MessageImages)
      BY <1>1, <1>3
    <3> HIDE DEF T
    <3> QED
      BY <1>1, <3>1
  <2> QED
    BY <1>2, <1>3, <1>4, <2>1, <2>2, AppendIs
<1>6. MessageImages' = MessageImages /\ Len(messages) \in Nat
  BY <1>2, <1>3 DEF MessageImages, ImagesIn, ImageOf
<1>7. Prepares'
  <2>1. ASSUME n + 1 < Len(messages)
        PROVE  /\ part' <= Len(Message'.parts)
               /\ images' = FlattenSeq(SubSeq(PartImages(Message'), 1, part'))
    <3>1. Message' = messages[(n + 1) + 1]
      BY <1>2, <1>5 DEF Message
    <3>2. Message' \in MessageForm
      BY <1>1, <1>3, <2>1, <3>1
    <3>3. Message'.parts \in Seq(Parts)
      BY <3>2 DEF MessageForm
    <3>4. PartImages(Message') \in Seq(Seq(Parts))
      BY <3>2, ImagesInIs
    <3> QED
      BY <1>2, <3>3, <3>4, FlattenNone
  <2>2. n + 1 <= Len(messages)
    BY <1>1, <1>6
  <2> QED
    BY <1>2, <1>5, <1>6, <2>1, <2>2 DEF Prepares, PartImages, ImageOf
<1>8. Taken' = Taken \o images /\ Taken \in Seq(Parts)
  BY <1>2, <1>3, FlattenAppend, FlattenTyped DEF Taken
<1>9. Totalled'
  <2>1. /\ totalCount = Len(Taken) /\ totalBytes = SizeOf(Taken)
        /\ preparedBytes = SizeOf(images)
        /\ \A i \in 1 .. Len(Taken) : Taken[i].valid /\ Taken[i].size <= MaxImageBytes
        /\ \A i \in 1 .. Len(images) : images[i].valid
    BY DEF DecideInv, Totalled
  <2>2. \A i \in 1 .. Len(images) : images[i].size <= MaxImageBytes
    BY DEF LimitsInv, WithinLimits
  <2>3. Joins(Taken', Taken, images)
    BY <1>3, <1>8, Joined, Zenon
  <2>4. \A i \in 1 .. Len(Taken') : Taken'[i].valid /\ Taken'[i].size <= MaxImageBytes
    <3> SUFFICES ASSUME NEW i \in 1 .. Len(Taken')
                 PROVE  Taken'[i].valid /\ Taken'[i].size <= MaxImageBytes
      OBVIOUS
    <3>1. CASE i \in 1 .. Len(Taken)
      BY <2>1, <2>3, <3>1 DEF Joins
    <3>2. CASE i \notin 1 .. Len(Taken)
      <4>1. i - Len(Taken) \in 1 .. Len(images) /\ Len(Taken) + (i - Len(Taken)) = i
        BY <2>3, <3>2 DEF Joins
      <4>2. Taken'[Len(Taken) + (i - Len(Taken))] = images[i - Len(Taken)]
        BY <2>3, <4>1, Zenon DEF Joins
      <4>3. Taken'[i] = images[i - Len(Taken)]
        BY <4>1, <4>2
      <4> QED
        BY <2>1, <2>2, <4>1, <4>3
    <3> QED
      BY <3>1, <3>2
  <2>5. Len(images') = 0 /\ SizeOf(images') = 0
    BY <1>2, SizeOfEmpty
  <2>6. totalCount' = Len(Taken') /\ totalBytes' = SizeOf(Taken')
    BY <1>2, <2>1, <2>3 DEF Joins
  <2>7. \A i \in 1 .. Len(images') : images'[i].valid
    BY <2>5
  <2> QED
    BY <1>2, <2>4, <2>5, <2>6, <2>7 DEF Totalled
<1> QED
  BY <1>1, <1>2, <1>7, <1>9 DEF DecideInv, Verdict

LEMMA DecideInit == ImagesInit => DecideInv
<1> SUFFICES ASSUME ImagesInit PROVE DecideInv
  OBVIOUS
<1>1. /\ stage = "support" /\ totalCount = 0 /\ totalBytes = 0
      /\ part = 0 /\ images = <<>> /\ preparedBytes = 0 /\ given = <<>>
  BY DEF ImagesInit
<1>2. ImagesTypeOK
  BY LimitsInit DEF LimitsInv
<1>3. /\ messages \in Seq(MessageForm) /\ MessageImages \in Seq(Seq(Parts))
      /\ Len(given) = 0
  BY <1>1, <1>2, MessageImagesIs
<1>4. SubSeq(MessageImages, 1, 0) = <<>>
  BY <1>3, FlattenNone
<1>5. ASSUME 0 < Len(messages)
      PROVE  /\ part <= Len(Message.parts)
             /\ images = FlattenSeq(SubSeq(PartImages(Message), 1, part))
  <2>1. Message \in MessageForm
    BY <1>3, <1>5 DEF Message
  <2>2. Message.parts \in Seq(Parts) /\ PartImages(Message) \in Seq(Seq(Parts))
    BY <2>1, ImagesInIs DEF MessageForm
  <2> QED
    BY <1>1, <2>2, FlattenNone
<1>6. Prepares
  BY <1>1, <1>3, <1>4, <1>5 DEF Prepares
<1>7. Taken = <<>>
  BY <1>1, FlattenEmpty DEF Taken
<1>8. Totalled
  BY <1>1, <1>3, <1>7, SizeOfEmpty DEF Totalled
<1> QED
  BY <1>1, <1>6, <1>8 DEF DecideInv, Verdict

LEMMA DecideNext == LimitsInv /\ LoadsInv /\ DecideInv /\ [ImageStep]_imageVars => DecideInv'
<1> SUFFICES ASSUME LimitsInv, LoadsInv, DecideInv, [ImageStep]_imageVars PROVE DecideInv'
  OBVIOUS
<1>1. ASSUME UNCHANGED <<imageRequest, totals, current>>,
             stage' # "refused",
             stage' = "fetch" => ThisPart.kind = "image",
             stage' = "prepared" => Len(given) = Len(messages)
      PROVE  DecideInv'
  <2>1. Prepares' /\ Totalled' /\ ThisPart' = ThisPart
    BY <1>1, NothingTaken
  <2>2. given' = given /\ messages' = messages
    BY <1>1 DEF totals, imageRequest
  <2> QED
    BY <1>1, <2>1, <2>2 DEF DecideInv, Verdict
<1>2. CASE CheckSupport
  <2>1. (\E i \in 1 .. Len(messages) : HasImage(messages[i])) /\ support = "no" => Refusable
    BY DEF Refusable, Allowed
  <2>2. CASE Refuse("support") /\ (\E i \in 1 .. Len(messages) : HasImage(messages[i]))
             /\ support = "no"
    BY <2>1, <2>2, RefuseDecides
  <2>3. CASE stage' = "roles" /\ UNCHANGED <<imageRequest, totals, current>>
    BY <1>1, <2>3
  <2> QED
    BY <1>2, <2>2, <2>3 DEF CheckSupport
<1>3. CASE CheckRoles
  <2>1. (\E i \in 1 .. Len(messages) : messages[i].system /\ HasImage(messages[i]))
            => Refusable
    BY DEF Refusable, Allowed
  <2>2. CASE /\ Refuse("system")
             /\ \E i \in 1 .. Len(messages) : messages[i].system /\ HasImage(messages[i])
    BY <2>1, <2>2, RefuseDecides
  <2>3. CASE stage' = "parts" /\ UNCHANGED <<imageRequest, totals, current>>
    BY <1>1, <2>3
  <2> QED
    BY <1>3, <2>2, <2>3 DEF CheckRoles
<1>4. CASE SkipText
  BY <1>4, SkipDecides
<1> DEFINE AtImage == /\ Len(given) < Len(messages) /\ part < Len(Message.parts)
                      /\ ThisPart.kind = "image"
<1>5. ASSUME AtImage
      PROVE  /\ ~CountLeft => Refusable
             /\ ThisPart.size > ImageLimit => Refusable
             /\ ~ThisPart.valid => Refusable
             /\ BytesLeft <= 0 => Refusable
             /\ ~Fits(ThisPart) => Refusable
  BY <1>5, LimitMet DEF Refusable
<1>6. CASE OutOfCount
  <2>1. AtImage /\ ~CountLeft /\ Refuse("count")
    BY <1>6 DEF OutOfCount, InPart, InMessage
  <2> QED
    BY <1>5, <2>1, RefuseDecides
<1>7. CASE OutOfBytes
  <2>1. AtImage /\ BytesLeft <= 0 /\ Refuse("total")
    BY <1>7 DEF OutOfBytes, InPart, InMessage
  <2> QED
    BY <1>5, <2>1, RefuseDecides
<1>8. CASE TakeInline
  <2>1. AtImage
    BY <1>8 DEF TakeInline, MayLoad, InPart, InMessage
  <2>2. CASE ThisPart.valid /\ Take(ThisPart)
    BY <2>1, <2>2, TakeDecides
  <2>3. CASE ~Fits(ThisPart) /\ Refuse("size")
    BY <1>5, <2>1, <2>3, RefuseDecides
  <2>4. CASE ~ThisPart.valid /\ Refuse("invalid")
    BY <1>5, <2>1, <2>4, RefuseDecides
  <2> QED
    BY <1>8, <2>2, <2>3, <2>4 DEF TakeInline
<1>9. CASE StartFetch
  <2>1. ThisPart.kind = "image" /\ stage' = "fetch" /\ UNCHANGED <<imageRequest, totals, current>>
    BY <1>9 DEF StartFetch, MayLoad
  <2> QED
    BY <1>1, <2>1
<1>10. CASE FetchEnds
  <2>1. AtImage
    BY <1>10 DEF FetchEnds, LimitsInv, FetchInv, DecideInv, Verdict
  <2>2. \/ ThisPart.valid /\ Take(ThisPart)
        \/ ThisPart.size > ImageLimit /\ Refuse("size")
        \/ ~ThisPart.valid /\ Refuse("invalid")
    BY <1>10 DEF FetchEnds, ThisPart
  <2>3. CASE ThisPart.valid /\ Take(ThisPart)
    BY <2>1, <2>3, TakeDecides
  <2>4. CASE ThisPart.size > ImageLimit /\ Refuse("size")
    BY <1>5, <2>1, <2>4, RefuseDecides
  <2>5. CASE ~ThisPart.valid /\ Refuse("invalid")
    BY <1>5, <2>1, <2>5, RefuseDecides
  <2> QED
    BY <2>2, <2>3, <2>4, <2>5
<1>11. CASE FetchFails
  BY <1>11, RefuseDecides DEF FetchFails
<1>12. CASE EndMessage
  <2>1. ~OverLimits
    BY LimitsAssumption DEF LimitsInv, ImagesTypeOK, WithinLimits, OverLimits
  <2>2. KeepImages
    BY <1>12, <2>1 DEF EndMessage
  <2> QED
    BY <1>12, <2>2, KeepDecides
<1>13. CASE EndImages
  <2>1. /\ Len(given) = Len(messages) /\ stage' = "prepared"
        /\ UNCHANGED <<imageRequest, totals, current>>
    BY <1>13 DEF EndImages
  <2> QED
    BY <1>1, <2>1
<1>14. CASE UNCHANGED imageVars
  <2>1. UNCHANGED <<imageRequest, totals, current>> /\ stage' = stage /\ reason' = reason
    BY <1>14 DEF imageVars, imageRequest, totals, current
  <2>2. /\ Prepares' /\ Totalled' /\ (Refusable' <=> Refusable)
        /\ ThisPart' = ThisPart
    BY <2>1, NothingTaken
  <2>3. given' = given /\ messages' = messages
    BY <2>1 DEF totals, imageRequest
  <2> QED
    BY <2>1, <2>2, <2>3 DEF DecideInv, Verdict, Refusable
<1> QED
  BY <1>2, <1>3, <1>4, <1>6, <1>7, <1>8, <1>9, <1>10, <1>11, <1>12, <1>13, <1>14 DEF ImageStep

LEMMA Decides == LimitsInv /\ LoadsInv /\ DecideInv => LimitsDecide
<1> SUFFICES ASSUME LimitsInv, LoadsInv, DecideInv PROVE LimitsDecide
  OBVIOUS
<1>1. ASSUME stage = "prepared"
      PROVE  Allowed /\ given = [i \in 1 .. Len(messages) |-> ImagesIn(messages[i])]
  <2>1. MessageImages \in Seq(Seq(Parts)) /\ Len(MessageImages) = Len(messages)
    BY MessageImagesIs DEF LimitsInv
  <2>2. Len(given) = Len(messages) /\ given = SubSeq(MessageImages, 1, Len(given))
    BY <1>1 DEF DecideInv, Verdict, Prepares
  <2>3. given = MessageImages
    <3> DEFINE T == Seq(Parts)
    <3>1. MessageImages \in Seq(T)
      BY <2>1
    <3> HIDE DEF T
    <3> QED
      BY <2>1, <2>2, <3>1
  <2>4. images = <<>>
    BY <2>2 DEF DecideInv, Prepares
  <2>5. Taken = AllImages
    BY <2>3 DEF Taken, AllImages
  <2>6. /\ totalCount = Len(AllImages) /\ totalBytes = SizeOf(AllImages)
        /\ preparedBytes = 0 /\ Len(images) = 0
        /\ \A i \in 1 .. Len(AllImages) :
               AllImages[i].valid /\ AllImages[i].size <= MaxImageBytes
    BY <2>4, <2>5, SizeOfEmpty DEF DecideInv, Totalled
  <2>7. totalCount <= MaxImages /\ totalBytes <= MaxTotalBytes
    BY <2>6 DEF LimitsInv, ImagesTypeOK, WithinLimits
  <2>8. SupportChecked /\ RolesChecked
    BY <1>1 DEF LoadsInv, ChecksFirst
  <2>9. Allowed
    BY <2>6, <2>7, <2>8, AllowedIs
  <2> QED
    BY <2>3, <2>9 DEF MessageImages
<1>2. stage = "refused" /\ reason # "fetch" => ~Allowed \/ Spaced
  BY DEF DecideInv, Verdict
<1> QED
  BY <1>1, <1>2 DEF LimitsDecide

\* Whatever its messages and wherever their images come from, a request is
\* prepared with all its images in their messages, and then it is within all the
\* limits, or it is refused for a limit it exceeds: the order in which parts are
\* looked at, and the running totals of what was taken, decide nothing else.
THEOREM LimitsAloneDecide == ImagesSpec => []LimitsDecide
  BY LimitsInit, LimitsNext, LoadsInit, LoadsNext, DecideInit, DecideNext, Decides, PTL
     DEF ImagesSpec

-----------------------------------------------------------------------------
(***************************************************************************)
(* Proofs about ToolNames for every set of names, every way in which names *)
(* may collide and requests of any length.                                 *)
(*                                                                         *)
(* The inductive invariant says of the two maps what registerCompatible-   *)
(* Name keeps: a name made is the key of its original in the reverse map.  *)
(* A name is only made if the reverse map does not have it yet, so no      *)
(* entry is overwritten; that every tool sent is such a key makes the      *)
(* tools distinct.                                                         *)
(***************************************************************************)
MapsAgree == \A n \in Names : nameOf[n] # NoName => originalOf[nameOf[n]] = n

-----------------------------------------------------------------------------
LEMMA NameSets ==
    /\ NoName \in GivenNames /\ NoName \in MadeNames
    /\ \A n : n \in Names <=> n \in GivenNames /\ n # NoName
    /\ \A c : c \in Compatible <=> c \in MadeNames /\ c # NoName
  BY NamesAssumption DEF GivenNames, MadeNames

\* A name that is made is acceptable and was not in use.
LEMMA MadeIsNew ==
    ASSUME NEW n \in Names, NEW c, Makes(n, c)
    PROVE  c \in Compatible /\ originalOf[c] = NoName
  <1>1. CASE CleanFree(n) /\ c = Clean[n]
    BY <1>1, ManglingAssumption DEF CleanFree, Used
  <1>2. CASE ~Used(Hashed[n]) /\ c = Hashed[n]
    BY <1>2, ManglingAssumption DEF Used
  <1>3. CASE FirstFree(n, c)
    <2>1. PICK k \in Indices : c = Numbered[n][k] /\ ~Used(c)
      BY <1>3 DEF FirstFree
    <2>2. Numbered[n] \in [Indices -> Compatible]
      BY ManglingAssumption
    <2> QED
      BY <2>1, <2>2 DEF Used
  <1> QED
    BY <1>1, <1>2, <1>3 DEF Makes

Maps ==
    /\ nameOf \in [Names -> MadeNames]
    /\ originalOf \in [Compatible -> GivenNames]
    /\ MapsAgree

\* Registration keeps the types of the maps, the reverse map and the names made
\* before; the name it returns is in use afterwards, and was not before if the
\* original had no name.
LEMMA Registration ==
    ASSUME Maps, NEW n \in Names, NEW c \in Compatible, Register(n, c)
    PROVE  /\ Maps'
           /\ nameOf'[n] = c
           /\ \A m \in Names : nameOf[m] # NoName => nameOf'[m] = nameOf[m]
           /\ \A d \in Compatible : Used(d) => Used(d)' /\ originalOf'[d] = originalOf[d]
           /\ Used(c)'
           /\ nameOf[n] = NoName => ~Used(c)
  <1>1. CASE nameOf[n] # NoName /\ c = nameOf[n] /\ UNCHANGED <<nameOf, originalOf>>
    BY <1>1, NameSets DEF Maps, MapsAgree, Used
  <1>2. CASE /\ nameOf[n] = NoName /\ Makes(n, c)
             /\ nameOf' = [nameOf EXCEPT ![n] = c]
             /\ originalOf' = [originalOf EXCEPT ![c] = n]
    <2>1. originalOf[c] = NoName
      BY <1>2, MadeIsNew
    <2>2. MapsAgree'
      <3> SUFFICES ASSUME NEW m \in Names, nameOf'[m] # NoName PROVE originalOf'[nameOf'[m]] = m
        BY DEF MapsAgree
      <3>1. CASE m = n
        BY <1>2, <3>1 DEF Maps
      <3>2. CASE m # n
        <4>1. nameOf'[m] = nameOf[m] /\ originalOf[nameOf[m]] = m
          BY <1>2, <3>2 DEF Maps, MapsAgree
        <4>2. nameOf[m] # c
          BY <2>1, <4>1, NamesAssumption
        <4> QED
          BY <1>2, <4>1, <4>2, NameSets DEF Maps
      <3> QED
        BY <3>1, <3>2
    <2> QED
      BY <1>2, <2>1, <2>2, NameSets DEF Maps, Used
  <1> QED
    BY <1>1, <1>2 DEF Register

-----------------------------------------------------------------------------
Inv == TypeOK /\ MapsAgree

LEMMA InvMaps == Inv => Maps
  BY DEF Inv, Maps, TypeOK

LEMMA InvInit == Init => Inv
  <1> SUFFICES ASSUME Init PROVE Inv
    OBVIOUS
  <1>1. tools \in Seq(Compatible) /\ calls \in Seq(MadeNames)
    <2>1. tools = <<>> /\ calls = <<>>
      BY DEF Init
    <2> QED
      BY <2>1, EmptyTyped
  <1>2. Maps
    BY NameSets DEF Init, Maps, MapsAgree
  <1> QED
    BY <1>1, <1>2 DEF Init, Inv, Maps, TypeOK

\* TakeTool and TakeCall with what their registration does to the maps.
LEMMA InvTakeTool == Inv /\ TakeTool => Inv'
  <1> SUFFICES ASSUME Inv, TakeTool PROVE Inv'
    OBVIOUS
  <1> DEFINE n == defs[at + 1]
  <1>1. /\ defs \in Seq(GivenNames) /\ at \in Nat /\ at < Len(defs)
        /\ tools \in Seq(Compatible)
    BY RequestsAssumption DEF Inv, TypeOK, TakeTool
  <1>2. n \in GivenNames
    BY <1>1, ElementTyped
  <1>3. Maps' /\ tools' \in Seq(Compatible)
    <2>1. CASE LeftOut(n) /\ UNCHANGED <<nameOf, originalOf, tools>>
      BY <1>1, <2>1, InvMaps DEF Maps, MapsAgree
    <2>2. ASSUME NEW c \in Compatible, ~LeftOut(n), Register(n, c), tools' = Append(tools, c)
          PROVE  Maps' /\ tools' \in Seq(Compatible)
      <3>1. n \in Names
        BY <1>2, <2>2, NameSets DEF LeftOut
      <3> QED
        BY <1>1, <2>2, <3>1, InvMaps, Registration, AppendTyped
    <2> QED
      BY <2>1, <2>2 DEF TakeTool
  <1>4. at' \in Nat
    <2>1. at' = at + 1
      BY DEF TakeTool
    <2> QED
      BY <1>1, <2>1
  <1>5. UNCHANGED <<defs, history, choice, step, calls, resolved>>
    BY DEF TakeTool, request
  <1> QED
    BY <1>3, <1>4, <1>5 DEF Inv, TypeOK, Maps

LEMMA InvTakeCall == Inv /\ TakeCall => Inv'
  <1> SUFFICES ASSUME Inv, TakeCall PROVE Inv'
    OBVIOUS
  <1> DEFINE n == history[at + 1]
  <1>1. /\ history \in Seq(GivenNames) /\ at \in Nat /\ at < Len(history)
        /\ calls \in Seq(MadeNames)
    BY RequestsAssumption DEF Inv, TypeOK, TakeCall
  <1>2. n \in GivenNames
    BY <1>1, ElementTyped
  <1>3. Maps' /\ calls' \in Seq(MadeNames)
    <2>1. CASE n = NoName /\ calls' = Append(calls, NoName) /\ UNCHANGED <<nameOf, originalOf>>
      <3>1. calls' \in Seq(MadeNames)
        BY <1>1, <2>1, NameSets, AppendTyped
      <3> QED
        BY <2>1, <3>1, InvMaps DEF Maps, MapsAgree
    <2>2. ASSUME NEW c \in Compatible, n # NoName, Register(n, c), calls' = Append(calls, c)
          PROVE  Maps' /\ calls' \in Seq(MadeNames)
      <3>1. n \in Names /\ c \in MadeNames
        BY <1>2, <2>2, NameSets
      <3> QED
        BY <1>1, <2>2, <3>1, InvMaps, Registration, AppendTyped
    <2> QED
      BY <2>1, <2>2 DEF TakeCall
  <1>4. at' \in Nat
    <2>1. at' = at + 1
      BY DEF TakeCall
    <2> QED
      BY <1>1, <2>1
  <1>5. UNCHANGED <<defs, history, choice, step, tools, resolved>>
    BY DEF TakeCall, request
  <1> QED
    BY <1>3, <1>4, <1>5 DEF Inv, TypeOK, Maps

\* A selection leaves the tools as they are, one of them, or none.
LEMMA SelectionTyped ==
    ASSUME TypeOK, choice.mode = "function", SelectFunction(nameOf[choice.selected])
    PROVE  tools' \in Seq(Compatible) /\ resolved' \in {NoChoice, "auto", "required", "error"}
  <1> DEFINE c == nameOf[choice.selected]
  <1>1. choice.selected \in Names
    BY DEF TypeOK, ToolChoices
  <1>2. c \in MadeNames /\ tools \in Seq(Compatible)
    BY <1>1 DEF TypeOK
  <1> HIDE DEF c
  <1>3. CASE tools' = <<>> /\ resolved' = "error"
    BY <1>3
  <1>4. CASE c # NoName /\ tools' = <<c>> /\ resolved' = "required"
    <2>1. c \in Compatible
      BY <1>2, <1>4, NameSets
    <2>2. <<c>> \in Seq(Compatible)
      BY <2>1
    <2> QED
      BY <1>4, <2>2
  <1>5. CASE resolved' = "required" /\ UNCHANGED tools
    BY <1>2, <1>5
  <1> QED
    BY <1>3, <1>4, <1>5 DEF SelectFunction, c

LEMMA InvNext == Inv /\ [Next]_vars => Inv'
  <1> SUFFICES ASSUME Inv, [Next]_vars PROVE Inv'
    OBVIOUS
  <1>1. CASE TakeTool
    BY <1>1, InvTakeTool
  <1>2. CASE TakeCall
    BY <1>2, InvTakeCall
  <1>3. CASE NextLoop
    BY <1>3 DEF Inv, TypeOK, MapsAgree, NextLoop, request
  <1>4. CASE ApplyChoice
    <2>1. tools' \in Seq(Compatible) /\ resolved' \in {NoChoice, "auto", "required", "error"}
      <3>1. CASE choice.mode = "none" /\ tools' = <<>> /\ resolved' = NoChoice
        BY <3>1, EmptyTyped
      <3>2. CASE /\ choice.mode \in {"auto", "required"}
                 /\ resolved' = (IF tools = <<>> THEN NoChoice ELSE choice.mode)
                 /\ UNCHANGED tools
        BY <3>2 DEF Inv, TypeOK
      <3>3. CASE choice.mode = "function" /\ SelectFunction(nameOf[choice.selected])
        BY <3>3, SelectionTyped DEF Inv
      <3> QED
        BY <1>4, <3>1, <3>2, <3>3 DEF ApplyChoice
    <2> QED
      BY <1>4, <2>1 DEF Inv, TypeOK, MapsAgree, ApplyChoice, request
  <1>5. CASE UNCHANGED vars
    BY <1>5 DEF Inv, TypeOK, MapsAgree, vars, request
  <1> QED
    BY <1>1, <1>2, <1>3, <1>4, <1>5 DEF Next

LEMMA Invariance == Spec => []Inv
  BY InvInit, InvNext, PTL DEF Spec

\* Every variable of the preparation of a request keeps its type.
THEOREM TypeCorrect == Spec => []TypeOK
  <1>1. Inv => TypeOK
    BY DEF Inv
  <1> QED
    BY <1>1, Invariance, PTL

LEMMA RestoredExactly == Inv => RoundTrip
  <1> SUFFICES ASSUME Inv PROVE RoundTrip
    OBVIOUS
  <1>1. \A n \in Names : nameOf[n] # NoName =>
            originalOf[nameOf[n]] = n /\ Restore(nameOf[n]) = n
    BY NamesAssumption DEF Inv, MapsAgree, Restore, Used
  <1> QED
    BY <1>1 DEF RoundTrip

\* The names of an answer are turned back into those the client used, whatever
\* names it used and however they collide.
THEOREM NamesRestored == Spec => []RoundTrip
  BY RestoredExactly, Invariance, PTL

-----------------------------------------------------------------------------
\* The maps change by registrations only.
LEMMA MapsStep ==
    ASSUME Inv, [Next]_vars
    PROVE  \/ UNCHANGED <<nameOf, originalOf>>
           \/ \E n \in Names, c \in Compatible : Register(n, c)
  <1>1. CASE TakeTool
    <2> DEFINE n == defs[at + 1]
    <2>1. defs \in Seq(GivenNames) /\ at \in Nat /\ at < Len(defs)
      BY <1>1, RequestsAssumption DEF Inv, TypeOK, TakeTool
    <2>2. n \in GivenNames
      BY <2>1, ElementTyped
    <2>3. ASSUME ~LeftOut(n) PROVE n \in Names
      BY <2>2, <2>3, NameSets DEF LeftOut
    <2> QED
      BY <1>1, <2>3 DEF TakeTool
  <1>2. CASE TakeCall
    <2> DEFINE n == history[at + 1]
    <2>1. history \in Seq(GivenNames) /\ at \in Nat /\ at < Len(history)
      BY <1>2, RequestsAssumption DEF Inv, TypeOK, TakeCall
    <2>2. n \in GivenNames
      BY <2>1, ElementTyped
    <2>3. ASSUME n # NoName PROVE n \in Names
      BY <2>2, <2>3, NameSets
    <2> QED
      BY <1>2, <2>3 DEF TakeCall
  <1> QED
    BY <1>1, <1>2 DEF Next, NextLoop, ApplyChoice, vars

LEMMA NamesStep ==
    Inv /\ [Next]_vars => [\A n \in Names : nameOf[n] # NoName => nameOf'[n] = nameOf[n]]_vars
<1> SUFFICES ASSUME Inv, [Next]_vars, NEW n \in Names, nameOf[n] # NoName
             PROVE  nameOf'[n] = nameOf[n]
  OBVIOUS
<1>1. CASE UNCHANGED <<nameOf, originalOf>>
  BY <1>1
<1>2. ASSUME NEW m \in Names, NEW c \in Compatible, Register(m, c)
      PROVE  nameOf'[n] = nameOf[n]
  BY <1>2, InvMaps, Registration
<1> QED
  BY <1>1, <1>2, MapsStep

\* Nothing that comes later in a request changes a name once made: the calls of
\* the history and the tool_choice find the names of the tools.
THEOREM NamesKept == Spec => NamesStable
  BY NamesStep, Invariance, PTL DEF Spec, NamesStable

-----------------------------------------------------------------------------
\* Every tool taken so far has a name in use, which is why the next one, whose
\* name was not in use, is different from them all.
ToolsUsed == \A i \in 1 .. Len(tools) : Used(tools[i])

ToolsInv == ToolsUsed /\ ToolsDistinct

LEMMA ToolsInit == Init => ToolsInv
  <1> SUFFICES ASSUME Init PROVE ToolsInv
    OBVIOUS
  <1>1. tools = <<>>
    BY DEF Init
  <1> QED
    BY <1>1 DEF ToolsInv, ToolsUsed, ToolsDistinct

LEMMA ToolsNext == Inv /\ ToolsInv /\ [Next]_vars => ToolsInv'
  <1> SUFFICES ASSUME Inv, ToolsInv, [Next]_vars PROVE ToolsInv'
    OBVIOUS
  <1>1. tools \in Seq(Compatible)
    BY DEF Inv, TypeOK
  <1>2. \A d \in Compatible : Used(d) => Used(d)'
    BY MapsStep, InvMaps, Registration DEF Used
  <1>3. CASE UNCHANGED tools
    BY <1>1, <1>2, <1>3 DEF ToolsInv, ToolsUsed, ToolsDistinct
  <1>4. CASE tools' = <<>>
    BY <1>4 DEF ToolsInv, ToolsUsed, ToolsDistinct
  <1>5. ASSUME NEW n \in Names, NEW c \in Compatible, nameOf[n] = NoName,
               Register(n, c), tools' = Append(tools, c)
        PROVE  ToolsInv'
    <2>1. Used(c)' /\ ~Used(c)
      BY <1>5, InvMaps, Registration
    <2>2. /\ Len(tools') = Len(tools) + 1
          /\ tools'[Len(tools) + 1] = c
          /\ \A i \in 1 .. Len(tools) : tools'[i] = tools[i] /\ tools[i] \in Compatible
      <3>1. /\ Len(Append(tools, c)) = Len(tools) + 1
            /\ Append(tools, c)[Len(tools) + 1] = c
            /\ \A i \in 1 .. Len(tools) :
                   Append(tools, c)[i] = tools[i] /\ tools[i] \in Compatible
        BY <1>1, AppendIs
      <3> QED
        BY <1>5, <3>1
    <2>3. \A i \in 1 .. Len(tools) : tools[i] # c
      BY <2>1 DEF ToolsInv, ToolsUsed
    <2>4. Len(tools) \in Nat
      BY <1>1
    <2>5. ToolsUsed'
      BY <1>2, <2>1, <2>2, <2>4 DEF ToolsInv, ToolsUsed
    <2>6. ToolsDistinct'
      BY <2>2, <2>3, <2>4 DEF ToolsInv, ToolsDistinct
    <2> QED
      BY <2>5, <2>6 DEF ToolsInv
  <1>6. ASSUME NEW c, tools' = <<c>>, Contains(tools, c), UNCHANGED originalOf
        PROVE  ToolsInv'
    <2>1. Used(c)
      BY <1>1, <1>6 DEF ToolsInv, ToolsUsed, Contains
    <2>2. Len(tools') = 1 /\ tools'[1] = c
      BY <1>6
    <2>3. Used(c)'
      BY <1>6, <2>1 DEF Used
    <2>4. \A i \in 1 .. Len(tools') : i = 1
      BY <2>2
    <2>5. ToolsUsed'
      BY <2>2, <2>3, <2>4 DEF ToolsUsed
    <2>6. ToolsDistinct'
      BY <2>4 DEF ToolsDistinct
    <2> QED
      BY <2>5, <2>6 DEF ToolsInv
  <1>7. CASE TakeTool
    <2> DEFINE n == defs[at + 1]
    <2>1. defs \in Seq(GivenNames) /\ at \in Nat /\ at < Len(defs)
      BY <1>7, RequestsAssumption DEF Inv, TypeOK, TakeTool
    <2>2. n \in GivenNames
      BY <2>1, ElementTyped
    <2>3. ASSUME ~LeftOut(n) PROVE n \in Names /\ nameOf[n] = NoName
      BY <2>2, <2>3, NameSets DEF LeftOut
    <2> QED
      BY <1>3, <1>5, <1>7, <2>3 DEF TakeTool
  <1>8. CASE ApplyChoice
    BY <1>3, <1>4, <1>6, <1>8 DEF ApplyChoice, SelectFunction
  <1>9. CASE TakeCall \/ NextLoop \/ UNCHANGED vars
    BY <1>3, <1>9 DEF TakeCall, NextLoop, vars
  <1> QED
    BY <1>7, <1>8, <1>9 DEF Next

\* The upstream never sees one name twice among the tools of a request.
THEOREM DistinctTools == Spec => []ToolsDistinct
  <1>1. ToolsInv => ToolsDistinct
    BY DEF ToolsInv
  <1> QED
    BY <1>1, ToolsInit, ToolsNext, Invariance, PTL DEF Spec

-----------------------------------------------------------------------------
\* Tools of the request that are in the map already.
Looked == IF step = "defs" THEN at ELSE Len(defs)

\* Each function looked at is among the tools, and each tool is one of them.
ToolsOfDefs ==
    step # "ready" =>
        /\ \A i \in 1 .. Looked : defs[i] # NoName =>
               /\ nameOf[defs[i]] # NoName
               /\ \E j \in 1 .. Len(tools) : tools[j] = nameOf[defs[i]]
        /\ \A j \in 1 .. Len(tools) :
               \E i \in 1 .. Looked : defs[i] # NoName /\ tools[j] = nameOf[defs[i]]

\* While tools are taken, only they are in the map: a function that was left
\* out is one that was taken.
OnlyDefsNamed ==
    step = "defs" => \A n \in Names : nameOf[n] # NoName => \E i \in 1 .. at : defs[i] = n

AtInside == (step = "defs" => at <= Len(defs)) /\ (step = "calls" => at <= Len(history))

CallsOfHistory ==
    /\ Len(calls) = IF step = "defs" THEN 0 ELSE IF step = "calls" THEN at ELSE Len(history)
    /\ \A i \in 1 .. Len(calls) :
           IF history[i] = NoName THEN calls[i] = NoName
           ELSE nameOf[history[i]] # NoName /\ calls[i] = nameOf[history[i]]

Sent == {Restore(tools[i]) : i \in 1 .. Len(tools)}
Defined == ToSet(defs) \ {NoName}

ChoiceKept ==
    step = "ready" =>
        CASE choice.mode \in {"auto", "required"} -> Sent = Defined
          [] choice.mode = "none" -> Sent = {}
          [] choice.mode = "function" ->
                 IF choice.selected \in Defined THEN Sent = {choice.selected}
                 ELSE Sent \in {{}, Defined}

SentInv == ToolsOfDefs /\ OnlyDefsNamed /\ AtInside /\ CallsOfHistory /\ ChoiceKept

LEMMA RequestTyped ==
    ASSUME Inv
    PROVE  /\ defs \in Seq(GivenNames) /\ history \in Seq(GivenNames)
           /\ Len(defs) \in Nat /\ Len(history) \in Nat /\ at \in Nat
           /\ \A i \in 1 .. Len(defs) : defs[i] # NoName => defs[i] \in Names
           /\ \A i \in 1 .. Len(history) : history[i] # NoName => history[i] \in Names
           /\ tools \in Seq(Compatible) /\ calls \in Seq(MadeNames)
           /\ Len(tools) \in Nat /\ Len(calls) \in Nat
           /\ choice \in ToolChoices
  <1>1. /\ defs \in Seq(GivenNames) /\ history \in Seq(GivenNames) /\ at \in Nat
        /\ tools \in Seq(Compatible) /\ calls \in Seq(MadeNames) /\ choice \in ToolChoices
    BY RequestsAssumption DEF Inv, TypeOK
  <1>2. /\ Len(defs) \in Nat /\ Len(history) \in Nat
        /\ Len(tools) \in Nat /\ Len(calls) \in Nat
    BY <1>1
  <1>3. /\ \A i \in 1 .. Len(defs) : defs[i] \in GivenNames
        /\ \A i \in 1 .. Len(history) : history[i] \in GivenNames
    BY <1>1
  <1>4. /\ \A i \in 1 .. Len(defs) : defs[i] # NoName => defs[i] \in Names
        /\ \A i \in 1 .. Len(history) : history[i] # NoName => history[i] \in Names
    BY <1>3, NameSets
  <1> QED
    BY <1>1, <1>2, <1>4

LEMMA SentInit == Init => SentInv
  <1> SUFFICES ASSUME Init PROVE SentInv
    OBVIOUS
  <1>1. step = "defs" /\ at = 0 /\ Len(tools) = 0 /\ Len(calls) = 0
    BY DEF Init
  <1>2. Len(defs) \in Nat
    BY InvInit, RequestTyped
  <1>3. \A n \in Names : nameOf[n] = NoName
    BY DEF Init
  <1>4. ToolsOfDefs
    BY <1>1 DEF ToolsOfDefs, Looked
  <1>5. OnlyDefsNamed /\ AtInside
    BY <1>1, <1>2, <1>3 DEF OnlyDefsNamed, AtInside
  <1>6. CallsOfHistory /\ ChoiceKept
    BY <1>1 DEF CallsOfHistory, ChoiceKept
  <1> QED
    BY <1>4, <1>5, <1>6 DEF SentInv

LEMMA SentTakeTool == Inv /\ SentInv /\ TakeTool => SentInv'
  <1> SUFFICES ASSUME Inv, SentInv, TakeTool PROVE SentInv'
    OBVIOUS
  <1> DEFINE n == defs[at + 1]
  <1>1. /\ step = "defs" /\ step' = "defs" /\ at < Len(defs) /\ at' = at + 1
        /\ UNCHANGED <<defs, history, calls>>
        /\ at \in Nat /\ Len(defs) \in Nat
    BY RequestTyped DEF TakeTool, request
  <1>2. n # NoName => n \in Names
    BY <1>1, RequestTyped
  <1>3. Looked = at /\ Looked' = at + 1
    BY <1>1 DEF Looked
  <1>4. AtInside' /\ CallsOfHistory' /\ ChoiceKept'
    <2>1. Len(calls) = 0
      BY <1>1 DEF SentInv, CallsOfHistory
    <2> QED
      BY <1>1, <2>1 DEF AtInside, CallsOfHistory, ChoiceKept
  <1>5. CASE LeftOut(n) /\ UNCHANGED <<nameOf, originalOf, tools>>
    <2>1. n # NoName => nameOf[n] # NoName /\ \E i \in 1 .. at : defs[i] = n
      BY <1>1, <1>2, <1>5 DEF LeftOut, SentInv, OnlyDefsNamed
    <2>2. ToolsOfDefs'
      BY <1>1, <1>3, <1>5, <2>1 DEF SentInv, ToolsOfDefs
    <2>3. OnlyDefsNamed'
      BY <1>1, <1>5 DEF SentInv, OnlyDefsNamed
    <2> QED
      BY <1>4, <2>2, <2>3 DEF SentInv
  <1>6. ASSUME NEW c \in Compatible, ~LeftOut(n), Register(n, c), tools' = Append(tools, c)
        PROVE  SentInv'
    <2>1. n # NoName /\ n \in Names /\ nameOf[n] = NoName
      BY <1>2, <1>6 DEF LeftOut
    <2>2. /\ nameOf'[n] = c /\ c # NoName
          /\ \A m \in Names : nameOf[m] # NoName => nameOf'[m] = nameOf[m]
      BY <1>6, <2>1, InvMaps, Registration, NamesAssumption
    <2>3. \A m \in Names : m # n => nameOf'[m] = nameOf[m]
      BY <1>6, <2>1 DEF Register, Inv, TypeOK
    <2>4. /\ Len(tools') = Len(tools) + 1 /\ tools'[Len(tools) + 1] = c
          /\ \A j \in 1 .. Len(tools) : tools'[j] = tools[j]
          /\ Len(tools) \in Nat
      BY <1>6, RequestTyped, AppendIs
    <2>5. ASSUME NEW i \in 1 .. at, defs[i] # NoName
          PROVE  /\ defs[i] \in Names /\ nameOf[defs[i]] # NoName
                 /\ nameOf'[defs[i]] = nameOf[defs[i]]
                 /\ \E j \in 1 .. Len(tools) : tools[j] = nameOf[defs[i]]
      BY <1>1, <1>3, <2>2, <2>5, RequestTyped DEF SentInv, ToolsOfDefs
    <2>6. ASSUME NEW i \in 1 .. (at + 1), defs[i] # NoName
          PROVE  nameOf'[defs[i]] # NoName /\ \E j \in 1 .. Len(tools') : tools'[j] = nameOf'[defs[i]]
      <3>1. CASE i \in 1 .. at
        BY <2>4, <2>5, <2>6, <3>1
      <3>2. CASE i = at + 1
        BY <2>2, <2>4, <3>2
      <3> QED
        BY <1>1, <3>1, <3>2
    <2>7. ASSUME NEW j \in 1 .. Len(tools')
          PROVE  \E i \in 1 .. (at + 1) : defs[i] # NoName /\ tools'[j] = nameOf'[defs[i]]
      <3>1. CASE j \in 1 .. Len(tools)
        <4>1. PICK i \in 1 .. at : defs[i] # NoName /\ tools[j] = nameOf[defs[i]]
          BY <1>1, <1>3, <3>1 DEF SentInv, ToolsOfDefs
        <4>2. i \in 1 .. (at + 1) /\ tools'[j] = nameOf'[defs[i]]
          BY <1>1, <2>4, <2>5, <3>1, <4>1
        <4> QED
          BY <4>1, <4>2
      <3>2. CASE j = Len(tools) + 1
        BY <1>1, <2>1, <2>2, <2>4, <3>2
      <3> QED
        BY <2>4, <3>1, <3>2
    <2>8. ToolsOfDefs'
      BY <1>1, <1>3, <2>6, <2>7 DEF ToolsOfDefs
    <2>9. OnlyDefsNamed'
      BY <1>1, <2>3 DEF SentInv, OnlyDefsNamed
    <2> QED
      BY <1>4, <2>8, <2>9 DEF SentInv
  <1> QED
    BY <1>5, <1>6 DEF TakeTool

LEMMA SentTakeCall == Inv /\ SentInv /\ TakeCall => SentInv'
  <1> SUFFICES ASSUME Inv, SentInv, TakeCall PROVE SentInv'
    OBVIOUS
  <1> DEFINE n == history[at + 1]
  <1>1. /\ step = "calls" /\ step' = "calls" /\ at < Len(history) /\ at' = at + 1
        /\ UNCHANGED <<defs, history, tools>>
        /\ at \in Nat /\ Len(history) \in Nat /\ Len(calls) = at
    BY RequestTyped DEF TakeCall, request, SentInv, CallsOfHistory
  <1>2. n # NoName => n \in Names
    BY <1>1, RequestTyped
  <1>3. OnlyDefsNamed' /\ AtInside' /\ ChoiceKept'
    BY <1>1 DEF OnlyDefsNamed, AtInside, ChoiceKept
  <1>4. ASSUME NEW c \in MadeNames, calls' = Append(calls, c),
               IF n = NoName THEN c = NoName ELSE nameOf'[n] # NoName /\ c = nameOf'[n],
               \A m \in Names : nameOf[m] # NoName => nameOf'[m] = nameOf[m]
        PROVE  SentInv'
    <2>1. /\ Len(calls') = at + 1 /\ calls'[at + 1] = c
          /\ \A i \in 1 .. at : calls'[i] = calls[i]
      BY <1>1, <1>4, RequestTyped, AppendIs
    <2>2. ASSUME NEW i \in 1 .. (at + 1)
          PROVE  IF history[i] = NoName THEN calls'[i] = NoName
                 ELSE nameOf'[history[i]] # NoName /\ calls'[i] = nameOf'[history[i]]
      <3>1. CASE i \in 1 .. at
        <4>1. history[i] # NoName => history[i] \in Names
          BY <1>1, <3>1, RequestTyped
        <4>2. IF history[i] = NoName THEN calls[i] = NoName
              ELSE nameOf[history[i]] # NoName /\ calls[i] = nameOf[history[i]]
          BY <1>1, <3>1 DEF SentInv, CallsOfHistory
        <4> QED
          BY <1>4, <2>1, <3>1, <4>1, <4>2
      <3>2. CASE i = at + 1
        BY <1>4, <2>1, <3>2
      <3> QED
        BY <1>1, <3>1, <3>2
    <2>3. CallsOfHistory'
      BY <1>1, <2>1, <2>2 DEF CallsOfHistory
    <2>4. Looked' = Looked /\ Looked = Len(defs)
      BY <1>1 DEF Looked
    <2>5. \A i \in 1 .. Len(defs) : defs[i] # NoName =>
              nameOf[defs[i]] # NoName /\ nameOf'[defs[i]] = nameOf[defs[i]]
      BY <1>1, <1>4, <2>4, RequestTyped DEF SentInv, ToolsOfDefs
    <2>6. /\ \A i \in 1 .. Len(defs) : defs[i] # NoName =>
                 \E j \in 1 .. Len(tools) : tools[j] = nameOf'[defs[i]]
          /\ \A j \in 1 .. Len(tools) :
                 \E i \in 1 .. Len(defs) : defs[i] # NoName /\ tools[j] = nameOf'[defs[i]]
      <3>1. /\ \A i \in 1 .. Len(defs) : defs[i] # NoName =>
                   \E j \in 1 .. Len(tools) : tools[j] = nameOf[defs[i]]
            /\ \A j \in 1 .. Len(tools) :
                   \E i \in 1 .. Len(defs) : defs[i] # NoName /\ tools[j] = nameOf[defs[i]]
        BY <1>1, <2>4 DEF SentInv, ToolsOfDefs
      <3> QED
        BY <2>5, <3>1
    <2>7. ToolsOfDefs'
      BY <1>1, <2>4, <2>5, <2>6 DEF ToolsOfDefs
    <2> QED
      BY <1>3, <2>3, <2>7 DEF SentInv
  <1>5. CASE n = NoName /\ calls' = Append(calls, NoName) /\ UNCHANGED <<nameOf, originalOf>>
    BY <1>4, <1>5, NameSets
  <1>6. ASSUME NEW c \in Compatible, n # NoName, Register(n, c), calls' = Append(calls, c)
        PROVE  SentInv'
    <2>1. /\ nameOf'[n] = c /\ c # NoName /\ c \in MadeNames
          /\ \A m \in Names : nameOf[m] # NoName => nameOf'[m] = nameOf[m]
      BY <1>2, <1>6, InvMaps, Registration, NameSets
    <2> QED
      BY <1>4, <1>6, <2>1
  <1> QED
    BY <1>5, <1>6 DEF TakeCall

\* Restored, the tools taken from the definitions are the functions defined.
LEMMA AllSent ==
    ASSUME Inv, SentInv, step = "choice"
    PROVE  /\ Sent = Defined
           /\ \A n \in Names : n \in Defined <=>
                  nameOf[n] # NoName /\ \E j \in 1 .. Len(tools) : tools[j] = nameOf[n]
  <1>1. \A n \in Names : nameOf[n] # NoName => Restore(nameOf[n]) = n
    BY RestoredExactly DEF RoundTrip
  <1>2. /\ \A i \in 1 .. Len(defs) : defs[i] # NoName =>
               /\ defs[i] \in Names /\ nameOf[defs[i]] # NoName
               /\ \E j \in 1 .. Len(tools) : tools[j] = nameOf[defs[i]]
        /\ \A j \in 1 .. Len(tools) :
               \E i \in 1 .. Len(defs) : defs[i] # NoName /\ tools[j] = nameOf[defs[i]]
    BY RequestTyped DEF SentInv, ToolsOfDefs, Looked
  <1>3. \A n : n \in Defined <=> n # NoName /\ \E i \in 1 .. Len(defs) : defs[i] = n
    <2>1. DOMAIN defs = 1 .. Len(defs)
      BY RequestTyped
    <2> QED
      BY <2>1 DEF Defined, ToSet
  <1>4. \A n : n \in Sent <=> \E j \in 1 .. Len(tools) : n = Restore(tools[j])
    BY DEF Sent
  <1>5. \A n \in Defined : n \in Sent
    <2> SUFFICES ASSUME NEW n \in Defined PROVE n \in Sent
      OBVIOUS
    <2>1. n \in Names /\ nameOf[n] # NoName
      BY <1>2, <1>3
    <2>2. PICK j \in 1 .. Len(tools) : tools[j] = nameOf[n]
      BY <1>2, <1>3
    <2> QED
      BY <1>1, <1>4, <2>1, <2>2
  <1>6. \A n \in Sent : n \in Defined
    <2> SUFFICES ASSUME NEW n \in Sent PROVE n \in Defined
      OBVIOUS
    <2>1. PICK j \in 1 .. Len(tools) : n = Restore(tools[j])
      BY <1>4
    <2>2. PICK i \in 1 .. Len(defs) : defs[i] # NoName /\ tools[j] = nameOf[defs[i]]
      BY <1>2
    <2>3. n = defs[i]
      BY <1>1, <1>2, <2>1, <2>2
    <2> QED
      BY <1>3, <2>2, <2>3
  <1>7. ASSUME NEW n \in Names, nameOf[n] # NoName, NEW j \in 1 .. Len(tools), tools[j] = nameOf[n]
        PROVE  n \in Defined
    <2>1. n \in Sent
      BY <1>1, <1>4, <1>7
    <2> QED
      BY <1>6, <2>1
  <1>8. \A n \in Names : n \in Defined =>
            nameOf[n] # NoName /\ \E j \in 1 .. Len(tools) : tools[j] = nameOf[n]
    BY <1>2, <1>3
  <1> QED
    BY <1>5, <1>6, <1>7, <1>8

LEMMA SentApplyChoice == Inv /\ SentInv /\ ApplyChoice => SentInv'
  <1> SUFFICES ASSUME Inv, SentInv, ApplyChoice PROVE SentInv'
    OBVIOUS
  <1>1. /\ step = "choice" /\ step' = "ready"
        /\ UNCHANGED <<defs, history, choice, nameOf, originalOf, calls>>
    BY DEF ApplyChoice, request
  <1>2. ToolsOfDefs' /\ OnlyDefsNamed' /\ AtInside' /\ CallsOfHistory'
    BY <1>1 DEF SentInv, ToolsOfDefs, OnlyDefsNamed, AtInside, CallsOfHistory
  <1>3. Defined' = Defined
    BY <1>1 DEF Defined
  <1>4. UNCHANGED tools => Sent' = Defined
    BY <1>1, <1>3, AllSent DEF Sent, Restore, Used
  <1>5. tools' = <<>> => Sent' = {}
    BY DEF Sent
  <1>6. CASE choice.mode = "none" /\ tools' = <<>>
    BY <1>1, <1>2, <1>5, <1>6 DEF SentInv, ChoiceKept
  <1>7. CASE choice.mode \in {"auto", "required"} /\ UNCHANGED tools
    BY <1>1, <1>2, <1>3, <1>4, <1>7 DEF SentInv, ChoiceKept
  <1>8. CASE choice.mode = "function" /\ SelectFunction(nameOf[choice.selected])
    <2> DEFINE n == choice.selected
               c == nameOf[n]
    <2>1. n \in Names
      BY <1>8, RequestTyped DEF ToolChoices
    <2>2. n \in Defined <=> c # NoName /\ Contains(tools, c)
      BY <1>1, <2>1, AllSent DEF Contains
    <2>3. CASE c = NoName /\ tools' = <<>>
      BY <1>1, <1>2, <1>3, <1>5, <1>8, <2>2, <2>3 DEF SentInv, ChoiceKept
    <2>4. CASE c # NoName /\ Contains(tools, c) /\ tools' = <<c>>
      <3>1. Restore(c) = n
        BY <2>1, <2>4, RestoredExactly DEF RoundTrip
      <3>2. Sent' = {n}
        <4> DEFINE R(d) == IF originalOf[d] # NoName THEN originalOf[d] ELSE d
        <4>1. Len(tools') = 1 /\ tools'[1] = c
          BY <2>4
        <4>2. Sent' = {R(tools'[j]) : j \in 1 .. Len(tools')} /\ R(c) = n
          BY <1>1, <3>1 DEF Sent, Restore, Used
        <4>3. \A j : j \in 1 .. Len(tools') <=> j = 1
          BY <4>1
        <4> HIDE DEF R
        <4>4. \A j \in 1 .. Len(tools') : R(tools'[j]) = R(c)
          BY <4>1, <4>3
        <4>5. R(c) \in {R(tools'[j]) : j \in 1 .. Len(tools')}
          BY <4>1, <4>3
        <4>6. {R(tools'[j]) : j \in 1 .. Len(tools')} = {R(c)}
          BY <4>4, <4>5
        <4> QED
          BY <4>2, <4>6
      <3> QED
        BY <1>1, <1>2, <1>3, <1>8, <2>2, <2>4, <3>2 DEF SentInv, ChoiceKept
    <2>5. CASE c # NoName /\ ~Contains(tools, c) /\ UNCHANGED tools
      BY <1>1, <1>2, <1>3, <1>4, <1>8, <2>2, <2>5 DEF SentInv, ChoiceKept
    <2> QED
      BY <1>8, <2>3, <2>4, <2>5 DEF SelectFunction
  <1> QED
    BY <1>6, <1>7, <1>8 DEF ApplyChoice

LEMMA SentNext == Inv /\ SentInv /\ [Next]_vars => SentInv'
  <1> SUFFICES ASSUME Inv, SentInv, [Next]_vars PROVE SentInv'
    OBVIOUS
  <1>1. CASE TakeTool
    BY <1>1, SentTakeTool
  <1>2. CASE TakeCall
    BY <1>2, SentTakeCall
  <1>3. CASE NextLoop
    <2>1. /\ UNCHANGED <<defs, history, choice, nameOf, originalOf, tools, calls>>
          /\ at' = 0 /\ step' \in {"calls", "choice"} /\ Looked' = Looked
          /\ Len(history) \in Nat
          /\ Len(calls) = (IF step' = "calls" THEN 0 ELSE Len(history))
      <3>1. UNCHANGED <<defs, history, choice, nameOf, originalOf, tools, calls>> /\ at' = 0
        BY <1>3 DEF NextLoop, request
      <3>2. CASE step = "defs" /\ at = Len(defs) /\ step' = "calls"
        BY <3>1, <3>2, RequestTyped DEF Looked, SentInv, CallsOfHistory
      <3>3. CASE step = "calls" /\ at = Len(history) /\ step' = "choice"
        BY <3>1, <3>3, RequestTyped DEF Looked, SentInv, CallsOfHistory
      <3> QED
        BY <1>3, <3>1, <3>2, <3>3 DEF NextLoop
    <2>2. step # "ready"
      BY <1>3 DEF NextLoop
    <2>3. ToolsOfDefs'
      BY <2>1, <2>2 DEF SentInv, ToolsOfDefs
    <2>4. step' # "defs" /\ step' # "ready"
      BY <2>1
    <2>5. OnlyDefsNamed' /\ AtInside'
      BY <2>1, <2>4 DEF OnlyDefsNamed, AtInside
    <2>6. ChoiceKept'
      BY <2>4, Zenon DEF ChoiceKept
    <2>7. CallsOfHistory'
      BY <2>1 DEF SentInv, CallsOfHistory
    <2> QED
      BY <2>3, <2>5, <2>6, <2>7 DEF SentInv
  <1>4. CASE ApplyChoice
    BY <1>4, SentApplyChoice
  <1>5. CASE UNCHANGED vars
    <2>1. UNCHANGED <<defs, history, choice, step, at, nameOf, originalOf, tools, calls>>
      BY <1>5 DEF vars, request
    <2>2. ToolsOfDefs' /\ OnlyDefsNamed' /\ AtInside' /\ CallsOfHistory'
      BY <2>1 DEF SentInv, ToolsOfDefs, OnlyDefsNamed, AtInside, CallsOfHistory, Looked
    <2>3. Sent' = Sent /\ Defined' = Defined
      BY <2>1 DEF Sent, Defined, Restore, Used
    <2>4. ChoiceKept'
      BY <2>1, <2>3 DEF SentInv, ChoiceKept
    <2> QED
      BY <2>2, <2>4 DEF SentInv
  <1> QED
    BY <1>1, <1>2, <1>3, <1>4, <1>5 DEF Next

LEMMA SentAsAsked == Inv /\ SentInv => SentIsRequested
  <1> SUFFICES ASSUME Inv, SentInv, step = "ready" PROVE SentIsRequested
    BY DEF SentIsRequested
  <1>1. Len(calls) = Len(history)
    BY DEF SentInv, CallsOfHistory
  <1>2. ASSUME NEW i \in 1 .. Len(calls)
        PROVE  IF history[i] = NoName THEN calls[i] = NoName ELSE Restore(calls[i]) = history[i]
    <2>1. history[i] # NoName =>
              /\ history[i] \in Names /\ nameOf[history[i]] # NoName
              /\ calls[i] = nameOf[history[i]]
      BY <1>1, RequestTyped DEF SentInv, CallsOfHistory
    <2>2. history[i] = NoName => calls[i] = NoName
      BY DEF SentInv, CallsOfHistory
    <2> QED
      BY <2>1, <2>2, RestoredExactly DEF RoundTrip
  <1> QED
    BY <1>1, <1>2 DEF SentIsRequested, SentInv, ChoiceKept, Sent, Defined

\* Whatever functions a request defines, calls and selects, and however their
\* names collide: the upstream is sent the functions and the calls of the
\* client and no others, as tool_choice says.
THEOREM RequestKept == Spec => []SentIsRequested
  BY SentInit, SentNext, SentAsAsked, InvInit, InvNext, PTL DEF Spec

-----------------------------------------------------------------------------
(***************************************************************************)
(* Proofs about ChatEncode.  The names of all calls stand in one list, so  *)
(* that the call of a message is found there by counting the calls before  *)
(* it: each number is that of a call of the history, and Spoken keeps the  *)
(* messages in order.  Both are sums or concatenations of any length, whose*)
(* laws are in SequenceLemmas.                                             *)
(***************************************************************************)
\* Calls are numbered through a conversation: each message goes on where the one
\* before it ends.
LEMMA CallsBeforeTyped ==
    ASSUME NEW c \in Seq(Speech), NEW m \in 1 .. Len(c) + 1
    PROVE  /\ CallsBefore(c, m) \in Seq(Nat) /\ Len(CallsBefore(c, m)) = m - 1
           /\ \A j \in 1 .. m - 1 : CallsBefore(c, m)[j] = Len(c[j].calls)
<1>1. \A j \in 1 .. Len(c) : c[j].calls \in Seq(STRING)
  <2>1. \A s \in Speech : s.calls \in Seq(STRING)
    BY DEF Speech
  <2>2. \A j \in 1 .. Len(c) : c[j] \in Speech
    OBVIOUS
  <2> QED
    BY <2>1, <2>2
<1>2. \A j \in 1 .. Len(c) : Len(c[j].calls) \in Nat
  BY <1>1
<1>3. m - 1 \in Nat /\ \A j \in 1 .. m - 1 : j \in 1 .. Len(c)
  OBVIOUS
<1> QED
  BY <1>2, <1>3 DEF CallsBefore

LEMMA CallNumberIs ==
    ASSUME NEW c \in Seq(Speech), NEW m \in 1 .. Len(c) + 1, NEW i \in Nat,
           NEW g, Totals(g, CallsBefore(c, m), i)
    PROVE  CallNumber(c, m, i) = g[1 .. m - 1]
<1> DEFINE w == CallsBefore(c, m)
           f == CHOOSE h : Totals(h, w, i)
<1>1. w \in Seq(Nat) /\ Len(w) = m - 1 /\ DOMAIN w = 1 .. Len(w) /\ Len(w) \in Nat
  BY CallsBeforeTyped
<1>2. CallNumber(c, m, i) = f[DOMAIN w]
  BY <1>1 DEF CallNumber, FoldLeft, MapThenFoldSet, Totals
<1>3. Totals(f, w, i)
  OBVIOUS
<1>4. f = g
  BY <1>1, <1>3, TotalsUnique
<1> QED
  BY <1>1, <1>2, <1>4

LEMMA NumbersStart ==
    ASSUME NEW c \in Seq(Speech), NEW i \in Nat
    PROVE  CallNumber(c, 1, i) = i
<1>1. 1 \in 1 .. Len(c) + 1
  OBVIOUS
<1>2. CallsBefore(c, 1) \in Seq(Nat) /\ Len(CallsBefore(c, 1)) = 0
  BY <1>1, CallsBeforeTyped
<1>3. PICK g : Totals(g, CallsBefore(c, 1), i)
  BY <1>2, TotalsExists
<1>4. CallNumber(c, 1, i) = g[1 .. 1 - 1]
  BY <1>1, <1>3, CallNumberIs
<1>5. 1 .. 1 - 1 = {} /\ 1 .. Len(CallsBefore(c, 1)) = {}
  BY <1>2
<1>6. g[{}] = i
  BY <1>3, <1>5 DEF Totals
<1> QED
  BY <1>4, <1>5, <1>6

LEMMA NumbersFollow ==
    ASSUME NEW c \in Seq(Speech), NEW m \in 1 .. Len(c), NEW i \in Nat
    PROVE  /\ CallNumber(c, m, i) \in Nat /\ Len(c[m].calls) \in Nat
           /\ CallNumber(c, m + 1, i) = CallNumber(c, m, i) + Len(c[m].calls)
<1> DEFINE w == CallsBefore(c, m)
           more == CallsBefore(c, m + 1)
           k == Len(c[m].calls)
<1>1. m \in 1 .. Len(c) + 1 /\ m + 1 \in 1 .. Len(c) + 1 /\ (m + 1) - 1 = m /\ m \in 1 .. m
  OBVIOUS
<1>2. w \in Seq(Nat) /\ Len(w) = m - 1 /\ \A j \in 1 .. m - 1 : w[j] = Len(c[j].calls)
  BY <1>1, CallsBeforeTyped
<1>3. more \in Seq(Nat) /\ Len(more) = m /\ \A j \in 1 .. m : more[j] = Len(c[j].calls)
  BY <1>1, CallsBeforeTyped
<1>4. k \in Nat
  <2>1. more[m] = k /\ more[m] \in Nat
    BY <1>1, <1>3
  <2> QED
    BY <2>1
<1> HIDE DEF w, more, k
<1>5. more = Append(w, k)
  <2>1. Append(w, k) \in Seq(Nat) /\ Len(Append(w, k)) = m
        /\ Append(w, k)[m] = k /\ \A j \in 1 .. m - 1 : Append(w, k)[j] = w[j]
    BY <1>2, <1>4
  <2>2. \A j \in 1 .. m : Append(w, k)[j] = more[j]
    <3> SUFFICES ASSUME NEW j \in 1 .. m PROVE Append(w, k)[j] = more[j]
      OBVIOUS
    <3>1. CASE j = m
      BY <1>3, <2>1, <3>1 DEF k
    <3>2. CASE j # m
      <4>1. j \in 1 .. m - 1
        BY <3>2
      <4> QED
        BY <1>2, <1>3, <2>1, <4>1
    <3> QED
      BY <3>1, <3>2
  <2> QED
    BY <1>3, <2>1, <2>2
<1>6. PICK g \in [SUBSET (1 .. Len(w)) -> Nat] : Totals(g, w, i)
  BY <1>2, TotalsExists
<1>7. PICK h : Totals(h, Append(w, k), i) /\ h[1 .. Len(w) + 1] = g[1 .. Len(w)] + k
  <2>1. \E h \in [SUBSET (1 .. Len(w) + 1) -> Nat] :
           /\ Totals(h, Append(w, k), i) /\ h[1 .. Len(w) + 1] = g[1 .. Len(w)] + k
    <3>1. w \in Seq(Nat) /\ k \in Nat /\ Totals(g, w, i)
      BY <1>2, <1>4, <1>6
    <3> QED
      BY <3>1, TotalsExtends, Zenon
  <2> QED
    BY <2>1, Zenon
<1>8. CallNumber(c, m, i) = g[1 .. m - 1]
  BY <1>1, <1>6, CallNumberIs DEF w
<1>9. CallNumber(c, m + 1, i) = h[1 .. m]
  <2>1. Totals(h, CallsBefore(c, m + 1), i)
    BY <1>5, <1>7 DEF more
  <2>2. CallNumber(c, m + 1, i) = h[1 .. (m + 1) - 1]
    BY <1>1, <2>1, CallNumberIs
  <2> QED
    BY <1>1, <2>2
<1>10. g[1 .. Len(w)] \in Nat /\ Len(w) + 1 = m
  BY <1>2, <1>6
<1> QED
  BY <1>2, <1>4, <1>7, <1>8, <1>9, <1>10 DEF k

\* The number of a call is that of a call of the history.
LEMMA NumberInside ==
    ASSUME NEW c \in Seq(Speech), NEW m \in 1 .. Len(c), NEW i \in 1 .. Len(c[m].calls)
    PROVE  CallNumber(c, m, i) \in 1 .. CallCount(c) /\ i \in 1 .. CallCount(c)
<1> DEFINE Total(n) == CallNumber(c, n, 0)
           Shifted == {n \in Nat : n < Len(c) => CallNumber(c, n + 1, i) = i + Total(n + 1)}
           Grown == {n \in Nat : m + 1 + n <= Len(c) + 1 => Total(m + 1) <= Total(m + 1 + n)}
<1>1. Len(c) \in Nat /\ i \in Nat /\ m \in Nat /\ Len(c[m].calls) \in Nat
  BY NumbersFollow
<1>2. \A n \in 1 .. Len(c), j \in Nat :
          /\ CallNumber(c, n, j) \in Nat /\ Len(c[n].calls) \in Nat
          /\ CallNumber(c, n + 1, j) = CallNumber(c, n, j) + Len(c[n].calls)
  BY NumbersFollow
<1>3. Total(1) = 0 /\ CallNumber(c, 1, i) = i
  BY <1>1, NumbersStart
<1>4. \A n \in Nat : n \in Shifted
  <2>1. 0 \in Shifted
    BY <1>1, <1>3
  <2>2. ASSUME NEW n \in Shifted PROVE n + 1 \in Shifted
    <3>1. SUFFICES ASSUME n + 1 < Len(c)
                   PROVE  CallNumber(c, (n + 1) + 1, i) = i + Total((n + 1) + 1)
      OBVIOUS
    <3>2. n \in Nat /\ n + 1 \in 1 .. Len(c) /\ CallNumber(c, n + 1, i) = i + Total(n + 1)
      BY <1>1, <3>1
    <3>3. /\ CallNumber(c, (n + 1) + 1, i) = CallNumber(c, n + 1, i) + Len(c[n + 1].calls)
          /\ Total((n + 1) + 1) = Total(n + 1) + Len(c[n + 1].calls)
          /\ Total(n + 1) \in Nat /\ Len(c[n + 1].calls) \in Nat
      BY <1>1, <1>2, <3>2
    <3> HIDE DEF Total
    <3> QED
      BY <1>1, <3>2, <3>3
  <2>3. Shifted \subseteq Nat
    OBVIOUS
  <2> HIDE DEF Shifted
  <2> QED
    BY <2>1, <2>2, <2>3, InductionOnSet
<1>5. \A n \in Nat : n \in Grown
  <2>0. \A n \in Nat : m + 1 + n <= Len(c) + 1 => Total(m + 1 + n) \in Nat
    <3> SUFFICES ASSUME NEW n \in Nat, m + 1 + n <= Len(c) + 1
                 PROVE  Total(m + 1 + n) \in Nat
      OBVIOUS
    <3>1. m + n \in 1 .. Len(c) /\ (m + n) + 1 = m + 1 + n
      BY <1>1
    <3>2. Total((m + n) + 1) = Total(m + n) + Len(c[m + n].calls)
          /\ Total(m + n) \in Nat /\ Len(c[m + n].calls) \in Nat
      BY <1>2, <3>1
    <3> HIDE DEF Total
    <3> QED
      BY <3>1, <3>2
  <2>1. 0 \in Grown
    <3>1. m + 1 + 0 = m + 1 /\ m + 1 + 0 <= Len(c) + 1
      BY <1>1
    <3>2. Total(m + 1) \in Nat
      BY <2>0, <3>1
    <3> HIDE DEF Total
    <3> QED
      BY <3>1, <3>2
  <2>2. ASSUME NEW n \in Grown PROVE n + 1 \in Grown
    <3>1. SUFFICES ASSUME m + 1 + (n + 1) <= Len(c) + 1
                   PROVE  Total(m + 1) <= Total(m + 1 + (n + 1))
      OBVIOUS
    <3>2. /\ n \in Nat /\ m + 1 + n \in 1 .. Len(c) /\ (m + 1 + n) + 1 = m + 1 + (n + 1)
          /\ m + 1 + n <= Len(c) + 1 /\ m + 1 + 0 = m + 1 /\ m + 1 + 0 <= Len(c) + 1
      BY <1>1, <3>1
    <3>3. /\ Total((m + 1 + n) + 1) = Total(m + 1 + n) + Len(c[m + 1 + n].calls)
          /\ Total(m + 1 + n) \in Nat /\ Len(c[m + 1 + n].calls) \in Nat
      BY <1>2, <3>2
    <3>4. Total(m + 1) <= Total(m + 1 + n) /\ Total(m + 1) \in Nat
      BY <2>0, <3>2
    <3> HIDE DEF Total
    <3> QED
      BY <3>2, <3>3, <3>4
  <2>3. Grown \subseteq Nat
    OBVIOUS
  <2> HIDE DEF Grown
  <2> QED
    BY <2>1, <2>2, <2>3, InductionOnSet
<1>6. CallNumber(c, m, i) = i + Total(m)
  <2>1. m - 1 \in Nat /\ m - 1 < Len(c) /\ (m - 1) + 1 = m
    BY <1>1
  <2>2. m - 1 \in Shifted
    BY <1>4, <2>1
  <2> QED
    BY <2>1, <2>2
<1>7. Total(m + 1) <= Total(Len(c) + 1)
  <2>1. Len(c) - m \in Nat /\ m + 1 + (Len(c) - m) = Len(c) + 1
    BY <1>1
  <2>2. Len(c) - m \in Grown
    BY <1>5, <2>1
  <2> QED
    BY <2>1, <2>2
<1>8. /\ Total(m + 1) = Total(m) + Len(c[m].calls) /\ Total(m) \in Nat
      /\ CallCount(c) = Total(Len(c) + 1)
  BY <1>2 DEF CallCount
<1>9. Total(Len(c) + 1) \in Nat
  <2>1. Len(c) \in 1 .. Len(c)
    BY <1>1
  <2>2. /\ Total(Len(c) + 1) = Total(Len(c)) + Len(c[Len(c)].calls)
        /\ Total(Len(c)) \in Nat /\ Len(c[Len(c)].calls) \in Nat
    BY <1>2, <2>1
  <2> HIDE DEF Total
  <2> QED
    BY <2>2
<1> HIDE DEF Total, Shifted, Grown
<1> QED
  BY <1>1, <1>6, <1>7, <1>8, <1>9

-----------------------------------------------------------------------------
\* The places of the first n messages that are sent as such, and all of them.
Places == [m \in 1 .. Len(conversation) |-> PlaceOf(m)]

Ordered(s, n) ==
    /\ s \in Seq(Nat)
    /\ \A k \in 1 .. Len(s) : s[k] \in 1 .. n /\ ~IsSystem(conversation[s[k]])
    /\ \A m \in 1 .. n : ~IsSystem(conversation[m]) => \E k \in 1 .. Len(s) : s[k] = m
    /\ \A j, k \in 1 .. Len(s) : j < k => s[j] < s[k]

LEMMA OrderedStep ==
    ASSUME NEW n \in Nat, NEW s, Ordered(s, n)
    PROVE  Ordered(s \o PlaceOf(n + 1), n + 1)
<1>1. CASE IsSystem(conversation[n + 1])
  <2>1. s \in Seq(Nat) /\ s \o PlaceOf(n + 1) = s
    BY <1>1, ConcatEmpty DEF PlaceOf, Ordered
  <2>2. \A m \in 1 .. n + 1 : m \in 1 .. n \/ m = n + 1
    OBVIOUS
  <2>3. Ordered(s, n + 1)
    BY <1>1, <2>2 DEF Ordered
  <2> QED
    BY <2>1, <2>3
<1>2. CASE ~IsSystem(conversation[n + 1])
  <2> DEFINE more == Append(s, n + 1)
  <2>1. s \in Seq(Nat) /\ s \o PlaceOf(n + 1) = more
    BY <1>2 DEF PlaceOf, Ordered
  <2>2. /\ more \in Seq(Nat) /\ Len(more) = Len(s) + 1 /\ Len(s) \in Nat
        /\ more[Len(s) + 1] = n + 1 /\ \A k \in 1 .. Len(s) : more[k] = s[k]
    BY <2>1
  <2> HIDE DEF more
  <2>3. \A k \in 1 .. Len(more) : k \in 1 .. Len(s) \/ k = Len(s) + 1
    BY <2>2
  <2>4. \A k \in 1 .. Len(more) : more[k] \in 1 .. n + 1 /\ ~IsSystem(conversation[more[k]])
    <3> SUFFICES ASSUME NEW k \in 1 .. Len(more)
                 PROVE  more[k] \in 1 .. n + 1 /\ ~IsSystem(conversation[more[k]])
      OBVIOUS
    <3>1. CASE k \in 1 .. Len(s)
      BY <2>2, <3>1 DEF Ordered
    <3>2. CASE k = Len(s) + 1
      BY <1>2, <2>2, <3>2
    <3> QED
      BY <2>3, <3>1, <3>2
  <2>5. ASSUME NEW m \in 1 .. n + 1, ~IsSystem(conversation[m])
        PROVE  \E k \in 1 .. Len(more) : more[k] = m
    <3>1. CASE m \in 1 .. n
      <4>1. PICK k \in 1 .. Len(s) : s[k] = m
        BY <2>5, <3>1 DEF Ordered
      <4> QED
        BY <2>2, <4>1
    <3>2. CASE m = n + 1
      BY <2>2, <3>2
    <3> QED
      BY <3>1, <3>2
  <2>6. ASSUME NEW j \in 1 .. Len(more), NEW k \in 1 .. Len(more), j < k
        PROVE  more[j] < more[k]
    <3>1. j \in 1 .. Len(s)
      BY <2>2, <2>6
    <3>2. CASE k \in 1 .. Len(s)
      BY <2>2, <2>6, <3>1, <3>2 DEF Ordered
    <3>3. CASE k = Len(s) + 1
      <4>1. s[j] \in 1 .. n
        BY <3>1 DEF Ordered
      <4> QED
        BY <2>2, <3>1, <3>3, <4>1
    <3> QED
      BY <2>3, <3>2, <3>3
  <2> QED
    BY <2>1, <2>2, <2>4, <2>5, <2>6 DEF Ordered
<1> QED
  BY <1>1, <1>2

\* What is sent as messages is each message that is no system message, in order.
LEMMA SpokenIs ==
    ASSUME Len(conversation) \in Nat
    PROVE  Ordered(Spoken, Len(conversation))
<1> DEFINE First(n) == FlattenSeq(SubSeq(Places, 1, n))
           Good == {n \in Nat : n <= Len(conversation) => Ordered(First(n), n)}
<1>1. Places \in Seq(Seq(Nat)) /\ Len(Places) = Len(conversation)
  <2>1. \A m \in 1 .. Len(conversation) : PlaceOf(m) \in Seq(Nat)
    BY DEF PlaceOf
  <2> QED
    BY <2>1 DEF Places
<1>2. 0 \in Good
  <2>1. First(0) = <<>>
    BY <1>1, FlattenNone
  <2>2. <<>> \in Seq(Nat) /\ Len(<<>>) = 0
    OBVIOUS
  <2>3. Ordered(<<>>, 0)
    BY <2>2 DEF Ordered
  <2> HIDE DEF First
  <2> QED
    BY <2>1, <2>3
<1>3. ASSUME NEW n \in Good PROVE n + 1 \in Good
  <2>1. SUFFICES ASSUME n + 1 <= Len(conversation) PROVE Ordered(First(n + 1), n + 1)
    OBVIOUS
  <2>2. n \in Nat /\ n < Len(Places) /\ n + 1 \in 1 .. Len(conversation) /\ Ordered(First(n), n)
    BY <1>1, <2>1
  <2>3. First(n + 1) = First(n) \o Places[n + 1]
    BY <1>1, <2>2, FlattenFirst
  <2>4. Places[n + 1] = PlaceOf(n + 1)
    BY <2>2 DEF Places
  <2> HIDE DEF First
  <2> QED
    BY <2>2, <2>3, <2>4, OrderedStep
<1>4. Good \subseteq Nat
  OBVIOUS
<1> HIDE DEF Good
<1>5. \A n \in Nat : n \in Good
  BY <1>2, <1>3, <1>4, InductionOnSet
<1>6. Ordered(First(Len(conversation)), Len(conversation))
  BY <1>5 DEF Good
<1>7. SubSeq(Places, 1, Len(conversation)) = Places
  <2> DEFINE T == Seq(Nat)
  <2>1. Places \in Seq(T) /\ Len(Places) = Len(conversation)
    BY <1>1
  <2> HIDE DEF T
  <2> QED
    BY <2>1
<1> QED
  BY <1>6, <1>7 DEF Spoken, Places

-----------------------------------------------------------------------------
ChatInv ==
    /\ conversation \in Conversations /\ CallCount(conversation) = Len(history)
    /\ chat # NotBuilt =>
           /\ step = "ready"
           /\ chat.messages = [k \in 1 .. Len(Spoken) |-> EncodedMessage(Spoken[k])]

LEMMA ChatFirst == ChatInit => ChatInv
  BY DEF ChatInit, ChatInv

\* Once a request is ready its names change no more.
LEMMA ChatKept ==
    ASSUME ChatInv, [Next]_vars, UNCHANGED chatVars
    PROVE  ChatInv'
<1>1. UNCHANGED <<conversation, limited, chat>>
  BY DEF chatVars
<1>2. history' = history
  BY DEF Next, TakeTool, TakeCall, NextLoop, ApplyChoice, vars, request
<1>3. step = "ready" => step' = step /\ calls' = calls
  BY DEF Next, TakeTool, TakeCall, NextLoop, ApplyChoice, vars
<1>4. CallCount(conversation)' = CallCount(conversation)
  BY <1>1 DEF CallCount
<1>5. Spoken' = Spoken
  BY <1>1 DEF Spoken, PlaceOf, IsSystem
<1>6. ASSUME calls' = calls, NEW m
      PROVE  EncodedMessage(m)' = EncodedMessage(m)
  BY <1>1, <1>6 DEF EncodedMessage
<1>7. step = "ready" =>
          [k \in 1 .. Len(Spoken) |-> EncodedMessage(Spoken[k])]' =
              [k \in 1 .. Len(Spoken) |-> EncodedMessage(Spoken[k])]
  BY <1>1, <1>3, <1>5 DEF EncodedMessage
<1> QED
  BY <1>1, <1>2, <1>3, <1>4, <1>7 DEF ChatInv

LEMMA ChatBuilt ==
    ASSUME ChatInv, BuildChat, UNCHANGED vars
    PROVE  ChatInv'
<1>1. UNCHANGED <<conversation, history, step, calls>> /\ step = "ready"
  BY DEF BuildChat, vars, request
<1>2. chat'.messages = [k \in 1 .. Len(Spoken) |-> EncodedMessage(Spoken[k])]
  BY DEF BuildChat
<1>3. CallCount(conversation)' = CallCount(conversation)
  BY <1>1 DEF CallCount
<1>4. [k \in 1 .. Len(Spoken) |-> EncodedMessage(Spoken[k])]' =
          [k \in 1 .. Len(Spoken) |-> EncodedMessage(Spoken[k])]
  BY <1>1 DEF Spoken, PlaceOf, IsSystem, EncodedMessage
<1> QED
  BY <1>1, <1>2, <1>3, <1>4 DEF ChatInv

-----------------------------------------------------------------------------
\* Everything a request has, and what its encoding has of it.
LEMMA EncodedIs ==
    ASSUME ChatInv, chat # NotBuilt
    PROVE  /\ conversation \in Seq(Speech) /\ Ordered(Spoken, Len(conversation))
           /\ Len(chat.messages) = Len(Spoken)
           /\ \A k \in 1 .. Len(Spoken) :
                  /\ Spoken[k] \in 1 .. Len(conversation)
                  /\ chat.messages[k] = EncodedMessage(Spoken[k])
<1>1. conversation \in Seq(Speech)
  BY ConversationsAssumption DEF ChatInv
<1>2. Len(conversation) \in Nat
  BY <1>1
<1>3. Ordered(Spoken, Len(conversation))
  BY <1>2, SpokenIs
<1>4. Spoken \in Seq(Nat) /\ \A k \in 1 .. Len(Spoken) : Spoken[k] \in 1 .. Len(conversation)
  BY <1>3 DEF Ordered
<1>5. /\ Len(chat.messages) = Len(Spoken)
      /\ \A k \in 1 .. Len(Spoken) : chat.messages[k] = EncodedMessage(Spoken[k])
  BY <1>4 DEF ChatInv
<1> QED
  BY <1>1, <1>3, <1>4, <1>5

\* An encoded call has the id of the client's, or one that was made up, and the
\* name of its call.
LEMMA EncodedCall ==
    ASSUME Inv, SentInv, ChatInv, step = "ready",
           NEW m \in 1 .. Len(conversation), conversation[m].role = "assistant",
           NEW i \in 1 .. Len(conversation[m].calls)
    PROVE  LET n == CallNumber(conversation, m, i)
               call == EncodedMessage(m).calls[i]
           IN  /\ n \in 1 .. Len(history) /\ i \in 1 .. Len(history)
               /\ call.name = calls[n] /\ SentFor(history[n], call.name)
               /\ conversation[m].calls[i] # NoId => call.id = conversation[m].calls[i]
               /\ conversation[m].calls[i] = NoId => call.id \in MadeUp
<1> DEFINE n == CallNumber(conversation, m, i)
           call == EncodedMessage(m).calls[i]
<1>1. conversation \in Seq(Speech) /\ CallCount(conversation) = Len(history)
  BY ConversationsAssumption DEF ChatInv
<1>2. n \in 1 .. Len(history)
  BY <1>1, NumberInside
<1>3. i \in 1 .. Len(history)
  BY <1>1, NumberInside
<1>4. call = [id |-> CallId(conversation[m].calls[i], calls[n], i - 1), name |-> calls[n]]
  BY DEF EncodedMessage
<1>5. /\ Len(calls) = Len(history)
      /\ IF history[n] = NoName THEN calls[n] = NoName
         ELSE nameOf[history[n]] # NoName /\ calls[n] = nameOf[history[n]]
  BY <1>2 DEF SentInv, CallsOfHistory
<1>6. SentFor(history[n], calls[n])
  <2>1. CASE history[n] = NoName
    BY <1>5, <2>1 DEF SentFor
  <2>2. CASE history[n] # NoName
    <3>1. history[n] \in Names
      BY <1>2, <2>2, RequestTyped
    <3>2. Restore(nameOf[history[n]]) = history[n]
      BY <1>5, <2>2, <3>1, RestoredExactly DEF RoundTrip
    <3> QED
      BY <1>5, <2>2, <3>2 DEF SentFor
  <2> QED
    BY <2>1, <2>2
<1>7. conversation[m].calls[i] = NoId => call.id \in MadeUp
  <2>1. SUFFICES ASSUME conversation[m].calls[i] = NoId PROVE call.id \in MadeUp
    OBVIOUS
  <2>2. call.id = Synthesised[calls[n]][i - 1]
    BY <1>4, <2>1 DEF CallId
  <2>3. calls[n] \in ToSet(calls)
    BY <1>2, <1>5 DEF ToSet
  <2>4. i - 1 \in 0 .. Len(history)
    BY <1>3
  <2> QED
    BY <2>2, <2>3, <2>4 DEF MadeUp
<1>8. conversation[m].calls[i] # NoId => call.id = conversation[m].calls[i]
  BY <1>4 DEF CallId
<1> QED
  BY <1>2, <1>3, <1>4, <1>6, <1>7, <1>8

LEMMA EncodedShape ==
    ASSUME NEW m, Len(conversation[m].calls) \in Nat
    PROVE  /\ EncodedMessage(m).role = "assistant" <=> conversation[m].role = "assistant"
           /\ conversation[m].role = "assistant" =>
                  Len(EncodedMessage(m).calls) = Len(conversation[m].calls)
           /\ conversation[m].role = "tool" =>
                  EncodedMessage(m).result = conversation[m].result
<1>1. EncodedMessage(m).role = "assistant" <=> conversation[m].role = "assistant"
  BY DEF EncodedMessage, UpstreamRole
<1>2. ASSUME conversation[m].role = "assistant"
      PROVE  Len(EncodedMessage(m).calls) = Len(conversation[m].calls)
  <2> DEFINE e(i) == [id |-> CallId(conversation[m].calls[i],
                                    calls[CallNumber(conversation, m, i)], i - 1),
                      name |-> calls[CallNumber(conversation, m, i)]]
  <2>1. EncodedMessage(m).calls = [i \in 1 .. Len(conversation[m].calls) |-> e(i)]
    BY <1>2 DEF EncodedMessage
  <2> HIDE DEF e
  <2> QED
    BY <2>1
<1>3. conversation[m].role = "tool" => EncodedMessage(m).result = conversation[m].result
  BY DEF EncodedMessage
<1> QED
  BY <1>1, <1>2, <1>3

\* The call a result answers is found by its id among the encoded calls, and no
\* other call has that id.
LEMMA ResultsReach == Inv /\ SentInv /\ ChatInv => ResultsReachCalls
<1> SUFFICES ASSUME Inv, SentInv, ChatInv, chat # NotBuilt,
                    NEW k \in 1 .. Len(Spoken), AnswersOne(Spoken[k])
             PROVE  \E c \in Asked(conversation[Spoken[k]].result, Spoken[k]), d \in Reached(k) :
                        /\ Reached(k) = {d} /\ d[1] < k
                        /\ SentFor(history[CallNumber(conversation, c[1], c[2])],
                                   chat.messages[d[1]].calls[d[2]].name)
  BY DEF ResultsReachCalls
<1> DEFINE m == Spoken[k]
           id == conversation[m].result
<1>1. /\ conversation \in Seq(Speech) /\ Ordered(Spoken, Len(conversation))
      /\ Len(chat.messages) = Len(Spoken) /\ step = "ready"
      /\ \A j \in 1 .. Len(Spoken) :
             /\ Spoken[j] \in 1 .. Len(conversation)
             /\ chat.messages[j] = EncodedMessage(Spoken[j])
  BY EncodedIs DEF ChatInv
<1>2. \A j \in 1 .. Len(conversation) : Len(conversation[j].calls) \in Nat
  BY <1>1, NumbersFollow
<1>3. Len(conversation) \in Nat /\ Len(Spoken) \in Nat /\ Spoken \in Seq(Nat)
  BY <1>1 DEF Ordered
<1>4. /\ conversation[m].role = "tool" /\ id \notin MadeUp /\ id # NoId
      /\ Asked(id, m) # {} /\ Asked(id, m) = Asked(id, Len(conversation) + 1)
      /\ \A c, d \in Asked(id, m) : c = d
  BY DEF AnswersOne
<1>5. PICK c : c \in Asked(id, m)
  BY <1>4
<1> DEFINE p == c[1]
           i == c[2]
<1>6. /\ c = <<p, i>> /\ p \in 1 .. Len(conversation) /\ i \in 1 .. Len(history)
      /\ conversation[p].role = "assistant" /\ i <= Len(conversation[p].calls)
      /\ p < m /\ conversation[p].calls[i] = id
  BY <1>5 DEF Asked, CallsOf
<1>7. i \in 1 .. Len(conversation[p].calls)
  BY <1>2, <1>6
<1>8. PICK e \in 1 .. Len(Spoken) : Spoken[e] = p
  <2>1. ~IsSystem(conversation[p])
    BY <1>6 DEF IsSystem
  <2> QED
    BY <1>1, <1>6, <2>1 DEF Ordered
<1>9. e < k
  <2>1. ~(k < e)
    <3>1. k < e => m < p
      BY <1>1, <1>8 DEF Ordered
    <3>2. m \in Nat /\ p \in Nat
      BY <1>3, <1>6
    <3> QED
      BY <1>6, <3>1, <3>2
  <2>2. e # k
    BY <1>3, <1>6, <1>8
  <2> QED
    BY <1>3, <2>1, <2>2
<1>10. chat.messages[e] = EncodedMessage(p) /\ chat.messages[k] = EncodedMessage(m)
  BY <1>1, <1>8
<1>11. /\ chat.messages[e].role = "assistant"
       /\ Len(chat.messages[e].calls) = Len(conversation[p].calls)
       /\ chat.messages[k].result = id
  BY <1>1, <1>2, <1>4, <1>6, <1>10, EncodedShape
<1>12. /\ chat.messages[e].calls[i].id = id
       /\ SentFor(history[CallNumber(conversation, p, i)], chat.messages[e].calls[i].name)
  <2> DEFINE call == EncodedMessage(p).calls[i]
  <2>1. /\ call.name = calls[CallNumber(conversation, p, i)]
        /\ SentFor(history[CallNumber(conversation, p, i)], call.name)
        /\ conversation[p].calls[i] # NoId => call.id = conversation[p].calls[i]
    <3> HIDE DEF p, i, m, id
    <3> QED
      BY <1>1, <1>6, <1>7, EncodedCall
  <2> HIDE DEF p, i, m, id
  <2> QED
    BY <1>4, <1>6, <1>10, <2>1
<1> DEFINE d == <<e, i>>
<1>13. d \in Reached(k)
  <2>1. d \in (1 .. Len(chat.messages)) \X (1 .. Len(history)) /\ d[1] = e /\ d[2] = i
    BY <1>1, <1>6
  <2> HIDE DEF d
  <2> QED
    BY <1>6, <1>11, <1>12, <2>1 DEF Reached, CallsOf
<1>14. ASSUME NEW x \in Reached(k) PROVE x = d
  <2> DEFINE q == x[1]
             j == x[2]
             o == Spoken[q]
  <2>1. /\ x = <<q, j>> /\ q \in 1 .. Len(Spoken) /\ j \in 1 .. Len(history)
        /\ chat.messages[q].role = "assistant" /\ j <= Len(chat.messages[q].calls)
        /\ chat.messages[q].calls[j].id = id
    BY <1>1, <1>11, <1>14 DEF Reached, CallsOf
  <2>2. o \in 1 .. Len(conversation) /\ chat.messages[q] = EncodedMessage(o)
    BY <1>1, <2>1
  <2>3. /\ conversation[o].role = "assistant" /\ j \in 1 .. Len(conversation[o].calls)
    BY <1>2, <2>1, <2>2, EncodedShape
  <2>4. conversation[o].calls[j] = id
    <3>1. /\ conversation[o].calls[j] # NoId => chat.messages[q].calls[j].id = conversation[o].calls[j]
          /\ conversation[o].calls[j] = NoId => chat.messages[q].calls[j].id \in MadeUp
      BY <1>1, <2>2, <2>3, EncodedCall
    <3> QED
      BY <1>4, <2>1, <3>1
  <2>5. <<o, j>> \in Asked(id, Len(conversation) + 1)
    <3> DEFINE y == <<o, j>>
    <3>1. /\ y \in (1 .. Len(conversation)) \X (1 .. Len(history)) /\ y[1] = o /\ y[2] = j
          /\ o < Len(conversation) + 1 /\ j <= Len(conversation[o].calls)
      BY <1>2, <1>3, <2>1, <2>2, <2>3
    <3> HIDE DEF y
    <3>2. y \in Asked(id, Len(conversation) + 1)
      BY <2>3, <2>4, <3>1 DEF Asked, CallsOf
    <3> QED
      BY <3>2 DEF y
  <2>6. <<o, j>> = <<p, i>>
    BY <1>4, <1>5, <1>6, <2>5
  <2>7. o = p /\ j = i
    BY <2>6
  <2>8. q = e
    <3>1. (q < e => o < p) /\ (e < q => p < o)
      BY <1>1, <1>8, <2>1 DEF Ordered
    <3>2. o \in Nat /\ p \in Nat
      BY <2>2, <1>6
    <3> QED
      BY <1>3, <2>1, <2>7, <3>1, <3>2
  <2> QED
    BY <2>1, <2>7, <2>8
<1>15. Reached(k) = {d}
  BY <1>13, <1>14
<1>16. d[1] = e /\ d[2] = i
  OBVIOUS
<1> HIDE DEF d, p, i, m, id
<1>17. /\ c \in Asked(conversation[Spoken[k]].result, Spoken[k])
       /\ SentFor(history[CallNumber(conversation, c[1], c[2])],
                  chat.messages[d[1]].calls[d[2]].name)
       /\ d[1] < k
  BY <1>5, <1>9, <1>12, <1>16 DEF p, i, m, id
<1> QED
  BY <1>13, <1>15, <1>17

LEMMA ChatNext ==
    ASSUME ChatInv, [PrepareNext]_prepareVars
    PROVE  ChatInv'
<1>1. \/ [Next]_vars /\ UNCHANGED chatVars
      \/ BuildChat /\ UNCHANGED vars
  BY DEF PrepareNext, Prepare, PrepareImages, PrepareTools, PrepareChat, RefreshCatalog,
         prepareVars
<1> QED
  BY <1>1, ChatKept, ChatBuilt

-----------------------------------------------------------------------------
(***************************************************************************)
(* The preparation of a whole request does what its parts do: every step   *)
(* is a step of one of them and leaves the others alone, so what was proved*)
(* of each holds of the request.                                           *)
(***************************************************************************)
LEMMA PrepareParts == PrepareInit => ImagesInit /\ Init /\ ChatInit
  BY DEF PrepareInit, Begins

LEMMA StepOfParts == [PrepareNext]_prepareVars => [ImageStep]_imageVars /\ [Next]_vars
  BY DEF PrepareNext, Prepare, PrepareImages, PrepareTools, PrepareChat, RefreshCatalog,
         prepareVars

PrepareInv == LimitsInv /\ LoadsInv /\ DecideInv /\ Inv /\ ToolsInv /\ SentInv /\ ChatInv

LEMMA PrepareFirst == PrepareInit => PrepareInv
  BY PrepareParts, LimitsInit, LoadsInit, DecideInit, InvInit, ToolsInit, SentInit,
     ChatFirst DEF PrepareInv

LEMMA PrepareStep == PrepareInv /\ [PrepareNext]_prepareVars => PrepareInv'
  BY StepOfParts, LimitsNext, LoadsNext, DecideNext, InvNext, ToolsNext, SentNext,
     ChatNext DEF PrepareInv

LEMMA PrepareInvariance == PrepareSpec => []PrepareInv
  BY PrepareFirst, PrepareStep, PTL DEF PrepareSpec

\* The preparation of images is that of ImageBudget, whatever happens to the
\* tools of the request.
THEOREM ImagesOfRequest == PrepareSpec => ImagesSpec
  BY PrepareParts, StepOfParts, PTL DEF PrepareSpec, ImagesSpec

LEMMA PrepareInvSafe ==
    PrepareInv => /\ WithinLimits /\ LimitsDecide /\ LoadsBounded
                  /\ RoundTrip /\ ToolsDistinct /\ SentIsRequested
  <1>1. PrepareInv => WithinLimits /\ LimitsDecide /\ LoadsBounded
    BY LoadsAreBounded, Decides DEF PrepareInv, LimitsInv
  <1>2. PrepareInv => RoundTrip /\ ToolsDistinct /\ SentIsRequested
    BY RestoredExactly, SentAsAsked DEF PrepareInv, ToolsInv
  <1> QED
    BY <1>1, <1>2

\* A request that is prepared keeps within the limits on images and on fetches
\* at every step, it is refused for nothing but a limit it exceeds, its names
\* are restored exactly and are distinct, and what is sent is what the client
\* asked for: for every request, every limit and every way in which names
\* collide.
THEOREM PreparationSafe ==
    PrepareSpec => [](WithinLimits /\ LimitsDecide /\ LoadsBounded /\ RoundTrip /\ ToolsDistinct
                        /\ SentIsRequested)
  BY PrepareInvSafe, PrepareInvariance, PTL

\* Every variable of the preparation keeps its type: TypeOK and ImagesTypeOK
\* for requests of any length.
THEOREM PreparationTyped == PrepareSpec => []PrepareTypeOK
  <1>1. PrepareInv => PrepareTypeOK
    BY DEF PrepareInv, LimitsInv, Inv, PrepareTypeOK
  <1> QED
    BY <1>1, PrepareInvariance, PTL

\* The call a result answers is the one the upstream finds by its id, and it is
\* named for the function of the client's call: for every conversation, however
\* long, every history and every way in which names collide.
THEOREM ResultsFound == PrepareSpec => []ResultsReachCalls
  <1>1. PrepareInv => ResultsReachCalls
    BY ResultsReach DEF PrepareInv
  <1> QED
    BY <1>1, PrepareInvariance, PTL
-----------------------------------------------------------------------------
(***************************************************************************)
(* Proofs about CatalogBuild and what the whole preparation makes of it.   *)
(* The tables of an account are some catalogue of its answer at all times: *)
(* only the default wire of an id depends on the order of a map, and only  *)
(* where the featured tier is missing.  What was looked up in one catalogue*)
(* is true of the next, as every name an image table has is that of entries*)
(* that agree.                                                             *)
(***************************************************************************)
\* A set of places that is not empty has a first and a last one.
LEMMA Extremes ==
    ASSUME NEW n \in Nat, NEW S \in SUBSET (1 .. n), S # {}
    PROVE  Max(S) \in S /\ Min(S) \in S
<1> DEFINE Bounded(T) == (\E x \in T : \A y \in T : x >= y) /\ (\E x \in T : \A y \in T : x =< y)
           Good == {k \in Nat : \A T \in SUBSET (1 .. k) : T # {} => Bounded(T)}
<1>1. 0 \in Good
  <2>1. 1 .. 0 = {}
    OBVIOUS
  <2> QED
    BY <2>1
<1>2. ASSUME NEW k \in Good PROVE k + 1 \in Good
  <2>1. k \in Nat /\ k + 1 \in Nat
    OBVIOUS
  <2>2. SUFFICES ASSUME NEW T \in SUBSET (1 .. k + 1), T # {} PROVE Bounded(T)
    BY <2>1
  <2> DEFINE U == T \ {k + 1}
  <2>3. U \in SUBSET (1 .. k) /\ \A y \in T : y \in Nat /\ y <= k + 1
    BY <2>1
  <2>4. CASE U = {}
    <3>1. T = {k + 1}
      BY <2>2, <2>4
    <3> QED
      BY <2>1, <3>1
  <2>5. CASE U # {}
    <3>1. Bounded(U)
      BY <2>3, <2>5
    <3>2. PICK low \in U : \A y \in U : low =< y
      BY <3>1
    <3>3. PICK high \in U : \A y \in U : high >= y
      BY <3>1
    <3>4. \A y \in T : low =< y
      BY <2>1, <2>3, <3>2
    <3>5. \E x \in T : \A y \in T : x >= y
      <4>1. CASE k + 1 \in T
        BY <2>1, <2>3, <4>1
      <4>2. CASE k + 1 \notin T
        BY <3>3, <4>2
      <4> QED
        BY <4>1, <4>2
    <3> QED
      BY <3>2, <3>4, <3>5
  <2> QED
    BY <2>4, <2>5
<1>3. Good \subseteq Nat
  OBVIOUS
<1> HIDE DEF Good
<1>4. n \in Good
  BY <1>1, <1>2, <1>3, InductionOnSet
<1> QED
  BY <1>4 DEF Good, Max, Min

LEMMA AnswerTyped ==
    ASSUME NEW es \in Answers
    PROVE  /\ Len(es) \in Nat /\ DOMAIN es = 1 .. Len(es)
           /\ \A i \in 1 .. Len(es) : es[i] \in ModelEntry /\ es[i].context \in Nat
<1>1. es \in Seq(ModelEntry)
  BY AnswersAssumption
<1>2. \A e \in ModelEntry : e.context \in Nat
  BY DEF ModelEntry
<1> QED
  BY <1>1, <1>2

LEMMA FeaturedIs ==
    ASSUME NEW es \in Answers, NEW f \in FeaturedFamilies(es)
    PROVE  \E i \in 1 .. Len(es) : Features(es[i], f) /\ Featured(es, f) = es[i]
<1> DEFINE S == {i \in 1 .. Len(es) : Features(es[i], f)}
<1>1. S \in SUBSET (1 .. Len(es)) /\ S # {}
  BY DEF FeaturedFamilies
<1>2. Max(S) \in S
  BY <1>1, AnswerTyped, Extremes
<1> QED
  BY <1>2 DEF Featured

\* A featured family has its plain id in the list.
LEMMA PlainListed ==
    ASSUME NEW es \in Answers, NEW i \in 1 .. Len(es), NEW f,
           Features(es[i], f), Featured(es, f) = es[i], f \in FeaturedFamilies(es)
    PROVE  Surfaced(es, es[i]) /\ IdOf(es, es[i]) = f /\ i \in Bucket(es, f)
<1>1. es[i].context \in Nat
  BY AnswerTyped
<1>2. es[i].family = f /\ Usable(es[i]) /\ Tier(es[i]) # Absent
  BY DEF Features
<1>3. Surfaced(es, es[i]) /\ IdOf(es, es[i]) = f
  BY <1>1, <1>2 DEF Surfaced, IdOf, Window
<1> QED
  BY <1>3 DEF Bucket

LEMMA ListedIs ==
    ASSUME NEW es \in Answers
    PROVE  /\ \A id \in ListedIds(es) : Bucket(es, id) # {}
           /\ \A id : \A i \in Bucket(es, id) : id \in ListedIds(es)
<1>1. DOMAIN es = 1 .. Len(es)
  BY AnswerTyped
<1>2. \A i \in 1 .. Len(es) : es[i] \in Range(es)
  BY <1>1 DEF Range
<1>3. \A e \in Range(es) : \E i \in 1 .. Len(es) : es[i] = e
  BY <1>1 DEF Range
<1>4. ASSUME NEW id \in ListedIds(es) PROVE Bucket(es, id) # {}
  <2>1. PICK e \in Range(es) : Surfaced(es, e) /\ IdOf(es, e) = id
    BY DEF ListedIds
  <2>2. PICK i \in 1 .. Len(es) : es[i] = e
    BY <1>3
  <2> QED
    BY <2>1, <2>2 DEF Bucket
<1>5. ASSUME NEW id, NEW i \in Bucket(es, id) PROVE id \in ListedIds(es)
  BY <1>2 DEF Bucket, ListedIds
<1> QED
  BY <1>4, <1>5

\* What a table has for a tier is an entry of that id and tier.
HasTier(es, id, t) ==
    \E i \in Bucket(es, id) : Tier(es[i]) = t /\ TierTable(es, id)[t] = es[i].wire

LEMMA TableIs ==
    ASSUME NEW es \in Answers, NEW id
    PROVE  /\ DOMAIN TierTable(es, id) = {Tier(es[i]) : i \in Bucket(es, id)}
           /\ \A t \in DOMAIN TierTable(es, id) : HasTier(es, id, t)
<1>1. DOMAIN TierTable(es, id) = {Tier(es[i]) : i \in Bucket(es, id)}
  BY DEF TierTable
<1>2. ASSUME NEW t \in {Tier(es[i]) : i \in Bucket(es, id)}
      PROVE  HasTier(es, id, t)
  <2> DEFINE S == {i \in Bucket(es, id) : Tier(es[i]) = t}
  <2>1. S \in SUBSET (1 .. Len(es)) /\ S # {}
    BY DEF Bucket
  <2>2. Min(S) \in S
    BY <2>1, AnswerTyped, Extremes
  <2>3. TierTable(es, id)[t] = es[Min(S)].wire
    BY <1>2 DEF TierTable
  <2> QED
    BY <2>2, <2>3 DEF HasTier
<1> QED
  BY <1>1, <1>2

LEMMA DefaultIs ==
    ASSUME NEW es \in Answers, NEW id \in ListedIds(es), NEW w \in DefaultWires(es, id)
    PROVE  /\ \E t \in DOMAIN TierTable(es, id) : w = TierTable(es, id)[t]
           /\ \A f : /\ \A i \in Bucket(es, id) : es[i].family = f
                     /\ Tier(Featured(es, f)) \in DOMAIN TierTable(es, id)
                     => w = TierTable(es, id)[Tier(Featured(es, f))]
<1>1. Bucket(es, id) \in SUBSET (1 .. Len(es)) /\ Bucket(es, id) # {}
  BY ListedIs DEF Bucket
<1>2. Min(Bucket(es, id)) \in Bucket(es, id)
  BY <1>1, AnswerTyped, Extremes
<1> DEFINE tier == Tier(Featured(es, es[Min(Bucket(es, id))].family))
<1>3. IF tier \in DOMAIN TierTable(es, id) THEN w = TierTable(es, id)[tier]
      ELSE \E t \in DOMAIN TierTable(es, id) : w = TierTable(es, id)[t]
  BY DEF DefaultWires, Range
<1>4. ASSUME NEW f, \A i \in Bucket(es, id) : es[i].family = f PROVE tier = Tier(Featured(es, f))
  BY <1>2, <1>4
<1> QED
  BY <1>3, <1>4

LEMMA CatalogueIs ==
    ASSUME NEW es \in Answers, NEW c \in Catalogues(es)
    PROVE  /\ DOMAIN c.families = ListedIds(es)
           /\ \A id \in ListedIds(es) : c.families[id] = TierTable(es, id)
           /\ DOMAIN c.baseWire = ListedIds(es)
           /\ \A id \in ListedIds(es) : c.baseWire[id] \in DefaultWires(es, id)
           /\ c.imageSupport = ImageSupport(es, c.baseWire)
<1>1. PICK base \in BaseWires(es) :
          c = [families |-> [id \in ListedIds(es) |-> TierTable(es, id)],
               baseWire |-> base, imageSupport |-> ImageSupport(es, base)]
  BY DEF Catalogues
<1>2. DOMAIN base = ListedIds(es) /\ \A id \in ListedIds(es) : base[id] \in DefaultWires(es, id)
  BY DEF BaseWires
<1> QED
  BY <1>1, <1>2

\* What an id and an effort resolve to.
LEMMA ResolvedIs ==
    ASSUME NEW es \in Answers, NEW c \in Catalogues(es), NEW id, NEW eff
    PROVE  LET w == ResolveModelWire(c, id, eff)
               t == NormalizeEffort(eff)
           IN  /\ id \in ListedIds(es) =>
                      IF t \in DOMAIN TierTable(es, id) THEN w = TierTable(es, id)[t]
                      ELSE w \in DefaultWires(es, id)
               /\ id \notin ListedIds(es) =>
                      w = IF id \in DOMAIN Static THEN Static[id] ELSE id
<1> DEFINE t == NormalizeEffort(eff)
<1>1. /\ DOMAIN c.families = ListedIds(es)
      /\ \A x \in ListedIds(es) : c.families[x] = TierTable(es, x)
      /\ \A x \in ListedIds(es) : c.baseWire[x] \in DefaultWires(es, x)
  BY CatalogueIs
<1>2. ASSUME id \in ListedIds(es)
      PROVE  IF t \in DOMAIN TierTable(es, id) THEN ResolveModelWire(c, id, eff) = TierTable(es, id)[t]
             ELSE ResolveModelWire(c, id, eff) \in DefaultWires(es, id)
  <2>1. ResolveDefault(c, id, eff) = c.baseWire[id]
    BY <1>1, <1>2 DEF ResolveDefault
  <2> QED
    BY <1>1, <1>2, <2>1 DEF ResolveModelWire
<1>3. ASSUME id \notin ListedIds(es)
      PROVE  ResolveModelWire(c, id, eff) = IF id \in DOMAIN Static THEN Static[id] ELSE id
  <2>1. ResolveModelWire(c, id, eff) = ResolveDefault(c, id, eff)
    BY <1>1, <1>3 DEF ResolveModelWire
  <2>2. CASE id \in DOMAIN Static
    BY <1>1, <1>3, <2>1, <2>2 DEF ResolveDefault
  <2>3. CASE id \notin DOMAIN Static
    BY <1>1, <1>3, <2>1, <2>3 DEF ResolveDefault
  <2> QED
    BY <2>2, <2>3
<1> QED
  BY <1>2, <1>3

-----------------------------------------------------------------------------
CatalogInv == answer \in Answers /\ catalog \in Catalogues(answer) \cup {NoCatalog}

LEMMA CatalogFirst == PrepareInit => CatalogInv
  BY RequestFormAssumption DEF PrepareInit, Asks, CatalogInv

LEMMA CatalogNext == CatalogInv /\ [PrepareNext]_prepareVars => CatalogInv'
<1>1. [PrepareNext]_prepareVars =>
          answer' = answer /\ (catalog' = catalog \/ catalog' \in Catalogues(answer))
  BY DEF PrepareNext, Prepare, PrepareImages, PrepareTools, PrepareChat, RefreshCatalog,
         prepareVars, catalogVars, Refetch, EncodeModel
<1> QED
  BY <1>1 DEF CatalogInv

\* The plain id of a family whose ids are its own has a default that is no matter
\* of chance: the featured entry is in its bucket and gives its tier.
LEMMA PlainDefault ==
    ASSUME NEW f \in FeaturedFamilies(answer), OwnIds(f), answer \in Answers
    PROVE  /\ f \in ListedIds(answer)
           /\ \A w \in DefaultWires(answer, f) :
                  w = TierTable(answer, f)[Tier(Featured(answer, f))]
<1>1. PICK i \in 1 .. Len(answer) : Features(answer[i], f) /\ Featured(answer, f) = answer[i]
  BY FeaturedIs
<1>2. Surfaced(answer, answer[i]) /\ IdOf(answer, answer[i]) = f /\ i \in Bucket(answer, f)
  BY <1>1, PlainListed
<1>3. f \in ListedIds(answer)
  BY <1>2, ListedIs
<1>4. answer[i].family = f
  BY <1>1 DEF Features
<1>5. \A j \in Bucket(answer, f) : answer[j].family = f
  BY <1>2, <1>4 DEF OwnIds, Bucket
<1>6. Tier(Featured(answer, f)) \in DOMAIN TierTable(answer, f)
  <2>1. Tier(answer[i]) \in {Tier(answer[j]) : j \in Bucket(answer, f)}
    BY <1>2
  <2> QED
    BY <1>1, <2>1, TableIs
<1> QED
  BY <1>3, <1>5, <1>6, DefaultIs

LEMMA PlainIdsStep ==
    ASSUME CatalogInv, [PrepareNext]_prepareVars, catalog # NoCatalog, catalog' # catalog,
           NEW f \in FeaturedFamilies(answer), OwnIds(f), NEW eff
    PROVE  ResolveModelWire(catalog', f, eff) = ResolveModelWire(catalog, f, eff)
<1>1. answer \in Answers /\ catalog \in Catalogues(answer) /\ catalog' \in Catalogues(answer)
  BY DEF CatalogInv, PrepareNext, Prepare, PrepareImages, PrepareTools, PrepareChat,
         RefreshCatalog, prepareVars, catalogVars, Refetch, EncodeModel
<1>2. /\ f \in ListedIds(answer)
      /\ \A w \in DefaultWires(answer, f) :
             w = TierTable(answer, f)[Tier(Featured(answer, f))]
  BY <1>1, PlainDefault
<1> DEFINE t == NormalizeEffort(eff)
<1>3. ASSUME NEW c \in Catalogues(answer)
      PROVE  IF t \in DOMAIN TierTable(answer, f)
             THEN ResolveModelWire(c, f, eff) = TierTable(answer, f)[t]
             ELSE ResolveModelWire(c, f, eff) \in DefaultWires(answer, f)
  BY <1>1, <1>2, ResolvedIs
<1> HIDE DEF t
<1> QED
  BY <1>1, <1>2, <1>3

LEMMA PlainIdsNext ==
    CatalogInv /\ [PrepareNext]_prepareVars =>
        [catalog # NoCatalog /\ catalog' # catalog =>
            \A f \in {g \in FeaturedFamilies(answer) : OwnIds(g)} : \A eff \in Efforts :
                ResolveModelWire(catalog', f, eff) = ResolveModelWire(catalog, f, eff)]_catalogVars
  BY PlainIdsStep

\* A refresh changes nothing of what the plain id of a family stands for, for any
\* answer and whatever wire a map gives first.
THEOREM PlainIdsKept == PrepareSpec => PlainIdsStable
  BY PlainIdsNext, CatalogFirst, CatalogNext, PTL DEF PrepareSpec, PlainIdsStable

-----------------------------------------------------------------------------
LEMMA FeaturedFamily ==
    ASSUME answer \in Answers, NEW i \in 1 .. Len(answer), OnlyFeatured(i)
    PROVE  /\ answer[i].family # Absent
           /\ answer[i].family \in FeaturedFamilies(answer)
           /\ Featured(answer, answer[i].family) = answer[i]
<1> DEFINE f == answer[i].family
<1>1. f # Absent /\ f \in Families
  <2>1. answer[i] \in ModelEntry
    BY AnswerTyped
  <2> QED
    BY <2>1 DEF ModelEntry, Features, Usable, OnlyFeatured
<1>2. f \in FeaturedFamilies(answer)
  BY <1>1 DEF FeaturedFamilies, OnlyFeatured
<1>3. PICK k \in 1 .. Len(answer) : Features(answer[k], f) /\ Featured(answer, f) = answer[k]
  BY <1>2, FeaturedIs
<1> QED
  BY <1>1, <1>2, <1>3 DEF OnlyFeatured

\* Two ids of one family are the same if the labels are.
LEMMA SiblingsApart ==
    ASSUME NEW es \in Answers, NEW x \in Range(es), NEW y \in Range(es),
           x.family # Absent, y.family = x.family
    PROVE  /\ SiblingId(x) # x.family
           /\ SiblingId(x) = SiblingId(y) => CtxLabel(x.context) = CtxLabel(y.context)
<1> DEFINE p == <<x.family, CtxLabel(x.context)>>
           q == <<y.family, CtxLabel(y.context)>>
<1>1. \A e \in Range(es) : \E i \in 1 .. Len(es) : es[i] = e
  BY AnswerTyped DEF Range
<1>2. p \in DOMAIN Sibling /\ q \in DOMAIN Sibling
  BY <1>1, LabelsAssumption
<1>3. p[1] = x.family /\ q[1] = x.family /\ p[2] = CtxLabel(x.context) /\ q[2] = CtxLabel(y.context)
  OBVIOUS
<1>4. SiblingId(x) = Sibling[p] /\ SiblingId(y) = Sibling[q]
  <2>1. SiblingId(x) = Sibling[x.family, CtxLabel(x.context)]
    BY Zenon DEF SiblingId
  <2>2. SiblingId(y) = Sibling[x.family, CtxLabel(y.context)]
    BY Zenon DEF SiblingId
  <2> QED
    BY <2>1, <2>2, Zenon
<1> HIDE DEF p, q
<1> QED
  BY <1>2, <1>3, <1>4, SiblingAssumption

\* The entries of an id of such a family are the peers of any of them.
LEMMA PeersListed ==
    ASSUME answer \in Answers, NEW i \in 1 .. Len(answer), OnlyFeatured(i),
           OwnIds(answer[i].family), NEW e, e \in Peers(answer[i], e)
    PROVE  /\ \A x \in Peers(answer[i], e) :
                  \E k \in Bucket(answer, PromisedId(answer[i], e)) : answer[k] = x
           /\ \A k \in Bucket(answer, PromisedId(answer[i], e)) : answer[k] \in Peers(answer[i], e)
<1> DEFINE d == answer[i]
           f == d.family
           id == PromisedId(d, e)
<1>0. id = IF Larger(d, e) THEN SiblingId(e) ELSE f
  BY DEF PromisedId
<1> HIDE DEF id
<1>1. /\ \A k \in 1 .. Len(answer) : answer[k] \in Range(answer) /\ answer[k].context \in Nat
      /\ \A x \in Range(answer) : \E k \in 1 .. Len(answer) : answer[k] = x
      /\ \A x \in Range(answer) : x.context \in Nat
  BY AnswerTyped DEF Range
<1>3. f # Absent /\ f \in FeaturedFamilies(answer) /\ Featured(answer, f) = d
  BY FeaturedFamily
<1>4. Window(answer, f) = d.context /\ d.context \in Nat
  BY <1>1, <1>3 DEF Window
<1>5. e \in Range(answer) /\ e.family = f /\ SameWindow(d, e, e)
  BY DEF Peers
<1>6. ASSUME NEW x \in Range(answer), x.family = f, Usable(x), Tier(x) # Absent
      PROVE  /\ Surfaced(answer, x) <=> d.context = 0 \/ x.context >= d.context
             /\ IdOf(answer, x) = IF Larger(d, x) THEN SiblingId(x) ELSE f
  <2>1. x.context \in Nat
    BY <1>1
  <2> QED
    BY <1>3, <1>4, <1>6, <2>1 DEF Surfaced, IdOf, Larger
<1>7. ASSUME NEW x \in Range(answer), x.family = f
      PROVE  /\ SiblingId(x) # f
             /\ SiblingId(x) = SiblingId(e) <=> CtxLabel(x.context) = CtxLabel(e.context)
  <2>1. SiblingId(x) # x.family
        /\ (SiblingId(x) = SiblingId(e) => CtxLabel(x.context) = CtxLabel(e.context))
    BY <1>3, <1>5, <1>7, SiblingsApart
  <2>2. CtxLabel(x.context) = CtxLabel(e.context) => SiblingId(x) = SiblingId(e)
    BY <1>5, <1>7, Zenon DEF SiblingId
  <2> QED
    BY <1>7, <2>1, <2>2
<1>8. ASSUME NEW x \in Peers(d, e) PROVE Surfaced(answer, x) /\ IdOf(answer, x) = id
  <2>1. x \in Range(answer) /\ x.family = f /\ Usable(x) /\ Tier(x) # Absent
        /\ SameWindow(d, e, x) /\ x.context \in Nat
    BY <1>1 DEF Peers
  <2>2. d.context = 0 \/ x.context >= d.context
    BY <1>4, <2>1 DEF SameWindow, Larger
  <2>3. Larger(d, x) <=> Larger(d, e)
    BY <1>4, <2>1 DEF SameWindow, Larger
  <2>4. Larger(d, e) => SiblingId(x) = SiblingId(e)
    BY <1>7, <2>1 DEF SameWindow
  <2> QED
    BY <1>0, <1>6, <2>1, <2>2, <2>3, <2>4
<1>9. ASSUME NEW x \in Peers(d, e) PROVE \E k \in Bucket(answer, id) : answer[k] = x
  <2>1. PICK k \in 1 .. Len(answer) : answer[k] = x
    BY <1>1 DEF Peers
  <2>2. k \in Bucket(answer, id)
    BY <1>8, <2>1 DEF Bucket
  <2> QED
    BY <2>1, <2>2
<1>10. ASSUME NEW k \in Bucket(answer, id) PROVE answer[k] \in Peers(d, e)
  <2> DEFINE x == answer[k]
  <2>1. k \in 1 .. Len(answer) /\ Surfaced(answer, x) /\ IdOf(answer, x) = id
    BY DEF Bucket
  <2>2. PICK j \in Bucket(answer, id) : answer[j] = e
    BY <1>5, <1>9
  <2>3. j \in 1 .. Len(answer) /\ Surfaced(answer, answer[j]) /\ IdOf(answer, answer[j]) = id
    BY <2>2 DEF Bucket
  <2>4. x.family = f
    BY <1>5, <2>1, <2>2, <2>3 DEF OwnIds
  <2>5. x \in Range(answer) /\ x.context \in Nat /\ e.context \in Nat
    BY <1>1, <1>5, <2>1
  <2>6. Usable(x) /\ Tier(x) # Absent
    BY <2>1 DEF Surfaced
  <2> HIDE DEF x
  <2>7. /\ d.context = 0 \/ x.context >= d.context
        /\ id = IF Larger(d, x) THEN SiblingId(x) ELSE f
    BY <1>6, <2>1, <2>4, <2>5, <2>6
  <2>8. SiblingId(x) # f /\ SiblingId(e) # f
        /\ (SiblingId(x) = SiblingId(e) => CtxLabel(x.context) = CtxLabel(e.context))
    BY <1>5, <1>7, <2>4, <2>5
  <2>9. Larger(d, x) <=> Larger(d, e)
    BY <1>0, <2>7, <2>8
  <2>10. SameWindow(d, e, x)
    <3>1. CASE Larger(d, e)
      BY <1>0, <2>7, <2>8, <2>9, <3>1 DEF SameWindow
    <3>2. CASE ~Larger(d, e)
      BY <1>4, <2>5, <2>7, <2>9, <3>2 DEF SameWindow, Larger
    <3> QED
      BY <3>1, <3>2
  <2>11. x \in Peers(d, e)
    BY <2>4, <2>5, <2>6, <2>10 DEF Peers
  <2> QED
    BY <2>11 DEF x
<1> QED
  BY <1>9, <1>10 DEF id

LEMMA Promised == CatalogInv => ResolvedAsPromised
<1> SUFFICES ASSUME answer \in Answers, catalog \in Catalogues(answer),
                    NEW i \in 1 .. Len(answer), NEW j \in 1 .. Len(answer),
                    OnlyFeatured(i), answer[j] \in Peers(answer[i], answer[j]),
                    OwnIds(answer[i].family), NEW eff
             PROVE  ResolvesAmong(answer[i], answer[j], eff)
  BY Zenon DEF ResolvedAsPromised, CatalogInv
<1> DEFINE d == answer[i]
           e == answer[j]
           id == PromisedId(d, e)
           t == NormalizeEffort(eff)
           tiers == {Tier(x) : x \in Peers(d, e)}
           table == TierTable(answer, id)
           w == ResolveModelWire(catalog, id, eff)
<1>1. Featured(answer, d.family) = d
  BY FeaturedFamily
<1>2. /\ \A x \in Peers(d, e) : \E k \in Bucket(answer, id) : answer[k] = x
      /\ \A k \in Bucket(answer, id) : answer[k] \in Peers(d, e)
  BY PeersListed, Zenon
<1>3. id \in ListedIds(answer)
  BY <1>2, ListedIs
<1> HIDE DEF id
<1>4. DOMAIN table = tiers
  <2>1. DOMAIN table = {Tier(answer[k]) : k \in Bucket(answer, id)}
    BY TableIs
  <2>2. \A k \in Bucket(answer, id) : Tier(answer[k]) \in tiers
    BY <1>2
  <2>3. \A x \in Peers(d, e) : Tier(x) \in {Tier(answer[k]) : k \in Bucket(answer, id)}
    BY <1>2
  <2> QED
    BY <2>1, <2>2, <2>3
<1>5. ASSUME NEW u \in tiers
      PROVE  \E x \in Peers(d, e) : Tier(x) = u /\ table[u] = x.wire
  <2> HIDE DEF tiers
  <2>1. u \in DOMAIN TierTable(answer, id)
    BY <1>4
  <2>2. HasTier(answer, id, u)
    BY <2>1, TableIs
  <2>3. PICK k \in Bucket(answer, id) : Tier(answer[k]) = u /\ TierTable(answer, id)[u] = answer[k].wire
    BY <2>2 DEF HasTier
  <2> QED
    BY <1>2, <2>3
<1>6. \A k \in Bucket(answer, id) : answer[k].family = d.family
  BY <1>2 DEF Peers
<1>7. IF t \in DOMAIN table THEN w = table[t] ELSE w \in DefaultWires(answer, id)
  BY <1>3, ResolvedIs
<1>8. ASSUME w \in DefaultWires(answer, id)
      PROVE  /\ \E u \in tiers : w = table[u]
             /\ Tier(d) \in tiers => w = table[Tier(d)]
  BY <1>1, <1>3, <1>4, <1>6, <1>8, DefaultIs
<1>9. \E x \in Peers(d, e) :
          /\ x.wire = w
          /\ t \in tiers => Tier(x) = t
          /\ t \notin tiers /\ Tier(d) \in tiers => Tier(x) = Tier(d)
  <2> HIDE DEF t, tiers, table, w
  <2>1. CASE t \in tiers
    BY <1>4, <1>5, <1>7, <2>1
  <2>2. CASE t \notin tiers /\ Tier(d) \in tiers
    BY <1>4, <1>5, <1>7, <1>8, <2>2
  <2>3. CASE t \notin tiers /\ Tier(d) \notin tiers
    BY <1>4, <1>5, <1>7, <1>8, <2>3
  <2> QED
    BY <2>1, <2>2, <2>3
<1> QED
  BY <1>9 DEF ResolvesAmong, id

\* For every answer, id and effort: what a family's id resolves to is what was
\* asked for, or the featured variant, of the family and window.
THEOREM EffortsReachable == PrepareSpec => []ResolvedAsPromised
  BY CatalogFirst, CatalogNext, Promised, PTL DEF PrepareSpec

-----------------------------------------------------------------------------
\* What a wire stands for agrees on images, and so does what an id stands for.
Agrees(id) ==
    \A x, y \in Range(answer) : StandsFor(x, id) /\ StandsFor(y, id) => x.images = y.images

ClientIds == {e.wire : e \in Range(answer)} \cup ListedIds(answer) \cup DOMAIN Static

LEMMA EntriesOf ==
    ASSUME answer \in Answers
    PROVE  /\ \A i \in 1 .. Len(answer) : answer[i] \in Range(answer)
           /\ \A x \in Range(answer) : \E i \in 1 .. Len(answer) : answer[i] = x
           /\ \A id : \A i \in Bucket(answer, id) :
                  i \in 1 .. Len(answer) /\ StandsFor(answer[i], id)
<1>1. DOMAIN answer = 1 .. Len(answer)
  BY AnswerTyped
<1>2. /\ \A i \in 1 .. Len(answer) : answer[i] \in Range(answer)
      /\ \A x \in Range(answer) : \E i \in 1 .. Len(answer) : answer[i] = x
  BY <1>1 DEF Range
<1>3. ASSUME NEW id, NEW i \in Bucket(answer, id)
      PROVE  i \in 1 .. Len(answer) /\ StandsFor(answer[i], id)
  BY DEF Bucket, StandsFor
<1> QED
  BY <1>2, <1>3

\* A wire of a table is that of an entry of the id.
LEMMA WiresOf ==
    ASSUME answer \in Answers, NEW id, NEW w \in Range(TierTable(answer, id))
    PROVE  \E i \in Bucket(answer, id) : w = answer[i].wire
<1>1. PICK t \in DOMAIN TierTable(answer, id) : w = TierTable(answer, id)[t]
  BY DEF Range
<1>2. HasTier(answer, id, t)
  BY TableIs
<1> QED
  BY <1>1, <1>2 DEF HasTier

\* The table of images says of an id or a wire what every entry it stands for says.
LEMMA SupportIs ==
    ASSUME answer \in Answers, NEW c \in Catalogues(answer),
           \A id \in ClientIds : Agrees(id)
    PROVE  /\ DOMAIN c.imageSupport = UNION {NamesOf(answer, id) : id \in ListedIds(answer)}
           /\ \A n \in DOMAIN c.imageSupport : \A e \in Range(answer) :
                  StandsFor(e, n) => e.images = c.imageSupport[n]
<1> DEFINE base == c.baseWire
           Known == UNION {NamesOf(answer, id) : id \in ListedIds(answer)}
<1>1. /\ DOMAIN base = ListedIds(answer)
      /\ \A id \in ListedIds(answer) : base[id] \in DefaultWires(answer, id)
      /\ c.imageSupport = ImageSupport(answer, base)
  BY CatalogueIs
<1> HIDE DEF base
<1>2. DOMAIN c.imageSupport = Known
  BY <1>1 DEF ImageSupport
<1>3. ASSUME NEW n \in Known, NEW e \in Range(answer), StandsFor(e, n)
      PROVE  e.images = c.imageSupport[n]
  <2> DEFINE W == Writers(answer, ListedIds(answer), n)
             id == SortedIds[Max(W)]
             w == base[id]
             S == {i \in 1 .. Len(answer) : answer[i].wire = w}
  <2>1. W \in SUBSET (1 .. Len(SortedIds)) /\ W # {} /\ Len(SortedIds) \in Nat
    <3>1. PICK one \in ListedIds(answer) : n \in NamesOf(answer, one)
      OBVIOUS
    <3>2. /\ DOMAIN SortedIds = 1 .. Len(SortedIds) /\ Len(SortedIds) \in Nat
          /\ one \in ToSet(SortedIds)
      BY SortedAssumption
    <3>3. PICK k \in 1 .. Len(SortedIds) : SortedIds[k] = one
      BY <3>2 DEF ToSet
    <3>4. k \in W
      BY <3>1, <3>3 DEF Writers
    <3> QED
      BY <3>2, <3>4 DEF Writers
  <2>2. Max(W) \in W
    BY <2>1, Extremes
  <2>3. id \in ListedIds(answer) /\ n \in NamesOf(answer, id)
    BY <2>2 DEF Writers
  <2>4. c.imageSupport[n] = WireTakesImages(answer, w)
    BY <1>1 DEF ImageSupport
  <2> HIDE DEF id
  <2>5. PICK i \in Bucket(answer, id) : w = answer[i].wire
    <3>1. PICK t \in DOMAIN TierTable(answer, id) : w = TierTable(answer, id)[t]
      BY <1>1, <2>3, DefaultIs
    <3>2. HasTier(answer, id, t)
      BY TableIs
    <3> QED
      BY <3>1, <3>2 DEF HasTier
  <2> HIDE DEF w
  <2>6. i \in 1 .. Len(answer) /\ answer[i] \in Range(answer) /\ StandsFor(answer[i], id)
    BY <2>5, EntriesOf
  <2>7. Max(S) \in S
    <3>1. S \in SUBSET (1 .. Len(answer)) /\ i \in S
      BY <2>5, <2>6
    <3> HIDE DEF S
    <3> QED
      BY <3>1, AnswerTyped, Extremes
  <2> DEFINE last == answer[Max(S)]
  <2>8. c.imageSupport[n] = last.images
    BY <2>4 DEF WireTakesImages
  <2>9. last \in Range(answer) /\ last.wire = w
    BY <2>7, EntriesOf
  <2> HIDE DEF S, last
  <2>10. last.images = answer[i].images
    <3>1. w \in ClientIds /\ StandsFor(last, w) /\ StandsFor(answer[i], w)
      BY <2>5, <2>6, <2>9 DEF ClientIds, StandsFor
    <3> QED
      BY <2>6, <2>9, <3>1 DEF Agrees
  <2>11. e.images = answer[i].images
    <3>1. CASE n = id
      <4>1. n \in ClientIds
        BY <2>3, <3>1 DEF ClientIds
      <4> QED
        BY <1>3, <2>6, <3>1, <4>1 DEF Agrees
    <3>2. CASE n \in Range(TierTable(answer, id))
      <4>1. PICK j \in Bucket(answer, id) : n = answer[j].wire
        BY <3>2, WiresOf
      <4>2. answer[j] \in Range(answer) /\ StandsFor(answer[j], id) /\ StandsFor(answer[j], n)
        BY <4>1, EntriesOf DEF StandsFor
      <4>3. n \in ClientIds /\ id \in ClientIds
        BY <2>3, <4>1, <4>2 DEF ClientIds
      <4>4. e.images = answer[j].images
        BY <1>3, <4>2, <4>3 DEF Agrees
      <4>5. answer[j].images = answer[i].images
        BY <2>6, <4>2, <4>3 DEF Agrees
      <4> QED
        BY <4>4, <4>5
    <3> QED
      BY <2>3, <3>1, <3>2 DEF NamesOf
  <2> QED
    BY <2>8, <2>10, <2>11
<1> QED
  BY <1>2, <1>3

-----------------------------------------------------------------------------
\* What was looked up is still true when the model is resolved: both were read
\* off tables of one answer.  The wire is set when the images are prepared.
ServedInv ==
    /\ consulted \in Catalogues(answer) \cup {NoCatalog}
    /\ support = LookupImageSupport(consulted, model, effort)
    /\ consulted # NoCatalog => catalog \in Catalogues(answer)
    /\ stage # "prepared" => step = "defs"
    /\ wire # Absent =>
          /\ stage = "prepared"
          /\ consulted # NoCatalog =>
                 \E c \in Catalogues(answer) : wire = ResolveModelWire(c, model, effort)

LEMMA ServedFirst == PrepareInit => ServedInv
  BY DEF PrepareInit, Asks, Begins, ImagesInit, Init, ServedInv

LEMMA ImagesEnd ==
    ImageStep => stage # "prepared" /\ UNCHANGED imageRequest
  BY DEF ImageStep, CheckSupport, CheckRoles, SkipText, OutOfCount, OutOfBytes, TakeInline,
         StartFetch, FetchEnds, FetchFails, EndMessage, EndImages, Refuse, Take, KeepImages,
         MayLoad, InPart, InMessage

LEMMA ServedNext == ServedInv /\ [PrepareNext]_prepareVars => ServedInv'
<1> SUFFICES ASSUME ServedInv, [PrepareNext]_prepareVars PROVE ServedInv'
  OBVIOUS
<1>1. CASE PrepareImages
  <2>1. UNCHANGED <<answer, catalog, model, effort, wire, consulted, step, support>> /\ wire = Absent
    BY <1>1, ImagesEnd DEF PrepareImages, ServedInv, vars, catalogVars, imageRequest
  <2>2. step = "defs"
    BY <1>1, ImagesEnd DEF PrepareImages, ServedInv
  <2> QED
    BY <2>1, <2>2 DEF ServedInv
<1>2. CASE PrepareTools
  <2>1. UNCHANGED <<answer, catalog, model, effort, wire, consulted, stage, support>> /\ stage = "prepared"
    BY <1>2 DEF PrepareTools, imageVars, catalogVars
  <2> QED
    BY <2>1 DEF ServedInv
<1>3. CASE PrepareChat
  <2>1. /\ UNCHANGED <<answer, catalog, model, effort, consulted, stage, support, step>>
        /\ wire' = ResolveModelWire(catalog, model, effort) /\ step = "ready"
    BY <1>3 DEF PrepareChat, EncodeModel, BuildChat, imageVars, vars
  <2>2. stage = "prepared"
    BY <2>1 DEF ServedInv
  <2> QED
    BY <2>1, <2>2 DEF ServedInv
<1>4. CASE RefreshCatalog
  <2>1. /\ UNCHANGED <<answer, model, effort, wire, consulted, stage, support, step>>
        /\ catalog' \in Catalogues(answer)
    BY <1>4 DEF RefreshCatalog, Refetch, imageVars, vars
  <2> QED
    BY <2>1 DEF ServedInv
<1>5. CASE UNCHANGED prepareVars
  <2>1. UNCHANGED <<answer, catalog, model, effort, wire, consulted, stage, support, step>>
    BY <1>5 DEF prepareVars, imageVars, vars, catalogVars
  <2> QED
    BY <2>1 DEF ServedInv
<1> QED
  BY <1>1, <1>2, <1>3, <1>4, <1>5 DEF PrepareNext, Prepare

\* The wire is one of the id's if a list has the id, and else the same at any time.
LEMMA WireIs ==
    ASSUME answer \in Answers, NEW c \in Catalogues(answer), NEW id, NEW eff
    PROVE  /\ id \in ListedIds(answer) =>
                  \E i \in Bucket(answer, id) : ResolveModelWire(c, id, eff) = answer[i].wire
           /\ id \notin ListedIds(answer) =>
                  ResolveModelWire(c, id, eff) = IF id \in DOMAIN Static THEN Static[id] ELSE id
<1> DEFINE w == ResolveModelWire(c, id, eff)
           table == TierTable(answer, id)
           t == NormalizeEffort(eff)
<1>1. ASSUME id \in ListedIds(answer) PROVE \E i \in Bucket(answer, id) : w = answer[i].wire
  <2>1. IF t \in DOMAIN table THEN w = table[t] ELSE w \in DefaultWires(answer, id)
    BY <1>1, ResolvedIs
  <2> HIDE DEF w, t
  <2>2. w \in DefaultWires(answer, id) => \E u \in DOMAIN table : w = table[u]
    BY <1>1, DefaultIs
  <2> HIDE DEF table
  <2>3. PICK u \in DOMAIN table : w = table[u]
    BY <2>1, <2>2
  <2>4. HasTier(answer, id, u)
    BY TableIs DEF table
  <2> QED
    BY <2>3, <2>4 DEF HasTier, table
<1>2. ASSUME id \notin ListedIds(answer)
      PROVE  w = IF id \in DOMAIN Static THEN Static[id] ELSE id
  BY <1>2, ResolvedIs
<1> QED
  BY <1>1, <1>2

LEMMA ImagesReach ==
    CatalogInv /\ ServedInv /\ LoadsInv => ImagesReachTakers
<1> SUFFICES ASSUME CatalogInv, ServedInv, LoadsInv, wire # Absent,
                    wire \in UNION {Range(TierTable(answer, id)) : id \in ListedIds(answer)},
                    consulted # NoCatalog, \A id \in ClientIds : Agrees(id),
                    \E i \in 1 .. Len(messages) : HasImage(messages[i]),
                    NEW e \in Range(answer), e.wire = wire
             PROVE  e.images
  BY Zenon DEF ImagesReachTakers, ClientIds, Agrees
<1>1. answer \in Answers /\ consulted \in Catalogues(answer)
  BY DEF CatalogInv, ServedInv
<1>2. PICK c \in Catalogues(answer) : wire = ResolveModelWire(c, model, effort)
  BY DEF ServedInv
<1>3. support # "no" /\ support = LookupImageSupport(consulted, model, effort)
  BY DEF ServedInv, LoadsInv, ChecksFirst, SupportChecked
<1> DEFINE table == consulted.imageSupport
           Known == UNION {NamesOf(answer, id) : id \in ListedIds(answer)}
<1>4. /\ DOMAIN table = Known
      /\ \A n \in Known : \A x \in Range(answer) : StandsFor(x, n) => x.images = table[n]
  BY <1>1, SupportIs
<1>5. wire \in Known
  BY DEF NamesOf
<1> HIDE DEF table, Known
<1>6. \A n \in Known : \A x \in Range(answer) : StandsFor(x, n) /\ table[n] => x.images
  BY <1>4
<1>7. StandsFor(e, wire) /\ wire \in ClientIds
  BY DEF StandsFor, ClientIds
<1>8. CASE model \in Known
  <2>1. table[model]
    BY <1>3, <1>4, <1>8 DEF LookupImageSupport, table
  <2>2. CASE model \in ListedIds(answer)
    <3>1. PICK i \in Bucket(answer, model) : wire = answer[i].wire
      BY <1>1, <1>2, <2>2, WireIs
    <3>2. answer[i] \in Range(answer) /\ StandsFor(answer[i], model) /\ StandsFor(answer[i], wire)
      BY <1>1, <3>1, EntriesOf DEF StandsFor
    <3>3. answer[i].images
      BY <1>6, <1>8, <2>1, <3>2
    <3>4. e.images = answer[i].images
      BY <1>7, <3>2 DEF Agrees
    <3> QED
      BY <3>3, <3>4
  <2>3. CASE model \notin ListedIds(answer)
    <3>1. wire = IF model \in DOMAIN Static THEN Static[model] ELSE model
      BY <1>1, <1>2, <2>3, WireIs
    <3>2. StandsFor(e, model)
      BY <2>3, <3>1 DEF StandsFor
    <3> QED
      BY <1>6, <1>8, <2>1, <3>2
  <2> QED
    BY <2>2, <2>3
<1>9. CASE model \notin Known
  <2>1. model \notin ListedIds(answer)
    BY <1>9 DEF Known, NamesOf
  <2>2. ResolveModelWire(consulted, model, effort) = wire
    BY <1>1, <1>2, <2>1, WireIs
  <2>3. table[wire]
    BY <1>3, <1>4, <1>5, <1>9, <2>2 DEF LookupImageSupport, table
  <2> QED
    BY <1>5, <1>6, <1>7, <2>3
<1> QED
  BY <1>8, <1>9

\* No image goes to a variant that the catalogue knows to take none, for every
\* answer, id and effort and however often the catalogue is fetched meanwhile.
THEOREM TakersReached == PrepareSpec => []ImagesReachTakers
<1>1. PrepareSpec => [](CatalogInv /\ ServedInv)
  BY CatalogFirst, CatalogNext, ServedFirst, ServedNext, PTL DEF PrepareSpec
<1>2. PrepareInv => LoadsInv
  BY DEF PrepareInv
<1> QED
  BY <1>1, <1>2, PrepareInvariance, ImagesReach, PTL

-----------------------------------------------------------------------------
(***************************************************************************)
(* Proofs about ToolSchemas for schemas of any shape, any depth limit and  *)
(* any validator that obeys JSON Schema.  What normalizeSchemaNode makes of *)
(* a schema with so many levels left takes what the schema takes, or more: *)
(* by induction on the levels left, for the schemas it comes to at that     *)
(* depth.  Only then is the root given its type and its properties.        *)
(***************************************************************************)

\* A recursive function of the number of levels left is what its definition
\* says, because what it is for a number depends on smaller ones alone.
LEMMA NormalIs ==
    ASSUME NEW d, NEW m, NEW n \in Nat
    PROVE  Normal(d, m)[n] =
              IF n = 0 THEN [s \in Schemas |-> Empty]
              ELSE NormalLevel(d, m, n, Normal(d, m)[n - 1],
                               IF n = 1 THEN Empty ELSE Normal(d, m)[n - 2])
<1> DEFINE At(g, k) == IF k = 0 THEN [s \in Schemas |-> Empty]
                       ELSE NormalLevel(d, m, k, g[k - 1], IF k = 1 THEN Empty ELSE g[k - 2])
           UpTo(g, k) == g = [i \in 0 .. k |-> At(g, i)]
<1>1. ASSUME NEW g, NEW h, NEW k \in Nat, \A i \in Nat : i < k => g[i] = h[i]
      PROVE  At(g, k) = At(h, k)
  <2>1. CASE k = 0
    BY <2>1
  <2>2. CASE k = 1
    <3>1. g[k - 1] = h[k - 1]
      BY <1>1, <2>2
    <3> QED
      BY <2>2, <3>1
  <2>3. CASE k > 1
    <3>1. k - 1 \in Nat /\ k - 2 \in Nat /\ k - 1 < k /\ k - 2 < k
      BY <2>3
    <3>2. g[k - 1] = h[k - 1] /\ g[k - 2] = h[k - 2]
      BY <1>1, <3>1
    <3> QED
      BY <3>2
  <2> QED
    BY <2>1, <2>2, <2>3
<1> HIDE DEF At
<1>2. ASSUME NEW g, NEW k \in Nat, UpTo(g, k), NEW i \in 0 .. k PROVE g[i] = At(g, i)
  <2> DEFINE same == [j \in 0 .. k |-> At(g, j)]
  <2>1. g = same
    BY <1>2
  <2>2. same[i] = At(g, i)
    OBVIOUS
  <2> QED
    BY <2>1, <2>2, Zenon
<1>3. \A k \in Nat : \E g : UpTo(g, k)
  <2> DEFINE T == {k \in Nat : \E g : UpTo(g, k)}
  <2>1. 0 \in T
    <3> DEFINE g == [i \in 0 .. 0 |-> At(Empty, i)]
    <3>1. At(g, 0) = At(Empty, 0)
      BY <1>1
    <3>2. UpTo(g, 0)
      <4>1. ASSUME NEW i \in 0 .. 0 PROVE At(Empty, i) = At(g, i)
        BY <3>1
      <4> QED
        BY <4>1
    <3> QED
      BY <3>2
  <2>2. ASSUME NEW k \in T PROVE k + 1 \in T
    <3>1. k \in Nat
      OBVIOUS
    <3>2. PICK g : UpTo(g, k)
      BY <2>2
    <3> HIDE DEF T
    <3> DEFINE h == [i \in 0 .. k + 1 |-> At(g, i)]
    <3>3. ASSUME NEW i \in 0 .. k PROVE h[i] = g[i]
      <4>1. h[i] = At(g, i)
        BY <3>1
      <4> QED
        BY <1>2, <3>1, <3>2, <4>1
    <3> HIDE DEF h
    <3>4. ASSUME NEW i \in 0 .. k + 1 PROVE At(g, i) = At(h, i)
      <4>1. \A j \in Nat : j < i => g[j] = h[j]
        BY <3>1, <3>3
      <4> QED
        BY <1>1, <3>1, <4>1
    <3>5. UpTo(h, k + 1)
      BY <3>4 DEF h
    <3> QED
      BY <3>1, <3>5 DEF T
  <2>3. T \subseteq Nat
    OBVIOUS
  <2> HIDE DEF T
  <2>4. \A k \in Nat : k \in T
    BY <2>1, <2>2, <2>3, InductionOnSet
  <2> QED
    BY <2>4 DEF T
<1>4. ASSUME NEW g, NEW h, NEW j \in Nat, NEW k \in Nat, j <= k, UpTo(g, j), UpTo(h, k)
      PROVE  \A i \in 0 .. j : g[i] = h[i]
  <2> DEFINE T == {n_1 \in Nat : \A i \in Nat : i <= n_1 /\ i <= j => g[i] = h[i]}
  <2> HIDE DEF UpTo
  <2>1. 0 \in T
    <3>1. g[0] = At(g, 0) /\ h[0] = At(h, 0)
      BY <1>2, <1>4
    <3>2. At(g, 0) = At(h, 0)
      BY <1>1
    <3> QED
      BY <3>1, <3>2
  <2>2. ASSUME NEW i \in T PROVE i + 1 \in T
    <3>1. i \in Nat /\ \A x \in Nat : x <= i /\ x <= j => g[x] = h[x]
      OBVIOUS
    <3>2. ASSUME i + 1 <= j PROVE g[i + 1] = h[i + 1]
      <4>1. g[i + 1] = At(g, i + 1) /\ h[i + 1] = At(h, i + 1)
        BY <1>2, <1>4, <3>1, <3>2
      <4>2. At(g, i + 1) = At(h, i + 1)
        BY <1>1, <3>1, <3>2
      <4> QED
        BY <4>1, <4>2
    <3>3. ASSUME NEW x \in Nat, x <= i + 1, x <= j PROVE g[x] = h[x]
      BY <3>1, <3>2, <3>3
    <3> QED
      BY <3>1, <3>3
  <2>3. T \subseteq Nat
    OBVIOUS
  <2> HIDE DEF T
  <2>4. j \in T
    BY <2>1, <2>2, <2>3, InductionOnSet
  <2> QED
    BY <2>4 DEF T
<1> DEFINE Upper(k) == CHOOSE g : UpTo(g, k)
           f == [k \in Nat |-> Upper(k)[k]]
<1>5. \A k \in Nat : UpTo(Upper(k), k)
  BY <1>3, Zenon
<1> HIDE DEF Upper, UpTo
<1>6. ASSUME NEW k \in Nat PROVE f[k] = At(f, k)
  <2>1. f[k] = Upper(k)[k]
    OBVIOUS
  <2>2. Upper(k)[k] = At(Upper(k), k)
    BY <1>2, <1>5
  <2>3. ASSUME NEW i \in Nat, i < k PROVE Upper(k)[i] = f[i]
    <3>1. Upper(i)[i] = Upper(k)[i]
      BY <1>4, <1>5, <2>3
    <3> QED
      BY <3>1
  <2> HIDE DEF f
  <2>4. At(Upper(k), k) = At(f, k)
    BY <1>1, <2>3
  <2> QED
    BY <2>1, <2>2, <2>4
<1>7. f = [k \in Nat |-> At(f, k)]
  BY <1>6
<1> HIDE DEF f
<1> DEFINE F == CHOOSE g : g = [k \in Nat |-> At(g, k)]
<1>8. F = [k \in Nat |-> At(F, k)]
  BY <1>7, Zenon
<1>9. Normal(d, m) = F
  BY Zenon DEF Normal, At
<1> HIDE DEF F
<1>10. F[n] = At(F, n)
  <2> DEFINE same == [k \in Nat |-> At(F, k)]
  <2>1. same[n] = At(F, n)
    OBVIOUS
  <2> QED
    BY <1>8, <2>1, Zenon
<1> QED
  BY <1>9, <1>10 DEF At

\* The same of the schemas that are come to at a depth.
VisitedFromTwo(root, m, n) ==
    Visited(root, m)[n + 2] =
        VisitedNext(DefsOf(root), m, Visited(root, m)[n + 1], Visited(root, m)[n])

LEMMA VisitedIs ==
    ASSUME NEW root, NEW m
    PROVE  /\ Visited(root, m)[0] = {root}
           /\ Visited(root, m)[1] = VisitedNext(DefsOf(root), m, {root}, {})
           /\ \A n \in Nat : VisitedFromTwo(root, m, n)
<1> DEFINE d == DefsOf(root)
           At(g, k) == IF k = 0 THEN {root}
                       ELSE VisitedNext(d, m, g[k - 1], IF k = 1 THEN {} ELSE g[k - 2])
           UpTo(g, k) == g = [i \in 0 .. k |-> At(g, i)]
<1>1. ASSUME NEW g, NEW h, NEW k \in Nat, \A i \in Nat : i < k => g[i] = h[i]
      PROVE  At(g, k) = At(h, k)
  <2>1. CASE k = 0
    BY <2>1
  <2>2. CASE k = 1
    <3>1. g[k - 1] = h[k - 1]
      BY <1>1, <2>2
    <3> QED
      BY <2>2, <3>1
  <2>3. CASE k > 1
    <3>1. k - 1 \in Nat /\ k - 2 \in Nat /\ k - 1 < k /\ k - 2 < k
      BY <2>3
    <3>2. g[k - 1] = h[k - 1] /\ g[k - 2] = h[k - 2]
      BY <1>1, <3>1
    <3> QED
      BY <3>2
  <2> QED
    BY <2>1, <2>2, <2>3
<1> HIDE DEF At
<1>2. ASSUME NEW g, NEW k \in Nat, UpTo(g, k), NEW i \in 0 .. k PROVE g[i] = At(g, i)
  <2> DEFINE same == [j \in 0 .. k |-> At(g, j)]
  <2>1. g = same
    BY <1>2
  <2>2. same[i] = At(g, i)
    OBVIOUS
  <2> QED
    BY <2>1, <2>2, Zenon
<1>3. \A k \in Nat : \E g : UpTo(g, k)
  <2> DEFINE T == {k \in Nat : \E g : UpTo(g, k)}
  <2>1. 0 \in T
    <3> DEFINE g == [i \in 0 .. 0 |-> At(Empty, i)]
    <3>1. At(g, 0) = At(Empty, 0)
      BY <1>1
    <3>2. UpTo(g, 0)
      <4>1. ASSUME NEW i \in 0 .. 0 PROVE At(Empty, i) = At(g, i)
        BY <3>1
      <4> QED
        BY <4>1
    <3> QED
      BY <3>2
  <2>2. ASSUME NEW k \in T PROVE k + 1 \in T
    <3>1. k \in Nat
      OBVIOUS
    <3>2. PICK g : UpTo(g, k)
      BY <2>2
    <3> HIDE DEF T
    <3> DEFINE h == [i \in 0 .. k + 1 |-> At(g, i)]
    <3>3. ASSUME NEW i \in 0 .. k PROVE h[i] = g[i]
      <4>1. h[i] = At(g, i)
        BY <3>1
      <4> QED
        BY <1>2, <3>1, <3>2, <4>1
    <3> HIDE DEF h
    <3>4. ASSUME NEW i \in 0 .. k + 1 PROVE At(g, i) = At(h, i)
      <4>1. \A j \in Nat : j < i => g[j] = h[j]
        BY <3>1, <3>3
      <4> QED
        BY <1>1, <3>1, <4>1
    <3>5. UpTo(h, k + 1)
      BY <3>4 DEF h
    <3> QED
      BY <3>1, <3>5 DEF T
  <2>3. T \subseteq Nat
    OBVIOUS
  <2> HIDE DEF T
  <2>4. \A k \in Nat : k \in T
    BY <2>1, <2>2, <2>3, InductionOnSet
  <2> QED
    BY <2>4 DEF T
<1>4. ASSUME NEW g, NEW h, NEW j \in Nat, NEW k \in Nat, j <= k, UpTo(g, j), UpTo(h, k)
      PROVE  \A i \in 0 .. j : g[i] = h[i]
  <2> DEFINE T == {n_1 \in Nat : \A i \in Nat : i <= n_1 /\ i <= j => g[i] = h[i]}
  <2> HIDE DEF UpTo
  <2>1. 0 \in T
    <3>1. g[0] = At(g, 0) /\ h[0] = At(h, 0)
      BY <1>2, <1>4
    <3>2. At(g, 0) = At(h, 0)
      BY <1>1
    <3> QED
      BY <3>1, <3>2
  <2>2. ASSUME NEW i \in T PROVE i + 1 \in T
    <3>1. i \in Nat /\ \A x \in Nat : x <= i /\ x <= j => g[x] = h[x]
      OBVIOUS
    <3>2. ASSUME i + 1 <= j PROVE g[i + 1] = h[i + 1]
      <4>1. g[i + 1] = At(g, i + 1) /\ h[i + 1] = At(h, i + 1)
        BY <1>2, <1>4, <3>1, <3>2
      <4>2. At(g, i + 1) = At(h, i + 1)
        BY <1>1, <3>1, <3>2
      <4> QED
        BY <4>1, <4>2
    <3>3. ASSUME NEW x \in Nat, x <= i + 1, x <= j PROVE g[x] = h[x]
      BY <3>1, <3>2, <3>3
    <3> QED
      BY <3>1, <3>3
  <2>3. T \subseteq Nat
    OBVIOUS
  <2> HIDE DEF T
  <2>4. j \in T
    BY <2>1, <2>2, <2>3, InductionOnSet
  <2> QED
    BY <2>4 DEF T
<1> DEFINE Upper(k) == CHOOSE g : UpTo(g, k)
           f == [k \in Nat |-> Upper(k)[k]]
<1>5. \A k \in Nat : UpTo(Upper(k), k)
  BY <1>3, Zenon
<1> HIDE DEF Upper, UpTo
<1>6. ASSUME NEW k \in Nat PROVE f[k] = At(f, k)
  <2>1. f[k] = Upper(k)[k]
    OBVIOUS
  <2>2. Upper(k)[k] = At(Upper(k), k)
    BY <1>2, <1>5
  <2>3. ASSUME NEW i \in Nat, i < k PROVE Upper(k)[i] = f[i]
    <3>1. Upper(i)[i] = Upper(k)[i]
      BY <1>4, <1>5, <2>3
    <3> QED
      BY <3>1
  <2> HIDE DEF f
  <2>4. At(Upper(k), k) = At(f, k)
    BY <1>1, <2>3
  <2> QED
    BY <2>1, <2>2, <2>4
<1>7. f = [k \in Nat |-> At(f, k)]
  BY <1>6
<1> HIDE DEF f
<1> DEFINE F == CHOOSE g : g = [k \in Nat |-> At(g, k)]
<1>8. F = [k \in Nat |-> At(F, k)]
  BY <1>7, Zenon
<1>9. Visited(root, m) = F
  BY Zenon DEF Visited, At
<1> HIDE DEF F
<1>10. ASSUME NEW k \in Nat PROVE F[k] = At(F, k)
  <2> DEFINE same == [x \in Nat |-> At(F, x)]
  <2>1. same[k] = At(F, k)
    OBVIOUS
  <2> QED
    BY <1>8, <2>1, Zenon
<1>11. F[0] = {root}
  BY <1>10 DEF At
<1>12. F[1] = VisitedNext(d, m, {root}, {})
  <2>1. F[1] = At(F, 1)
    BY <1>10
  <2>2. At(F, 1) = VisitedNext(d, m, F[0], {})
    BY DEF At
  <2> QED
    BY <1>11, <2>1, <2>2
<1>13. ASSUME NEW n \in Nat PROVE F[n + 2] = VisitedNext(d, m, F[n + 1], F[n])
  <2> DEFINE last == n + 2
  <2>1. last \in Nat /\ last # 0 /\ last # 1 /\ last - 1 = n + 1 /\ last - 2 = n
    OBVIOUS
  <2> HIDE DEF last, d
  <2>2. F[last] = At(F, last)
    BY <1>10, <2>1
  <2>3. At(F, last) = VisitedNext(d, m, F[last - 1], F[last - 2])
    BY <2>1 DEF At
  <2>4. F[last] = VisitedNext(d, m, F[n + 1], F[n])
    BY <2>1, <2>2, <2>3
  <2> QED
    BY <2>4 DEF last
<1> QED
  BY <1>9, <1>11, <1>12, <1>13 DEF VisitedFromTwo

LEMMA NormalAt ==
    ASSUME NEW d, NEW m, NEW n \in Nat, n # 0, NEW s \in Schemas
    PROVE  Normal(d, m)[n][s] =
              NormalNode(s, d, m, n, Normal(d, m)[n - 1],
                         IF n = 1 THEN Empty ELSE Normal(d, m)[n - 2])
<1> DEFINE level == NormalLevel(d, m, n, Normal(d, m)[n - 1],
                                IF n = 1 THEN Empty ELSE Normal(d, m)[n - 2])
<1>1. Normal(d, m)[n] = level
  BY NormalIs
<1>2. level[s] = NormalNode(s, d, m, n, Normal(d, m)[n - 1],
                            IF n = 1 THEN Empty ELSE Normal(d, m)[n - 2])
  BY DEF NormalLevel
<1> QED
  BY <1>1, <1>2, Zenon

LEMMA NormalBeyond ==
    ASSUME NEW d, NEW m, NEW s \in Schemas
    PROVE  Normal(d, m)[0][s] = Empty
<1>1. Normal(d, m)[0] = [x \in Schemas |-> Empty]
  BY NormalIs
<1> QED
  BY <1>1

\* Whoever checks arguments obeys the clients' schemas and what they are
\* rewritten to.
Obeyed(s) == \A e \in TargetMaps : Obeys(s, e)

LEMMA SchemasObeyed == \A s \in Schemas : Obeyed(s)
BY JsonSchemaAssumption, Zenon DEF Obeyed

LEMMA NormalObeyed ==
    ASSUME NEW d \in DefinitionMaps, NEW m \in Modes, NEW s \in Schemas,
           NEW n \in 0 .. DepthLimit + 1
    PROVE  Obeyed(Normal(d, m)[n][s])
<1>1. Normal(d, m)[n][s] \in NormalForms(m)
  BY DEF NormalForms
<1> QED
  BY <1>1, JsonSchemaAssumption, Zenon DEF Obeyed

\* The definitions of a schema, and what is below and beside it, are schemas.
LEMMA BelowTyped ==
    ASSUME NEW s \in Schemas, NEW K
    PROVE  /\ Children(s, DOMAIN s \ K) \subseteq Schemas
           /\ Members(s, DOMAIN s \ K) \subseteq Schemas
           /\ Beside(s) \in Schemas
           /\ \A x \in DOMAIN DefsOf(s) : DefsOf(s)[x] \in Schemas
<1>1. Children(s, DOMAIN s \ K) \subseteq Children(s, DOMAIN s)
  <2>1. {s[k] : k \in SubSchemas \cap (DOMAIN s \ K)} \subseteq {s[k] : k \in SubSchemas \cap DOMAIN s}
    OBVIOUS
  <2>2. UNION {{s[k][p] : p \in DOMAIN s[k]} : k \in SchemaMaps \cap (DOMAIN s \ K)}
            \subseteq UNION {{s[k][p] : p \in DOMAIN s[k]} : k \in SchemaMaps \cap DOMAIN s}
    BY Zenon
  <2> QED
    BY <2>1, <2>2, Zenon DEF Children
<1>2. Members(s, DOMAIN s \ K) \subseteq Members(s, DOMAIN s)
  BY Zenon DEF Members
<1> QED
  BY <1>1, <1>2, SchemasAssumption, Zenon

\* What a schema that is come to leads to is come to, one and two levels below.
LEMMA VisitedSteps ==
    ASSUME NEW root, NEW m, NEW n \in Nat, NEW s \in Visited(root, m)[n]
    PROVE  /\ Nested(s, DefsOf(root), m) \subseteq Visited(root, m)[n + 1]
           /\ Listed(s, DefsOf(root), m) \subseteq Visited(root, m)[n + 2]
<1>1. \E twoAbove :
          Visited(root, m)[n + 1] =
              VisitedNext(DefsOf(root), m, Visited(root, m)[n], twoAbove)
  <2>1. CASE n = 0
    <3>1. /\ Visited(root, m)[0] = {root}
          /\ Visited(root, m)[1] = VisitedNext(DefsOf(root), m, {root}, {})
      BY VisitedIs
    <3>2. n + 1 = 1
      BY <2>1
    <3>3. Visited(root, m)[n + 1] = VisitedNext(DefsOf(root), m, Visited(root, m)[n], {})
      BY <2>1, <3>1, <3>2
    <3> QED
      BY <3>3, Zenon
  <2>2. CASE n # 0
    <3> DEFINE k == n - 1
    <3>1. k \in Nat /\ n + 1 = k + 2 /\ n = k + 1
      BY <2>2
    <3> HIDE DEF k
    <3>2. VisitedFromTwo(root, m, k)
      BY <3>1, VisitedIs
    <3> QED
      BY <3>1, <3>2 DEF VisitedFromTwo
  <2> QED
    BY <2>1, <2>2
<1>2. VisitedFromTwo(root, m, n)
  BY VisitedIs
<1>3. Nested(s, DefsOf(root), m) \subseteq Visited(root, m)[n + 1]
  BY <1>1, Zenon DEF VisitedNext
<1>4. Listed(s, DefsOf(root), m) \subseteq Visited(root, m)[n + 2]
  <2>1. Visited(root, m)[n + 2] =
            VisitedNext(DefsOf(root), m, Visited(root, m)[n + 1], Visited(root, m)[n])
    BY <1>2 DEF VisitedFromTwo
  <2> DEFINE listed == {Listed(x, DefsOf(root), m) : x \in Visited(root, m)[n]}
  <2>2. Visited(root, m)[n + 2] =
            (UNION {Nested(x, DefsOf(root), m) : x \in Visited(root, m)[n + 1]})
                \cup (UNION listed)
    BY <2>1 DEF VisitedNext
  <2>3. Listed(s, DefsOf(root), m) \in listed
    OBVIOUS
  <2> HIDE DEF listed
  <2>4. Listed(s, DefsOf(root), m) \subseteq UNION listed
    BY <2>3
  <2> QED
    BY <2>2, <2>4, Zenon
<1> QED
  BY <1>3, <1>4

LEMMA VisitedTyped ==
    ASSUME NEW root \in Schemas, NEW m
    PROVE  \A n \in Nat : Visited(root, m)[n] \subseteq Schemas
<1> DEFINE V(n) == Visited(root, m)[n]
           T == {k \in Nat : V(k) \subseteq Schemas /\ V(k + 1) \subseteq Schemas}
<1>1. ASSUME NEW above, above \subseteq Schemas, NEW twoAbove, twoAbove \subseteq Schemas
      PROVE  VisitedNext(DefsOf(root), m, above, twoAbove) \subseteq Schemas
  <2>1. ASSUME NEW s \in Schemas
        PROVE  /\ Nested(s, DefsOf(root), m) \subseteq Schemas
               /\ Listed(s, DefsOf(root), m) \subseteq Schemas
    BY BelowTyped DEF Nested, Listed, Resolves
  <2>2. ASSUME NEW x \in above PROVE Nested(x, DefsOf(root), m) \subseteq Schemas
    BY <1>1, <2>1
  <2>3. ASSUME NEW x \in twoAbove PROVE Listed(x, DefsOf(root), m) \subseteq Schemas
    BY <1>1, <2>1
  <2> DEFINE nested == UNION {Nested(s, DefsOf(root), m) : s \in above}
             listed == UNION {Listed(s, DefsOf(root), m) : s \in twoAbove}
  <2>4. nested \subseteq Schemas
    BY <2>2
  <2>5. listed \subseteq Schemas
    BY <2>3
  <2>6. VisitedNext(DefsOf(root), m, above, twoAbove) = nested \cup listed
    BY DEF VisitedNext
  <2> HIDE DEF nested, listed
  <2> QED
    BY <2>4, <2>5, <2>6
<1>2. V(0) \subseteq Schemas /\ V(0 + 1) \subseteq Schemas
  <2>1. V(0) = {root} /\ V(1) = VisitedNext(DefsOf(root), m, {root}, {})
    BY VisitedIs
  <2> HIDE DEF V
  <2>2. V(1) \subseteq Schemas
    BY <1>1, <2>1
  <2> QED
    BY <2>1, <2>2
<1>3. ASSUME NEW k \in Nat, V(k) \subseteq Schemas, V(k + 1) \subseteq Schemas
      PROVE  V((k + 1) + 1) \subseteq Schemas
  <2>1. VisitedFromTwo(root, m, k)
    BY VisitedIs
  <2>2. (k + 1) + 1 = k + 2
    OBVIOUS
  <2>3. V(k + 2) = VisitedNext(DefsOf(root), m, V(k + 1), V(k))
    BY <2>1 DEF VisitedFromTwo
  <2> HIDE DEF V
  <2> QED
    BY <1>1, <1>3, <2>2, <2>3
<1> HIDE DEF V
<1>4. 0 \in T
  BY <1>2
<1>5. ASSUME NEW k \in T PROVE k + 1 \in T
  BY <1>3
<1>6. T \subseteq Nat
  OBVIOUS
<1> HIDE DEF T
<1>7. \A k \in Nat : k \in T
  BY <1>4, <1>5, <1>6, InductionOnSet
<1> QED
  BY <1>7 DEF T, V

-----------------------------------------------------------------------------
\* What a schema's keywords become, whatever becomes of the schemas below it.
LEMMA KeywordKept ==
    ASSUME NEW s, NEW m \in Modes, NEW left, NEW below, NEW members, NEW t,
           t = NormalKeywords(s, m, left, below, members),
           NEW k, k \notin {"const", "nullable", "type", "enum"}
    PROVE  /\ Has(t, k) => Has(s, k)
           /\ Has(s, k) /\ k \notin Dropped(m) => Has(t, k)
           /\ Has(t, k) => t[k] = NormalValue(s, k, left, below, members)
BY Zenon DEF NormalKeywords, KeywordsOf, Has

TypingKept(s, t) ==
    /\ ~Has(t, "bool") /\ ~Has(t, "const") /\ ~Nullable(t)
    /\ Has(t, "type") <=> Has(s, "type")
    /\ Has(t, "type") => t.type = IF Nullable(s) THEN s.type \cup {"null"} ELSE s.type
    /\ Has(t, "enum") <=> (Has(s, "enum") \/ Has(s, "const"))
    /\ Has(t, "enum") => t.enum = IF Has(s, "const") THEN {s.const} ELSE s.enum

LEMMA NormalTyping ==
    ASSUME NEW s, NEW m \in Modes, NEW left, NEW below, NEW members, NEW t,
           t = NormalKeywords(s, m, left, below, members), ~Has(s, "bool"), Typed(s)
    PROVE  TypingKept(s, t)
<1>1. DOMAIN t = KeywordsOf(s, m)
  BY DEF NormalKeywords
<1>2. \A k \in KeywordsOf(s, m) : t[k] = NormalValue(s, k, left, below, members)
  BY DEF NormalKeywords
<1>3. {"type", "enum", "const", "nullable", "bool"} \cap Dropped(m) = {}
  BY DEF Dropped, AlwaysDropped, Annotations
<1>4. /\ "bool" \notin DOMAIN t /\ "const" \notin DOMAIN t /\ "nullable" \notin DOMAIN t
      /\ "type" \in DOMAIN t <=> "type" \in DOMAIN s
      /\ "enum" \in DOMAIN t <=> ("enum" \in DOMAIN s \/ "const" \in DOMAIN s)
  BY <1>1, <1>3 DEF KeywordsOf, Has, Typed
<1>5. NormalValue(s, "type", left, below, members) = IF Nullable(s) THEN NullableType(s) ELSE s.type
  BY DEF NormalValue, SchemaMaps, SubSchemas, SchemaLists
<1>6. NormalValue(s, "enum", left, below, members) = IF Has(s, "const") THEN {s.const} ELSE s.enum
  BY DEF NormalValue, SchemaMaps, SubSchemas, SchemaLists
<1>7. Has(t, "type") /\ Nullable(s) => NullableType(s) = s.type \cup {"null"}
  BY <1>4 DEF NullableType, Has
<1> QED
  BY <1>1, <1>2, <1>4, <1>5, <1>6, <1>7 DEF TypingKept, Has, Nullable

LEMMA ValueOfMap ==
    ASSUME NEW s, NEW left, NEW below, NEW members, NEW k \in SchemaMaps
    PROVE  NormalValue(s, k, left, below, members) = [p \in DOMAIN s[k] |-> below[s[k][p]]]
BY DEF NormalValue, SchemaMaps, SubSchemas, SchemaLists

LEMMA ValueOfSchema ==
    ASSUME NEW s, NEW left, NEW below, NEW members, NEW k \in SubSchemas
    PROVE  NormalValue(s, k, left, below, members) = below[s[k]]
BY DEF NormalValue, SchemaMaps, SubSchemas, SchemaLists

LEMMA ValueOfList ==
    ASSUME NEW s, NEW left, left # 1, NEW below, NEW members, NEW k \in SchemaLists
    PROVE  NormalValue(s, k, left, below, members) = [i \in DOMAIN s[k] |-> members[s[k][i]]]
BY DEF NormalValue, SchemaMaps, SubSchemas, SchemaLists

LEMMA ValueOfOther ==
    ASSUME NEW s, NEW left, NEW below, NEW members,
           NEW k \in {"required", "dependentRequired", "ref"}
    PROVE  NormalValue(s, k, left, below, members) = s[k]
BY DEF NormalValue, SchemaMaps, SubSchemas, SchemaLists

\* A schema whose parts take what they took, of which nothing but annotations
\* was dropped, takes what it took.
LEMMA KeepsObject ==
    ASSUME NEW s, NEW m \in Modes, NEW left, NEW below, NEW members, NEW t,
           t = NormalKeywords(s, m, left, below, members),
           DOMAIN s \cap Dropped(m) \subseteq AlwaysDropped,
           NEW e, NEW v \in Values, v.type = "object",
           \A c \in Children(s, DOMAIN s \ Dropped(m)), w \in Values :
               Accepts(below[c], e, w) <=> Accepts(c, e, w)
    PROVE  AllowsObject(t, e, v) <=> AllowsObject(s, e, v)
<1> DEFINE objectKeywords ==
               {"properties", "required", "additionalProperties", "dependentRequired",
                "dependentSchemas"}
<1>1. \A k \in objectKeywords : Has(t, k) <=> Has(s, k)
  BY KeywordKept DEF AlwaysDropped, Annotations, Has
<1>2. \A k \in objectKeywords : Has(s, k) => k \in DOMAIN s \ Dropped(m)
  BY DEF AlwaysDropped, Annotations, Has
<1>3. \A p \in DOMAIN v.value : v.value[p] \in Values
  BY ValuesAssumption
<1>4. ASSUME Has(s, "properties")
      PROVE  /\ DOMAIN t.properties = DOMAIN s.properties
             /\ \A p \in DOMAIN s.properties, w \in Values :
                    Accepts(t.properties[p], e, w) <=> Accepts(s.properties[p], e, w)
  <2>1. t.properties = [p \in DOMAIN s.properties |-> below[s.properties[p]]]
    BY <1>1, <1>4, KeywordKept, ValueOfMap DEF SchemaMaps
  <2>2. \A p \in DOMAIN s.properties : s.properties[p] \in Children(s, DOMAIN s \ Dropped(m))
    BY <1>2, <1>4 DEF Children, SchemaMaps
  <2> QED
    BY <2>1, <2>2
<1>5. ASSUME Has(s, "dependentSchemas")
      PROVE  /\ DOMAIN t.dependentSchemas = DOMAIN s.dependentSchemas
             /\ \A p \in DOMAIN s.dependentSchemas, w \in Values :
                    Accepts(t.dependentSchemas[p], e, w) <=> Accepts(s.dependentSchemas[p], e, w)
  <2>1. t.dependentSchemas = [p \in DOMAIN s.dependentSchemas |-> below[s.dependentSchemas[p]]]
    BY <1>1, <1>5, KeywordKept, ValueOfMap DEF SchemaMaps
  <2>2. \A p \in DOMAIN s.dependentSchemas :
            s.dependentSchemas[p] \in Children(s, DOMAIN s \ Dropped(m))
    BY <1>2, <1>5 DEF Children, SchemaMaps
  <2> QED
    BY <2>1, <2>2
<1>6. ASSUME Has(s, "additionalProperties")
      PROVE  \A w \in Values : Accepts(t.additionalProperties, e, w) <=>
                               Accepts(s.additionalProperties, e, w)
  <2>1. t.additionalProperties = below[s.additionalProperties]
    BY <1>1, <1>6, KeywordKept, ValueOfSchema DEF SubSchemas
  <2>2. s.additionalProperties \in Children(s, DOMAIN s \ Dropped(m))
    BY <1>2, <1>6 DEF Children, SubSchemas
  <2> QED
    BY <2>1, <2>2
<1>7. Has(s, "required") => t.required = s.required
  BY <1>1, KeywordKept, ValueOfOther
<1>8. Has(s, "dependentRequired") => t.dependentRequired = s.dependentRequired
  BY <1>1, KeywordKept, ValueOfOther
<1>9. /\ Has(t, "properties") <=> Has(s, "properties")
      /\ Has(t, "required") <=> Has(s, "required")
      /\ Has(t, "additionalProperties") <=> Has(s, "additionalProperties")
      /\ Has(t, "dependentRequired") <=> Has(s, "dependentRequired")
      /\ Has(t, "dependentSchemas") <=> Has(s, "dependentSchemas")
  BY <1>1
<1> QED
  BY <1>3, <1>4, <1>5, <1>6, <1>7, <1>8, <1>9 DEF AllowsObject

LEMMA KeepsCombined ==
    ASSUME NEW s, NEW m \in Modes, NEW left, NEW below, NEW members, NEW t,
           t = NormalKeywords(s, m, left, below, members),
           left = 1 => DOMAIN s \cap SchemaLists = {},
           DOMAIN s \cap Dropped(m) \subseteq AlwaysDropped,
           NEW e, NEW v \in Values,
           \A c \in Children(s, DOMAIN s \ Dropped(m)), w \in Values :
               Accepts(below[c], e, w) <=> Accepts(c, e, w),
           \A c \in Members(s, DOMAIN s \ Dropped(m)), w \in Values :
               Accepts(members[c], e, w) <=> Accepts(c, e, w)
    PROVE  AllowsCombined(t, e, v) <=> AllowsCombined(s, e, v)
<1>1. \A k \in SchemaLists \cup SubSchemas \cup {"ref"} : Has(t, k) <=> Has(s, k)
  BY KeywordKept DEF AlwaysDropped, Annotations, Has, SchemaLists, SubSchemas
<1>2. \A k \in SchemaLists \cup SubSchemas : Has(s, k) => k \in DOMAIN s \ Dropped(m)
  BY DEF AlwaysDropped, Annotations, Has, SchemaLists, SubSchemas
<1>3. ASSUME NEW k \in SchemaLists, Has(s, k)
      PROVE  DOMAIN t[k] = DOMAIN s[k] /\ Accepting(t, k, e, v) = Accepting(s, k, e, v)
  <2>1. t[k] = NormalValue(s, k, left, below, members)
    BY <1>1, <1>3, KeywordKept DEF SchemaLists
  <2>2. left # 1
    BY <1>3 DEF Has
  <2>3. t[k] = [i \in DOMAIN s[k] |-> members[s[k][i]]]
    BY <2>1, <2>2, ValueOfList
  <2>4. \A i \in DOMAIN s[k] : s[k][i] \in Members(s, DOMAIN s \ Dropped(m))
    BY <1>2, <1>3 DEF Members
  <2>5. \A i \in DOMAIN s[k] : Accepts(t[k][i], e, v) <=> Accepts(s[k][i], e, v)
    BY <2>3, <2>4
  <2> QED
    BY <2>3, <2>5 DEF Accepting
<1>4. ASSUME NEW k \in SubSchemas, Has(s, k)
      PROVE  Accepts(t[k], e, v) <=> Accepts(s[k], e, v)
  <2>1. t[k] = NormalValue(s, k, left, below, members)
    BY <1>1, <1>4, KeywordKept DEF SubSchemas
  <2>2. t[k] = below[s[k]]
    BY <2>1, ValueOfSchema
  <2>3. s[k] \in Children(s, DOMAIN s \ Dropped(m))
    BY <1>2, <1>4 DEF Children
  <2> QED
    BY <2>2, <2>3
<1>5. Has(s, "ref") => t.ref = s.ref
  BY <1>1, KeywordKept, ValueOfOther
<1>6. /\ Has(t, "allOf") <=> Has(s, "allOf")
      /\ Has(t, "anyOf") <=> Has(s, "anyOf")
      /\ Has(t, "oneOf") <=> Has(s, "oneOf")
      /\ Has(t, "not") <=> Has(s, "not")
      /\ Has(t, "if") <=> Has(s, "if")
      /\ Has(t, "then") <=> Has(s, "then")
      /\ Has(t, "else") <=> Has(s, "else")
      /\ Has(t, "ref") <=> Has(s, "ref")
  BY <1>1 DEF SchemaLists, SubSchemas
<1>7. /\ Has(s, "allOf") => /\ DOMAIN t.allOf = DOMAIN s.allOf
                            /\ Accepting(t, "allOf", e, v) = Accepting(s, "allOf", e, v)
      /\ Has(s, "anyOf") => Accepting(t, "anyOf", e, v) = Accepting(s, "anyOf", e, v)
      /\ Has(s, "oneOf") => Accepting(t, "oneOf", e, v) = Accepting(s, "oneOf", e, v)
  BY <1>3 DEF SchemaLists
<1>8. /\ Has(s, "not") => (Accepts(t.not, e, v) <=> Accepts(s.not, e, v))
      /\ Has(s, "if") => (Accepts(t.if, e, v) <=> Accepts(s.if, e, v))
      /\ Has(s, "then") => (Accepts(t.then, e, v) <=> Accepts(s.then, e, v))
      /\ Has(s, "else") => (Accepts(t.else, e, v) <=> Accepts(s.else, e, v))
  BY <1>4 DEF SubSchemas
<1> QED
  BY <1>5, <1>6, <1>7, <1>8 DEF AllowsCombined

LEMMA KeepsKeywords ==
    ASSUME NEW s, NEW m \in Modes, NEW left, NEW below, NEW members, NEW t,
           t = NormalKeywords(s, m, left, below, members),
           left = 1 => DOMAIN s \cap SchemaLists = {},
           ~Has(s, "bool"), Plain(s, m),
           NEW e, NEW v \in Values,
           \A c \in Children(s, DOMAIN s \ Dropped(m)), w \in Values :
               Accepts(below[c], e, w) <=> Accepts(c, e, w),
           \A c \in Members(s, DOMAIN s \ Dropped(m)), w \in Values :
               Accepts(members[c], e, w) <=> Accepts(c, e, w)
    PROVE  Allows(t, e, v) <=> Allows(s, e, v)
<1>1. DOMAIN s \cap Dropped(m) \subseteq AlwaysDropped
  BY DEF Plain
<1>2. /\ ~Has(t, "bool") /\ ~Has(t, "const") /\ ~Nullable(t)
      /\ Has(t, "type") <=> Has(s, "type")
      /\ Has(t, "type") => t.type = IF Nullable(s) THEN s.type \cup {"null"} ELSE s.type
      /\ Has(t, "enum") <=> (Has(s, "enum") \/ Has(s, "const"))
      /\ Has(t, "enum") => t.enum = IF Has(s, "const") THEN {s.const} ELSE s.enum
  <2>1. Typed(s)
    BY DEF Plain
  <2> QED
    BY <2>1, NormalTyping DEF TypingKept
<1>3. (Has(t, "type") => v.type \in t.type \/ (v.type = "null" /\ Nullable(t))) <=>
      (Has(s, "type") => v.type \in s.type \/ (v.type = "null" /\ Nullable(s)))
  BY <1>2
<1>4. (Has(t, "enum") => v \in t.enum) /\ (Has(t, "const") => v = t.const) <=>
      (Has(s, "enum") => v \in s.enum) /\ (Has(s, "const") => v = s.const)
  BY <1>2 DEF Plain
<1>5. v.type = "object" => (AllowsObject(t, e, v) <=> AllowsObject(s, e, v))
  BY <1>1, KeepsObject
<1>6. AllowsCombined(t, e, v) <=> AllowsCombined(s, e, v)
  BY <1>1, KeepsCombined
<1>7. ASSUME v.type = "array"
      PROVE  (Has(t, "items") => \A i \in DOMAIN v.value : Accepts(t.items, e, v.value[i])) <=>
             (Has(s, "items") => \A i \in DOMAIN v.value : Accepts(s.items, e, v.value[i]))
  <2>1. Has(t, "items") <=> Has(s, "items")
    BY <1>1, KeywordKept DEF AlwaysDropped, Annotations, Has
  <2>2. ASSUME Has(s, "items") PROVE t.items = below[s.items]
    BY <2>1, <2>2, KeywordKept, ValueOfSchema DEF SubSchemas
  <2>3. ASSUME Has(s, "items") PROVE s.items \in Children(s, DOMAIN s \ Dropped(m))
    BY <1>1, <2>3 DEF Children, SubSchemas, AlwaysDropped, Annotations, Has
  <2>4. \A i \in DOMAIN v.value : v.value[i] \in Values
    BY <1>7, ValuesAssumption
  <2> QED
    BY <2>1, <2>2, <2>3, <2>4
<1> QED
  BY <1>2, <1>3, <1>4, <1>5, <1>6, <1>7 DEF Allows

LEMMA EmptyTakesAll ==
    ASSUME NEW e \in TargetMaps, NEW v \in Values
    PROVE  Accepts(Empty, e, v)
<1>1. \A k : ~Has(Empty, k)
  BY DEF Empty, Has
<1>2. Allows(Empty, e, v)
  BY <1>1 DEF Allows, AllowsObject, AllowsCombined
<1>3. Obeyed(Empty)
  BY SchemasAssumption, SchemasObeyed
<1> QED
  BY <1>2, <1>3 DEF Obeyed, Obeys

\* A boolean schema becomes one without keywords, or one that takes nothing.
LEMMA BoolKept ==
    ASSUME NEW s \in Schemas, Has(s, "bool"), NEW t, Obeyed(t),
           t = IF s.bool THEN Empty ELSE [not |-> Empty],
           NEW d \in TargetMaps, NEW e \in TargetMaps, NEW v \in Values
    PROVE  Accepts(t, e, v) <=> Accepts(s, d, v)
<1>1. Accepts(s, d, v) <=> s.bool
  <2>1. Obeyed(s)
    BY SchemasObeyed
  <2>2. Accepts(s, d, v) <=> Allows(s, d, v)
    BY <2>1 DEF Obeyed, Obeys
  <2> QED
    BY <2>2 DEF Allows
<1>2. CASE s.bool
  <2>1. t = Empty
    BY <1>2
  <2> QED
    BY <1>1, <1>2, <2>1, EmptyTakesAll
<1>3. CASE ~s.bool
  <2>1. t = [not |-> Empty]
    BY <1>3
  <2>2. Has(t, "not") /\ t.not = Empty /\ ~Has(t, "bool")
    BY <2>1 DEF Has
  <2>3. ~AllowsCombined(t, e, v)
    BY <2>2, EmptyTakesAll DEF AllowsCombined
  <2>4. ~Allows(t, e, v)
    BY <2>2, <2>3 DEF Allows
  <2>5. ~Accepts(t, e, v)
    BY <2>4 DEF Obeyed, Obeys
  <2> QED
    BY <1>1, <1>3, <2>5
<1> QED
  BY <1>2, <1>3

LEMMA KeepsNode ==
    ASSUME NEW root \in Schemas, NEW m \in Modes, NothingCut(root, m),
           \A s \in Visits(root, m) : Plain(s, m)
    PROVE  \A s \in Visited(root, m)[0], e \in TargetMaps, v \in Values :
               Accepts(Normal(DefsOf(root), m)[DepthLimit + 1][s], e, v) <=> Accepts(s, e, v)
<1> DEFINE d == DefsOf(root)
           Come(n) == Visited(root, m)[(DepthLimit + 1) - n]
           KeepsAt(n) == \A s \in Come(n), e \in TargetMaps, v \in Values :
                             Accepts(Normal(d, m)[n][s], e, v) <=> Accepts(s, e, v)
           Keeps(n) == n <= DepthLimit + 1 => KeepsAt(n)
           T == {n \in Nat : Keeps(n) /\ Keeps(n + 1)}
<1>0. DepthLimit \in Nat /\ d \in DefinitionMaps
  BY SchemasAssumption DEF DefinitionMaps
<1> HIDE DEF d
<1>1. Keeps(0)
  <2>1. (DepthLimit + 1) - 0 = DepthLimit + 1
    BY <1>0
  <2>2. Come(0) = {}
    BY <2>1 DEF NothingCut
  <2> QED
    BY <2>2
<1>2. ASSUME NEW n \in Nat, n # 0, Keeps(n - 1), n = 1 \/ Keeps(n - 2)
      PROVE  Keeps(n)
  <2> SUFFICES ASSUME n <= DepthLimit + 1, NEW s \in Come(n),
                      NEW e \in TargetMaps, NEW v \in Values
               PROVE  Accepts(Normal(d, m)[n][s], e, v) <=> Accepts(s, e, v)
    OBVIOUS
  <2> DEFINE depth == (DepthLimit + 1) - n
             below == Normal(d, m)[n - 1]
             members == IF n = 1 THEN Empty ELSE Normal(d, m)[n - 2]
             t == Normal(d, m)[n][s]
  <2>1. depth \in 0 .. DepthLimit /\ depth \in Nat /\ n \in 0 .. DepthLimit + 1
    BY <1>0, <1>2
  <2>2. s \in Visited(root, m)[depth]
    OBVIOUS
  <2>3. s \in Schemas /\ Plain(s, m)
    <3>1. s \in Visits(root, m)
      BY <2>1, <2>2 DEF Visits
    <3> QED
      BY <2>1, <2>2, <3>1, VisitedTyped
  <2>4. t = NormalNode(s, d, m, n, below, members)
    BY <1>2, <2>3, NormalAt
  <2>5. Obeyed(t) /\ Obeyed(s)
    BY <1>0, <2>1, <2>3, NormalObeyed, SchemasObeyed
  <2> HIDE DEF t
  <2>6. CASE Has(s, "bool")
    <3>1. t = IF s.bool THEN Empty ELSE [not |-> Empty]
      BY <2>4, <2>6 DEF NormalNode
    <3>2. Accepts(t, e, v) <=> Accepts(s, e, v)
      BY <2>3, <2>5, <2>6, <3>1, BoolKept
    <3> QED
      BY <3>2 DEF t
  <2>7. CASE ~Has(s, "bool")
    <3>1. ~Resolves(s, d, m)
      BY <2>3 DEF Plain, Resolves, Dropped, AlwaysDropped, Annotations, Has
    <3>2. t = NormalKeywords(s, m, n, below, members)
      BY <2>4, <2>7, <3>1 DEF NormalNode
    <3>3. n = 1 => DOMAIN s \cap SchemaLists = {}
      BY <1>0, <2>2 DEF NothingCut, NoListCut
    <3>4. ASSUME NEW c \in Children(s, DOMAIN s \ Dropped(m)), NEW w \in Values
          PROVE  Accepts(below[c], e, w) <=> Accepts(c, e, w)
      <4>1. c \in Visited(root, m)[depth + 1]
        <5>1. Nested(s, d, m) = Children(s, DOMAIN s \ Dropped(m))
          BY <3>1 DEF Nested
        <5> QED
          BY <2>1, <2>2, <5>1, VisitedSteps DEF d
      <4>2. depth + 1 = (DepthLimit + 1) - (n - 1) /\ n - 1 <= DepthLimit + 1
        BY <1>0
      <4>3. c \in Come(n - 1)
        BY <4>1, <4>2
      <4> QED
        BY <1>2, <4>2, <4>3
    <3>5. ASSUME NEW c \in Members(s, DOMAIN s \ Dropped(m)), NEW w \in Values
          PROVE  Accepts(members[c], e, w) <=> Accepts(c, e, w)
      <4>1. n # 1
        BY <3>3 DEF Members
      <4>2. c \in Visited(root, m)[depth + 2]
        <5>1. Listed(s, d, m) = Members(s, DOMAIN s \ Dropped(m))
          BY <3>1 DEF Listed
        <5> QED
          BY <2>1, <2>2, <5>1, VisitedSteps DEF d
      <4>3. depth + 2 = (DepthLimit + 1) - (n - 2) /\ n - 2 <= DepthLimit + 1
        BY <1>0
      <4>4. c \in Come(n - 2) /\ members = Normal(d, m)[n - 2]
        BY <4>1, <4>2, <4>3
      <4>5. KeepsAt(n - 2)
        BY <1>2, <4>1, <4>3
      <4> QED
        BY <4>4, <4>5
    <3> HIDE DEF below, members, depth, Come, KeepsAt, Keeps, T
    <3>6. Allows(t, e, v) <=> Allows(s, e, v)
      BY <2>3, <2>7, <3>2, <3>3, <3>4, <3>5, KeepsKeywords
    <3>7. Obeys(t, e) /\ Obeys(s, e)
      BY <2>5 DEF Obeyed
    <3>8. Accepts(t, e, v) <=> Accepts(s, e, v)
      BY <3>6, <3>7 DEF Obeys
    <3> QED
      BY <3>8 DEF t
  <2> QED
    BY <2>6, <2>7
<1> HIDE DEF Keeps
<1>3. 0 \in T
  <2>1. Keeps(1)
    BY <1>1, <1>2
  <2> QED
    BY <1>1, <2>1
<1>4. ASSUME NEW n \in T PROVE n + 1 \in T
  <2>1. n \in Nat /\ Keeps(n) /\ Keeps(n + 1)
    OBVIOUS
  <2> DEFINE next == n + 2
  <2>2. next \in Nat /\ next # 0 /\ next - 1 = n + 1 /\ next - 2 = n /\ next = (n + 1) + 1
    BY <2>1
  <2> HIDE DEF next
  <2>3. Keeps(next)
    BY <1>2, <2>1, <2>2
  <2> QED
    BY <2>1, <2>2, <2>3
<1>5. T \subseteq Nat
  OBVIOUS
<1> HIDE DEF T
<1>6. \A n \in Nat : n \in T
  BY <1>3, <1>4, <1>5, InductionOnSet
<1>7. Keeps(DepthLimit + 1)
  BY <1>0, <1>6 DEF T
<1>8. (DepthLimit + 1) - (DepthLimit + 1) = 0
  BY <1>0
<1>9. KeepsAt(DepthLimit + 1)
  BY <1>0, <1>7 DEF Keeps
<1> QED
  BY <1>8, <1>9 DEF d

-----------------------------------------------------------------------------
\* A schema whose parts take at least what they took takes at least what it
\* took, unless leaving something out below it forbids.
LEMMA LoosensObject ==
    ASSUME NEW s, NEW m \in Modes, NEW left, NEW below, NEW members, NEW t,
           t = NormalKeywords(s, m, left, below, members),
           NEW d, NEW e, NEW v \in Values, v.type = "object",
           \A c \in Children(s, DOMAIN s \ Dropped(m)), w \in Values :
               Accepts(c, d, w) => Accepts(below[c], e, w),
           AllowsObject(s, d, v)
    PROVE  AllowsObject(t, e, v)
<1>1. /\ Has(t, "properties") <=> Has(s, "properties")
      /\ Has(t, "required") => Has(s, "required")
      /\ Has(t, "additionalProperties") => Has(s, "additionalProperties")
      /\ Has(t, "dependentRequired") => Has(s, "dependentRequired")
      /\ Has(t, "dependentSchemas") => Has(s, "dependentSchemas")
  BY KeywordKept DEF Dropped, AlwaysDropped, Annotations, Has
<1>2. \A k \in DOMAIN t : k \notin Dropped(m)
  BY DEF NormalKeywords, KeywordsOf, Dropped, AlwaysDropped, Annotations
<1>3. \A p \in DOMAIN v.value : v.value[p] \in Values
  BY ValuesAssumption
<1>4. ASSUME NEW k \in SchemaMaps, Has(t, k), Has(s, k)
      PROVE  /\ DOMAIN t[k] = DOMAIN s[k]
             /\ \A p \in DOMAIN s[k], w \in Values :
                    Accepts(s[k][p], d, w) => Accepts(t[k][p], e, w)
  <2>1. t[k] = NormalValue(s, k, left, below, members)
    BY <1>4, KeywordKept DEF SchemaMaps
  <2>2. t[k] = [p \in DOMAIN s[k] |-> below[s[k][p]]]
    BY <2>1, ValueOfMap
  <2>3. \A p \in DOMAIN s[k] : s[k][p] \in Children(s, DOMAIN s \ Dropped(m))
    <3>1. k \in SchemaMaps \cap (DOMAIN s \ Dropped(m))
      BY <1>2, <1>4 DEF Has
    <3> QED
      BY <3>1 DEF Children
  <2> QED
    BY <2>2, <2>3
<1>5. ASSUME Has(t, "additionalProperties")
      PROVE  \A w \in Values : Accepts(s.additionalProperties, d, w) =>
                               Accepts(t.additionalProperties, e, w)
  <2>1. t.additionalProperties = below[s.additionalProperties]
    BY <1>1, <1>5, KeywordKept, ValueOfSchema DEF SubSchemas
  <2>2. s.additionalProperties \in Children(s, DOMAIN s \ Dropped(m))
    BY <1>1, <1>2, <1>5 DEF Children, SubSchemas, Has
  <2> QED
    BY <2>1, <2>2
<1>6. Has(t, "required") => t.required = s.required
  BY KeywordKept, ValueOfOther
<1>7. Has(t, "dependentRequired") => t.dependentRequired = s.dependentRequired
  BY KeywordKept, ValueOfOther
<1>8. /\ Has(t, "properties") =>
             /\ DOMAIN t.properties = DOMAIN s.properties
             /\ \A p \in DOMAIN s.properties, w \in Values :
                    Accepts(s.properties[p], d, w) => Accepts(t.properties[p], e, w)
      /\ Has(t, "dependentSchemas") =>
             /\ DOMAIN t.dependentSchemas = DOMAIN s.dependentSchemas
             /\ \A p \in DOMAIN s.dependentSchemas, w \in Values :
                    Accepts(s.dependentSchemas[p], d, w) => Accepts(t.dependentSchemas[p], e, w)
  BY <1>1, <1>4 DEF SchemaMaps
<1> QED
  BY <1>1, <1>3, <1>5, <1>6, <1>7, <1>8 DEF AllowsObject

LEMMA LoosensCombined ==
    ASSUME NEW s, NEW left, NEW below, NEW members, NEW t,
           t = NormalKeywords(s, "fallback", left, below, members),
           left = 1 => DOMAIN s \cap SchemaLists = {}, DOMAIN s \cap Inverting = {},
           NEW d, NEW e, NEW v \in Values,
           \A c \in Members(s, DOMAIN s \ Dropped("fallback")), w \in Values :
               Accepts(c, d, w) => Accepts(members[c], e, w),
           AllowsCombined(s, d, v)
    PROVE  AllowsCombined(t, e, v)
<1>1. "fallback" \in Modes
  BY DEF Modes
<1>2. /\ Has(t, "allOf") => Has(s, "allOf")
      /\ Has(t, "anyOf") => Has(s, "anyOf")
      /\ ~Has(t, "oneOf") /\ ~Has(t, "not") /\ ~Has(t, "if")
  BY <1>1, KeywordKept DEF Has, Inverting
<1>3. \A k \in DOMAIN t : k \notin Dropped("fallback")
  BY DEF NormalKeywords, KeywordsOf, Dropped, AlwaysDropped, Annotations
<1>4. ~Has(t, "ref")
  BY <1>3 DEF Dropped, Has
<1>5. ASSUME NEW k \in SchemaLists, Has(t, k), Has(s, k)
      PROVE  DOMAIN t[k] = DOMAIN s[k] /\ Accepting(s, k, d, v) \subseteq Accepting(t, k, e, v)
  <2>1. t[k] = NormalValue(s, k, left, below, members)
    BY <1>1, <1>5, KeywordKept DEF SchemaLists
  <2>2. left # 1
    BY <1>5 DEF Has
  <2>3. t[k] = [i \in DOMAIN s[k] |-> members[s[k][i]]]
    BY <2>1, <2>2, ValueOfList
  <2>4. \A i \in DOMAIN s[k] : s[k][i] \in Members(s, DOMAIN s \ Dropped("fallback"))
    <3>1. k \in SchemaLists \cap (DOMAIN s \ Dropped("fallback"))
      BY <1>3, <1>5 DEF Has
    <3> QED
      BY <3>1 DEF Members
  <2>5. \A i \in DOMAIN s[k] : Accepts(s[k][i], d, v) => Accepts(t[k][i], e, v)
    BY <2>3, <2>4
  <2> QED
    BY <2>3, <2>5 DEF Accepting
<1>6. Has(t, "allOf") => Accepting(t, "allOf", e, v) = DOMAIN t.allOf
  <2> SUFFICES ASSUME Has(t, "allOf") PROVE Accepting(t, "allOf", e, v) = DOMAIN t.allOf
    OBVIOUS
  <2>1. /\ DOMAIN t.allOf = DOMAIN s.allOf
        /\ Accepting(s, "allOf", d, v) \subseteq Accepting(t, "allOf", e, v)
    BY <1>2, <1>5 DEF SchemaLists
  <2>2. Accepting(s, "allOf", d, v) = DOMAIN s.allOf
    BY <1>2 DEF AllowsCombined
  <2>3. Accepting(t, "allOf", e, v) \subseteq DOMAIN t.allOf
    BY DEF Accepting
  <2> QED
    BY <2>1, <2>2, <2>3
<1>7. Has(t, "anyOf") => Accepting(t, "anyOf", e, v) # {}
  <2> SUFFICES ASSUME Has(t, "anyOf") PROVE Accepting(t, "anyOf", e, v) # {}
    OBVIOUS
  <2>1. Accepting(s, "anyOf", d, v) \subseteq Accepting(t, "anyOf", e, v)
    BY <1>2, <1>5 DEF SchemaLists
  <2>2. Accepting(s, "anyOf", d, v) # {}
    BY <1>2 DEF AllowsCombined
  <2> QED
    BY <2>1, <2>2
<1> QED
  BY <1>2, <1>4, <1>6, <1>7 DEF AllowsCombined

LEMMA LoosensKeywords ==
    ASSUME NEW s, NEW left, NEW below, NEW members, NEW t,
           t = NormalKeywords(s, "fallback", left, below, members),
           left = 1 => DOMAIN s \cap SchemaLists = {}, DOMAIN s \cap Inverting = {},
           ~Has(s, "bool"), Typed(s),
           NEW d, NEW e, NEW v \in Values,
           \A c \in Children(s, DOMAIN s \ Dropped("fallback")), w \in Values :
               Accepts(c, d, w) => Accepts(below[c], e, w),
           \A c \in Members(s, DOMAIN s \ Dropped("fallback")), w \in Values :
               Accepts(c, d, w) => Accepts(members[c], e, w),
           Allows(s, d, v)
    PROVE  Allows(t, e, v)
<1>0. "fallback" \in Modes
  BY DEF Modes
<1>1. /\ ~Has(t, "bool") /\ ~Has(t, "const") /\ ~Nullable(t)
      /\ Has(t, "type") <=> Has(s, "type")
      /\ Has(t, "type") => t.type = IF Nullable(s) THEN s.type \cup {"null"} ELSE s.type
      /\ Has(t, "enum") <=> (Has(s, "enum") \/ Has(s, "const"))
      /\ Has(t, "enum") => t.enum = IF Has(s, "const") THEN {s.const} ELSE s.enum
  BY <1>0, NormalTyping DEF TypingKept
<1>2. /\ Has(s, "type") => v.type \in s.type \/ (v.type = "null" /\ Nullable(s))
      /\ Has(s, "enum") => v \in s.enum
      /\ Has(s, "const") => v = s.const
      /\ v.type = "object" => AllowsObject(s, d, v)
      /\ v.type = "array" /\ Has(s, "items") =>
             \A i \in DOMAIN v.value : Accepts(s.items, d, v.value[i])
      /\ AllowsCombined(s, d, v)
  BY DEF Allows
<1>3. Has(t, "type") => v.type \in t.type
  BY <1>1, <1>2
<1>4. Has(t, "enum") => v \in t.enum
  BY <1>1, <1>2
<1>5. v.type = "object" => AllowsObject(t, e, v)
  BY <1>0, <1>2, LoosensObject
<1>6. AllowsCombined(t, e, v)
  BY <1>2, LoosensCombined
<1>7. ASSUME v.type = "array", Has(t, "items"), NEW i \in DOMAIN v.value
      PROVE  Accepts(t.items, e, v.value[i])
  <2>1. Has(s, "items") /\ t.items = below[s.items]
    BY <1>0, <1>7, KeywordKept, ValueOfSchema DEF SubSchemas
  <2>2. s.items \in Children(s, DOMAIN s \ Dropped("fallback"))
    BY <2>1 DEF Children, SubSchemas, Dropped, AlwaysDropped, Annotations, Has
  <2>3. v.value[i] \in Values
    BY <1>7, ValuesAssumption
  <2>4. Accepts(s.items, d, v.value[i])
    BY <1>2, <1>7, <2>1
  <2> QED
    BY <2>1, <2>2, <2>3, <2>4
<1> QED
  BY <1>1, <1>3, <1>4, <1>5, <1>6, <1>7 DEF Allows

\* What a schema with a reference takes, what stands beside the reference takes.
LEMMA BesideAllows ==
    ASSUME NEW s, ~Has(s, "bool"), NEW d, NEW v, Allows(s, d, v)
    PROVE  Allows(Beside(s), d, v)
<1> DEFINE b == Beside(s)
<1>1. ~Has(b, "ref") /\ \A k : k # "ref" => (Has(b, k) <=> Has(s, k))
  BY DEF Beside, Has
<1>2. \A k : Has(b, k) => b[k] = s[k]
  BY DEF Beside, Has
<1> HIDE DEF b
<1>3. Nullable(b) <=> Nullable(s)
  BY <1>1, <1>2 DEF Nullable
<1>4. v.type = "object" => AllowsObject(b, d, v)
  BY <1>1, <1>2 DEF Allows, AllowsObject
<1>5. AllowsCombined(b, d, v)
  BY <1>1, <1>2 DEF Allows, AllowsCombined, Accepting
<1>6. Allows(b, d, v)
  BY <1>1, <1>2, <1>3, <1>4, <1>5 DEF Allows
<1> QED
  BY <1>6 DEF b

LEMMA AllOfTwo ==
    ASSUME NEW x, NEW y, NEW e, NEW v, Accepts(x, e, v), Accepts(y, e, v)
    PROVE  Allows([allOf |-> <<x, y>>], e, v)
<1> DEFINE t == [allOf |-> <<x, y>>]
<1>1. t.allOf = <<x, y>> /\ \A k : Has(t, k) <=> k = "allOf"
  BY DEF Has
<1>2. DOMAIN t.allOf = {1, 2} /\ t.allOf[1] = x /\ t.allOf[2] = y
  BY <1>1
<1>3. Accepting(t, "allOf", e, v) = DOMAIN t.allOf
  BY <1>2 DEF Accepting
<1> HIDE DEF t
<1>4. AllowsCombined(t, e, v)
  BY <1>1, <1>3 DEF AllowsCombined
<1>5. Allows(t, e, v)
  BY <1>1, <1>4 DEF Allows, AllowsObject
<1> QED
  BY <1>5 DEF t

LEMMA LoosensNode ==
    ASSUME NEW root \in Schemas, NoListCut(root, "fallback"),
           \A s \in Visits(root, "fallback") : Typed(s) /\ DOMAIN s \cap Inverting = {},
           NEW g \in TargetMaps,
           \A n \in DOMAIN DefsOf(root) : n \in DOMAIN g /\ g[n] = DefsOf(root)[n]
    PROVE  \A s \in Visited(root, "fallback")[0], e \in TargetMaps, v \in Values :
               Accepts(s, g, v) =>
                   Accepts(Normal(DefsOf(root), "fallback")[DepthLimit + 1][s], e, v)
<1> DEFINE m == "fallback"
           d == DefsOf(root)
           Come(n) == Visited(root, m)[(DepthLimit + 1) - n]
           LoosensAt(n) == \A s \in Come(n), e \in TargetMaps, v \in Values :
                               Accepts(s, g, v) => Accepts(Normal(d, m)[n][s], e, v)
           Loosens(n) == n <= DepthLimit + 1 => LoosensAt(n)
           T == {n \in Nat : Loosens(n) /\ Loosens(n + 1)}
<1>0. /\ DepthLimit \in Nat /\ d \in DefinitionMaps /\ m \in Modes
      /\ \A x \in DOMAIN d : x \in DOMAIN g /\ g[x] = d[x]
  BY SchemasAssumption DEF DefinitionMaps, Modes
<1> HIDE DEF d
<1>1. Loosens(0)
  <2> SUFFICES ASSUME NEW s \in Come(0), NEW e \in TargetMaps, NEW v \in Values
               PROVE  Accepts(Normal(d, m)[0][s], e, v)
    OBVIOUS
  <2>1. (DepthLimit + 1) - 0 \in Nat
    BY <1>0
  <2>2. s \in Schemas
    BY <2>1, VisitedTyped
  <2>3. Normal(d, m)[0][s] = Empty
    BY <2>2, NormalBeyond
  <2>4. Accepts(Empty, e, v)
    BY EmptyTakesAll
  <2> QED
    BY <2>3, <2>4
<1>2. ASSUME NEW n \in Nat, n # 0, Loosens(n - 1), n = 1 \/ Loosens(n - 2)
      PROVE  Loosens(n)
  <2> SUFFICES ASSUME n <= DepthLimit + 1, NEW s \in Come(n),
                      NEW e \in TargetMaps, NEW v \in Values, Accepts(s, g, v)
               PROVE  Accepts(Normal(d, m)[n][s], e, v)
    OBVIOUS
  <2> DEFINE depth == (DepthLimit + 1) - n
             below == Normal(d, m)[n - 1]
             members == IF n = 1 THEN Empty ELSE Normal(d, m)[n - 2]
             t == Normal(d, m)[n][s]
  <2>1. depth \in 0 .. DepthLimit /\ depth \in Nat /\ n \in 0 .. DepthLimit + 1
    BY <1>0, <1>2
  <2>2. s \in Visited(root, m)[depth]
    OBVIOUS
  <2>3. s \in Schemas /\ Typed(s) /\ DOMAIN s \cap Inverting = {}
    <3>1. s \in Visits(root, m)
      BY <2>1, <2>2 DEF Visits
    <3> QED
      BY <2>1, <2>2, <3>1, VisitedTyped
  <2>4. t = NormalNode(s, d, m, n, below, members)
    BY <1>2, <2>3, NormalAt
  <2>5. Obeyed(t) /\ Obeyed(s)
    BY <1>0, <2>1, <2>3, NormalObeyed, SchemasObeyed
  <2>6. Allows(s, g, v)
    BY <1>0, <2>5 DEF Obeyed, Obeys
  <2>7. ASSUME NEW c \in Nested(s, d, m), NEW w \in Values, Accepts(c, g, w)
        PROVE  Accepts(below[c], e, w)
    <3>1. c \in Visited(root, m)[depth + 1]
      BY <2>1, <2>2, <2>7, VisitedSteps DEF d
    <3>2. depth + 1 = (DepthLimit + 1) - (n - 1) /\ n - 1 <= DepthLimit + 1
      BY <1>0
    <3>3. c \in Come(n - 1)
      BY <3>1, <3>2
    <3> QED
      BY <1>2, <2>7, <3>2, <3>3
  <2>8. ASSUME n # 1, NEW c \in Listed(s, d, m), NEW w \in Values, Accepts(c, g, w)
        PROVE  Accepts(members[c], e, w)
    <3>1. c \in Visited(root, m)[depth + 2]
      BY <2>1, <2>2, <2>8, VisitedSteps DEF d
    <3>2. depth + 2 = (DepthLimit + 1) - (n - 2) /\ n - 2 <= DepthLimit + 1
      BY <1>0
    <3>3. c \in Come(n - 2) /\ members = Normal(d, m)[n - 2]
      BY <2>8, <3>1, <3>2
    <3>4. LoosensAt(n - 2)
      BY <1>2, <2>8, <3>2
    <3> QED
      BY <2>8, <3>3, <3>4
  <2> HIDE DEF t, below
  <2>9. CASE Has(s, "bool")
    <3>1. t = IF s.bool THEN Empty ELSE [not |-> Empty]
      BY <2>4, <2>9 DEF NormalNode
    <3>2. Accepts(t, e, v) <=> Accepts(s, g, v)
      BY <1>0, <2>3, <2>5, <2>9, <3>1, BoolKept
    <3> QED
      BY <3>2 DEF t
  <2>10. CASE ~Has(s, "bool") /\ Resolves(s, d, m)
    <3> DEFINE definition == d[s.ref]
               beside == Beside(s)
    <3>1. t = Resolution(s, d, below)
      BY <2>4, <2>10 DEF NormalNode
    <3>2. definition \in Nested(s, d, m) /\ beside \in Nested(s, d, m)
      BY <2>10 DEF Nested
    <3>3. Accepts(definition, g, v)
      <4>1. s.ref \in DOMAIN g /\ g[s.ref] = definition
        BY <1>0, <2>10 DEF Resolves
      <4> QED
        BY <2>6, <2>10, <4>1 DEF Allows, AllowsCombined, Resolves
    <3>4. Accepts(below[definition], e, v)
      BY <2>7, <3>2, <3>3
    <3>5. Accepts(below[beside], e, v)
      <4>1. Allows(beside, g, v)
        BY <2>6, <2>10, BesideAllows
      <4>2. Obeyed(beside)
        BY <2>3, SchemasAssumption, SchemasObeyed
      <4>3. Accepts(beside, g, v)
        BY <1>0, <4>1, <4>2 DEF Obeyed, Obeys
      <4> QED
        BY <2>7, <3>2, <4>3
    <3>6. t = below[definition] \/ t = [allOf |-> <<below[definition], below[beside]>>]
      BY <3>1 DEF Resolution
    <3> HIDE DEF definition, beside
    <3>7. CASE t = below[definition]
      BY <3>4, <3>7 DEF t
    <3>8. CASE t = [allOf |-> <<below[definition], below[beside]>>]
      <4>1. Allows(t, e, v)
        BY <3>4, <3>5, <3>8, AllOfTwo
      <4>2. Accepts(t, e, v)
        BY <2>5, <4>1 DEF Obeyed, Obeys
      <4> QED
        BY <4>2 DEF t
    <3> QED
      BY <3>6, <3>7, <3>8
  <2>11. CASE ~Has(s, "bool") /\ ~Resolves(s, d, m)
    <3>1. t = NormalKeywords(s, m, n, below, members)
      BY <2>4, <2>11 DEF NormalNode
    <3>2. n = 1 => DOMAIN s \cap SchemaLists = {}
      BY <1>0, <2>2 DEF NoListCut
    <3>3. ASSUME NEW c \in Children(s, DOMAIN s \ Dropped(m)), NEW w \in Values, Accepts(c, g, w)
          PROVE  Accepts(below[c], e, w)
      BY <2>7, <2>11, <3>3 DEF Nested
    <3>4. ASSUME NEW c \in Members(s, DOMAIN s \ Dropped(m)), NEW w \in Values, Accepts(c, g, w)
          PROVE  Accepts(members[c], e, w)
      <4>1. n # 1
        BY <3>2 DEF Members
      <4>2. c \in Listed(s, d, m)
        BY <2>11 DEF Listed
      <4> QED
        BY <2>8, <3>4, <4>1, <4>2
    <3> HIDE DEF members
    <3>5. Allows(t, e, v)
      BY <2>3, <2>6, <2>11, <3>1, <3>2, <3>3, <3>4, LoosensKeywords
    <3>6. Accepts(t, e, v)
      BY <2>5, <3>5 DEF Obeyed, Obeys
    <3> QED
      BY <3>6 DEF t
  <2> QED
    BY <2>9, <2>10, <2>11
<1> HIDE DEF Loosens
<1>3. 0 \in T
  <2>1. Loosens(1)
    BY <1>1, <1>2
  <2> QED
    BY <1>1, <2>1
<1>4. ASSUME NEW n \in T PROVE n + 1 \in T
  <2>1. n \in Nat /\ Loosens(n) /\ Loosens(n + 1)
    OBVIOUS
  <2> DEFINE next == n + 2
  <2>2. next \in Nat /\ next # 0 /\ next - 1 = n + 1 /\ next - 2 = n /\ next = (n + 1) + 1
    BY <2>1
  <2> HIDE DEF next
  <2>3. Loosens(next)
    BY <1>2, <2>1, <2>2
  <2> QED
    BY <2>1, <2>2, <2>3
<1>5. T \subseteq Nat
  OBVIOUS
<1> HIDE DEF T
<1>6. \A n \in Nat : n \in T
  BY <1>3, <1>4, <1>5, InductionOnSet
<1>7. Loosens(DepthLimit + 1)
  BY <1>0, <1>6 DEF T
<1>8. (DepthLimit + 1) - (DepthLimit + 1) = 0
  BY <1>0
<1>9. LoosensAt(DepthLimit + 1)
  BY <1>0, <1>7 DEF Loosens
<1> QED
  BY <1>8, <1>9 DEF d

-----------------------------------------------------------------------------
\* The root: an argument is an object, so that an object type, and properties
\* there are none of, say nothing more of it.
LEMMA DefaultTakesAll ==
    ASSUME NEW e, NEW v \in Arguments
    PROVE  Allows(DefaultParameters, e, v)
<1>1. v.type = "object"
  BY ValuesAssumption
<1>2. /\ \A k : Has(DefaultParameters, k) <=> k \in {"type", "properties"}
      /\ DefaultParameters.type = {"object"} /\ DefaultParameters.properties = Empty
  BY DEF DefaultParameters, Has
<1>3. AllowsObject(DefaultParameters, e, v)
  <2>1. DOMAIN DefaultParameters.properties = {}
    BY <1>2 DEF Empty
  <2> QED
    BY <1>2, <2>1 DEF AllowsObject
<1>4. AllowsCombined(DefaultParameters, e, v)
  BY <1>2 DEF AllowsCombined
<1> QED
  BY <1>1, <1>2, <1>3, <1>4 DEF Allows

RootOf(n) ==
    [k \in DOMAIN n \cup {"type", "properties"} |->
        CASE k = "type" -> {"object"}
          [] k = "properties" /\ ~Has(n, k) -> Empty
          [] OTHER -> n[k]]

LEMMA RootTakesTheSame ==
    ASSUME NEW n, Has(n, "type") => "object" \in n.type, NEW e, NEW v \in Arguments
    PROVE  Allows(RootOf(n), e, v) <=> Allows(n, e, v)
<1> DEFINE t == RootOf(n)
<1>1. v.type = "object"
  BY ValuesAssumption
<1>2. /\ DOMAIN t = DOMAIN n \cup {"type", "properties"}
      /\ t.type = {"object"}
      /\ t.properties = IF Has(n, "properties") THEN n.properties ELSE Empty
      /\ \A k \in DOMAIN n : k \notin {"type", "properties"} => t[k] = n[k]
  BY DEF RootOf, Has
<1>3. /\ Has(t, "type") /\ Has(t, "properties")
      /\ \A k : k \notin {"type", "properties"} => (Has(t, k) <=> Has(n, k))
      /\ \A k : k \notin {"type", "properties"} /\ Has(n, k) => t[k] = n[k]
  BY <1>2 DEF Has
<1> HIDE DEF t
<1>4. AllowsObject(t, e, v) <=> AllowsObject(n, e, v)
  <2>1. (Has(n, "properties") => t.properties = n.properties)
        /\ (~Has(n, "properties") => DOMAIN t.properties = {})
    BY <1>2 DEF Empty
  <2> QED
    BY <1>3, <2>1 DEF AllowsObject
<1>5. AllowsCombined(t, e, v) <=> AllowsCombined(n, e, v)
  BY <1>3 DEF AllowsCombined, Accepting
<1>6. (Has(t, "bool") <=> Has(n, "bool")) /\ (Has(n, "bool") => t.bool = n.bool)
  BY <1>3
<1>7. /\ Has(t, "enum") <=> Has(n, "enum")
      /\ Has(n, "enum") => t.enum = n.enum
      /\ Has(t, "const") <=> Has(n, "const")
      /\ Has(n, "const") => t.const = n.const
  BY <1>3
<1>8. Allows(t, e, v) <=> Allows(n, e, v)
  BY <1>1, <1>2, <1>3, <1>4, <1>5, <1>6, <1>7 DEF Allows
<1> QED
  BY <1>8 DEF t

\* The parameters that are sent, from the normal form of the client's.
LEMMA ParametersAre ==
    ASSUME NEW s \in Schemas, NEW m \in Modes,
           NEW n, n = Normal(DefsOf(s), m)[DepthLimit + 1][s]
    PROVE  \/ /\ Has(s, "bool") \/ (Has(n, "type") /\ "object" \notin n.type)
              /\ NormalParameters(s, m) = DefaultParameters
           \/ /\ ~Has(s, "bool") /\ (Has(n, "type") => "object" \in n.type)
              /\ NormalParameters(s, m) = RootOf(n)
BY DEF NormalParameters, RootOf

LEMMA ParametersObeyed ==
    ASSUME NEW s \in Schemas, NEW m \in Modes
    PROVE  Obeyed(NormalParameters(s, m))
BY JsonSchemaAssumption, Zenon DEF Obeyed

LEMMA DefinitionsTyped ==
    /\ Empty \in DefinitionMaps
    /\ \A s \in Schemas : DefsOf(s) \in DefinitionMaps
    /\ DefsOf(DefaultParameters) = Empty
    /\ \A n : DefsOf(RootOf(n)) = DefsOf(n)
<1>1. DefsOf(Empty) = Empty
  BY DEF DefsOf, Has, Empty
<1>2. \A s \in Schemas : DefsOf(s) \in DefinitionMaps
  BY DEF DefinitionMaps
<1>3. DefsOf(DefaultParameters) = Empty
  BY DEF DefsOf, Has, DefaultParameters
<1>4. ASSUME NEW n PROVE DefsOf(RootOf(n)) = DefsOf(n)
  <2>1. Has(RootOf(n), "defs") <=> Has(n, "defs")
    BY DEF RootOf, Has
  <2>2. Has(n, "defs") => RootOf(n).defs = n.defs
    BY DEF RootOf, Has
  <2> QED
    BY <2>1, <2>2 DEF DefsOf
<1> QED
  BY <1>1, <1>2, <1>3, <1>4, SchemasAssumption

\* In the second attempt no definitions are sent.
LEMMA FallbackWithoutDefs ==
    ASSUME NEW d, \A x \in DOMAIN d : d[x] \in Schemas
    PROVE  \A n \in Nat : \A s \in Schemas : ~Has(Normal(d, "fallback")[n][s], "defs")
<1> DEFINE T == {n \in Nat : \A s \in Schemas : ~Has(Normal(d, "fallback")[n][s], "defs")}
<1>1. 0 \in T
  <2>1. ~Has(Empty, "defs")
    BY DEF Has, Empty
  <2> QED
    BY <2>1, NormalBeyond
<1>2. ASSUME NEW n \in T PROVE n + 1 \in T
  <2>1. n \in Nat /\ \A s \in Schemas : ~Has(Normal(d, "fallback")[n][s], "defs")
    OBVIOUS
  <2> DEFINE next == n + 1
             below == Normal(d, "fallback")[n]
             members == IF next = 1 THEN Empty ELSE Normal(d, "fallback")[next - 2]
  <2>2. next \in Nat /\ next # 0 /\ next - 1 = n
    BY <2>1
  <2> HIDE DEF next
  <2>3. ASSUME NEW s \in Schemas PROVE ~Has(Normal(d, "fallback")[next][s], "defs")
    <3> DEFINE t == Normal(d, "fallback")[next][s]
    <3>1. t = NormalNode(s, d, "fallback", next, below, members)
      BY <2>2, NormalAt
    <3> SUFFICES ~Has(t, "defs")
      OBVIOUS
    <3> HIDE DEF t, members
    <3>2. CASE Has(s, "bool")
      BY <3>1, <3>2 DEF NormalNode, Has, Empty
    <3>3. CASE ~Has(s, "bool") /\ Resolves(s, d, "fallback")
      <4>1. t = below[d[s.ref]] \/ t = [allOf |-> <<below[d[s.ref]], below[Beside(s)]>>]
        BY <3>1, <3>3 DEF NormalNode, Resolution
      <4>2. d[s.ref] \in Schemas
        BY <3>3 DEF Resolves
      <4>3. ~Has(below[d[s.ref]], "defs")
        BY <2>1, <4>2
      <4> HIDE DEF below
      <4> QED
        BY <4>1, <4>3 DEF Has
    <3>4. CASE ~Has(s, "bool") /\ ~Resolves(s, d, "fallback")
      <4>1. t = NormalKeywords(s, "fallback", next, below, members)
        BY <3>1, <3>4 DEF NormalNode
      <4> HIDE DEF below
      <4> QED
        BY <4>1 DEF NormalKeywords, KeywordsOf, Dropped, Has
    <3> QED
      BY <3>2, <3>3, <3>4
  <2> QED
    BY <2>2, <2>3 DEF next
<1>3. T \subseteq Nat
  OBVIOUS
<1> HIDE DEF T
<1>4. \A n \in Nat : n \in T
  BY <1>1, <1>2, <1>3, InductionOnSet
<1> QED
  BY <1>4 DEF T

-----------------------------------------------------------------------------
\* What references name.  What is sent has no id, so that they name nothing but
\* its definitions and what is in them.
Forms(d, m) == {Normal(d, m)[p[1]][p[2]] : p \in Nat \X Schemas}
WithoutIds(S) ==
    \A s \in S : /\ ~Has(s, "id")
                 /\ Children(s, DOMAIN s) \subseteq S /\ Members(s, DOMAIN s) \subseteq S

Into(forms, S) == \A c \in Schemas : forms[c] \in S

LEMMA FormIn ==
    ASSUME NEW d, NEW m, NEW n \in Nat, NEW s \in Schemas
    PROVE  Normal(d, m)[n][s] \in Forms(d, m)
<1> DEFINE p == <<n, s>>
<1>1. p \in Nat \X Schemas /\ p[1] = n /\ p[2] = s
  OBVIOUS
<1> HIDE DEF p
<1>2. Normal(d, m)[n][s] = Normal(d, m)[p[1]][p[2]]
  BY <1>1
<1> QED
  BY <1>1, <1>2 DEF Forms

\* What is below what a schema becomes, which becomes it of a schema too.
LEMMA KeywordsBelow ==
    ASSUME NEW s \in Schemas, NEW m \in Modes, NEW left, NEW below, NEW members, NEW t,
           t = NormalKeywords(s, m, left, below, members),
           NEW S, Into(below, S), left # 1 => Into(members, S)
    PROVE  /\ ~Has(t, "id")
           /\ Children(t, DOMAIN t) \subseteq S /\ Members(t, DOMAIN t) \subseteq S
<1>1. ~Has(t, "id")
  BY DEF NormalKeywords, KeywordsOf, Dropped, AlwaysDropped, Has
<1>2. /\ Children(s, DOMAIN s) \subseteq Schemas
      /\ Members(s, DOMAIN s) \subseteq Schemas
  BY SchemasAssumption
<1>3. ASSUME NEW k \in SubSchemas \cap DOMAIN t PROVE t[k] \in S
  <2>1. Has(s, k) /\ t[k] = NormalValue(s, k, left, below, members)
    BY <1>3, KeywordKept DEF SubSchemas, Has
  <2>2. t[k] = below[s[k]]
    BY <1>3, <2>1, ValueOfSchema
  <2>3. s[k] \in Children(s, DOMAIN s)
    BY <1>3, <2>1 DEF Children, Has
  <2> QED
    BY <1>2, <2>2, <2>3 DEF Into
<1>4. ASSUME NEW k \in SchemaMaps \cap DOMAIN t, NEW p \in DOMAIN t[k] PROVE t[k][p] \in S
  <2>1. Has(s, k) /\ t[k] = NormalValue(s, k, left, below, members)
    BY <1>4, KeywordKept DEF SchemaMaps, Has
  <2>2. t[k] = [q \in DOMAIN s[k] |-> below[s[k][q]]]
    BY <1>4, <2>1, ValueOfMap
  <2>3. p \in DOMAIN s[k] /\ t[k][p] = below[s[k][p]]
    BY <1>4, <2>2
  <2>4. s[k][p] \in Children(s, DOMAIN s)
    BY <1>4, <2>1, <2>3 DEF Children, Has
  <2> QED
    BY <1>2, <2>3, <2>4 DEF Into
<1>5. ASSUME NEW k \in SchemaLists \cap DOMAIN t, NEW i \in DOMAIN t[k] PROVE t[k][i] \in S
  <2>1. Has(s, k) /\ t[k] = NormalValue(s, k, left, below, members)
    BY <1>5, KeywordKept DEF SchemaLists, Has
  <2>2. CASE left = 1
    <3>1. t[k] = Empty
      BY <1>5, <2>1, <2>2 DEF NormalValue, SchemaMaps, SubSchemas, SchemaLists
    <3> QED
      BY <1>5, <3>1 DEF Empty
  <2>3. CASE left # 1
    <3>1. t[k] = [q \in DOMAIN s[k] |-> members[s[k][q]]]
      BY <1>5, <2>1, <2>3, ValueOfList
    <3>2. i \in DOMAIN s[k] /\ t[k][i] = members[s[k][i]]
      BY <1>5, <3>1
    <3>3. s[k][i] \in Members(s, DOMAIN s)
      BY <1>5, <2>1, <3>2 DEF Members, Has
    <3> QED
      BY <1>2, <2>3, <3>2, <3>3 DEF Into
  <2> QED
    BY <2>2, <2>3
<1>6. Children(t, DOMAIN t) \subseteq S
  BY <1>3, <1>4 DEF Children
<1>7. Members(t, DOMAIN t) \subseteq S
  BY <1>5 DEF Members
<1> QED
  BY <1>1, <1>6, <1>7

LEMMA FormsWithoutIds ==
    ASSUME NEW d, \A x \in DOMAIN d : d[x] \in Schemas, NEW m \in Modes
    PROVE  WithoutIds(Forms(d, m))
<1> DEFINE S == Forms(d, m)
           Bare(t) == /\ ~Has(t, "id")
                      /\ Children(t, DOMAIN t) \subseteq S /\ Members(t, DOMAIN t) \subseteq S
           T == {n \in Nat : \A s \in Schemas : Bare(Normal(d, m)[n][s])}
<1>1. Bare(Empty)
  BY DEF Empty, Has, Children, Members
<1>2. Empty \in S
  <2>1. Empty \in Schemas
    BY SchemasAssumption
  <2> QED
    BY <2>1, FormIn, NormalBeyond
<1>3. 0 \in T
  BY <1>1, NormalBeyond
<1> HIDE DEF S
<1>4. ASSUME NEW n \in T PROVE n + 1 \in T
  <2>1. n \in Nat /\ \A s \in Schemas : Bare(Normal(d, m)[n][s])
    OBVIOUS
  <2> DEFINE next == n + 1
             below == Normal(d, m)[n]
             members == IF next = 1 THEN Empty ELSE Normal(d, m)[next - 2]
  <2>2. next \in Nat /\ next # 0 /\ next - 1 = n /\ (next # 1 => next - 2 \in Nat)
    BY <2>1
  <2> HIDE DEF next
  <2>3. Into(below, S)
    BY <2>1, FormIn DEF S, Into
  <2>4. next # 1 => Into(members, S)
    BY <2>2, FormIn DEF S, Into
  <2>5. ASSUME NEW s \in Schemas PROVE Bare(Normal(d, m)[next][s])
    <3> DEFINE t == Normal(d, m)[next][s]
    <3>1. t = NormalNode(s, d, m, next, below, members)
      BY <2>2, NormalAt
    <3> SUFFICES Bare(t)
      OBVIOUS
    <3> HIDE DEF t, members
    <3>2. CASE Has(s, "bool")
      <4>1. t = Empty \/ t = [not |-> Empty]
        BY <3>1, <3>2 DEF NormalNode
      <4>2. ASSUME t = [not |-> Empty] PROVE Bare(t)
        <5>1. DOMAIN t = {"not"} /\ t["not"] = Empty
          BY <4>2
        <5>2. Children(t, DOMAIN t) = {Empty} /\ Members(t, DOMAIN t) = {}
          BY <5>1 DEF Children, Members, SubSchemas, SchemaMaps, SchemaLists
        <5> QED
          BY <1>2, <5>1, <5>2 DEF Has
      <4> QED
        BY <1>1, <4>1, <4>2
    <3>3. CASE ~Has(s, "bool") /\ Resolves(s, d, m)
      <4>1. t = below[d[s.ref]] \/ t = [allOf |-> <<below[d[s.ref]], below[Beside(s)]>>]
        BY <3>1, <3>3 DEF NormalNode, Resolution
      <4>2. d[s.ref] \in Schemas /\ Beside(s) \in Schemas
        BY <3>3, SchemasAssumption DEF Resolves
      <4>3. Bare(below[d[s.ref]])
        BY <2>1, <4>2
      <4>4. below[d[s.ref]] \in S /\ below[Beside(s)] \in S
        BY <2>3, <4>2 DEF Into
      <4> HIDE DEF below
      <4>5. ASSUME t = [allOf |-> <<below[d[s.ref]], below[Beside(s)]>>] PROVE Bare(t)
        <5>1. /\ DOMAIN t = {"allOf"} /\ DOMAIN t["allOf"] = {1, 2}
              /\ t["allOf"][1] \in S /\ t["allOf"][2] \in S
          BY <4>4, <4>5
        <5>2. Children(t, DOMAIN t) = {}
          BY <5>1 DEF Children, SubSchemas, SchemaMaps
        <5>3. Members(t, DOMAIN t) \subseteq S
          BY <5>1 DEF Members, SchemaLists
        <5> QED
          BY <5>1, <5>2, <5>3 DEF Has
      <4> QED
        BY <4>1, <4>3, <4>5
    <3>4. CASE ~Has(s, "bool") /\ ~Resolves(s, d, m)
      <4>1. t = NormalKeywords(s, m, next, below, members)
        BY <3>1, <3>4 DEF NormalNode
      <4> HIDE DEF below, Bare
      <4>2. /\ ~Has(t, "id")
            /\ Children(t, DOMAIN t) \subseteq S /\ Members(t, DOMAIN t) \subseteq S
        BY <2>3, <2>4, <4>1, KeywordsBelow
      <4> QED
        BY <4>2 DEF Bare
    <3> QED
      BY <3>2, <3>3, <3>4
  <2> QED
    BY <2>2, <2>5 DEF next
<1>5. T \subseteq Nat
  OBVIOUS
<1> HIDE DEF T
<1>6. \A n \in Nat : n \in T
  BY <1>3, <1>4, <1>5, InductionOnSet
<1>7. ASSUME NEW t \in S PROVE Bare(t)
  <2>1. PICK p \in Nat \X Schemas : t = Normal(d, m)[p[1]][p[2]]
    BY DEF S, Forms
  <2>2. p[1] \in Nat /\ p[2] \in Schemas
    OBVIOUS
  <2> QED
    BY <1>6, <2>1, <2>2 DEF T
<1> QED
  BY <1>7 DEF S, WithoutIds

\* Below a root whose parts are such, nothing with an id is come to.
LEMMA NoIdBelow ==
    ASSUME NEW S, WithoutIds(S), NEW root, ~Has(root, "id"),
           Children(root, DOMAIN root) \subseteq S, Members(root, DOMAIN root) \subseteq S
    PROVE  \A s \in Visits(root, "normal") : ~Has(s, "id")
<1> DEFINE U == S \cup {root}
           V(n) == Visited(root, "normal")[n]
           T == {k \in Nat : V(k) \subseteq U /\ V(k + 1) \subseteq U}
<1>1. ASSUME NEW s \in U
      PROVE  /\ Nested(s, DefsOf(root), "normal") \subseteq U
             /\ Listed(s, DefsOf(root), "normal") \subseteq U
  <2>1. Children(s, DOMAIN s) \subseteq S /\ Members(s, DOMAIN s) \subseteq S
    BY DEF WithoutIds
  <2>2. Children(s, DOMAIN s \ Dropped("normal")) \subseteq Children(s, DOMAIN s)
    <3>1. {s[k] : k \in SubSchemas \cap (DOMAIN s \ Dropped("normal"))}
              \subseteq {s[k] : k \in SubSchemas \cap DOMAIN s}
      OBVIOUS
    <3>2. UNION {{s[k][p] : p \in DOMAIN s[k]} : k \in SchemaMaps \cap (DOMAIN s \ Dropped("normal"))}
              \subseteq UNION {{s[k][p] : p \in DOMAIN s[k]} : k \in SchemaMaps \cap DOMAIN s}
      BY Zenon
    <3> QED
      BY <3>1, <3>2, Zenon DEF Children
  <2>3. Members(s, DOMAIN s \ Dropped("normal")) \subseteq Members(s, DOMAIN s)
    BY Zenon DEF Members
  <2>4. ~Resolves(s, DefsOf(root), "normal")
    BY DEF Resolves
  <2> QED
    BY <2>1, <2>2, <2>3, <2>4 DEF Nested, Listed
<1> HIDE DEF U
<1>2. ASSUME NEW above, above \subseteq U, NEW twoAbove, twoAbove \subseteq U
      PROVE  VisitedNext(DefsOf(root), "normal", above, twoAbove) \subseteq U
  <2> DEFINE nested == UNION {Nested(s, DefsOf(root), "normal") : s \in above}
             listed == UNION {Listed(s, DefsOf(root), "normal") : s \in twoAbove}
  <2>1. \A s \in above : Nested(s, DefsOf(root), "normal") \subseteq U
    BY <1>1, <1>2
  <2>2. \A s \in twoAbove : Listed(s, DefsOf(root), "normal") \subseteq U
    BY <1>1, <1>2
  <2>3. nested \subseteq U
    BY <2>1
  <2>4. listed \subseteq U
    BY <2>2
  <2>5. VisitedNext(DefsOf(root), "normal", above, twoAbove) = nested \cup listed
    BY DEF VisitedNext
  <2> HIDE DEF nested, listed
  <2> QED
    BY <2>3, <2>4, <2>5
<1>3. V(0) \subseteq U /\ V(0 + 1) \subseteq U
  <2>1. V(0) = {root} /\ V(1) = VisitedNext(DefsOf(root), "normal", {root}, {})
    BY VisitedIs
  <2>2. {root} \subseteq U
    BY DEF U
  <2> HIDE DEF V
  <2>3. V(1) \subseteq U
    BY <1>2, <2>1, <2>2
  <2> QED
    BY <2>1, <2>2, <2>3
<1>4. ASSUME NEW k \in Nat, V(k) \subseteq U, V(k + 1) \subseteq U
      PROVE  V((k + 1) + 1) \subseteq U
  <2>1. VisitedFromTwo(root, "normal", k)
    BY VisitedIs
  <2>2. (k + 1) + 1 = k + 2
    OBVIOUS
  <2>3. V(k + 2) = VisitedNext(DefsOf(root), "normal", V(k + 1), V(k))
    BY <2>1 DEF VisitedFromTwo
  <2> HIDE DEF V
  <2> QED
    BY <1>2, <1>4, <2>2, <2>3
<1> HIDE DEF V
<1>5. 0 \in T
  BY <1>3
<1>6. ASSUME NEW k \in T PROVE k + 1 \in T
  BY <1>4
<1>7. T \subseteq Nat
  OBVIOUS
<1> HIDE DEF T
<1>8. \A k \in Nat : k \in T
  BY <1>5, <1>6, <1>7, InductionOnSet
<1>9. ASSUME NEW s \in Visits(root, "normal") PROVE ~Has(s, "id")
  <2>1. PICK k \in 0 .. DepthLimit : s \in V(k)
    BY DEF Visits, V
  <2>2. s \in U
    BY <1>8, <2>1 DEF T
  <2> QED
    BY <2>2 DEF U, WithoutIds
<1> QED
  BY <1>9

\* References name the same below two roots with the same definitions of which
\* neither comes to an id that one of them names.
LEMMA SameTargets ==
    ASSUME NEW s, NEW t, DefsOf(t) = DefsOf(s),
           \A x \in Visits(s, "normal") : Has(x, "id") => x.id \notin Named,
           \A x \in Visits(t, "normal") : ~Has(x, "id")
    PROVE  Targets(t) = Targets(s)
<1>1. InDefinitions(t) = InDefinitions(s)
  BY DEF InDefinitions
<1>2. Bearers(t) = Bearers(s)
  BY <1>1 DEF Bearers
<1> DEFINE Map(d, B) == [n \in DOMAIN d \cup {x.id : x \in B} |->
                            IF n \in DOMAIN d THEN d[n] ELSE CHOOSE x \in B : x.id = n]
<1>3. Targets(t) = Map(DefsOf(t), Bearers(t)) /\ Targets(s) = Map(DefsOf(s), Bearers(s))
  BY Zenon DEF Targets
<1> HIDE DEF Map
<1> QED
  BY <1>2, <1>3

LEMMA NoTargets ==
    ASSUME NEW s, DefsOf(s) = Empty,
           \A x \in Visits(s, "normal") : Has(x, "id") => x.id \notin Named
    PROVE  Targets(s) = Empty
<1>1. DOMAIN Empty = {}
  BY DEF Empty
<1>2. InDefinitions(s) = {}
  BY <1>1 DEF InDefinitions
<1>3. Bearers(s) = {}
  BY <1>2 DEF Bearers
<1> DEFINE names == DOMAIN DefsOf(s) \cup {x.id : x \in Bearers(s)}
           To(n) == IF n \in DOMAIN DefsOf(s) THEN DefsOf(s)[n]
                    ELSE CHOOSE x \in Bearers(s) : x.id = n
<1>4. Targets(s) = [n \in names |-> To(n)]
  BY Zenon DEF Targets
<1>5. names = {}
  BY <1>1, <1>3
<1> HIDE DEF names, To
<1>6. [n \in names |-> To(n)] = [n \in {} |-> n]
  BY <1>5
<1> QED
  BY <1>4, <1>6 DEF Empty

LEMMA TargetsTyped ==
    /\ Empty \in TargetMaps
    /\ \A s \in Schemas : Targets(s) \in TargetMaps
    /\ \A s : \A n \in DOMAIN DefsOf(s) :
           n \in DOMAIN Targets(s) /\ Targets(s)[n] = DefsOf(s)[n]
<1>1. Empty \in TargetMaps /\ \A s \in Schemas : Targets(s) \in TargetMaps
  BY Zenon DEF TargetMaps
<1>2. ASSUME NEW s, NEW n \in DOMAIN DefsOf(s)
      PROVE  n \in DOMAIN Targets(s) /\ Targets(s)[n] = DefsOf(s)[n]
  <2> DEFINE names == DOMAIN DefsOf(s) \cup {x.id : x \in Bearers(s)}
             To(k) == IF k \in DOMAIN DefsOf(s) THEN DefsOf(s)[k]
                      ELSE CHOOSE x \in Bearers(s) : x.id = k
  <2>1. Targets(s) = [k \in names |-> To(k)]
    BY Zenon DEF Targets
  <2>2. n \in names /\ To(n) = DefsOf(s)[n]
    OBVIOUS
  <2> HIDE DEF names, To
  <2> QED
    BY <2>1, <2>2
<1> QED
  BY <1>1, <1>2

\* Both attempts come to the same schemas where none has a keyword that only the
\* second drops.
LEMMA SameVisits ==
    ASSUME NEW root, \A x \in Visits(root, "fallback") : Plain(x, "fallback")
    PROVE  Visits(root, "normal") \subseteq Visits(root, "fallback")
<1> DEFINE d == DefsOf(root)
           V(k) == Visited(root, "normal")[k]
           W(k) == Visited(root, "fallback")[k]
           In(k) == k <= DepthLimit => V(k) \subseteq W(k)
           T == {k \in Nat : In(k) /\ In(k + 1)}
<1>0. DepthLimit \in Nat
  BY SchemasAssumption
<1>1. ASSUME NEW k \in 0 .. DepthLimit, NEW x \in W(k)
      PROVE  /\ Nested(x, d, "normal") \subseteq W(k + 1)
             /\ Listed(x, d, "normal") \subseteq W(k + 2)
  <2>1. Plain(x, "fallback")
    BY DEF Visits
  <2>2. /\ DOMAIN x \ Dropped("normal") = DOMAIN x \ Dropped("fallback")
        /\ ~Resolves(x, d, "normal") /\ ~Resolves(x, d, "fallback")
    BY <2>1 DEF Plain, Dropped, AlwaysDropped, Annotations, Resolves, Has
  <2>3. /\ Nested(x, d, "normal") = Nested(x, d, "fallback")
        /\ Listed(x, d, "normal") = Listed(x, d, "fallback")
    BY <2>2 DEF Nested, Listed
  <2>4. k \in Nat
    BY <1>0
  <2> QED
    BY <2>3, <2>4, VisitedSteps
<1>2. ASSUME NEW k \in 0 .. DepthLimit, NEW above, above \subseteq W(k), NEW twoAbove,
             k = 0 => twoAbove = {}, k # 0 => twoAbove \subseteq W(k - 1)
      PROVE  VisitedNext(d, "normal", above, twoAbove) \subseteq W(k + 1)
  <2> DEFINE nested == UNION {Nested(s, d, "normal") : s \in above}
             listed == UNION {Listed(s, d, "normal") : s \in twoAbove}
  <2>1. \A s \in above : Nested(s, d, "normal") \subseteq W(k + 1)
    BY <1>1, <1>2
  <2>2. \A s \in twoAbove : Listed(s, d, "normal") \subseteq W(k + 1)
    <3>1. CASE k = 0
      BY <1>2, <3>1
    <3>2. CASE k # 0
      <4>1. k - 1 \in 0 .. DepthLimit /\ (k - 1) + 2 = k + 1
        BY <1>0, <3>2
      <4> QED
        BY <1>1, <1>2, <3>2, <4>1
    <3> QED
      BY <3>1, <3>2
  <2>3. nested \subseteq W(k + 1)
    BY <2>1
  <2>4. listed \subseteq W(k + 1)
    BY <2>2
  <2>5. VisitedNext(d, "normal", above, twoAbove) = nested \cup listed
    BY DEF VisitedNext
  <2> HIDE DEF nested, listed
  <2> QED
    BY <2>3, <2>4, <2>5
<1>3. 0 \in T
  <2>1. /\ V(0) = {root} /\ W(0) = {root}
        /\ V(1) = VisitedNext(d, "normal", {root}, {})
    BY VisitedIs
  <2> HIDE DEF V, W
  <2>2. V(1) \subseteq W(0 + 1)
    BY <1>0, <1>2, <2>1
  <2> QED
    BY <2>1, <2>2
<1>4. ASSUME NEW k \in T PROVE k + 1 \in T
  <2>1. k \in Nat /\ In(k) /\ In(k + 1)
    OBVIOUS
  <2>2. VisitedFromTwo(root, "normal", k)
    BY <2>1, VisitedIs
  <2>3. V(k + 2) = VisitedNext(d, "normal", V(k + 1), V(k))
    BY <2>2 DEF VisitedFromTwo
  <2>4. k + 2 = (k + 1) + 1 /\ (k + 1) - 1 = k /\ k + 1 # 0 /\ k + 1 \in Nat
    BY <2>1
  <2> HIDE DEF V, W
  <2>5. ASSUME k + 2 <= DepthLimit PROVE V(k + 2) \subseteq W(k + 2)
    <3>1. k + 1 \in 0 .. DepthLimit /\ k <= DepthLimit /\ k + 1 <= DepthLimit
      BY <1>0, <2>1, <2>5
    <3>2. V(k) \subseteq W(k) /\ V(k + 1) \subseteq W(k + 1)
      BY <2>1, <3>1
    <3>3. VisitedNext(d, "normal", V(k + 1), V(k)) \subseteq W((k + 1) + 1)
      BY <1>2, <2>4, <3>1, <3>2
    <3> QED
      BY <2>3, <2>4, <3>3
  <2> QED
    BY <2>1, <2>4, <2>5
<1>5. T \subseteq Nat
  OBVIOUS
<1> HIDE DEF T
<1>6. \A k \in Nat : k \in T
  BY <1>3, <1>4, <1>5, InductionOnSet
<1>7. \A k \in 0 .. DepthLimit : V(k) \subseteq W(k)
  BY <1>0, <1>6 DEF T
<1> QED
  BY <1>7 DEF Visits

\* Below what is sent, references name nothing but definitions and what is in
\* them.
LEMMA SentHasNoId ==
    ASSUME NEW s \in Schemas, NEW m \in Modes
    PROVE  \A x \in Visits(NormalParameters(s, m), "normal") : ~Has(x, "id")
<1> DEFINE n == Normal(DefsOf(s), m)[DepthLimit + 1][s]
           sent == NormalParameters(s, m)
           S == Forms(DefsOf(s), m)
<1>1. WithoutIds(S)
  BY SchemasAssumption, FormsWithoutIds
<1>2. n \in S
  BY SchemasAssumption, FormIn
<1>3. sent = DefaultParameters \/ sent = RootOf(n)
  BY ParametersAre
<1> HIDE DEF n, sent, S
<1>4. /\ ~Has(sent, "id")
      /\ Children(sent, DOMAIN sent) \subseteq S /\ Members(sent, DOMAIN sent) \subseteq S
  <2>1. CASE sent = DefaultParameters
    <3>1. DOMAIN sent = {"type", "properties"} /\ DOMAIN sent["properties"] = {}
      BY <2>1 DEF DefaultParameters, Empty
    <3> QED
      BY <3>1 DEF Has, Children, Members, SubSchemas, SchemaMaps, SchemaLists
  <2>2. CASE sent = RootOf(n)
    <3>1. /\ ~Has(n, "id")
          /\ Children(n, DOMAIN n) \subseteq S /\ Members(n, DOMAIN n) \subseteq S
      BY <1>1, <1>2 DEF WithoutIds
    <3>2. /\ DOMAIN sent = DOMAIN n \cup {"type", "properties"}
          /\ \A k \in DOMAIN n : k # "type" => sent[k] = n[k]
          /\ "properties" \notin DOMAIN n => DOMAIN sent["properties"] = {}
      BY <2>2 DEF RootOf, Has, Empty
    <3>3. \A k \in SubSchemas \cap DOMAIN sent : sent[k] \in Children(n, DOMAIN n)
      BY <3>2 DEF Children, SubSchemas
    <3>4. \A k \in SchemaMaps \cap DOMAIN sent : \A p \in DOMAIN sent[k] :
              sent[k][p] \in Children(n, DOMAIN n)
      BY <3>2 DEF Children, SchemaMaps
    <3>5. \A k \in SchemaLists \cap DOMAIN sent : \A i \in DOMAIN sent[k] :
              sent[k][i] \in Members(n, DOMAIN n)
      BY <3>2 DEF Members, SchemaLists
    <3>6. Children(sent, DOMAIN sent) \subseteq Children(n, DOMAIN n)
      BY <3>3, <3>4 DEF Children
    <3>7. Members(sent, DOMAIN sent) \subseteq Members(n, DOMAIN n)
      BY <3>5 DEF Members
    <3> QED
      BY <3>1, <3>2, <3>6, <3>7 DEF Has
  <2> QED
    BY <1>3, <2>1, <2>2
<1>5. \A x \in Visits(sent, "normal") : ~Has(x, "id")
  BY <1>1, <1>4, NoIdBelow
<1> QED
  BY <1>5 DEF sent

LEMMA KeepsParameters ==
    ASSUME NEW s \in Schemas, ObjectRoot(s), NothingCut(s, "normal"),
           \A x \in Visits(s, "normal") : Plain(x, "normal")
    PROVE  AcceptedBy(NormalParameters(s, "normal")) = AcceptedBy(s)
<1> DEFINE n == Normal(DefsOf(s), "normal")[DepthLimit + 1][s]
           sent == NormalParameters(s, "normal")
           below == Normal(DefsOf(s), "normal")[(DepthLimit + 1) - 1]
           members == IF DepthLimit + 1 = 1 THEN Empty
                      ELSE Normal(DefsOf(s), "normal")[(DepthLimit + 1) - 2]
<1>1. /\ "normal" \in Modes /\ DepthLimit \in Nat /\ DepthLimit + 1 \in 0 .. DepthLimit + 1
      /\ DepthLimit + 1 \in Nat /\ DepthLimit + 1 # 0 /\ DefsOf(s) \in DefinitionMaps
      /\ Targets(s) \in TargetMaps
  BY SchemasAssumption, DefinitionsTyped, TargetsTyped DEF Modes
<1>2. s \in Visited(s, "normal")[0] /\ Plain(s, "normal")
  <2>1. s \in Visited(s, "normal")[0]
    BY VisitedIs
  <2> QED
    BY <1>1, <2>1 DEF Visits
<1>3. n = NormalKeywords(s, "normal", DepthLimit + 1, below, members)
  <2>1. n = NormalNode(s, DefsOf(s), "normal", DepthLimit + 1, below, members)
    BY <1>1, NormalAt
  <2> QED
    BY <2>1 DEF NormalNode, ObjectRoot, Resolves
<1> HIDE DEF below, members
<1>4. Has(n, "type") => "object" \in n.type
  <2>1. TypingKept(s, n)
    BY <1>1, <1>2, <1>3, NormalTyping DEF Plain, ObjectRoot
  <2> HIDE DEF n
  <2> QED
    BY <2>1 DEF TypingKept, ObjectRoot
<1>5. sent = RootOf(n)
  BY <1>1, <1>4, ParametersAre DEF ObjectRoot
<1>6. DefsOf(sent) = DefsOf(s)
  <2>1. /\ Has(n, "defs") => Has(s, "defs")
        /\ Has(s, "defs") /\ "defs" \notin Dropped("normal") => Has(n, "defs")
        /\ Has(n, "defs") => n.defs = NormalValue(s, "defs", DepthLimit + 1, below, members)
    BY <1>1, <1>3, KeywordKept
  <2>2. NormalValue(s, "defs", DepthLimit + 1, below, members) = s.defs
    BY DEF NormalValue, SchemaMaps, SubSchemas, SchemaLists
  <2>3. "defs" \notin Dropped("normal")
    BY DEF Dropped, AlwaysDropped, Annotations
  <2>4. DefsOf(n) = DefsOf(s)
    BY <2>1, <2>2, <2>3 DEF DefsOf
  <2> QED
    BY <1>5, <2>4, DefinitionsTyped
<1>7. Targets(sent) = Targets(s)
  <2>1. \A x \in Visits(s, "normal") : Has(x, "id") => x.id \notin Named
    BY DEF Plain
  <2>2. \A x \in Visits(sent, "normal") : ~Has(x, "id")
    BY <1>1, SentHasNoId
  <2> HIDE DEF sent
  <2> QED
    BY <1>6, <2>1, <2>2, SameTargets
<1>8. Obeyed(sent) /\ Obeyed(n)
  BY <1>1, ParametersObeyed, NormalObeyed
<1> HIDE DEF n, sent
<1>9. ASSUME NEW v \in Arguments
      PROVE  Accepts(sent, Targets(s), v) <=> Accepts(s, Targets(s), v)
  <2>1. v \in Values
    BY ValuesAssumption
  <2>2. Accepts(n, Targets(s), v) <=> Accepts(s, Targets(s), v)
    BY <1>1, <1>2, <2>1, KeepsNode DEF n
  <2>3. Allows(sent, Targets(s), v) <=> Allows(n, Targets(s), v)
    BY <1>4, <1>5, RootTakesTheSame
  <2>4. /\ Accepts(sent, Targets(s), v) <=> Allows(sent, Targets(s), v)
        /\ Accepts(n, Targets(s), v) <=> Allows(n, Targets(s), v)
    BY <1>1, <1>8, <2>1 DEF Obeyed, Obeys
  <2> QED
    BY <2>2, <2>3, <2>4
<1>10. AcceptedBy(sent) = AcceptedBy(s)
  BY <1>7, <1>9 DEF AcceptedBy
<1> QED
  BY <1>10 DEF sent

LEMMA LoosensParameters ==
    ASSUME NEW s \in Schemas,
           \/ /\ NoListCut(s, "fallback")
              /\ \A x \in Visits(s, "fallback") : Typed(x) /\ DOMAIN x \cap Inverting = {}
           \/ /\ NothingCut(s, "fallback")
              /\ \A x \in Visits(s, "fallback") : Plain(x, "fallback")
    PROVE  AcceptedBy(s) \subseteq AcceptedBy(NormalParameters(s, "fallback"))
<1> DEFINE n == Normal(DefsOf(s), "fallback")[DepthLimit + 1][s]
           sent == NormalParameters(s, "fallback")
<1>1. /\ "fallback" \in Modes /\ DepthLimit \in Nat /\ DepthLimit + 1 \in 0 .. DepthLimit + 1
      /\ DepthLimit + 1 \in Nat /\ DefsOf(s) \in DefinitionMaps
      /\ Targets(s) \in TargetMaps /\ Empty \in TargetMaps
  BY SchemasAssumption, DefinitionsTyped, TargetsTyped DEF Modes
<1>2. s \in Visited(s, "fallback")[0] /\ s \in Visits(s, "fallback")
  <2>1. s \in Visited(s, "fallback")[0]
    BY VisitedIs
  <2> QED
    BY <1>1, <2>1 DEF Visits
<1>3. Obeyed(sent) /\ Obeyed(n)
  BY <1>1, ParametersObeyed, NormalObeyed
<1>4. DefsOf(sent) = Empty
  <2>1. ~Has(n, "defs")
    BY <1>1, BelowTyped, FallbackWithoutDefs
  <2>2. DefsOf(n) = Empty
    BY <2>1 DEF DefsOf
  <2>3. sent = DefaultParameters \/ sent = RootOf(n)
    BY <1>1, ParametersAre
  <2> QED
    BY <2>2, <2>3, DefinitionsTyped
<1>5. Targets(sent) = Empty
  <2>1. \A x \in Visits(sent, "normal") : ~Has(x, "id")
    BY <1>1, SentHasNoId
  <2> HIDE DEF sent
  <2> QED
    BY <1>4, <2>1, NoTargets
<1>6. ASSUME NEW v \in Values, Accepts(s, Targets(s), v) PROVE Accepts(n, Empty, v)
  <2>1. CASE /\ NoListCut(s, "fallback")
             /\ \A x \in Visits(s, "fallback") : Typed(x) /\ DOMAIN x \cap Inverting = {}
    BY <1>1, <1>2, <1>6, <2>1, LoosensNode, TargetsTyped
  <2>2. CASE /\ NothingCut(s, "fallback")
             /\ \A x \in Visits(s, "fallback") : Plain(x, "fallback")
    <3>1. "defs" \notin DOMAIN s
      <4>1. Plain(s, "fallback")
        BY <1>2, <2>2
      <4> QED
        BY <4>1 DEF Plain, Dropped, AlwaysDropped, Annotations
    <3>2. DefsOf(s) = Empty
      BY <3>1 DEF DefsOf, Has
    <3>3. Targets(s) = Empty
      <4>1. \A x \in Visits(s, "normal") : Has(x, "id") => x.id \notin Named
        BY <2>2, SameVisits DEF Plain
      <4> QED
        BY <3>2, <4>1, NoTargets
    <3>4. Accepts(n, Empty, v) <=> Accepts(s, Empty, v)
      BY <1>1, <1>2, <2>2, KeepsNode
    <3> QED
      BY <1>6, <3>3, <3>4
  <2> QED
    BY <2>1, <2>2
<1>7. ASSUME NEW v \in Arguments, Accepts(s, Targets(s), v) PROVE Accepts(sent, Empty, v)
  <2>1. v \in Values
    BY ValuesAssumption
  <2>2. Accepts(n, Empty, v)
    BY <1>6, <1>7, <2>1
  <2>3. Allows(n, Empty, v)
    BY <1>1, <1>3, <2>1, <2>2 DEF Obeyed, Obeys
  <2>4. Allows(sent, Empty, v)
    <3>1. CASE sent = DefaultParameters
      BY <3>1, DefaultTakesAll
    <3>2. CASE (Has(n, "type") => "object" \in n.type) /\ sent = RootOf(n)
      BY <2>3, <3>2, RootTakesTheSame
    <3> QED
      BY <1>1, <3>1, <3>2, ParametersAre
  <2> QED
    BY <1>1, <1>3, <2>1, <2>4 DEF Obeyed, Obeys
<1> HIDE DEF sent
<1>8. AcceptedBy(s) \subseteq AcceptedBy(sent)
  BY <1>5, <1>7 DEF AcceptedBy
<1> QED
  BY <1>8 DEF sent

-----------------------------------------------------------------------------
(***************************************************************************)
(* A request that is sent: its steps are those of its preparation, so all  *)
(* that was proved of them holds of it, and the parameters of its tools    *)
(* are not made, or they are what ToolSchemas makes of the client's.       *)
(***************************************************************************)
LEMMA SendBegins == SendInit => PrepareInit
<1> SUFFICES ASSUME SendInit PROVE PrepareInit
  OBVIOUS
<1>1. PICK k \in Kinds : \E r \in k.requests : Asks(r)
  BY DEF SendInit
<1>2. PICK r \in k.requests : Asks(r)
  BY <1>1
<1>3. r \in Requests
  BY <1>1, <1>2, KindsAssumption
<1> QED
  BY <1>2, <1>3 DEF SendInit, PrepareInit

LEMMA SendSteps == [SendNext]_sendVars => [PrepareNext]_prepareVars
  BY DEF SendNext, Send, SendImages, SendTools, SendChat, SendRefresh, PrepareNext, Prepare,
         sendVars

\* A request that is sent is prepared: what SendRequest adds takes part in the
\* steps of PrepareRequest and adds none.
THEOREM SendPrepares == SendSpec => PrepareInit /\ [][PrepareNext]_prepareVars
  BY SendBegins, SendSteps, PTL DEF SendSpec

\* Of every request that is sent: it keeps within the limits on images and on
\* fetches, is refused for nothing but a limit, its names are restored exactly
\* and are distinct, what is sent is what was asked for, and a result stands
\* behind its call.
THEOREM SendSafe ==
    SendSpec => [](WithinLimits /\ LimitsDecide /\ LoadsBounded /\ RoundTrip /\ ToolsDistinct
                     /\ SentIsRequested /\ ResultsReachCalls)
<1>1. PrepareInv => ResultsReachCalls
  BY ResultsReach DEF PrepareInv
<1> QED
  BY <1>1, SendPrepares, PrepareFirst, PrepareStep, PrepareInvSafe, PTL

\* Of every request that is sent: its id and effort stand for what they promise,
\* and its images go to no variant that takes none.
THEOREM SendResolves == SendSpec => [](ResolvedAsPromised /\ ImagesReachTakers)
<1>1. SendSpec => [](CatalogInv /\ ServedInv /\ PrepareInv)
  BY SendPrepares, CatalogFirst, CatalogNext, ServedFirst, ServedNext, PrepareFirst,
     PrepareStep, PTL
<1>2. PrepareInv => LoadsInv
  BY DEF PrepareInv
<1> QED
  BY <1>1, <1>2, Promised, ImagesReach, PTL

\* No step of a request that is sent changes a name once made, or what the plain
\* id of a family stands for.
THEOREM SendStable == SendSpec => NamesStable /\ PlainIdsStable
<1>1. PrepareInv => Inv
  BY DEF PrepareInv
<1>2. SendSpec => NamesStable
  BY <1>1, SendPrepares, PrepareFirst, PrepareStep, StepOfParts, NamesStep, PTL DEF NamesStable
<1>3. SendSpec => PlainIdsStable
  BY SendPrepares, CatalogFirst, CatalogNext, PlainIdsNext, PTL DEF PlainIdsStable
<1> QED
  BY <1>2, <1>3

SchemaInv ==
    /\ parameters \in Schemas /\ mode \in Modes
    /\ sentParameters # NotMade => sentParameters = NormalParameters(parameters, mode)

LEMMA SchemaFirst == SendInit => SchemaInv
<1> SUFFICES ASSUME SendInit PROVE SchemaInv
  OBVIOUS
<1>1. PICK k \in Kinds : parameters \in k.parameters /\ mode \in k.modes
  BY DEF SendInit
<1> QED
  BY <1>1, KindsAssumption DEF SendInit, SchemaInv, Modes

LEMMA SchemaNext == SchemaInv /\ [SendNext]_sendVars => SchemaInv'
<1> SUFFICES ASSUME SchemaInv, [SendNext]_sendVars PROVE SchemaInv'
  OBVIOUS
<1>1. MakeParameters \/ UNCHANGED schemaVars
  BY DEF SendNext, Send, SendImages, SendTools, SendChat, SendRefresh, sendVars
<1>2. CASE MakeParameters
  BY <1>2 DEF MakeParameters, SchemaInv
<1>3. CASE UNCHANGED schemaVars
  BY <1>3 DEF schemaVars, SchemaInv
<1> QED
  BY <1>1, <1>2, <1>3

\* A tool offered in a first attempt takes the arguments the client's schema
\* takes and no others: for every schema within the depth limit none of whose
\* ids a reference names, every limit and every validator.
THEOREM SchemasKept == SendSpec => []SchemaKeepsArguments
<1>1. SchemaInv => SchemaKeepsArguments
  <2> SUFFICES ASSUME SchemaInv, sentParameters # NotMade, mode = "normal",
                      ObjectRoot(parameters), NothingCut(parameters, mode),
                      \A s \in Visits(parameters, mode) : Plain(s, mode)
               PROVE  AcceptedBy(sentParameters) = AcceptedBy(parameters)
    BY DEF SchemaKeepsArguments
  <2>1. parameters \in Schemas /\ sentParameters = NormalParameters(parameters, "normal")
    BY DEF SchemaInv
  <2> QED
    BY <2>1, KeepsParameters
<1> QED
  BY <1>1, SchemaFirst, SchemaNext, PTL DEF SendSpec

\* No argument is lost by the second attempt, for every schema: references to
\* definitions that refer to themselves and keywords that are dropped included.
THEOREM SchemasLoosened == SendSpec => []FallbackOnlyLoosens
<1>1. SchemaInv => FallbackOnlyLoosens
  <2> SUFFICES ASSUME SchemaInv, sentParameters # NotMade, mode = "fallback",
                      \/ /\ NoListCut(parameters, mode)
                         /\ \A s \in Visits(parameters, mode) :
                                Typed(s) /\ DOMAIN s \cap Inverting = {}
                      \/ /\ NothingCut(parameters, mode)
                         /\ \A s \in Visits(parameters, mode) : Plain(s, mode)
               PROVE  AcceptedBy(parameters) \subseteq AcceptedBy(sentParameters)
    BY DEF FallbackOnlyLoosens
  <2>1. parameters \in Schemas /\ sentParameters = NormalParameters(parameters, "fallback")
    BY DEF SchemaInv
  <2> QED
    BY <2>1, LoosensParameters
<1> QED
  BY <1>1, SchemaFirst, SchemaNext, PTL DEF SendSpec
=============================================================================
