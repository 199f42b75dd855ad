--------------------------- MODULE SequenceLemmas ---------------------------
(* Facts about sequences over any set, stated once so that the proofs which  *)
(* use them need not show the provers what the elements are.                 *)
EXTENDS Naturals, Sequences, SequencesExt, WellFoundedInduction, TLAPS

LEMMA EmptyTyped == ASSUME NEW S PROVE <<>> \in Seq(S)
  OBVIOUS

LEMMA AppendTyped ==
    ASSUME NEW S, NEW seq \in Seq(S), NEW e \in S
    PROVE  Append(seq, e) \in Seq(S)
  OBVIOUS

LEMMA AppendIs ==
    ASSUME NEW S, NEW seq \in Seq(S), NEW e \in S
    PROVE  /\ Len(seq) \in Nat
           /\ Len(Append(seq, e)) = Len(seq) + 1
           /\ Append(seq, e)[Len(seq) + 1] = e
           /\ \A i \in 1 .. Len(seq) : Append(seq, e)[i] = seq[i] /\ seq[i] \in S
  OBVIOUS

LEMMA ElementTyped ==
    ASSUME NEW S, NEW seq \in Seq(S), NEW i \in Nat, i < Len(seq)
    PROVE  seq[i + 1] \in S
  OBVIOUS

LEMMA ConcatTyped ==
    ASSUME NEW S, NEW s \in Seq(S), NEW t \in Seq(S)
    PROVE  s \o t \in Seq(S)
  OBVIOUS

LEMMA ConcatIs ==
    ASSUME NEW S, NEW s \in Seq(S), NEW t \in Seq(S)
    PROVE  /\ Len(s \o t) = Len(s) + Len(t)
           /\ \A i \in 1 .. Len(s) : (s \o t)[i] = s[i]
           /\ \A i \in 1 .. Len(t) : (s \o t)[Len(s) + i] = t[i]
  OBVIOUS

LEMMA ConcatEmpty ==
    ASSUME NEW S, NEW s \in Seq(S)
    PROVE  s \o <<>> = s /\ <<>> \o s = s
  OBVIOUS

LEMMA ConcatAssociates ==
    ASSUME NEW S, NEW s \in Seq(S), NEW t \in Seq(S), NEW u \in Seq(S)
    PROVE  (s \o t) \o u = s \o (t \o u)
  OBVIOUS

\* Two ways to cut a sequence at the same place give the same parts.
LEMMA CutsAgree ==
    ASSUME NEW S, NEW s \in Seq(S), NEW t \in Seq(S), NEW u \in Seq(S), NEW v \in Seq(S),
           s \o t = u \o v, Len(s) = Len(u)
    PROVE  s = u /\ t = v
<1>1. Len(t) = Len(v)
  <2>1. Len(s \o t) = Len(s) + Len(t) /\ Len(u \o v) = Len(u) + Len(v)
    BY ConcatIs
  <2> QED
    BY <2>1
<1>2. ASSUME NEW i \in 1 .. Len(s) PROVE s[i] = u[i]
  <2>1. (s \o t)[i] = s[i] /\ (u \o v)[i] = u[i]
    BY ConcatIs
  <2> QED
    BY <2>1
<1>3. ASSUME NEW i \in 1 .. Len(t) PROVE t[i] = v[i]
  <2>1. (s \o t)[Len(s) + i] = t[i]
    BY ConcatIs
  <2>2. (u \o v)[Len(u) + i] = v[i]
    BY <1>1, ConcatIs
  <2> QED
    BY <2>1, <2>2
<1> QED
  BY <1>1, <1>2, <1>3

\* A sequence is put together from two parts it has.
LEMMA ConcatOf ==
    ASSUME NEW S, NEW s \in Seq(S), NEW t \in Seq(S), NEW u \in Seq(S),
           Len(s) = Len(t) + Len(u),
           \A i \in 1 .. Len(t) : s[i] = t[i],
           \A i \in 1 .. Len(u) : s[Len(t) + i] = u[i]
    PROVE  s = t \o u
<1> DEFINE whole == t \o u
<1>1. /\ whole \in Seq(S) /\ Len(whole) = Len(s)
      /\ \A i \in 1 .. Len(t) : whole[i] = s[i]
      /\ \A i \in 1 .. Len(u) : whole[Len(t) + i] = s[Len(t) + i]
  BY ConcatTyped, ConcatIs
<1> HIDE DEF whole
<1>2. ASSUME NEW i \in 1 .. Len(s) PROVE whole[i] = s[i]
  <2>1. CASE i <= Len(t)
    BY <1>1, <2>1
  <2>2. CASE i > Len(t)
    <3>1. i - Len(t) \in 1 .. Len(u) /\ Len(t) + (i - Len(t)) = i
      BY <2>2
    <3>2. PICK j \in 1 .. Len(u) : Len(t) + j = i
      BY <3>1
    <3>3. whole[Len(t) + j] = s[Len(t) + j]
      BY <1>1
    <3> QED
      BY <3>2, <3>3
  <2> QED
    BY <2>1, <2>2
<1>3. whole = s
  BY <1>1, <1>2
<1> QED
  BY <1>3 DEF whole

LEMMA CutAt ==
    ASSUME NEW S, NEW s \in Seq(S), NEW n \in 0 .. Len(s)
    PROVE  /\ SubSeq(s, 1, n) \in Seq(S) /\ Len(SubSeq(s, 1, n)) = n
           /\ SubSeq(s, n + 1, Len(s)) \in Seq(S) /\ Len(SubSeq(s, n + 1, Len(s))) = Len(s) - n
           /\ SubSeq(s, 1, n) \o SubSeq(s, n + 1, Len(s)) = s
           /\ \A i \in 1 .. n : SubSeq(s, 1, n)[i] = s[i]
<1> DEFINE first == SubSeq(s, 1, n)
           last == SubSeq(s, n + 1, Len(s))
<1>1. /\ first \in Seq(S) /\ Len(first) = n
      /\ \A i \in 1 .. n : first[i] = s[i]
  OBVIOUS
<1>2. /\ last \in Seq(S) /\ Len(last) = Len(s) - n
      /\ \A i \in 1 .. Len(s) - n : last[i] = s[n + i]
  OBVIOUS
<1> HIDE DEF first, last
<1>3. /\ Len(s) = Len(first) + Len(last)
      /\ \A i \in 1 .. Len(first) : s[i] = first[i]
      /\ \A i \in 1 .. Len(last) : s[Len(first) + i] = last[i]
  BY <1>1, <1>2
<1>4. s = first \o last
  BY <1>1, <1>2, <1>3, ConcatOf, Zenon
<1> QED
  BY <1>1, <1>2, <1>4 DEF first, last

-----------------------------------------------------------------------------
\* A set of numbers that has 0 and the successor of each of its members has
\* every number: induction stated of a set, which the provers can instantiate.
LEMMA InductionOnSet ==
    ASSUME NEW T, T \subseteq Nat, 0 \in T, \A n \in T : n + 1 \in T
    PROVE  \A n \in Nat : n \in T
<1> DEFINE U == {n \in Nat : n \notin T}
<1>1. SUFFICES ASSUME U # {} PROVE FALSE
  BY DEF U
<1>2. \E x \in U : \A y \in U : ~(<<y, x>> \in OpToRel(<, Nat))
  BY NatLessThanWellFounded, WFMin, <1>1
<1>3. PICK x \in U : \A y \in U : ~(<<y, x>> \in OpToRel(<, Nat))
  BY <1>2
<1>4. x \in Nat /\ x # 0
  BY <1>3
<1>5. x - 1 \in Nat /\ x - 1 < x /\ (x - 1) + 1 = x
  BY <1>4
<1>6. x - 1 \in U
  BY <1>3, <1>5
<1>7. <<x - 1, x>> \in OpToRel(<, Nat)
  BY <1>4, <1>5 DEF OpToRel
<1>8. QED
  BY <1>3, <1>6, <1>7

-----------------------------------------------------------------------------
\* FlattenSeq is defined by a recursive function of the index.  What it gives
\* is the last value of any function with that property.
Flattens(f, seqs) ==
    f = [i \in 1 .. Len(seqs) |-> IF i = 1 THEN seqs[i] ELSE f[i - 1] \o seqs[i]]

LEMMA LastValue ==
    ASSUME NEW S, NEW n \in Nat, n # 0, NEW f \in [1 .. n -> S]
    PROVE  f[n] \in S
  OBVIOUS

LEMMA FlattensUnique ==
    ASSUME NEW seqs, Len(seqs) \in Nat, NEW f, NEW g, Flattens(f, seqs), Flattens(g, seqs)
    PROVE  f = g
<1> DEFINE Agree == {n \in Nat : \A i \in 1 .. Len(seqs) : i <= n => f[i] = g[i]}
<1>1. 0 \in Agree
  OBVIOUS
<1>2. ASSUME NEW n \in Agree PROVE n + 1 \in Agree
  <2>1. SUFFICES ASSUME n + 1 \in 1 .. Len(seqs) PROVE f[n + 1] = g[n + 1]
    BY <1>2
  <2>2. n # 0 => f[n] = g[n]
    BY <1>2, <2>1
  <2>3. f[n + 1] = IF n + 1 = 1 THEN seqs[n + 1] ELSE f[(n + 1) - 1] \o seqs[n + 1]
    BY <2>1 DEF Flattens
  <2>4. g[n + 1] = IF n + 1 = 1 THEN seqs[n + 1] ELSE g[(n + 1) - 1] \o seqs[n + 1]
    BY <2>1 DEF Flattens
  <2>5. n \in Nat /\ (n + 1) - 1 = n
    OBVIOUS
  <2> QED
    BY <2>2, <2>3, <2>4, <2>5
<1> HIDE DEF Agree
<1>3. \A n \in Nat : n \in Agree
  <2>1. Agree \subseteq Nat
    BY DEF Agree
  <2> QED
    BY <1>1, <1>2, <2>1, InductionOnSet
<1>4. Len(seqs) \in Agree
  BY <1>3
<1>5. \A i \in 1 .. Len(seqs) : f[i] = g[i]
  BY <1>4 DEF Agree
<1> QED
  BY <1>5 DEF Flattens

LEMMA FlattensExtends ==
    ASSUME NEW S, NEW seqs \in Seq(Seq(S)), NEW e \in Seq(S), NEW f,
           Flattens(f, seqs), f \in [1 .. Len(seqs) -> Seq(S)]
    PROVE  \E g \in [1 .. Len(seqs) + 1 -> Seq(S)] :
              /\ Flattens(g, Append(seqs, e))
              /\ g[Len(seqs) + 1] = (IF seqs = <<>> THEN e ELSE f[Len(seqs)] \o e)
<1> DEFINE all == Append(seqs, e)
           last == IF seqs = <<>> THEN e ELSE f[Len(seqs)] \o e
           g == [i \in 1 .. Len(seqs) + 1 |-> IF i = Len(seqs) + 1 THEN last ELSE f[i]]
<1>1. /\ Len(seqs) \in Nat
      /\ Len(all) = Len(seqs) + 1
      /\ all[Len(seqs) + 1] = e
      /\ \A i \in 1 .. Len(seqs) : all[i] = seqs[i]
      /\ seqs = <<>> <=> Len(seqs) = 0
  OBVIOUS
<1>2. last \in Seq(S)
  <2>1. CASE seqs # <<>>
    <3>1. f[Len(seqs)] \in Seq(S)
      BY <1>1, <2>1, LastValue
    <3> QED
      BY <2>1, <3>1, ConcatTyped
  <2> QED
    BY <2>1
<1>3. g \in [1 .. Len(seqs) + 1 -> Seq(S)]
  BY <1>1, <1>2
<1> HIDE DEF all
<1>4. ASSUME NEW i \in 1 .. Len(seqs) + 1
      PROVE  g[i] = IF i = 1 THEN all[i] ELSE g[i - 1] \o all[i]
  <2>1. CASE i = Len(seqs) + 1
    BY <1>1, <2>1
  <2>2. CASE i # Len(seqs) + 1
    <3>1. i \in 1 .. Len(seqs) /\ (i # 1 => i - 1 \in 1 .. Len(seqs) /\ i - 1 # Len(seqs) + 1)
      BY <1>1, <2>2
    <3>2. f[i] = IF i = 1 THEN seqs[i] ELSE f[i - 1] \o seqs[i]
      BY <3>1 DEF Flattens
    <3>3. g[i] = f[i]
      BY <2>2
    <3>4. i # 1 => g[i - 1] = f[i - 1]
      BY <3>1
    <3>5. all[i] = seqs[i]
      BY <1>1, <3>1
    <3> HIDE DEF g
    <3> QED
      BY <3>2, <3>3, <3>4, <3>5
  <2> QED
    BY <2>1, <2>2
<1>5. Flattens(g, all)
  BY <1>1, <1>4 DEF Flattens
<1>6. g[Len(seqs) + 1] = last
  BY <1>1
<1> QED
  BY <1>3, <1>5, <1>6 DEF all

LEMMA FlattensExists ==
    ASSUME NEW S, NEW seqs \in Seq(Seq(S))
    PROVE  \E f \in [1 .. Len(seqs) -> Seq(S)] : Flattens(f, seqs)
<1> DEFINE Has == {n \in Nat : \A s \in Seq(Seq(S)) :
                     Len(s) = n => \E f \in [1 .. Len(s) -> Seq(S)] : Flattens(f, s)}
<1>1. 0 \in Has
  <2>1. SUFFICES ASSUME NEW s \in Seq(Seq(S)), Len(s) = 0
                 PROVE  \E f \in [1 .. Len(s) -> Seq(S)] : Flattens(f, s)
    OBVIOUS
  <2>2. 1 .. Len(s) = {}
    BY <2>1
  <2>3. WITNESS [i \in 1 .. Len(s) |-> <<>>] \in [1 .. Len(s) -> Seq(S)]
  <2> QED
    BY <2>2 DEF Flattens
<1>2. ASSUME NEW n \in Has PROVE n + 1 \in Has
  <2>1. SUFFICES ASSUME NEW s \in Seq(Seq(S)), Len(s) = n + 1
                 PROVE  \E f \in [1 .. Len(s) -> Seq(S)] : Flattens(f, s)
    BY <1>2
  <2> DEFINE front == SubSeq(s, 1, n)
             e == s[n + 1]
  <2>2. front \in Seq(Seq(S)) /\ Len(front) = n /\ e \in Seq(S) /\ s = Append(front, e)
    BY <1>2, <2>1
  <2>3. PICK f \in [1 .. Len(front) -> Seq(S)] : Flattens(f, front)
    BY <1>2, <2>2
  <2> HIDE DEF front, e
  <2> QED
    BY <2>1, <2>2, <2>3, FlattensExtends
<1> HIDE DEF Has
<1>3. \A n \in Nat : n \in Has
  <2>1. Has \subseteq Nat
    BY DEF Has
  <2> QED
    BY <1>1, <1>2, <2>1, InductionOnSet
<1> QED
  BY <1>3 DEF Has

LEMMA FlattenIs ==
    ASSUME NEW seqs, Len(seqs) \in Nat \ {0}, NEW f, Flattens(f, seqs)
    PROVE  FlattenSeq(seqs) = f[Len(seqs)]
<1> DEFINE g == CHOOSE h : Flattens(h, seqs)
<1>1. Flattens(g, seqs)
  OBVIOUS
<1>2. f = g
  BY <1>1, FlattensUnique
<1>3. FlattenSeq(seqs) = g[Len(seqs)]
  BY DEF FlattenSeq, Flattens
<1> QED
  BY <1>2, <1>3

LEMMA FlattenEmpty == FlattenSeq(<<>>) = <<>>
  BY DEF FlattenSeq

LEMMA FlattenTyped ==
    ASSUME NEW S, NEW seqs \in Seq(Seq(S))
    PROVE  FlattenSeq(seqs) \in Seq(S)
<1>1. CASE seqs = <<>>
  BY <1>1, FlattenEmpty, EmptyTyped
<1>2. CASE seqs # <<>>
  <2>1. Len(seqs) \in Nat \ {0}
    BY <1>2
  <2>2. PICK f \in [1 .. Len(seqs) -> Seq(S)] : Flattens(f, seqs)
    BY FlattensExists
  <2>3. f[Len(seqs)] \in Seq(S)
    BY <2>1, <2>2, LastValue
  <2> QED
    BY <2>1, <2>2, <2>3, FlattenIs
<1> QED
  BY <1>1, <1>2

LEMMA FlattenNone ==
    ASSUME NEW S, NEW seqs \in Seq(Seq(S))
    PROVE  SubSeq(seqs, 1, 0) = <<>> /\ FlattenSeq(SubSeq(seqs, 1, 0)) = <<>>
<1>1. SubSeq(seqs, 1, 0) = <<>>
  OBVIOUS
<1> QED
  BY <1>1, FlattenEmpty

LEMMA FlattenAppend ==
    ASSUME NEW S, NEW seqs \in Seq(Seq(S)), NEW e \in Seq(S)
    PROVE  FlattenSeq(Append(seqs, e)) = FlattenSeq(seqs) \o e
<1>1. PICK f \in [1 .. Len(seqs) -> Seq(S)] : Flattens(f, seqs)
  BY FlattensExists
<1>2. PICK g \in [1 .. Len(seqs) + 1 -> Seq(S)] :
              /\ Flattens(g, Append(seqs, e))
              /\ g[Len(seqs) + 1] = (IF seqs = <<>> THEN e ELSE f[Len(seqs)] \o e)
  BY <1>1, FlattensExtends
<1>3. Len(Append(seqs, e)) = Len(seqs) + 1 /\ Len(seqs) \in Nat
  OBVIOUS
<1>4. FlattenSeq(Append(seqs, e)) = g[Len(seqs) + 1]
  <2> DEFINE all == Append(seqs, e)
  <2>1. Flattens(g, all) /\ Len(all) \in Nat \ {0} /\ Len(all) = Len(seqs) + 1
    BY <1>2, <1>3
  <2> HIDE DEF all
  <2>2. FlattenSeq(all) = g[Len(all)]
    BY <2>1, FlattenIs
  <2> QED
    BY <2>1, <2>2 DEF all
<1>5. CASE seqs = <<>>
  BY <1>2, <1>4, <1>5, FlattenEmpty
<1>6. CASE seqs # <<>>
  <2>1. FlattenSeq(seqs) = f[Len(seqs)]
    BY <1>1, <1>3, <1>6, FlattenIs
  <2> QED
    BY <1>2, <1>4, <1>6, <2>1
<1> QED
  BY <1>5, <1>6

\* What the first sequences give is where the next one begins.
LEMMA FlattenFirst ==
    ASSUME NEW S, NEW seqs \in Seq(Seq(S)), NEW n \in Nat, n < Len(seqs)
    PROVE  FlattenSeq(SubSeq(seqs, 1, n + 1)) = FlattenSeq(SubSeq(seqs, 1, n)) \o seqs[n + 1]
<1> DEFINE T == Seq(S)
           first == SubSeq(seqs, 1, n)
           e == seqs[n + 1]
<1>1. seqs \in Seq(T) /\ n \in 0 .. Len(seqs)
  OBVIOUS
<1> HIDE DEF T
<1>2. e \in T
  BY <1>1, ElementTyped
<1>3. first \in Seq(T)
  BY <1>1, CutAt
<1>4. SubSeq(seqs, 1, n + 1) = Append(first, e)
  BY <1>1
<1> HIDE DEF first, e
<1>5. FlattenSeq(Append(first, e)) = FlattenSeq(first) \o e
  BY <1>2, <1>3, FlattenAppend DEF T
<1> QED
  BY <1>4, <1>5 DEF first, e

LEMMA FlattenCut ==
    ASSUME NEW S, NEW seqs \in Seq(Seq(S)), NEW n \in Nat, n < Len(seqs)
    PROVE  \E rest \in Seq(S) :
              FlattenSeq(seqs) = FlattenSeq(SubSeq(seqs, 1, n)) \o (seqs[n + 1] \o rest)
<1> DEFINE T == Seq(S)
           first(m) == FlattenSeq(SubSeq(seqs, 1, m))
           Reached(m) == \E rest \in T : first(m) = first(n) \o (seqs[n + 1] \o rest)
           Far == {k \in Nat : n + 1 + k <= Len(seqs) => Reached(n + 1 + k)}
<1>1. seqs \in Seq(T) /\ Len(seqs) \in Nat
  OBVIOUS
<1>2. ASSUME NEW m \in 0 .. Len(seqs) PROVE first(m) \in T
  <2>1. SubSeq(seqs, 1, m) \in Seq(Seq(S))
    BY CutAt
  <2> QED
    BY <2>1, FlattenTyped
<1>3. ASSUME NEW m \in Nat, m < Len(seqs) PROVE first(m + 1) = first(m) \o seqs[m + 1]
  BY <1>3, FlattenFirst
<1>4. ASSUME NEW m \in Nat, m < Len(seqs) PROVE seqs[m + 1] \in T
  BY <1>1, <1>4
<1>5. first(Len(seqs)) = FlattenSeq(seqs)
  <2>1. SubSeq(seqs, 1, Len(seqs)) = seqs
    OBVIOUS
  <2> QED
    BY <2>1
<1>6. \A s, t, u \in T : (s \o t) \o u = s \o (t \o u)
  BY ConcatAssociates
<1>7. \A s, t \in T : s \o t \in T
  BY ConcatTyped
<1>8. <<>> \in T /\ \A s \in T : s \o <<>> = s
  BY ConcatEmpty
<1> HIDE DEF T, first
<1>9. 0 \in Far
  <2>1. seqs[n + 1] \o <<>> = seqs[n + 1]
    BY <1>4, <1>8, Zenon
  <2>2. first(n + 1) = first(n) \o (seqs[n + 1] \o <<>>)
    BY <1>3, <2>1
  <2>3. Reached(n + 1)
    BY <1>8, <2>2
  <2>4. n + 1 + 0 = n + 1
    OBVIOUS
  <2> HIDE DEF Reached
  <2> QED
    BY <2>3, <2>4
<1>10. ASSUME NEW k \in Far PROVE k + 1 \in Far
  <2> DEFINE m == n + 1 + k
  <2>1. SUFFICES ASSUME m + 1 <= Len(seqs) PROVE Reached(m + 1)
    <3>1. n + 1 + (k + 1) = m + 1 /\ k + 1 \in Nat
      BY <1>10
    <3> HIDE DEF Reached, m
    <3> QED
      BY <3>1
  <2>2. m \in Nat /\ m < Len(seqs)
    BY <1>10, <2>1, <1>1
  <2>3. Reached(m)
    <3>1. n + 1 + k <= Len(seqs) => Reached(n + 1 + k)
      BY <1>10
    <3> HIDE DEF Reached
    <3> QED
      BY <2>2, <3>1
  <2> HIDE DEF m
  <2>4. PICK rest \in T : first(m) = first(n) \o (seqs[n + 1] \o rest)
    BY <2>3
  <2> DEFINE a == first(n)
             b == seqs[n + 1]
             c == seqs[m + 1]
             d == b \o rest
  <2>5. a \in T /\ b \in T /\ c \in T /\ d \in T
    BY <1>1, <1>2, <1>4, <1>7, <2>2
  <2>6. first(m + 1) = (a \o d) \o c
    BY <1>3, <2>2, <2>4
  <2>7. d \o c = b \o (rest \o c)
    <3> HIDE DEF b, c
    <3> QED
      BY <1>6, <2>5, Zenon
  <2>8. (a \o d) \o c = a \o (d \o c)
    <3> HIDE DEF a, c, d
    <3> QED
      BY <1>6, <2>5, Zenon
  <2>9. rest \o c \in T
    BY <1>7, <2>5, Zenon
  <2>10. first(m + 1) = a \o (b \o (rest \o c))
    BY <2>6, <2>7, <2>8, Zenon
  <2> QED
    BY <2>9, <2>10, Zenon
<1> HIDE DEF Far, Reached
<1>11. \A k \in Nat : k \in Far
  <2>1. Far \subseteq Nat
    BY DEF Far
  <2> QED
    BY <1>9, <1>10, <2>1, InductionOnSet
<1>12. Reached(Len(seqs))
  <2> DEFINE k == Len(seqs) - (n + 1)
  <2>1. k \in Nat /\ n + 1 + k = Len(seqs)
    BY <1>1
  <2> HIDE DEF k
  <2>2. n + 1 + k <= Len(seqs) => Reached(n + 1 + k)
    BY <1>11, <2>1 DEF Far
  <2>3. n + 1 + k <= Len(seqs)
    BY <2>1, <1>1
  <2>4. Reached(n + 1 + k)
    BY <2>2, <2>3, Zenon
  <2> QED
    BY <2>1, <2>4, Zenon
<1>13. PICK rest \in T : first(Len(seqs)) = first(n) \o (seqs[n + 1] \o rest)
  BY <1>12 DEF Reached
<1>14. FlattenSeq(seqs) = first(n) \o (seqs[n + 1] \o rest)
  BY <1>5, <1>13, Zenon
<1> QED
  BY <1>14 DEF first, T

-----------------------------------------------------------------------------
\* FoldLeft is defined by a recursive function of the set of indices that are
\* left, of which it takes the greatest.  The sums it gives are the value, for
\* all indices, of any function with that property.
Totals(g, w, base) ==
    g = [s \in SUBSET (1 .. Len(w)) |->
            IF s = {} THEN base ELSE g[s \ {Max(s)}] + w[Max(s)]]

LEMMA MaxIs ==
    ASSUME NEW n \in Nat, NEW s \in SUBSET (1 .. n), s # {}
    PROVE  Max(s) \in s /\ \A x \in s : Max(s) >= x
<1> DEFINE Has == {k \in Nat : \A t \in SUBSET (1 .. k) :
                                  t # {} => \E x \in t : \A y \in t : x >= y}
<1>1. 0 \in Has
  <2>1. \A t \in SUBSET (1 .. 0) : t = {}
    OBVIOUS
  <2> QED
    BY <2>1
<1>2. ASSUME NEW k \in Has PROVE k + 1 \in Has
  <2>1. SUFFICES ASSUME NEW t \in SUBSET (1 .. k + 1), t # {}
                 PROVE  \E x \in t : \A y \in t : x >= y
    BY <1>2
  <2>2. CASE k + 1 \in t
    BY <1>2, <2>2
  <2>3. CASE k + 1 \notin t
    <3>1. t \in SUBSET (1 .. k)
      BY <1>2, <2>3
    <3> QED
      BY <1>2, <2>1, <3>1
  <2> QED
    BY <2>2, <2>3
<1>3. Has \subseteq Nat
  OBVIOUS
<1> HIDE DEF Has
<1>4. n \in Has
  BY <1>1, <1>2, <1>3, InductionOnSet
<1>5. \E x \in s : \A y \in s : x >= y
  BY <1>4 DEF Has
<1> QED
  BY <1>5 DEF Max

LEMMA TotalsUnique ==
    ASSUME NEW w, Len(w) \in Nat, NEW base, NEW g, NEW h,
           Totals(g, w, base), Totals(h, w, base)
    PROVE  g = h
<1> DEFINE Agree == {n \in Nat : \A s \in SUBSET (1 .. Len(w)) :
                                    s \subseteq 1 .. n => g[s] = h[s]}
<1>1. \A s \in SUBSET (1 .. Len(w)) :
          g[s] = IF s = {} THEN base ELSE g[s \ {Max(s)}] + w[Max(s)]
  BY DEF Totals
<1>2. \A s \in SUBSET (1 .. Len(w)) :
          h[s] = IF s = {} THEN base ELSE h[s \ {Max(s)}] + w[Max(s)]
  BY DEF Totals
<1>3. 0 \in Agree
  <2>1. ASSUME NEW s \in SUBSET (1 .. Len(w)), s \subseteq 1 .. 0 PROVE g[s] = h[s]
    <3>1. s = {}
      BY <2>1
    <3> QED
      BY <1>1, <1>2, <3>1
  <2> QED
    BY <2>1
<1>4. ASSUME NEW n \in Agree PROVE n + 1 \in Agree
  <2>1. SUFFICES ASSUME NEW s \in SUBSET (1 .. Len(w)), s \subseteq 1 .. n + 1, s # {}
                 PROVE  g[s] = h[s]
    BY <1>1, <1>2, <1>4
  <2>2. Max(s) \in s /\ \A x \in s : Max(s) >= x
    BY <2>1, MaxIs
  <2>3. s \ {Max(s)} \subseteq 1 .. n
    <3> SUFFICES ASSUME NEW x \in s, x # Max(s) PROVE x \in 1 .. n
      OBVIOUS
    <3>1. x \in 1 .. n + 1 /\ Max(s) \in 1 .. n + 1 /\ Max(s) >= x
      BY <2>1, <2>2
    <3> QED
      BY <1>4, <3>1
  <2>4. g[s \ {Max(s)}] = h[s \ {Max(s)}]
    BY <1>4, <2>3
  <2> QED
    BY <1>1, <1>2, <2>1, <2>4
<1>5. Agree \subseteq Nat
  OBVIOUS
<1> HIDE DEF Agree
<1>6. Len(w) \in Agree
  BY <1>3, <1>4, <1>5, InductionOnSet
<1>7. \A s \in SUBSET (1 .. Len(w)) : g[s] = h[s]
  BY <1>6 DEF Agree
<1> QED
  BY <1>7 DEF Totals

LEMMA TotalsExtends ==
    ASSUME NEW w \in Seq(Nat), NEW k \in Nat, NEW base \in Nat,
           NEW g \in [SUBSET (1 .. Len(w)) -> Nat], Totals(g, w, base)
    PROVE  \E h \in [SUBSET (1 .. Len(w) + 1) -> Nat] :
              /\ Totals(h, Append(w, k), base)
              /\ h[1 .. Len(w) + 1] = g[1 .. Len(w)] + k
<1> DEFINE n == Len(w)
           more == Append(w, k)
           h == [s \in SUBSET (1 .. n + 1) |->
                    IF n + 1 \in s THEN g[s \ {n + 1}] + k ELSE g[s]]
<1>1. /\ n \in Nat /\ Len(more) = n + 1 /\ more[n + 1] = k
      /\ \A i \in 1 .. n : more[i] = w[i] /\ w[i] \in Nat
  OBVIOUS
<1> HIDE DEF n, more
<1>2. g \in [SUBSET (1 .. n) -> Nat]
  BY DEF n
<1>3. \A s \in SUBSET (1 .. n) :
          g[s] = IF s = {} THEN base ELSE g[s \ {Max(s)}] + w[Max(s)]
  BY DEF Totals, n
<1>4. \A s \in SUBSET (1 .. n + 1) : s \ {n + 1} \in SUBSET (1 .. n)
  BY <1>1
<1>5. \A s \in SUBSET (1 .. n + 1) : n + 1 \notin s => s \in SUBSET (1 .. n)
  BY <1>1
<1>6. h \in [SUBSET (1 .. n + 1) -> Nat]
  <2>1. ASSUME NEW s \in SUBSET (1 .. n + 1)
        PROVE  (IF n + 1 \in s THEN g[s \ {n + 1}] + k ELSE g[s]) \in Nat
    <3>1. CASE n + 1 \in s
      <4>1. g[s \ {n + 1}] \in Nat
        BY <1>2, <1>4
      <4> QED
        BY <3>1, <4>1
    <3>2. CASE n + 1 \notin s
      <4>1. g[s] \in Nat
        BY <1>2, <1>5, <3>2
      <4> QED
        BY <3>2, <4>1
    <3> QED
      BY <3>1, <3>2
  <2> QED
    BY <2>1
<1>7. ASSUME NEW s \in SUBSET (1 .. n + 1)
      PROVE  h[s] = IF s = {} THEN base ELSE h[s \ {Max(s)}] + more[Max(s)]
  <2>1. CASE s = {}
    <3>1. {} \in SUBSET (1 .. n) /\ n + 1 \notin {}
      OBVIOUS
    <3>2. h[s] = g[{}]
      BY <2>1, <3>1
    <3> HIDE DEF h
    <3> QED
      BY <1>3, <2>1, <3>1, <3>2
  <2>2. CASE s # {} /\ n + 1 \in s
    <3>1. Max(s) \in s /\ \A x \in s : Max(s) >= x
      <4>1. n + 1 \in Nat
        BY <1>1
      <4> HIDE DEF h
      <4> QED
        BY <2>2, <4>1, MaxIs
    <3>2. Max(s) = n + 1
      <4>1. Max(s) \in 1 .. n + 1 /\ Max(s) >= n + 1
        BY <2>2, <3>1
      <4> HIDE DEF h
      <4> QED
        BY <1>1, <4>1
    <3>3. s \ {n + 1} \in SUBSET (1 .. n + 1) /\ n + 1 \notin s \ {n + 1}
      OBVIOUS
    <3>4. h[s \ {n + 1}] = g[s \ {n + 1}]
      BY <3>3
    <3>5. h[s] = g[s \ {n + 1}] + k
      BY <2>2
    <3> HIDE DEF h
    <3> QED
      BY <1>1, <2>2, <3>2, <3>4, <3>5
  <2>3. CASE s # {} /\ n + 1 \notin s
    <3>1. s \in SUBSET (1 .. n) /\ s \ {Max(s)} \in SUBSET (1 .. n + 1)
      BY <1>5, <2>3
    <3>2. Max(s) \in s
      BY <1>1, <2>3, <3>1, MaxIs
    <3>3. more[Max(s)] = w[Max(s)]
      BY <1>1, <3>1, <3>2
    <3>4. h[s] = g[s] /\ h[s \ {Max(s)}] = g[s \ {Max(s)}]
      BY <2>3, <3>1
    <3> HIDE DEF h
    <3> QED
      BY <1>3, <2>3, <3>1, <3>3, <3>4
  <2> QED
    BY <2>1, <2>2, <2>3
<1>8. h[1 .. n + 1] = g[1 .. n] + k
  <2>1. n + 1 \in 1 .. n + 1 /\ (1 .. n + 1) \ {n + 1} = 1 .. n
    BY <1>1
  <2> QED
    BY <2>1
<1>9. Totals(h, more, base)
  <2>1. h = [s \in SUBSET (1 .. n + 1) |-> h[s]]
    OBVIOUS
  <2> HIDE DEF h
  <2>2. h = [s \in SUBSET (1 .. n + 1) |->
                IF s = {} THEN base ELSE h[s \ {Max(s)}] + more[Max(s)]]
    BY <1>7, <2>1
  <2> QED
    BY <1>1, <2>2 DEF Totals
<1> HIDE DEF h
<1> QED
  BY <1>6, <1>8, <1>9 DEF n, more

LEMMA TotalsExists ==
    ASSUME NEW w \in Seq(Nat), NEW base \in Nat
    PROVE  \E g \in [SUBSET (1 .. Len(w)) -> Nat] : Totals(g, w, base)
<1> DEFINE Summed(v) == \E g \in [SUBSET (1 .. Len(v)) -> Nat] : Totals(g, v, base)
           Has == {n \in Nat : \A v \in Seq(Nat) : Len(v) = n => Summed(v)}
<1>1. 0 \in Has
  <2>1. SUFFICES ASSUME NEW v \in Seq(Nat), Len(v) = 0 PROVE Summed(v)
    <3> HIDE DEF Summed
    <3> QED
      OBVIOUS
  <2> DEFINE g == [s \in SUBSET (1 .. Len(v)) |-> base]
  <2>2. \A s \in SUBSET (1 .. Len(v)) : s = {}
    BY <2>1
  <2>3. g \in [SUBSET (1 .. Len(v)) -> Nat]
    OBVIOUS
  <2>4. Totals(g, v, base)
    BY <2>2 DEF Totals
  <2> QED
    BY <2>3, <2>4
<1>2. ASSUME NEW n \in Has PROVE n + 1 \in Has
  <2>1. SUFFICES ASSUME NEW v \in Seq(Nat), Len(v) = n + 1 PROVE Summed(v)
    <3> HIDE DEF Summed
    <3> QED
      BY <1>2
  <2> DEFINE front == SubSeq(v, 1, n)
             k == v[n + 1]
  <2>2. front \in Seq(Nat) /\ Len(front) = n /\ k \in Nat /\ v = Append(front, k)
    BY <1>2, <2>1
  <2>3. PICK g \in [SUBSET (1 .. Len(front)) -> Nat] : Totals(g, front, base)
    <3>1. Summed(front)
      <4> HIDE DEF Summed
      <4> QED
        BY <1>2, <2>2
    <3> QED
      BY <3>1
  <2> HIDE DEF front, k
  <2>4. \E h \in [SUBSET (1 .. Len(front) + 1) -> Nat] : Totals(h, Append(front, k), base)
    BY <2>2, <2>3, TotalsExtends
  <2> QED
    BY <2>1, <2>2, <2>4
<1>3. Has \subseteq Nat
  OBVIOUS
<1> HIDE DEF Has
<1>4. \A n \in Nat : n \in Has
  BY <1>1, <1>2, <1>3, InductionOnSet
<1>5. Summed(w)
  <2> HIDE DEF Summed
  <2> QED
    BY <1>4 DEF Has
<1> QED
  BY <1>5
=============================================================================
