----------------------------- MODULE JoinProofs -----------------------------
(***************************************************************************)
(* Theorems of the join view and of the texts that people write: which     *)
(* posts are printed, and what of them stays on the screen (JoinView); the *)
(* composition that is posted from it (LineEditor); the handles that a     *)
(* post mentions (Mentions); and the block of rules in an instruction file *)
(* among what its user has written (MarkerBlock).                          *)
(*                                                                         *)
(* The lemmas on sequences that come first stand on an induction over sets *)
(* of numbers and of sequences: CountingUp and SeqInduction.               *)
(***************************************************************************)
EXTENDS JoinView, LineEditor, Mentions, MarkerBlock, Selection, Integers, FiniteSetTheorems,
        SequenceTheorems, WellFoundedInduction, TLAPS

-----------------------------------------------------------------------------
(* Numbers and sequences                                                   *)

LEMMA Least ==
  ASSUME NEW S, S \subseteq Nat, S # {}
  PROVE  \E x \in S : \A y \in S : x <= y
<1> DEFINE Order == StrictSubsetOrdering(Nat)
           Below == {0 .. x - 1 : x \in S}
<1>1. IsWellFoundedOn(Order, FiniteSubsetsOf(Nat))
  BY FS_StrictSubsetOrderingWellFounded
<1>2. Below \subseteq FiniteSubsetsOf(Nat) /\ Below # {}
  <2>1. \A x \in S : 0 .. x - 1 \in SUBSET Nat /\ IsFiniteSet(0 .. x - 1)
    BY FS_Interval
  <2>2. QED
    BY <2>1 DEF FiniteSubsetsOf
<1>3. PICK b \in Below : \A c \in Below : <<c, b>> \notin Order
  <2> HIDE DEF Order, Below
  <2> QED
    BY <1>1, <1>2, WFMin, Zenon
<1>4. PICK x \in S : b = 0 .. x - 1
  BY <1>3
<1>5. ASSUME NEW y \in S, ~(x <= y) PROVE FALSE
  <2>1. 0 .. y - 1 \subseteq 0 .. x - 1 /\ y \in 0 .. x - 1 /\ y \notin 0 .. y - 1
    BY <1>5
  <2>2. <<0 .. y - 1, 0 .. x - 1>> \in Order
    BY <2>1 DEF StrictSubsetOrdering
  <2>3. QED
    BY <1>3, <1>4, <2>2
<1>6. QED
  BY <1>5

LEMMA CountingUp ==
  ASSUME NEW G, G \subseteq Nat, 0 \in G, \A n \in G : n + 1 \in G
  PROVE  G = Nat
<1>1. SUFFICES ASSUME Nat \ G # {} PROVE FALSE
  OBVIOUS
<1>2. PICK x \in Nat \ G : \A y \in Nat \ G : x <= y
  BY <1>1, Least
<1>3. x # 0 /\ x - 1 \in Nat /\ ~(x <= x - 1)
  BY <1>2
<1>4. x - 1 \in G
  BY <1>2, <1>3
<1>5. (x - 1) + 1 \in G
  BY <1>4
<1>6. QED
  BY <1>2, <1>5

LEMMA SeqInduction ==
  ASSUME NEW X, NEW G, G \subseteq Seq(X), << >> \in G,
         \A s \in G : \A x \in X : Append(s, x) \in G
  PROVE  G = Seq(X)
<1> DEFINE N == {n \in Nat : \A s \in Seq(X) : Len(s) = n => s \in G}
<1>1. 0 \in N
  <2>1. \A s \in Seq(X) : Len(s) = 0 => s = << >>
    BY EmptySeq
  <2>2. QED
    BY <2>1
<1>2. ASSUME NEW n \in N PROVE n + 1 \in N
  <2>1. ASSUME NEW s \in Seq(X), Len(s) = n + 1 PROVE s \in G
    <3>1. s # << >>
      BY <2>1, EmptySeq
    <3>2. PICK t \in Seq(X), x \in X : s = Append(t, x)
      BY <3>1, SequenceEmptyOrAppend
    <3>3. Len(t) = n
      <4>1. Len(s) = Len(t) + 1 /\ Len(t) \in Nat
        BY <3>2
      <4>2. QED
        BY <4>1, <2>1
    <3>4. QED
      BY <3>2, <3>3
  <2>2. QED
    BY <2>1
<1>3. N = Nat
  <2> HIDE DEF N
  <2>1. N \subseteq Nat
    BY DEF N
  <2>2. QED
    BY <1>1, <1>2, <2>1, CountingUp
<1>4. ASSUME NEW s \in Seq(X) PROVE s \in G
  <2>1. Len(s) \in N
    BY <1>3, LenProperties
  <2>2. QED
    BY <2>1
<1>5. QED
  BY <1>4

-----------------------------------------------------------------------------

(* What FlattenSeq is made of.                                             *)
Flattening(ss, k, f) ==
  f = [i \in 1 .. k |-> IF i = 1 THEN ss[i] ELSE f[i - 1] \o ss[i]]

LEMMA FlatteningAt ==
  ASSUME NEW ss, NEW k \in Nat, NEW f, Flattening(ss, k, f), NEW i \in 1 .. k
  PROVE  f[i] = IF i = 1 THEN ss[i] ELSE f[i - 1] \o ss[i]
<1> DEFINE g == [j \in 1 .. k |-> IF j = 1 THEN ss[j] ELSE f[j - 1] \o ss[j]]
<1>1. g[i] = IF i = 1 THEN ss[i] ELSE f[i - 1] \o ss[i]
  OBVIOUS
<1>2. f = g
  BY Zenon DEF Flattening
<1> HIDE DEF g
<1>3. QED
  BY <1>1, <1>2

LEMMA FlatteningExists ==
  ASSUME NEW ss
  PROVE  \A k \in Nat : \E f : Flattening(ss, k, f)
<1> DEFINE N == {k \in Nat : \E f : Flattening(ss, k, f)}
<1>1. 0 \in N
  <2>1. Flattening(ss, 0, [i \in 1 .. 0 |-> << >>])
    BY DEF Flattening
  <2>2. QED
    BY <2>1
<1>2. ASSUME NEW k \in N PROVE k + 1 \in N
  <2>1. PICK f : Flattening(ss, k, f)
    OBVIOUS
  <2> DEFINE h == [i \in 1 .. k + 1 |-> IF i = 1 THEN ss[i] ELSE f[i - 1] \o ss[i]]
  <2>2. ASSUME NEW i \in 1 .. k + 1
        PROVE  h[i] = IF i = 1 THEN ss[i] ELSE h[i - 1] \o ss[i]
    <3>1. h[i] = IF i = 1 THEN ss[i] ELSE f[i - 1] \o ss[i]
      OBVIOUS
    <3>2. CASE i = 1
      BY <3>1, <3>2
    <3>3. CASE i # 1
      <4>1. i - 1 \in 1 .. k /\ i - 1 \in 1 .. k + 1
        BY <3>3
      <4>2. h[i - 1] = IF i - 1 = 1 THEN ss[i - 1] ELSE f[(i - 1) - 1] \o ss[i - 1]
        BY <4>1
      <4>3. f[i - 1] = IF i - 1 = 1 THEN ss[i - 1] ELSE f[(i - 1) - 1] \o ss[i - 1]
        BY <2>1, <4>1, FlatteningAt
      <4> HIDE DEF h
      <4>4. QED
        BY <3>1, <3>3, <4>2, <4>3
    <3>4. QED
      BY <3>2, <3>3
  <2>3. h = [i \in 1 .. k + 1 |-> h[i]]
    OBVIOUS
  <2> HIDE DEF h
  <2>4. h = [i \in 1 .. k + 1 |-> IF i = 1 THEN ss[i] ELSE h[i - 1] \o ss[i]]
    BY <2>2, <2>3
  <2>5. Flattening(ss, k + 1, h)
    BY <2>4, Zenon DEF Flattening
  <2>6. k + 1 \in Nat
    OBVIOUS
  <2>7. QED
    BY <2>5, <2>6
<1>3. N = Nat
  <2> HIDE DEF N
  <2>1. N \subseteq Nat
    BY DEF N
  <2>2. QED
    BY <1>1, <1>2, <2>1, CountingUp
<1>4. QED
  BY <1>3

LEMMA FlattenIs ==
  ASSUME NEW X, NEW ss \in Seq(X), ss # << >>
  PROVE  \E f : Flattening(ss, Len(ss), f) /\ FlattenSeq(ss) = f[Len(ss)]
<1> DEFINE f == CHOOSE g : Flattening(ss, Len(ss), g)
<1>1. Len(ss) \in Nat /\ Len(ss) # 0
  BY EmptySeq
<1>2. Flattening(ss, Len(ss), f)
  BY <1>1, FlatteningExists, Zenon
<1>3. FlattenSeq(ss) = f[Len(ss)]
  BY <1>1, Zenon DEF FlattenSeq, Flattening
<1>4. QED
  BY <1>2, <1>3

LEMMA FlattenEmpty == FlattenSeq(<< >>) = << >>
BY EmptySeq DEF FlattenSeq

LEMMA FlatteningType ==
  ASSUME NEW S, NEW ss \in Seq(Seq(S)), NEW f, Flattening(ss, Len(ss), f)
  PROVE  \A i \in 1 .. Len(ss) : f[i] \in Seq(S)
<1> DEFINE N == {i \in Nat : i \in 1 .. Len(ss) => f[i] \in Seq(S)}
<1>1. Len(ss) \in Nat /\ \A i \in 1 .. Len(ss) : ss[i] \in Seq(S)
  BY LenProperties, ElementOfSeq
<1>2. 0 \in N
  OBVIOUS
<1>3. ASSUME NEW i \in N PROVE i + 1 \in N
  <2>1. ASSUME i + 1 \in 1 .. Len(ss) PROVE f[i + 1] \in Seq(S)
    <3>1. f[i + 1] = IF i + 1 = 1 THEN ss[i + 1] ELSE f[(i + 1) - 1] \o ss[i + 1]
      BY <1>1, <2>1, FlatteningAt
    <3>2. CASE i = 0
      BY <1>1, <2>1, <3>1, <3>2
    <3>3. CASE i # 0
      <4>1. i \in 1 .. Len(ss) /\ (i + 1) - 1 = i /\ i + 1 # 1
        BY <1>1, <2>1, <3>3
      <4>2. f[i] \in Seq(S) /\ ss[i + 1] \in Seq(S)
        BY <1>1, <2>1, <4>1
      <4>3. f[i + 1] = f[i] \o ss[i + 1]
        BY <3>1, <4>1
      <4>4. QED
        BY <4>2, <4>3, ConcatProperties
    <3>4. QED
      BY <3>2, <3>3
  <2>2. QED
    BY <2>1
<1>4. N = Nat
  <2> HIDE DEF N
  <2>1. N \subseteq Nat
    BY DEF N
  <2>2. QED
    BY <1>2, <1>3, <2>1, CountingUp
<1>5. ASSUME NEW i \in 1 .. Len(ss) PROVE f[i] \in Seq(S)
  <2>1. i \in N
    BY <1>1, <1>4, <1>5
  <2>2. QED
    BY <2>1
<1>6. QED
  BY <1>5

Agree(f, g, k) == \A i \in 1 .. k : f[i] = g[i]

LEMMA FlatteningsAgree ==
  ASSUME NEW ss, NEW tt, NEW k \in Nat, NEW m \in Nat, k <= m, Agree(ss, tt, k),
         NEW f, Flattening(ss, k, f), NEW g, Flattening(tt, m, g)
  PROVE  Agree(f, g, k)
<1> USE DEF Agree
<1> DEFINE N == {i \in Nat : i \in 1 .. k => f[i] = g[i]}
<1>1. 0 \in N
  OBVIOUS
<1>2. ASSUME NEW i \in N PROVE i + 1 \in N
  <2>1. ASSUME i + 1 \in 1 .. k PROVE f[i + 1] = g[i + 1]
    <3>1. f[i + 1] = IF i + 1 = 1 THEN ss[i + 1] ELSE f[(i + 1) - 1] \o ss[i + 1]
      BY <2>1, FlatteningAt
    <3>2. i + 1 \in 1 .. m
      BY <2>1
    <3>3. g[i + 1] = IF i + 1 = 1 THEN tt[i + 1] ELSE g[(i + 1) - 1] \o tt[i + 1]
      BY <3>2, FlatteningAt
    <3>4. i + 1 # 1 => f[(i + 1) - 1] = g[(i + 1) - 1]
      <4>1. i + 1 # 1 => i \in 1 .. k /\ (i + 1) - 1 = i
        BY <2>1
      <4>2. QED
        BY <4>1
    <3>5. ss[i + 1] = tt[i + 1]
      BY <2>1
    <3>6. QED
      BY <3>1, <3>3, <3>4, <3>5
  <2>2. QED
    BY <2>1
<1>3. N = Nat
  <2> HIDE DEF N
  <2>1. N \subseteq Nat
    BY DEF N
  <2>2. QED
    BY <1>1, <1>2, <2>1, CountingUp
<1>4. QED
  BY <1>3

LEMMA Regrouped ==
  ASSUME NEW S, NEW s \in Seq(S), NEW t \in Seq(S), NEW u \in Seq(S)
  PROVE  (s \o t) \o u = s \o (t \o u)
BY ConcatAssociative

(* A sequence of sequences with one more at its end.                       *)
LEMMA FlattenAppend ==
  ASSUME NEW S, NEW ss \in Seq(Seq(S)), NEW s \in Seq(S)
  PROVE  /\ FlattenSeq(ss) \in Seq(S)
         /\ FlattenSeq(Append(ss, s)) = FlattenSeq(ss) \o s
<1>0. PICK tt : tt = Append(ss, s)
  OBVIOUS
<1>1. tt \in Seq(Seq(S)) /\ tt # << >> /\ Len(tt) = Len(ss) + 1 /\ Len(ss) \in Nat
      /\ tt[Len(ss) + 1] = s /\ \A i \in 1 .. Len(ss) : tt[i] = ss[i]
  BY <1>0, AppendProperties, LenProperties
<1>2. PICK g : Flattening(tt, Len(tt), g) /\ FlattenSeq(tt) = g[Len(tt)]
  BY <1>1, FlattenIs
<1>3. g[Len(ss) + 1] = IF Len(ss) + 1 = 1 THEN s ELSE g[Len(ss)] \o s
  <2>1. Len(tt) \in Nat /\ Len(ss) + 1 \in 1 .. Len(tt) /\ (Len(ss) + 1) - 1 = Len(ss)
    BY <1>1
  <2>2. g[Len(ss) + 1] = IF Len(ss) + 1 = 1 THEN tt[Len(ss) + 1]
                         ELSE g[(Len(ss) + 1) - 1] \o tt[Len(ss) + 1]
    <3>1. PICK m \in Nat : m = Len(tt)
      BY <2>1
    <3>2. PICK e \in 1 .. m : e = Len(ss) + 1
      BY <2>1, <3>1
    <3>3. Flattening(tt, m, g)
      BY <1>2, <3>1
    <3>4. g[e] = IF e = 1 THEN tt[e] ELSE g[e - 1] \o tt[e]
      BY <3>3, FlatteningAt, SMTT(30)
    <3>5. QED
      BY <3>2, <3>4, Zenon
  <2>3. QED
    BY <1>1, <2>1, <2>2
<1>4. CASE ss = << >>
  <2>1. Len(ss) = 0
    BY <1>4, EmptySeq
  <2>2. FlattenSeq(ss) = << >>
    BY <1>4, FlattenEmpty
  <2>3. << >> \o s = s /\ << >> \in Seq(S)
    BY ConcatEmptySeq, EmptySeq
  <2>4. FlattenSeq(tt) = s
    BY <1>1, <1>2, <1>3, <2>1
  <2>5. QED
    BY <1>0, <2>2, <2>3, <2>4
<1>5. CASE ss # << >>
  <2>1. Len(ss) # 0 /\ Len(ss) + 1 # 1 /\ Len(ss) \in 1 .. Len(ss) /\ Len(ss) <= Len(tt)
        /\ Len(tt) \in Nat
    BY <1>1, <1>5, EmptySeq
  <2>2. PICK f : Flattening(ss, Len(ss), f) /\ FlattenSeq(ss) = f[Len(ss)]
    BY <1>5, FlattenIs
  <2>3. FlattenSeq(ss) \in Seq(S)
    BY <2>1, <2>2, FlatteningType
  <2>4. \A i \in 1 .. Len(ss) : f[i] = g[i]
    <3>1. \A i \in 1 .. Len(ss) : ss[i] = tt[i]
      BY <1>1
    <3>2. Len(ss) \in Nat /\ Len(tt) \in Nat /\ Len(ss) <= Len(tt)
      BY <1>1, <2>1
    <3>3. Flattening(ss, Len(ss), f) /\ Flattening(tt, Len(tt), g)
      BY <1>2, <2>2
    <3>4. Agree(ss, tt, Len(ss))
      BY <3>1 DEF Agree
    <3>5. Agree(f, g, Len(ss))
      BY <3>2, <3>3, <3>4, FlatteningsAgree
    <3>6. QED
      BY <3>5 DEF Agree
  <2>5. FlattenSeq(tt) = FlattenSeq(ss) \o s
    BY <1>1, <1>2, <1>3, <2>1, <2>2, <2>4
  <2>6. QED
    BY <1>0, <2>3, <2>5
<1>6. QED
  BY <1>4, <1>5

LEMMA FlattenType ==
  ASSUME NEW S, NEW ss \in Seq(Seq(S))
  PROVE  FlattenSeq(ss) \in Seq(S)
BY FlattenAppend, EmptySeq

LEMMA FlattenConcat ==
  ASSUME NEW S, NEW ss \in Seq(Seq(S)), NEW tt \in Seq(Seq(S))
  PROVE  FlattenSeq(ss \o tt) = FlattenSeq(ss) \o FlattenSeq(tt)
<1> DEFINE G == {u \in Seq(Seq(S)) : FlattenSeq(ss \o u) = FlattenSeq(ss) \o FlattenSeq(u)}
<1>1. << >> \in G
  <2>1. << >> \in Seq(Seq(S)) /\ ss \o << >> = ss
    BY EmptySeq, ConcatEmptySeq
  <2>2. FlattenSeq(ss) \o << >> = FlattenSeq(ss)
    BY FlattenType, ConcatEmptySeq
  <2>3. QED
    BY <2>1, <2>2, FlattenEmpty
<1>2. ASSUME NEW u \in G, NEW x \in Seq(S) PROVE Append(u, x) \in G
  <2>1. u \in Seq(Seq(S)) /\ FlattenSeq(ss \o u) = FlattenSeq(ss) \o FlattenSeq(u)
    OBVIOUS
  <2>2. Append(u, x) \in Seq(Seq(S))
    BY <2>1, AppendProperties
  <2>3. ss \o Append(u, x) = Append(ss \o u, x) /\ ss \o u \in Seq(Seq(S))
    <3>1. <<x>> \in Seq(Seq(S)) /\ ss \o u \in Seq(Seq(S))
      BY <2>1, ConcatProperties
    <3>2. Append(u, x) = u \o <<x>> /\ Append(ss \o u, x) = (ss \o u) \o <<x>>
      BY <2>1, <3>1, AppendIsConcat
    <3>3. QED
      BY <2>1, <3>1, <3>2, ConcatAssociative
  <2>4. FlattenSeq(Append(ss \o u, x)) = FlattenSeq(ss \o u) \o x
    BY <2>3, FlattenAppend
  <2>5. FlattenSeq(Append(u, x)) = FlattenSeq(u) \o x
    BY <2>1, FlattenAppend
  <2>6. FlattenSeq(ss) \in Seq(S) /\ FlattenSeq(u) \in Seq(S)
    BY <2>1, FlattenType
  <2>7. (FlattenSeq(ss) \o FlattenSeq(u)) \o x = FlattenSeq(ss) \o (FlattenSeq(u) \o x)
    <3>1. PICK a \in Seq(S), b \in Seq(S) : a = FlattenSeq(ss) /\ b = FlattenSeq(u)
      BY <2>6
    <3>2. (a \o b) \o x = a \o (b \o x)
      BY Regrouped
    <3>3. QED
      BY <3>1, <3>2, Zenon
  <2>8. QED
    BY <2>1, <2>2, <2>3, <2>4, <2>5, <2>7
<1>3. G = Seq(Seq(S))
  <2> HIDE DEF G
  <2>1. G \subseteq Seq(Seq(S))
    BY DEF G
  <2>2. QED
    BY <1>1, <1>2, <2>1, SeqInduction
<1>4. QED
  BY <1>3

LEMMA AppendedSet ==
  ASSUME NEW S, NEW s \in Seq(S), NEW x \in S
  PROVE  ToSet(Append(s, x)) = ToSet(s) \cup {x}
<1>1. Append(s, x) \in Seq(S) /\ Len(Append(s, x)) = Len(s) + 1 /\ Len(s) \in Nat
      /\ Append(s, x)[Len(s) + 1] = x
  BY AppendProperties, LenProperties
<1>2. \A i \in 1 .. Len(s) : Append(s, x)[i] = s[i]
  BY AppendProperties
<1>3. DOMAIN s = 1 .. Len(s) /\ DOMAIN Append(s, x) = 1 .. Len(s) + 1
  BY <1>1, LenProperties
<1>4. ASSUME NEW y \in ToSet(Append(s, x)) PROVE y \in ToSet(s) \cup {x}
  <2>1. PICK i \in 1 .. Len(s) + 1 : y = Append(s, x)[i]
    BY <1>3, <1>4 DEF ToSet
  <2>2. i = Len(s) + 1 \/ i \in 1 .. Len(s)
    BY <1>1
  <2>3. QED
    BY <1>1, <1>2, <1>3, <2>1, <2>2 DEF ToSet
<1>5. ASSUME NEW y \in ToSet(s) \cup {x} PROVE y \in ToSet(Append(s, x))
  <2>1. CASE y = x
    <3>1. Len(s) + 1 \in 1 .. Len(s) + 1
      BY <1>1
    <3>2. QED
      BY <1>1, <1>3, <2>1, <3>1 DEF ToSet
  <2>2. CASE y \in ToSet(s)
    <3>1. PICK i \in 1 .. Len(s) : y = s[i]
      BY <1>3, <2>2 DEF ToSet
    <3>2. i \in 1 .. Len(s) + 1
      BY <1>1
    <3>3. QED
      BY <1>2, <1>3, <3>1, <3>2 DEF ToSet
  <2>3. QED
    BY <1>5, <2>1, <2>2
<1>6. QED
  BY <1>4, <1>5

LEMMA JoinedSet ==
  ASSUME NEW S, NEW s \in Seq(S), NEW t \in Seq(S)
  PROVE  ToSet(s \o t) = ToSet(s) \cup ToSet(t)
<1>1. s \o t \in Seq(S) /\ Len(s \o t) = Len(s) + Len(t) /\ Len(s) \in Nat /\ Len(t) \in Nat
  BY ConcatProperties, LenProperties
<1>2. \A i \in 1 .. Len(s) + Len(t) :
        (s \o t)[i] = IF i <= Len(s) THEN s[i] ELSE t[i - Len(s)]
  BY ConcatProperties
<1>3. DOMAIN s = 1 .. Len(s) /\ DOMAIN t = 1 .. Len(t)
      /\ DOMAIN (s \o t) = 1 .. Len(s) + Len(t)
  BY <1>1, LenProperties
<1>4. ASSUME NEW y \in ToSet(s \o t) PROVE y \in ToSet(s) \cup ToSet(t)
  <2>1. PICK i \in 1 .. Len(s) + Len(t) : y = (s \o t)[i]
    BY <1>3, <1>4 DEF ToSet
  <2>2. (i <= Len(s) /\ i \in 1 .. Len(s)) \/ (~(i <= Len(s)) /\ i - Len(s) \in 1 .. Len(t))
    BY <1>1
  <2>3. QED
    BY <1>2, <1>3, <2>1, <2>2 DEF ToSet
<1>5. ASSUME NEW y \in ToSet(s) PROVE y \in ToSet(s \o t)
  <2>1. PICK i \in 1 .. Len(s) : y = s[i]
    BY <1>3, <1>5 DEF ToSet
  <2>2. i \in 1 .. Len(s) + Len(t) /\ i <= Len(s)
    BY <1>1
  <2>3. QED
    BY <1>2, <1>3, <2>1, <2>2 DEF ToSet
<1>6. ASSUME NEW y \in ToSet(t) PROVE y \in ToSet(s \o t)
  <2>1. PICK i \in 1 .. Len(t) : y = t[i]
    BY <1>3, <1>6 DEF ToSet
  <2>2. i + Len(s) \in 1 .. Len(s) + Len(t) /\ ~(i + Len(s) <= Len(s)) /\ (i + Len(s)) - Len(s) = i
    BY <1>1
  <2>3. (s \o t)[i + Len(s)] = y
    BY <1>2, <2>1, <2>2
  <2>4. QED
    BY <1>3, <2>2, <2>3 DEF ToSet
<1>7. QED
  BY <1>4, <1>5, <1>6

(* What is in a flattened sequence is in one of its parts.                 *)
LEMMA FlattenedSet ==
  ASSUME NEW S, NEW ss \in Seq(Seq(S))
  PROVE  ToSet(FlattenSeq(ss)) = UNION {ToSet(l) : l \in ToSet(ss)}
<1> DEFINE G == {u \in Seq(Seq(S)) : ToSet(FlattenSeq(u)) = UNION {ToSet(l) : l \in ToSet(u)}}
<1>1. << >> \in G
  <2>1. << >> \in Seq(Seq(S))
    BY EmptySeq
  <2>2. ToSet(<< >>) = {}
    BY DEF ToSet
  <2>3. QED
    BY <2>1, <2>2, FlattenEmpty
<1>2. ASSUME NEW u \in G, NEW x \in Seq(S) PROVE Append(u, x) \in G
  <2>1. u \in Seq(Seq(S)) /\ ToSet(FlattenSeq(u)) = UNION {ToSet(l) : l \in ToSet(u)}
    OBVIOUS
  <2>2. Append(u, x) \in Seq(Seq(S))
    BY <2>1, AppendProperties
  <2>3. FlattenSeq(Append(u, x)) = FlattenSeq(u) \o x /\ FlattenSeq(u) \in Seq(S)
    BY <2>1, FlattenAppend
  <2>4. ToSet(FlattenSeq(Append(u, x))) = ToSet(FlattenSeq(u)) \cup ToSet(x)
    BY <2>3, JoinedSet
  <2>5. ToSet(Append(u, x)) = ToSet(u) \cup {x}
    BY <2>1, AppendedSet
  <2>6. UNION {ToSet(l) : l \in ToSet(Append(u, x))} = (UNION {ToSet(l) : l \in ToSet(u)}) \cup ToSet(x)
    BY <2>5
  <2>7. QED
    BY <2>1, <2>2, <2>4, <2>6
<1>3. G = Seq(Seq(S))
  <2> HIDE DEF G
  <2>1. G \subseteq Seq(Seq(S))
    BY DEF G
  <2>2. QED
    BY <1>1, <1>2, <2>1, SeqInduction
<1>4. ss \in G
  BY <1>3
<1>5. QED
  BY <1>4

-----------------------------------------------------------------------------
(* What is left of a sequence                                              *)

LEMMA PickedParts ==
  ASSUME NEW S, NEW s \in Seq(S), NEW K
  PROVE  [i \in DOMAIN s |-> IF i \in K THEN <<s[i]>> ELSE << >>] \in Seq(Seq(S))
<1> DEFINE e(i) == IF i \in K THEN <<s[i]>> ELSE << >>
<1>1. Len(s) \in Nat /\ DOMAIN s = 1 .. Len(s)
  BY LenProperties
<1>2. \A i \in 1 .. Len(s) : e(i) \in Seq(S)
  <2>1. ASSUME NEW i \in 1 .. Len(s) PROVE e(i) \in Seq(S)
    <3>1. s[i] \in S
      BY ElementOfSeq
    <3>2. <<s[i]>> \in Seq(S) /\ << >> \in Seq(S)
      BY <3>1, EmptySeq
    <3>3. QED
      BY <3>2
  <2>2. QED
    BY <2>1
<1>3. [i \in 1 .. Len(s) |-> e(i)] \in Seq(Seq(S))
  <2>1. [i \in 1 .. Len(s) |-> e(i)] \in [1 .. Len(s) -> Seq(S)]
    BY <1>2
  <2> HIDE DEF e
  <2>2. QED
    BY <1>1, <2>1, SeqDef
<1>4. QED
  BY <1>1, <1>3

LEMMA PickedType ==
  ASSUME NEW S, NEW s \in Seq(S), NEW K
  PROVE  Picked(s, K) \in Seq(S)
BY PickedParts, FlattenType DEF Picked

LEMMA PickedEmpty ==
  ASSUME NEW K
  PROVE  Picked(<< >>, K) = << >>
<1> DEFINE m == [i \in DOMAIN << >> |-> IF i \in K THEN << << >>[i]>> ELSE << >>]
<1>1. m = << >>
  OBVIOUS
<1> HIDE DEF m
<1>2. FlattenSeq(m) = << >>
  BY <1>1, FlattenEmpty
<1>3. QED
  BY <1>2 DEF Picked, m

(* Places beyond the end do not count.                                     *)
LEMMA PickedSame ==
  ASSUME NEW S, NEW s \in Seq(S), NEW K, NEW L, \A i \in 1 .. Len(s) : i \in K <=> i \in L
  PROVE  Picked(s, K) = Picked(s, L)
<1>1. DOMAIN s = 1 .. Len(s)
  BY LenProperties
<1>2. [i \in DOMAIN s |-> IF i \in K THEN <<s[i]>> ELSE << >>]
        = [i \in DOMAIN s |-> IF i \in L THEN <<s[i]>> ELSE << >>]
  BY <1>1
<1>3. QED
  BY <1>2 DEF Picked

LEMMA PickedAppend ==
  ASSUME NEW S, NEW s \in Seq(S), NEW x \in S, NEW K
  PROVE  Picked(Append(s, x), K)
           = Picked(s, K) \o (IF Len(s) + 1 \in K THEN <<x>> ELSE << >>)
<1> DEFINE t == Append(s, x)
           y == IF Len(s) + 1 \in K THEN <<x>> ELSE << >>
           m == [i \in DOMAIN s |-> IF i \in K THEN <<s[i]>> ELSE << >>]
           n == [i \in DOMAIN t |-> IF i \in K THEN <<t[i]>> ELSE << >>]
<1>1. t \in Seq(S) /\ Len(t) = Len(s) + 1 /\ Len(s) \in Nat /\ t[Len(s) + 1] = x
      /\ DOMAIN s = 1 .. Len(s)
  BY AppendProperties, LenProperties
<1>2. DOMAIN t = 1 .. Len(s) + 1
  BY <1>1, LenProperties
<1>3. \A i \in 1 .. Len(s) : t[i] = s[i]
  BY AppendProperties
<1>4. m \in Seq(Seq(S)) /\ n \in Seq(Seq(S)) /\ y \in Seq(S)
  <2>1. m \in Seq(Seq(S))
    BY PickedParts
  <2>2. n \in Seq(Seq(S))
    <3> HIDE DEF t
    <3>1. QED
      BY <1>1, PickedParts
  <2>3. y \in Seq(S)
    BY EmptySeq
  <2>4. QED
    BY <2>1, <2>2, <2>3
<1>5. n = Append(m, y)
  <2>1. Len(m) = Len(s) /\ Len(n) = Len(s) + 1
    BY <1>1, <1>2
  <2>2. Append(m, y) \in Seq(Seq(S)) /\ Len(Append(m, y)) = Len(s) + 1
        /\ Append(m, y)[Len(s) + 1] = y
    <3> HIDE DEF m, y
    <3>1. QED
      BY <1>4, <2>1, AppendProperties
  <2>3. \A i \in 1 .. Len(s) : Append(m, y)[i] = m[i]
    <3> HIDE DEF m, y
    <3>1. QED
      BY <1>4, <2>1, AppendProperties
  <2>4. ASSUME NEW i \in 1 .. Len(s) + 1 PROVE n[i] = Append(m, y)[i]
    <3>1. CASE i = Len(s) + 1
      <4>1. n[i] = y
        BY <1>1, <1>2, <3>1
      <4>2. QED
        BY <2>2, <3>1, <4>1
    <3>2. CASE i # Len(s) + 1
      <4>1. i \in 1 .. Len(s) /\ i \in 1 .. Len(s) + 1
        BY <1>1, <3>2
      <4>2. n[i] = IF i \in K THEN <<t[i]>> ELSE << >>
        BY <1>2
      <4>3. m[i] = IF i \in K THEN <<s[i]>> ELSE << >>
        BY <1>1, <4>1
      <4>4. t[i] = s[i]
        BY <1>3, <4>1
      <4> HIDE DEF m, n, t, y
      <4>5. QED
        BY <2>3, <4>1, <4>2, <4>3, <4>4
    <3>3. QED
      BY <3>1, <3>2
  <2> HIDE DEF m, n, y
  <2>5. \A i \in 1 .. Len(n) : n[i] = Append(m, y)[i]
    BY <2>1, <2>4
  <2>6. QED
    BY <1>4, <2>1, <2>2, <2>5, SeqEqual
<1>6. FlattenSeq(n) = FlattenSeq(m) \o y
  <2> HIDE DEF m, n, y
  <2>1. QED
    BY <1>4, <1>5, FlattenAppend
<1>7. Picked(t, K) = FlattenSeq(n) /\ Picked(s, K) = FlattenSeq(m)
  BY DEF Picked
<1>8. QED
  BY <1>6, <1>7

(* What one more element adds.                                             *)
Kept1(x, T) == IF x \in T THEN << >> ELSE <<x>>

LEMMA Kept1Type ==
  ASSUME NEW S, NEW x \in S, NEW T
  PROVE  /\ Kept1(x, T) \in Seq(S)
         /\ ToSet(Kept1(x, T)) = {x} \ T
<1>1. CASE x \in T
  BY <1>1, EmptySeq DEF Kept1, ToSet
<1>2. CASE x \notin T
  BY <1>2 DEF Kept1, ToSet
<1>3. QED
  BY <1>1, <1>2

LEMMA PurgedEmpty ==
  ASSUME NEW T
  PROVE  Purged(<< >>, T) = << >>
BY PickedEmpty DEF Purged

LEMMA PurgedType ==
  ASSUME NEW S, NEW s \in Seq(S), NEW T
  PROVE  Purged(s, T) \in Seq(S)
BY PickedType DEF Purged

LEMMA PurgedAppend ==
  ASSUME NEW S, NEW s \in Seq(S), NEW x \in S, NEW T
  PROVE  Purged(Append(s, x), T) = Purged(s, T) \o Kept1(x, T)
<1>1. PICK K : K = {i \in DOMAIN Append(s, x) : Append(s, x)[i] \notin T}
  OBVIOUS
<1>2. PICK L : L = {i \in DOMAIN s : s[i] \notin T}
  OBVIOUS
<1>3. Append(s, x) \in Seq(S) /\ Len(Append(s, x)) = Len(s) + 1 /\ Len(s) \in Nat
      /\ Append(s, x)[Len(s) + 1] = x /\ DOMAIN s = 1 .. Len(s)
  BY AppendProperties, LenProperties
<1>4. DOMAIN Append(s, x) = 1 .. Len(s) + 1
  BY <1>3, LenProperties
<1>5. \A i \in 1 .. Len(s) : i \in K <=> i \in L
  <2>1. \A i \in 1 .. Len(s) : Append(s, x)[i] = s[i]
    BY AppendProperties
  <2>2. \A i \in 1 .. Len(s) : i \in 1 .. Len(s) + 1
    BY <1>3
  <2>3. QED
    BY <1>1, <1>2, <1>3, <1>4, <2>1, <2>2
<1>6. Len(s) + 1 \in K <=> x \notin T
  BY <1>1, <1>3, <1>4
<1>7. Picked(Append(s, x), K)
        = Picked(s, K) \o (IF Len(s) + 1 \in K THEN <<x>> ELSE << >>)
  BY PickedAppend
<1>8. Picked(s, K) = Picked(s, L)
  BY <1>5, PickedSame
<1>9. QED
  BY <1>1, <1>2, <1>6, <1>7, <1>8 DEF Purged, Kept1

LEMMA PurgedOne ==
  ASSUME NEW x, NEW T
  PROVE  Purged(<<x>>, T) = Kept1(x, T)
<1>1. << >> \in Seq({x}) /\ Append(<< >>, x) = <<x>>
  BY EmptySeq
<1>2. Purged(<<x>>, T) = Purged(<< >>, T) \o Kept1(x, T)
  BY <1>1, PurgedAppend
<1>3. << >> \o Kept1(x, T) = Kept1(x, T)
  BY Kept1Type, ConcatEmptySeq
<1>4. QED
  BY <1>2, <1>3, PurgedEmpty

LEMMA PurgedConcat ==
  ASSUME NEW S, NEW s \in Seq(S), NEW t \in Seq(S), NEW T
  PROVE  Purged(s \o t, T) = Purged(s, T) \o Purged(t, T)
<1> DEFINE G == {u \in Seq(S) : Purged(s \o u, T) = Purged(s, T) \o Purged(u, T)}
<1>1. << >> \in G
  <2>1. << >> \in Seq(S) /\ s \o << >> = s
    BY EmptySeq, ConcatEmptySeq
  <2>2. Purged(s, T) \o << >> = Purged(s, T)
    BY PurgedType, ConcatEmptySeq
  <2>3. QED
    BY <2>1, <2>2, PurgedEmpty
<1>2. ASSUME NEW u \in G, NEW x \in S PROVE Append(u, x) \in G
  <2>1. u \in Seq(S) /\ Purged(s \o u, T) = Purged(s, T) \o Purged(u, T)
    OBVIOUS
  <2>2. Append(u, x) \in Seq(S)
    BY <2>1, AppendProperties
  <2>3. s \o Append(u, x) = Append(s \o u, x) /\ s \o u \in Seq(S)
    <3>1. <<x>> \in Seq(S) /\ s \o u \in Seq(S)
      BY <2>1, ConcatProperties
    <3>2. Append(u, x) = u \o <<x>> /\ Append(s \o u, x) = (s \o u) \o <<x>>
      BY <2>1, <3>1, AppendIsConcat
    <3>3. QED
      BY <2>1, <3>1, <3>2, ConcatAssociative
  <2>4. PICK y \in Seq(S) : y = Kept1(x, T)
    BY Kept1Type
  <2>5. Purged(Append(s \o u, x), T) = Purged(s \o u, T) \o y
    BY <2>3, <2>4, PurgedAppend
  <2>6. Purged(Append(u, x), T) = Purged(u, T) \o y
    BY <2>1, <2>4, PurgedAppend
  <2>7. Purged(s, T) \in Seq(S) /\ Purged(u, T) \in Seq(S)
    BY <2>1, PurgedType
  <2>8. (Purged(s, T) \o Purged(u, T)) \o y = Purged(s, T) \o (Purged(u, T) \o y)
    <3>1. PICK a \in Seq(S), b \in Seq(S) : a = Purged(s, T) /\ b = Purged(u, T)
      BY <2>7
    <3>2. (a \o b) \o y = a \o (b \o y)
      BY Regrouped, SMTT(30)
    <3>3. QED
      BY <3>1, <3>2, Zenon
  <2>9. QED
    BY <2>1, <2>2, <2>3, <2>5, <2>6, <2>8
<1>3. G = Seq(S)
  <2> HIDE DEF G
  <2>1. G \subseteq Seq(S)
    BY DEF G
  <2>2. QED
    BY <1>1, <1>2, <2>1, SeqInduction
<1>4. t \in G
  BY <1>3
<1>5. QED
  BY <1>4

LEMMA PurgedSet ==
  ASSUME NEW S, NEW s \in Seq(S), NEW T
  PROVE  ToSet(Purged(s, T)) = ToSet(s) \ T
<1> DEFINE G == {u \in Seq(S) : ToSet(Purged(u, T)) = ToSet(u) \ T}
<1>1. << >> \in G
  <2>1. << >> \in Seq(S) /\ ToSet(<< >>) = {}
    BY EmptySeq DEF ToSet
  <2>2. QED
    BY <2>1, PurgedEmpty
<1>2. ASSUME NEW u \in G, NEW x \in S PROVE Append(u, x) \in G
  <2>1. u \in Seq(S) /\ ToSet(Purged(u, T)) = ToSet(u) \ T
    OBVIOUS
  <2>2. Append(u, x) \in Seq(S) /\ ToSet(Append(u, x)) = ToSet(u) \cup {x}
    BY <2>1, AppendProperties, AppendedSet
  <2>3. PICK y \in Seq(S) : y = Kept1(x, T)
    BY Kept1Type
  <2>4. ToSet(y) = {x} \ T
    BY <2>3, Kept1Type
  <2>5. Purged(Append(u, x), T) = Purged(u, T) \o y
    BY <2>1, <2>3, PurgedAppend
  <2>6. ToSet(Purged(Append(u, x), T)) = ToSet(Purged(u, T)) \cup ToSet(y)
    BY <2>1, <2>5, PurgedType, JoinedSet
  <2>7. QED
    BY <2>1, <2>2, <2>4, <2>6
<1>3. G = Seq(S)
  <2> HIDE DEF G
  <2>1. G \subseteq Seq(S)
    BY DEF G
  <2>2. QED
    BY <1>1, <1>2, <2>1, SeqInduction
<1>4. s \in G
  BY <1>3
<1>5. QED
  BY <1>4

(* What goes at once need not go before.                                   *)
LEMMA PurgedTwice ==
  ASSUME NEW S, NEW s \in Seq(S), NEW T, NEW U, T \subseteq U
  PROVE  Purged(Purged(s, T), U) = Purged(s, U)
<1> DEFINE G == {u \in Seq(S) : Purged(Purged(u, T), U) = Purged(u, U)}
<1>1. << >> \in G
  BY EmptySeq, PurgedEmpty
<1>2. ASSUME NEW u \in G, NEW x \in S PROVE Append(u, x) \in G
  <2>1. u \in Seq(S) /\ Purged(Purged(u, T), U) = Purged(u, U)
    OBVIOUS
  <2> HIDE DEF G
  <2>2. Append(u, x) \in Seq(S)
    BY <2>1, AppendProperties
  <2>3. PICK y \in Seq(S) : y = Kept1(x, T)
    BY Kept1Type
  <2>4. PICK z \in Seq(S) : z = Kept1(x, U)
    BY Kept1Type
  <2>5. Purged(y, U) = z
    BY <2>3, <2>4, PurgedEmpty, PurgedOne DEF Kept1
  <2>6. Purged(Append(u, x), T) = Purged(u, T) \o y /\ Purged(u, T) \in Seq(S)
    BY <2>1, <2>3, PurgedAppend, PurgedType
  <2>7. Purged(Append(u, x), U) = Purged(u, U) \o z
    BY <2>1, <2>4, PurgedAppend
  <2>8. Purged(Purged(u, T) \o y, U) = Purged(Purged(u, T), U) \o Purged(y, U)
    BY <2>6, PurgedConcat
  <2>9. QED
    BY <2>1, <2>2, <2>5, <2>6, <2>7, <2>8 DEF G
<1>3. G = Seq(S)
  <2> HIDE DEF G
  <2>1. G \subseteq Seq(S)
    BY DEF G
  <2>2. QED
    BY <1>1, <1>2, <2>1, SeqInduction
<1>4. s \in G
  BY <1>3
<1>5. QED
  BY <1>4

-----------------------------------------------------------------------------
(* Numbers, first and last elements                                        *)

LEMMA MinIs ==
  ASSUME NEW S, S \subseteq Nat, S # {}
  PROVE  Min(S) \in S /\ \A x \in S : Min(S) <= x
BY Least, Zenon DEF Min

LEMMA MaxIs ==
  ASSUME NEW n \in Nat, NEW S, S \subseteq 0 .. n, S # {}
  PROVE  Max(S) \in S /\ \A x \in S : x <= Max(S)
<1> DEFINE D == {n - x : x \in S}
<1>1. D \subseteq Nat /\ D # {}
  <2>1. \A x \in S : x \in Nat /\ n - x \in Nat
    OBVIOUS
  <2>2. QED
    BY <2>1
<1>2. PICK d \in D : \A y \in D : d <= y
  <2> HIDE DEF D
  <2>1. QED
    BY <1>1, Least
<1>3. PICK m \in S : d = n - m
  BY <1>2
<1>4. \A x \in S : m >= x
  BY <1>2, <1>3
<1>5. Max(S) \in S /\ \A x \in S : Max(S) >= x
  BY <1>4, Zenon DEF Max
<1>6. QED
  BY <1>5

LEMMA LastOne ==
  ASSUME NEW S, NEW s \in Seq(S), s # << >>
  PROVE  /\ Front(s) \in Seq(S) /\ Last(s) \in S /\ Len(s) \in Nat \ {0}
         /\ Len(Front(s)) = Len(s) - 1
         /\ s = Append(Front(s), Last(s))
<1>1. Len(s) \in Nat \ {0}
  BY EmptySeq
<1>2. \A i \in 1 .. Len(s) : s[i] \in S
  BY ElementOfSeq
<1>3. Front(s) \in Seq(S) /\ Len(Front(s)) = Len(s) - 1
      /\ \A i \in 1 .. Len(s) - 1 : Front(s)[i] = s[i]
  <2>1. \A i \in 1 .. Len(s) - 1 : s[i] \in S
    BY <1>1, <1>2
  <2>2. Len(s) - 1 \in Nat
    BY <1>1
  <2>3. PICK n : n = Len(s) - 1
    OBVIOUS
  <2>4. /\ SubSeq(s, 1, n) \in Seq(S)
        /\ Len(SubSeq(s, 1, n)) = IF 1 <= n THEN n - 1 + 1 ELSE 0
        /\ \A i \in 1 .. n - 1 + 1 : SubSeq(s, 1, n)[i] = s[1 + i - 1]
    BY <2>1, <2>2, <2>3, SubSeqProperties
  <2>5. QED
    BY <2>2, <2>3, <2>4 DEF Front
<1>4. Last(s) \in S
  BY <1>1, <1>2 DEF Last
<1>5. PICK t : t = Append(Front(s), Last(s))
  OBVIOUS
<1>6. t \in Seq(S) /\ Len(t) = Len(s) /\ t[Len(s)] = s[Len(s)]
      /\ \A i \in 1 .. Len(s) - 1 : t[i] = s[i]
  BY <1>1, <1>3, <1>4, <1>5, AppendProperties DEF Last
<1>7. \A i \in 1 .. Len(s) : s[i] = t[i]
  BY <1>1, <1>6
<1>8. s = t
  BY <1>6, <1>7, SeqEqual
<1>9. QED
  BY <1>1, <1>3, <1>4, <1>5, <1>8

LEMMA LastAppended ==
  ASSUME NEW S, NEW s \in Seq(S), NEW x \in S
  PROVE  Front(Append(s, x)) = s /\ Last(Append(s, x)) = x
<1>1. PICK t : t = Append(s, x)
  OBVIOUS
<1>2. t \in Seq(S) /\ t # << >> /\ Len(t) = Len(s) + 1
  BY <1>1, AppendProperties
<1>3. Front(t) \in Seq(S) /\ Last(t) \in S /\ t = Append(Front(t), Last(t))
  BY <1>2, LastOne
<1>4. Front(t) = s /\ Last(t) = x
  BY <1>1, <1>3, AppendInjective
<1>5. QED
  BY <1>1, <1>4

(* A line and a place in it.                                               *)
LEMMA CutAt ==
  ASSUME NEW S, NEW l \in Seq(S), NEW n \in 0 .. Len(l)
  PROVE  /\ Upto(l, n) \in Seq(S) /\ Len(Upto(l, n)) = n
         /\ Past(l, n) \in Seq(S) /\ Len(Past(l, n)) = Len(l) - n
         /\ \A i \in 1 .. n : Upto(l, n)[i] = l[i]
         /\ \A i \in 1 .. Len(l) - n : Past(l, n)[i] = l[n + i]
<1>1. Len(l) \in Nat /\ n \in Nat /\ n <= Len(l) /\ \A i \in 1 .. Len(l) : l[i] \in S
  BY LenProperties, ElementOfSeq
<1>2. \A i \in 1 .. n : l[i] \in S
  BY <1>1
<1>3. \A i \in n + 1 .. Len(l) : l[i] \in S
  BY <1>1
<1>4. Upto(l, n) \in Seq(S) /\ Len(Upto(l, n)) = n /\ \A i \in 1 .. n : Upto(l, n)[i] = l[i]
  BY <1>1, <1>2, SubSeqProperties DEF Upto
<1>5. /\ Past(l, n) \in Seq(S)
      /\ Len(Past(l, n)) = IF n + 1 <= Len(l) THEN Len(l) - (n + 1) + 1 ELSE 0
      /\ \A i \in 1 .. Len(l) - (n + 1) + 1 : Past(l, n)[i] = l[(n + 1) + i - 1]
  <2>1. n + 1 \in Int /\ Len(l) \in Int
    BY <1>1
  <2>2. PICK m \in Int, k \in Int : m = n + 1 /\ k = Len(l)
    BY <2>1
  <2>3. \A i \in m .. k : l[i] \in S
    BY <1>3, <2>2
  <2>4. /\ SubSeq(l, m, k) \in Seq(S)
        /\ Len(SubSeq(l, m, k)) = IF m <= k THEN k - m + 1 ELSE 0
        /\ \A i \in 1 .. k - m + 1 : SubSeq(l, m, k)[i] = l[m + i - 1]
    BY <2>3, SubSeqProperties
  <2>5. Past(l, n) = SubSeq(l, m, k)
    BY <2>2, Zenon DEF Past
  <2>6. QED
    BY <2>2, <2>4, <2>5, Zenon
<1>6. Len(Past(l, n)) = Len(l) - n
  BY <1>1, <1>5
<1>7. \A i \in 1 .. Len(l) - n : Past(l, n)[i] = l[n + i]
  <2>1. PICK k \in Nat : k = Len(l) /\ n <= k
    BY <1>1
  <2>2. \A i \in 1 .. k - n : i \in 1 .. k - (n + 1) + 1 /\ (n + 1) + i - 1 = n + i
    BY <1>1, <2>1
  <2>3. \A i \in 1 .. k - n : Past(l, n)[i] = l[(n + 1) + i - 1]
    BY <1>5, <2>1, <2>2, Zenon
  <2>4. QED
    BY <2>1, <2>2, <2>3, Zenon
<1>8. QED
  BY <1>4, <1>5, <1>6, <1>7

LEMMA CutJoined ==
  ASSUME NEW S, NEW s \in Seq(S), NEW t \in Seq(S)
  PROVE  Upto(s \o t, Len(s)) = s /\ Past(s \o t, Len(s)) = t
<1>1. PICK l : l = s \o t
  OBVIOUS
<1>2. l \in Seq(S) /\ Len(l) = Len(s) + Len(t) /\ Len(s) \in Nat /\ Len(t) \in Nat
  BY <1>1, ConcatProperties, LenProperties
<1>3. \A i \in 1 .. Len(s) + Len(t) : l[i] = IF i <= Len(s) THEN s[i] ELSE t[i - Len(s)]
  BY <1>1, ConcatProperties
<1>4. PICK n : n = Len(s)
  OBVIOUS
<1>5. n \in 0 .. Len(l)
  BY <1>2, <1>4
<1>6. Upto(l, n) = s
  <2>1. Upto(l, n) \in Seq(S) /\ Len(Upto(l, n)) = n /\ \A i \in 1 .. n : Upto(l, n)[i] = l[i]
    BY <1>2, <1>5, CutAt
  <2>2. \A i \in 1 .. n : Upto(l, n)[i] = s[i]
    BY <1>2, <1>3, <1>4, <2>1
  <2>3. QED
    BY <1>4, <2>1, <2>2, SeqEqual
<1>7. Past(l, n) = t
  <2>1. Past(l, n) \in Seq(S) /\ Len(Past(l, n)) = Len(l) - n
        /\ \A i \in 1 .. Len(l) - n : Past(l, n)[i] = l[n + i]
    BY <1>2, <1>5, CutAt
  <2>2. Len(Past(l, n)) = Len(t)
    BY <1>2, <1>4, <2>1
  <2>3. \A i \in 1 .. Len(t) : Past(l, n)[i] = t[i]
    <3>1. ASSUME NEW i \in 1 .. Len(t) PROVE Past(l, n)[i] = t[i]
      <4>1. i \in 1 .. Len(l) - n /\ n + i \in 1 .. Len(s) + Len(t) /\ ~(n + i <= Len(s))
            /\ (n + i) - Len(s) = i
        BY <1>2, <1>4
      <4>2. QED
        BY <1>3, <2>1, <4>1
    <3>2. QED
      BY <3>1
  <2>4. QED
    BY <2>1, <2>2, <2>3, SeqEqual
<1>8. QED
  BY <1>1, <1>4, <1>6, <1>7

(* A function that is a sequence and one more.                             *)
LEMMA AppendIs ==
  ASSUME NEW S, NEW s \in Seq(S), NEW x \in S, NEW g,
         g = [i \in 1 .. Len(s) + 1 |-> g[i]], Agree(g, s, Len(s)), g[Len(s) + 1] = x
  PROVE  g = Append(s, x)
<1>1. PICK n \in Nat : n = Len(s)
  BY LenProperties
<1>2. PICK u \in Seq(S) : u = Append(s, x)
  BY AppendProperties
<1>3. Len(u) = n + 1 /\ u[n + 1] = x /\ (\A i \in 1 .. n : u[i] = s[i]) /\ DOMAIN u = 1 .. n + 1
  BY <1>1, <1>2, AppendProperties, LenProperties
<1>4. \A i \in 1 .. n + 1 : i \in 1 .. n \/ i = n + 1
  OBVIOUS
<1>5. \A i \in 1 .. n + 1 : g[i] = u[i]
  BY <1>1, <1>3, <1>4 DEF Agree
<1>6. u = [i \in 1 .. n + 1 |-> u[i]]
  BY <1>3
<1>7. g = [i \in 1 .. n + 1 |-> u[i]]
  BY <1>1, <1>5
<1>8. QED
  BY <1>2, <1>6, <1>7

-----------------------------------------------------------------------------
(* JoinView: the posts and the screen                                      *)

Owning == main.pc \in {"raise", "wipe", "wiped", "print"}

JoinTypes ==
  /\ ThreadOK /\ MainOK /\ PollerOK
  /\ Owning => main.own > 0
  /\ poller.pc = "show" => poller.next > 1

(* What a post adds to the thread comes after what is there.               *)
LEMMA Appended ==
  ASSUME NEW S, NEW s \in Seq(S), NEW x \in S
  PROVE  /\ Append(s, x) \in Seq(S)
         /\ Len(Append(s, x)) = Len(s) + 1
         /\ \A i \in 1 .. Len(s) : Append(s, x)[i] = s[i]
         /\ Append(s, x)[Len(s) + 1] = x
OBVIOUS

LEMMA Shapes ==
  ASSUME JoinTypes
  PROVE  /\ Len(log) \in Nat /\ Len(printed) = Len(log) /\ box \in 0 .. Len(log)
         /\ main = [pc |-> main.pc, own |-> main.own]
         /\ main.pc \in MainPCs /\ main.own \in 0 .. Len(log)
         /\ poller = [pc |-> poller.pc, next |-> poller.next, hi |-> poller.hi]
         /\ poller.pc \in PollerPCs
         /\ poller.next \in 1 .. Len(log) + 1 /\ poller.hi \in 0 .. Len(log)
<1>1. Len(log) \in Nat /\ Len(printed) = Len(log) /\ box \in 0 .. Len(log)
  BY DEF JoinTypes, ThreadOK
<1>2. /\ main = [pc |-> main.pc, own |-> main.own]
      /\ main.pc \in MainPCs /\ main.own \in 0 .. Len(log)
  BY DEF JoinTypes, MainOK
<1>3. /\ poller = [pc |-> poller.pc, next |-> poller.next, hi |-> poller.hi]
      /\ poller.pc \in PollerPCs
      /\ poller.next \in 1 .. Len(log) + 1 /\ poller.hi \in 0 .. Len(log)
  BY DEF JoinTypes, PollerOK
<1> QED BY <1>1, <1>2, <1>3

-----------------------------------------------------------------------------
(* What a step does to the thread, the counts and the two positions        *)

postVars == <<log, printed, box, hidden, dropped>>
Entering == main.pc \in {"begin", "enter"}
Raised == main.pc \in {"wipe", "wiped", "print"}

(* The main thread goes on to another point and touches none of it.        *)
MainMoves ==
  /\ UNCHANGED <<postVars, poller>> /\ main'.own = main.own
  /\ main'.pc \in MainPCs /\ ~Entering /\ ~Entering'
  /\ (Owning' => Owning) /\ (Raised' => Raised)

(* Nor does the poller, which may take up a new batch.                     *)
PollerMoves ==
  /\ UNCHANGED <<postVars, main>> /\ poller'.next = poller.next
  /\ poller'.hi \in {poller.hi, Len(log)} /\ poller'.pc \in PollerPCs
  /\ poller.pc \notin {"show", "off"} /\ poller'.pc # "show"
  /\ poller'.pc \in {"judge", "touch"} \cup DrawPCs =>
       \/ poller'.hi = Len(log)
       \/ poller'.hi = poller.hi /\ poller.pc \in {"judge", "touch"} \cup DrawPCs

PollerGone ==
  /\ UNCHANGED <<postVars, main>> /\ poller'.pc = "off"
  /\ poller'.next = poller.next /\ poller'.hi = poller.hi

LEMMA MainStep ==
  ASSUME JoinTypes,
         \/ Key \/ Empty \/ Invite \/ OpenCurses \/ CloseCurses \/ Invited \/ ClearOwn
         \/ MainDraws \/ Quit \/ Joined \/ Leave
  PROVE  MainMoves
<1> USE DEF screenVars, history
<1>1. UNCHANGED postVars
  BY DEF postVars, Key, Empty, Invite, OpenCurses, CloseCurses, Invited, ClearOwn, MainDraws,
         Quit, Joined, Leave
<1>2. PICK pc \in MainPCs :
        /\ MainGoes(pc) /\ ~Entering /\ pc \notin {"begin", "enter"}
        /\ pc \in {"raise", "wipe", "wiped", "print"} => Owning
        /\ pc \in {"wipe", "wiped", "print"} => Raised
  <2>1. CASE ClearOwn
    BY <2>1 DEF ClearOwn, MainAt, Entering, Owning, Raised, MainPCs
  <2>2. CASE MainDraws
    <3>1. main.pc \in DrawPCs /\ MainGoes(AfterDraw(main.pc, "type"))
      BY <2>2 DEF MainDraws
    <3>2. AfterDraw(main.pc, "type") \in DrawPCs \cup {"type"}
      BY <3>1 DEF AfterDraw, DrawPCs
    <3> QED BY <3>1, <3>2 DEF DrawPCs, Entering, MainPCs
  <2>3. CASE \/ Key \/ Empty \/ Invite \/ OpenCurses \/ CloseCurses \/ Invited
             \/ Quit \/ Joined \/ Leave
    BY <2>3 DEF Key, Empty, Invite, OpenCurses, CloseCurses, Invited, Quit, Joined, Leave, MainAt,
                Entering, MainPCs, DrawPCs, PickPCs
  <2> QED BY <2>1, <2>2, <2>3
<1>3. main' = [main EXCEPT !.pc = pc] /\ UNCHANGED poller
  BY <1>2 DEF MainGoes
<1>4. main'.pc = pc /\ main'.own = main.own
  BY <1>3, Shapes
<1> QED BY <1>1, <1>2, <1>3, <1>4 DEF MainMoves, Entering, Owning, Raised

LEMMA PollerStep ==
  ASSUME JoinTypes, Tick \/ PollerDraws \/ BatchOver \/ Touch
  PROVE  PollerMoves
<1> USE DEF screenVars, history
<1>1. UNCHANGED <<postVars, main>>
  BY DEF postVars, Tick, PollerDraws, BatchOver, Touch, PollerGoes
<1>2. CASE Tick
  <2>1. poller' = [poller EXCEPT !.pc = "judge", !.hi = Len(log)] /\ poller.pc = "wait"
    BY <1>2 DEF Tick, PollerAt
  <2>2. poller'.pc = "judge" /\ poller'.next = poller.next /\ poller'.hi = Len(log)
    BY <2>1, Shapes
  <2> QED BY <1>1, <2>1, <2>2 DEF PollerMoves, PollerPCs
<1>3. CASE PollerDraws \/ BatchOver \/ Touch
  <2>1. PICK pc \in {"wait", "judge", "touch"} \cup DrawPCs :
          /\ PollerGoes(pc) /\ poller.pc \in {"judge", "touch"} \cup DrawPCs
    <3>1. CASE PollerDraws
      <4>1. poller.pc \in DrawPCs /\ PollerGoes(AfterDraw(poller.pc, "judge"))
        BY <3>1 DEF PollerDraws
      <4>2. AfterDraw(poller.pc, "judge") \in DrawPCs \cup {"judge"}
        BY <4>1 DEF AfterDraw, DrawPCs
      <4> QED BY <4>1, <4>2
    <3> QED BY <1>3, <3>1 DEF BatchOver, Touch, PollerAt
  <2>2. poller' = [poller EXCEPT !.pc = pc]
    BY <2>1 DEF PollerGoes
  <2>3. poller'.pc = pc /\ poller'.next = poller.next /\ poller'.hi = poller.hi
    BY <2>2, Shapes
  <2> QED BY <1>1, <2>1, <2>3 DEF PollerMoves, PollerPCs, DrawPCs
<1> QED BY <1>2, <1>3

LEMMA GoneStep ==
  ASSUME JoinTypes, PollerEnds \/ Exit
  PROVE  PollerGone
<1> USE DEF screenVars, history
<1>1. UNCHANGED <<postVars, main>> /\ poller' = [poller EXCEPT !.pc = "off"]
  BY DEF postVars, PollerEnds, Exit, PollerGoes
<1>2. poller'.pc = "off" /\ poller'.next = poller.next /\ poller'.hi = poller.hi
  BY <1>1, Shapes
<1> QED BY <1>1, <1>2 DEF PollerGone

(* A post counts once more, all others as before.                          *)
LEMMA Counted ==
  ASSUME JoinTypes, UNCHANGED log, NEW s \in Seqs, Count({s})
  PROVE  /\ printed' \in Seq(Nat) /\ Len(printed') = Len(log)
         /\ printed'[s] = printed[s] + 1
         /\ \A t \in Seqs : t # s => printed'[t] = printed[t]
<1>1. printed' = [t \in 1 .. Len(log) |-> printed[t] + (IF t \in {s} THEN 1 ELSE 0)]
  BY DEF Count, Seqs
<1>2. \A t \in 1 .. Len(log) : printed[t] \in Nat
  BY DEF JoinTypes, ThreadOK
<1>3. \A t \in 1 .. Len(log) : printed[t] + (IF t \in {s} THEN 1 ELSE 0) \in Nat
  BY <1>2
<1>4. printed' \in Seq(Nat) /\ Len(printed') = Len(log)
  BY <1>1, <1>3, Shapes
<1> QED BY <1>1, <1>2, <1>4 DEF Seqs

LEMMA TypesInit == ASSUME Init PROVE JoinTypes
<1>1. ThreadOK
  BY DEF Init, ThreadOK, Seqs
<1>2. MainOK /\ PollerOK /\ poller.pc # "show" /\ ~Owning
  BY DEF Init, MainOK, PollerOK, MainPCs, PollerPCs, DrawPCs, Owning
<1> QED BY <1>1, <1>2 DEF JoinTypes

LEMMA TypesStep == ASSUME JoinTypes, [Next]_vars PROVE JoinTypes'
<1> USE DEF screenVars, history
<1>1. CASE Post \/ Send
  <2>1. PICK who \in {"me", "other"} :
          /\ log' = Append(log, who) /\ printed' = Append(printed, 0)
          /\ UNCHANGED <<box, hidden, dropped, poller>>
          /\ \/ UNCHANGED main
             \/ main' = [pc |-> "raise", own |-> Len(log) + 1]
    BY <1>1 DEF Post, Send
  <2>2. /\ log \in Seq({"me", "other"}) /\ printed \in Seq(Nat) /\ Len(printed) = Len(log)
        /\ Len(log) \in Nat
    BY DEF JoinTypes, ThreadOK
  <2>3. /\ log' \in Seq({"me", "other"}) /\ printed' \in Seq(Nat)
        /\ Len(log') = Len(log) + 1 /\ Len(printed') = Len(log')
    BY <2>1, <2>2, Appended
  <2>4. ThreadOK'
    BY <2>1, <2>2, <2>3 DEF JoinTypes, ThreadOK, Seqs
  <2>5. MainOK' /\ (Owning' => main'.own > 0)
    BY <2>1, <2>2, <2>3 DEF JoinTypes, MainOK, MainPCs, Owning
  <2>6. PollerOK' /\ (poller'.pc = "show" => poller'.next > 1)
    BY <2>1, <2>2, <2>3 DEF JoinTypes, PollerOK
  <2> QED BY <2>4, <2>5, <2>6 DEF JoinTypes
<1>2. CASE \/ Key \/ Empty \/ Invite \/ OpenCurses \/ CloseCurses \/ Invited \/ ClearOwn
           \/ MainDraws \/ Quit \/ Joined \/ Leave
  <2>1. MainMoves
    BY <1>2, MainStep
  <2>2. main' = [pc |-> main'.pc, own |-> main'.own]
    BY <1>2, Shapes DEF Key, Empty, Invite, OpenCurses, CloseCurses, Invited, ClearOwn, MainDraws,
                        Quit, Joined, Leave, MainGoes
  <2>3. MainOK'
    BY <2>1, <2>2, Shapes DEF MainMoves, MainOK, postVars
  <2>4. Owning' => main'.own > 0
    BY <2>1 DEF MainMoves, JoinTypes
  <2> QED BY <2>1, <2>3, <2>4 DEF MainMoves, postVars, JoinTypes, ThreadOK, PollerOK, Seqs
<1>3. CASE Tick \/ PollerDraws \/ BatchOver \/ Touch
  <2>1. PollerMoves
    BY <1>3, PollerStep
  <2>2. poller' = [pc |-> poller'.pc, next |-> poller'.next, hi |-> poller'.hi]
    BY <1>3, Shapes DEF Tick, PollerDraws, BatchOver, Touch, PollerGoes
  <2>3. PollerOK'
    <3>1. UNCHANGED log
      BY <2>1 DEF PollerMoves, postVars
    <3>2. poller'.pc \in PollerPCs /\ poller'.next \in 1 .. Len(log) + 1 /\ poller'.hi \in 0 .. Len(log)
      BY <2>1, Shapes DEF PollerMoves
    <3>3. poller'.pc \in {"judge", "show", "touch"} \cup DrawPCs => poller'.next <= poller'.hi + 1
      BY <2>1, Shapes DEF PollerMoves, JoinTypes, PollerOK
    <3> QED BY <2>2, <3>1, <3>2, <3>3 DEF PollerOK
  <2> QED BY <2>1, <2>3 DEF PollerMoves, postVars, JoinTypes, ThreadOK, MainOK, Seqs, Owning
<1>4. CASE PollerEnds \/ Exit
  <2>1. PollerGone
    BY <1>4, GoneStep
  <2>2. poller' = [pc |-> poller'.pc, next |-> poller'.next, hi |-> poller'.hi]
    BY <1>4, Shapes DEF PollerEnds, Exit, PollerGoes
  <2>3. PollerOK'
    BY <2>1, <2>2, Shapes DEF PollerGone, postVars, PollerOK, PollerPCs, DrawPCs
  <2> QED BY <2>1, <2>3 DEF PollerGone, postVars, JoinTypes, ThreadOK, MainOK, Seqs, Owning
<1>5. CASE Begin
  <2>1. /\ printed' = [s \in Seqs |-> printed[s] + (IF s \in 1 .. Len(log) THEN 1 ELSE 0)]
        /\ main' = [pc |-> "enter", own |-> Len(log)]
        /\ UNCHANGED <<log, box, hidden, dropped, poller>>
    BY <1>5 DEF Begin, Count
  <2>2. printed' \in Seq(Nat) /\ Len(printed') = Len(log)
    <3>1. \A s \in 1 .. Len(log) : printed[s] + (IF s \in 1 .. Len(log) THEN 1 ELSE 0) \in Nat
      BY DEF JoinTypes, ThreadOK
    <3> QED BY <2>1, <3>1, Shapes DEF Seqs
  <2>3. ThreadOK' /\ MainOK' /\ PollerOK'
    BY <2>1, <2>2, Shapes DEF JoinTypes, ThreadOK, MainOK, PollerOK, Seqs, MainPCs, Owning
  <2> QED BY <2>1, <2>3 DEF JoinTypes, Owning
<1>6. CASE Enter
  <2>1. /\ box' = main.own /\ main' = [pc |-> "draw", own |-> 0]
        /\ poller' = [pc |-> "wait", next |-> poller.next, hi |-> poller.hi]
        /\ UNCHANGED <<log, printed, hidden, dropped>>
    BY <1>6, Shapes DEF Enter
  <2>2. ThreadOK' /\ MainOK' /\ PollerOK' /\ poller'.pc # "show"
    BY <2>1, Shapes DEF JoinTypes, ThreadOK, MainOK, PollerOK, Seqs, MainPCs, PollerPCs, DrawPCs
  <2> QED BY <2>1, <2>2 DEF JoinTypes, Owning
<1>7. CASE RaiseBox
  <2>1. /\ box' \in {main.own, box} /\ main' = [pc |-> "wipe", own |-> main.own]
        /\ hidden' \subseteq hidden \cup Unseen
        /\ UNCHANGED <<log, printed, dropped, poller>>
    BY <1>7, Shapes DEF RaiseBox, MainGoes
  <2>2. ThreadOK' /\ MainOK' /\ PollerOK'
    BY <2>1, Shapes DEF JoinTypes, ThreadOK, MainOK, PollerOK, Seqs, MainPCs, Unseen
  <2> QED BY <2>1, <2>2, <1>7 DEF JoinTypes, Owning, RaiseBox, MainAt
<1>8. CASE PrintOwn
  <2>1. /\ main' = [pc |-> "draw", own |-> main.own] /\ Count({main.own})
        /\ UNCHANGED <<log, box, hidden, dropped, poller>>
    BY <1>8, Shapes DEF PrintOwn, MainGoes
  <2>2. main.own \in Seqs
    BY <1>8, Shapes DEF PrintOwn, MainAt, JoinTypes, Owning, Seqs
  <2>3. ThreadOK' /\ MainOK' /\ PollerOK'
    BY <2>1, <2>2, Counted, Shapes
    DEF JoinTypes, ThreadOK, MainOK, PollerOK, Seqs, MainPCs, DrawPCs
  <2> QED BY <2>1, <2>3 DEF JoinTypes, Owning
<1>9. CASE Judge
  <2>1. /\ box' \in {poller.next, box} /\ poller.next <= poller.hi /\ poller.pc = "judge"
        /\ \E pc \in {"show", "judge"} :
             poller' = [pc |-> pc, next |-> poller.next + 1, hi |-> poller.hi]
        /\ UNCHANGED <<log, printed, hidden, dropped, main>>
    BY <1>9, Shapes DEF Judge, PollerAt
  <2>2. ThreadOK' /\ MainOK' /\ PollerOK' /\ poller'.next > 1
    BY <2>1, Shapes DEF JoinTypes, ThreadOK, MainOK, PollerOK, Seqs, PollerPCs
  <2> QED BY <2>1, <2>2 DEF JoinTypes, Owning
<1>10. CASE Show
  <2>1. /\ poller' = [pc |-> "draw", next |-> poller.next, hi |-> poller.hi]
        /\ poller.pc = "show" /\ Count({poller.next - 1})
        /\ UNCHANGED <<log, box, hidden, dropped, main>>
    BY <1>10, Shapes DEF Show, PollerGoes, PollerAt
  <2>2. poller.next - 1 \in Seqs
    BY <2>1, Shapes DEF JoinTypes, Seqs
  <2>3. ThreadOK' /\ MainOK' /\ PollerOK'
    BY <2>1, <2>2, Counted, Shapes
    DEF JoinTypes, ThreadOK, MainOK, PollerOK, Seqs, PollerPCs, DrawPCs
  <2> QED BY <2>1, <2>3 DEF JoinTypes, Owning
<1>11. CASE TickFails
  <2>1. /\ poller' = [pc |-> "wait", next |-> poller.hi + 1, hi |-> poller.hi]
        /\ dropped' = dropped \cup (poller.next - (IF poller.pc = "show" THEN 1 ELSE 0) .. poller.hi)
        /\ UNCHANGED <<log, printed, box, hidden, main>>
    BY <1>11, Shapes DEF TickFails, PollerAt
  <2>2. dropped' \subseteq Seqs
    BY <2>1, Shapes DEF JoinTypes, ThreadOK, Seqs
  <2>3. ThreadOK' /\ MainOK' /\ PollerOK' /\ poller'.pc # "show"
    BY <2>1, <2>2, Shapes DEF JoinTypes, ThreadOK, MainOK, PollerOK, Seqs, PollerPCs, DrawPCs
  <2> QED BY <2>1, <2>3 DEF JoinTypes, Owning
<1>12. CASE PickerDraws \/ UNCHANGED vars
  BY <1>12 DEF PickerDraws, vars, JoinTypes, ThreadOK, MainOK, PollerOK, Seqs, Owning
<1> QED
  BY <1>1, <1>2, <1>3, <1>4, <1>5, <1>6, <1>7, <1>8, <1>9, <1>10, <1>11, <1>12
     DEF Next, Main, Poller

LEMMA PostsKept ==
  ASSUME JoinTypes, NEW who \in {"me", "other"}, log' = Append(log, who),
         printed' = Append(printed, 0)
  PROVE  /\ Seqs' = Seqs \cup {Len(log) + 1} /\ Len(log) + 1 \notin Seqs
         /\ \A s \in Seqs : log'[s] = log[s] /\ printed'[s] = printed[s]
         /\ log'[Len(log) + 1] = who /\ printed'[Len(log) + 1] = 0
<1>1. /\ log \in Seq({"me", "other"}) /\ printed \in Seq(Nat) /\ Len(printed) = Len(log)
      /\ Len(log) \in Nat
  BY DEF JoinTypes, ThreadOK
<1>2. /\ Len(log') = Len(log) + 1 /\ log'[Len(log) + 1] = who
      /\ \A s \in 1 .. Len(log) : log'[s] = log[s]
  BY <1>1, Appended
<1>3. /\ printed'[Len(log) + 1] = 0
      /\ \A s \in 1 .. Len(log) : printed'[s] = printed[s]
  BY <1>1, Appended
<1> QED BY <1>1, <1>2, <1>3 DEF Seqs

-----------------------------------------------------------------------------
(* Once                                                                    *)

(* What is past the position of the view has not been printed; what one of *)
(* the threads is about to print has not either, and is not past it, and   *)
(* the two are different.                                                  *)
CountsInv ==
  /\ Entering => poller.pc = "off" /\ poller.next = 1
  /\ main.pc = "begin" => \A s \in Seqs : printed[s] = 0
  /\ main.pc = "enter" => \A s \in Seqs : printed[s] = (IF s <= main.own THEN 1 ELSE 0)
  /\ ~Entering => \A s \in Seqs : s > box => printed[s] = 0
  /\ Owning => main.own \in By("me") /\ printed[main.own] = 0
  /\ Raised => main.own <= box
  /\ poller.pc = "show" => /\ poller.next - 1 \in By("other") /\ printed[poller.next - 1] = 0
                           /\ poller.next - 1 <= box
  /\ ShownOnce

LEMMA CountsStep ==
  ASSUME JoinTypes, CountsInv, [Next]_vars
  PROVE  CountsInv'
<1> USE DEF screenVars, history
<1>1. CASE Post \/ Send
  <2>1. PICK who \in {"me", "other"} :
          /\ log' = Append(log, who) /\ printed' = Append(printed, 0)
          /\ UNCHANGED <<box, poller>>
          /\ \/ UNCHANGED main
             \/ /\ who = "me" /\ ~Entering
                /\ main' = [pc |-> "raise", own |-> Len(log) + 1]
    BY <1>1 DEF Post, Send, MainAt, Entering
  <2>2. /\ Seqs' = Seqs \cup {Len(log) + 1} /\ Len(log) + 1 \notin Seqs
        /\ \A s \in Seqs : log'[s] = log[s] /\ printed'[s] = printed[s]
        /\ log'[Len(log) + 1] = who /\ printed'[Len(log) + 1] = 0
    BY <2>1, PostsKept
  <2>3. By("me") \subseteq By("me")' /\ By("other") \subseteq By("other")'
    BY <2>2 DEF By
  <2>4. ShownOnce'
    BY <2>2 DEF CountsInv, ShownOnce
  <2>5. poller'.pc = "show" =>
          /\ poller'.next - 1 \in By("other")' /\ printed'[poller'.next - 1] = 0
          /\ poller'.next - 1 <= box'
    <3>1. By("other") \subseteq Seqs
      BY DEF By
    <3> QED BY <2>1, <2>2, <2>3, <3>1 DEF CountsInv
  <2>6. CASE UNCHANGED main
    <3>1. Owning' => main'.own \in By("me")' /\ printed'[main'.own] = 0
      BY <2>2, <2>3, <2>6 DEF CountsInv, Owning, By
    <3>2. main'.pc = "enter" =>
            \A s \in Seqs' : printed'[s] = (IF s <= main'.own THEN 1 ELSE 0)
      BY <2>2, <2>6, Shapes DEF CountsInv
    <3>3. /\ main'.pc = "begin" => \A s \in Seqs' : printed'[s] = 0
          /\ ~Entering' => \A s \in Seqs' : s > box' => printed'[s] = 0
          /\ Entering' => poller'.pc = "off" /\ poller'.next = 1
          /\ Raised' => main'.own <= box'
      BY <2>1, <2>2, <2>6 DEF CountsInv, Entering, Raised
    <3> QED BY <2>4, <2>5, <3>1, <3>2, <3>3 DEF CountsInv
  <2>7. CASE who = "me" /\ ~Entering /\ main' = [pc |-> "raise", own |-> Len(log) + 1]
    <3>1. Owning' => main'.own \in By("me")' /\ printed'[main'.own] = 0
      BY <2>2, <2>7 DEF By
    <3>2. ~Entering' /\ ~Raised' /\ main'.pc \notin {"begin", "enter"}
      BY <2>7 DEF Entering, Raised
    <3>3. \A s \in Seqs' : s > box' => printed'[s] = 0
      BY <2>1, <2>2, <2>7 DEF CountsInv
    <3> QED BY <2>4, <2>5, <3>1, <3>2, <3>3 DEF CountsInv
  <2> QED BY <2>1, <2>6, <2>7
<1>2. CASE \/ Key \/ Empty \/ Invite \/ OpenCurses \/ CloseCurses \/ Invited \/ ClearOwn
           \/ MainDraws \/ Quit \/ Joined \/ Leave
  <2>1. MainMoves
    BY <1>2, MainStep
  <2> QED BY <2>1 DEF MainMoves, postVars, CountsInv, Entering, ShownOnce, Seqs, By
<1>3. CASE Tick \/ PollerDraws \/ BatchOver \/ Touch
  <2>1. PollerMoves
    BY <1>3, PollerStep
  <2> QED BY <2>1 DEF PollerMoves, postVars, CountsInv, Entering, Owning, Raised, ShownOnce, Seqs, By
<1>4. CASE PollerEnds \/ Exit
  <2>1. PollerGone
    BY <1>4, GoneStep
  <2> QED BY <2>1 DEF PollerGone, postVars, CountsInv, Entering, Owning, Raised, ShownOnce, Seqs, By
<1>5. CASE Begin
  <2>1. /\ printed' = [s \in Seqs |-> printed[s] + (IF s \in 1 .. Len(log) THEN 1 ELSE 0)]
        /\ main' = [pc |-> "enter", own |-> Len(log)] /\ main.pc = "begin"
        /\ UNCHANGED <<log, box, poller>>
    BY <1>5 DEF Begin, Count, MainAt
  <2>2. \A s \in Seqs' : printed'[s] = 1 /\ s <= main'.own
    BY <2>1 DEF CountsInv, Seqs
  <2>3. /\ main'.pc = "enter" /\ Entering' /\ ~Owning' /\ ~Raised'
        /\ poller'.pc = "off" /\ poller'.next = 1
    BY <2>1 DEF CountsInv, Entering, Owning, Raised
  <2>4. ShownOnce' /\ \A s \in Seqs' : printed'[s] = (IF s <= main'.own THEN 1 ELSE 0)
    BY <2>2 DEF ShownOnce
  <2> QED BY <2>3, <2>4 DEF CountsInv
<1>6. CASE Enter
  <2>1. /\ box' = main.own /\ main' = [pc |-> "draw", own |-> 0] /\ main.pc = "enter"
        /\ poller'.pc = "wait"
        /\ UNCHANGED <<log, printed>>
    BY <1>6, Shapes DEF Enter, MainAt
  <2>2. \A s \in Seqs' : s > box' => printed'[s] = 0
    BY <2>1, Shapes DEF CountsInv, Seqs
  <2> QED BY <2>1, <2>2 DEF CountsInv, Entering, Owning, Raised, ShownOnce, Seqs
<1>7. CASE RaiseBox
  <2>1. /\ box' = (IF main.own > box THEN main.own ELSE box)
        /\ main' = [pc |-> "wipe", own |-> main.own] /\ main.pc = "raise"
        /\ UNCHANGED <<log, printed, poller>>
    BY <1>7, Shapes DEF RaiseBox, MainGoes, MainAt
  <2>2. box' >= box /\ main'.own <= box'
    BY <2>1, Shapes
  <2>3. \A s \in Seqs' : s > box' => printed'[s] = 0
    BY <2>1, <2>2, Shapes DEF CountsInv, Entering, Seqs
  <2>4. poller'.pc = "show" => poller'.next - 1 <= box'
    BY <2>1, <2>2, Shapes DEF CountsInv
  <2>5. UNCHANGED <<By("me"), By("other"), Seqs>>
    BY <2>1 DEF By, Seqs
  <2> QED BY <2>1, <2>2, <2>3, <2>4, <2>5 DEF CountsInv, Entering, Owning, Raised, ShownOnce
<1>8. CASE PrintOwn
  <2>1. /\ main' = [pc |-> "draw", own |-> main.own] /\ Count({main.own})
        /\ main.pc = "print" /\ UNCHANGED <<log, box, poller>>
    BY <1>8, Shapes DEF PrintOwn, MainGoes, MainAt
  <2>2. main.own \in By("me") /\ main.own \in Seqs /\ main.own <= box /\ printed[main.own] = 0
    BY <2>1 DEF CountsInv, Owning, Raised, By
  <2>3. printed'[main.own] = 1 /\ \A t \in Seqs : t # main.own => printed'[t] = printed[t]
    BY <2>1, <2>2, Counted
  <2>4. UNCHANGED <<By("me"), By("other"), Seqs>>
    BY <2>1 DEF By, Seqs
  <2>5. By("other") \subseteq Seqs /\ main.own \notin By("other")
    BY <2>2 DEF By
  <2>6. poller'.pc = "show" =>
          /\ poller'.next - 1 \in By("other")' /\ printed'[poller'.next - 1] = 0
          /\ poller'.next - 1 <= box'
    BY <2>1, <2>3, <2>4, <2>5 DEF CountsInv
  <2>7. \A s \in Seqs' : (s > box' => printed'[s] = 0) /\ printed'[s] <= 1
    <3>1. \A s \in Seqs : s > box => s # main.own
      BY <2>2, Shapes DEF Seqs
    <3> QED BY <2>1, <2>3, <2>4, <3>1 DEF CountsInv, Entering, ShownOnce
  <2> QED BY <2>1, <2>6, <2>7 DEF CountsInv, Entering, Owning, Raised, ShownOnce
<1>9. CASE Judge
  <2> DEFINE s == poller.next
  <2>1. /\ box' = (IF s > box THEN s ELSE box)
        /\ poller' = [pc |-> IF s > box /\ log[s] = "other" THEN "show" ELSE "judge",
                      next |-> s + 1, hi |-> poller.hi]
        /\ s <= poller.hi /\ poller.pc = "judge"
        /\ UNCHANGED <<log, printed, main>>
    BY <1>9, Shapes DEF Judge, PollerAt
  <2>2. s \in Seqs /\ ~Entering
    BY <2>1, Shapes DEF Seqs, CountsInv
  <2>3. box' >= box /\ s <= box'
    BY <2>1, Shapes
  <2>4. poller'.pc = "show" =>
          /\ poller'.next - 1 \in By("other")' /\ printed'[poller'.next - 1] = 0
          /\ poller'.next - 1 <= box'
    BY <2>1, <2>2, <2>3, Shapes DEF CountsInv, By, Seqs
  <2>5. \A t \in Seqs' : t > box' => printed'[t] = 0
    BY <2>1, <2>2, <2>3, Shapes DEF CountsInv, Seqs
  <2>6. UNCHANGED <<By("me"), Seqs>>
    BY <2>1 DEF By, Seqs
  <2>7. Raised' => main'.own <= box'
    BY <2>1, <2>3, Shapes DEF CountsInv, Raised
  <2> QED BY <2>1, <2>2, <2>4, <2>5, <2>6, <2>7 DEF CountsInv, Entering, Owning, ShownOnce
<1>10. CASE Show
  <2> DEFINE s == poller.next - 1
  <2>1. /\ poller'.pc = "draw" /\ poller.pc = "show" /\ Count({s})
        /\ UNCHANGED <<log, box, main>>
    BY <1>10, Shapes DEF Show, PollerGoes, PollerAt
  <2>2. s \in By("other") /\ s \in Seqs /\ s <= box /\ printed[s] = 0 /\ ~Entering
    BY <2>1 DEF CountsInv, By
  <2> HIDE DEF s
  <2>3. printed'[s] = 1 /\ \A t \in Seqs : t # s => printed'[t] = printed[t]
    BY <2>1, <2>2, Counted
  <2>4. UNCHANGED <<By("me"), Seqs>> /\ s \notin By("me") /\ By("me") \subseteq Seqs
    BY <2>1, <2>2 DEF By, Seqs
  <2>5. \A t \in Seqs' : (t > box' => printed'[t] = 0) /\ printed'[t] <= 1
    <3>1. \A t \in Seqs : t > box => t # s
      BY <2>2, Shapes DEF Seqs
    <3> QED BY <2>1, <2>2, <2>3, <2>4, <3>1 DEF CountsInv, ShownOnce
  <2>6. Owning' => main'.own \in By("me")' /\ printed'[main'.own] = 0
    BY <2>1, <2>3, <2>4 DEF CountsInv, Owning
  <2> QED BY <2>1, <2>2, <2>5, <2>6 DEF CountsInv, Entering, Raised, ShownOnce
<1>11. CASE TickFails
  <2>1. poller'.pc = "wait" /\ poller.pc # "off" /\ UNCHANGED <<log, printed, box, main>>
    BY <1>11, Shapes DEF TickFails, PollerAt
  <2>2. UNCHANGED <<By("me"), Seqs>>
    BY <2>1 DEF By, Seqs
  <2> QED BY <2>1, <2>2 DEF CountsInv, Entering, Owning, Raised, ShownOnce
<1>12. CASE PickerDraws \/ UNCHANGED vars
  <2>1. UNCHANGED <<log, printed, box, main, poller, By("me"), By("other"), Seqs>>
    BY <1>12 DEF PickerDraws, vars, By, Seqs
  <2> QED BY <2>1 DEF CountsInv, Entering, Owning, Raised, ShownOnce
<1> QED
  BY <1>1, <1>2, <1>3, <1>4, <1>5, <1>6, <1>7, <1>8, <1>9, <1>10, <1>11, <1>12
     DEF Next, Main, Poller

-----------------------------------------------------------------------------
(* Each                                                                    *)

AtHand(s) == poller.pc = "show" /\ s = poller.next - 1
Looked(s) == printed[s] > 0 \/ s \in hidden \cup dropped

(* Another's post that the poller has passed, and one that it will pass by *)
(* because the view's position is behind it, is printed or named.          *)
PassedInv ==
  poller.pc # "off" =>
    \A s \in By("other") : (s < poller.next \/ s <= box) /\ ~AtHand(s) => Looked(s)

LEMMA PassedStep ==
  ASSUME JoinTypes, CountsInv, PassedInv, [Next]_vars
  PROVE  PassedInv'
<1> USE DEF screenVars, history
<1>1. CASE Post \/ Send
  <2>1. PICK who \in {"me", "other"} :
          /\ log' = Append(log, who) /\ printed' = Append(printed, 0)
          /\ UNCHANGED <<box, poller, hidden, dropped>>
    BY <1>1 DEF Post, Send
  <2>2. /\ Seqs' = Seqs \cup {Len(log) + 1}
        /\ \A s \in Seqs : log'[s] = log[s] /\ printed'[s] = printed[s]
    BY <2>1, PostsKept
  <2>3. \A s \in By("other")' : s < poller.next \/ s <= box => s \in By("other")
    BY <2>2, Shapes DEF By, Seqs
  <2>4. By("other") \subseteq Seqs
    BY DEF By
  <2> QED BY <2>1, <2>2, <2>3, <2>4 DEF PassedInv, AtHand, Looked
<1>2. CASE \/ Key \/ Empty \/ Invite \/ OpenCurses \/ CloseCurses \/ Invited \/ ClearOwn
           \/ MainDraws \/ Quit \/ Joined \/ Leave
  <2>1. MainMoves
    BY <1>2, MainStep
  <2> QED BY <2>1 DEF MainMoves, postVars, PassedInv, AtHand, Looked, By, Seqs
<1>3. CASE Tick \/ PollerDraws \/ BatchOver \/ Touch
  <2>1. PollerMoves
    BY <1>3, PollerStep
  <2> QED BY <2>1 DEF PollerMoves, postVars, PassedInv, AtHand, Looked, By, Seqs
<1>4. CASE PollerEnds \/ Exit
  <2>1. PollerGone
    BY <1>4, GoneStep
  <2> QED BY <2>1 DEF PollerGone, PassedInv
<1>5. CASE Begin
  <2>1. poller'.pc = "off"
    BY <1>5 DEF Begin, MainAt, CountsInv, Entering
  <2> QED BY <2>1 DEF PassedInv
<1>6. CASE Enter
  <2>1. /\ box' = main.own /\ poller'.next = poller.next /\ main.pc = "enter"
        /\ UNCHANGED <<log, printed, hidden, dropped>>
    BY <1>6, Shapes DEF Enter, MainAt
  <2>2. poller'.next = 1 /\ \A s \in Seqs : s <= main.own => printed[s] = 1
    BY <2>1 DEF CountsInv, Entering
  <2>3. \A s \in By("other")' : s \in Seqs /\ ~(s < poller'.next)
    BY <2>1, <2>2, Shapes DEF By, Seqs
  <2> QED BY <2>1, <2>2, <2>3 DEF PassedInv, Looked
<1>7. CASE RaiseBox
  <2>1. /\ box' \in {main.own, box}
        /\ hidden' = hidden \cup ((Unseen \cap 1 .. main.own) \ By("me"))
        /\ UNCHANGED <<log, printed, dropped, poller>>
    BY <1>7 DEF RaiseBox, MainGoes
  <2>2. ASSUME NEW s \in By("other"), ~(s < poller.next), s <= main.own PROVE s \in hidden'
    <3>1. s \in 1 .. Len(log) /\ s \notin By("me")
      BY DEF By, Seqs
    <3>2. s \in Unseen /\ s \in 1 .. main.own
      BY <2>2, <3>1, Shapes DEF Unseen
    <3> QED BY <2>1, <3>1, <3>2
  <2>3. By("other")' = By("other")
    BY <2>1 DEF By, Seqs
  <2> QED BY <2>1, <2>2, <2>3 DEF PassedInv, AtHand, Looked
<1>8. CASE PrintOwn
  <2>1. Count({main.own}) /\ main.pc = "print" /\ UNCHANGED <<log, box, poller, hidden, dropped>>
    BY <1>8 DEF PrintOwn, MainGoes, MainAt
  <2>2. main.own \in By("me") /\ main.own \in Seqs
    BY <2>1 DEF CountsInv, Owning, By
  <2>3. By("other")' = By("other") /\ \A s \in By("other") : s \in Seqs /\ s # main.own
    BY <2>1, <2>2 DEF By, Seqs
  <2>4. \A s \in By("other") : printed'[s] = printed[s]
    BY <2>1, <2>2, <2>3, Counted
  <2> QED BY <2>1, <2>3, <2>4 DEF PassedInv, AtHand, Looked
<1>9. CASE Judge
  <2> DEFINE s == poller.next
  <2>1. /\ box' = (IF s > box THEN s ELSE box)
        /\ poller' = [pc |-> IF s > box /\ log[s] = "other" THEN "show" ELSE "judge",
                      next |-> s + 1, hi |-> poller.hi]
        /\ poller.pc = "judge" /\ UNCHANGED <<log, printed, hidden, dropped>>
    BY <1>9, Shapes DEF Judge, PollerAt
  <2>2. By("other")' = By("other")
    BY <2>1 DEF By, Seqs
  <2>3. ASSUME NEW t \in By("other"), t < s + 1 \/ t <= box', ~AtHand(t)' PROVE Looked(t)
    <3>1. t \in Nat /\ log[t] = "other"
      BY DEF By, Seqs
    <3>2. ~AtHand(t)
      BY <2>1 DEF AtHand
    <3>3. CASE t < s \/ t <= box
      BY <2>1, <3>2, <3>3 DEF PassedInv
    <3>4. CASE ~(t < s) /\ ~(t <= box)
      <4>1. t = s /\ s > box
        BY <2>1, <2>3, <3>1, <3>4, Shapes
      <4>2. poller'.pc = "show" /\ poller'.next - 1 = s
        BY <2>1, <3>1, <4>1, Shapes
      <4> QED BY <2>3, <4>1, <4>2 DEF AtHand
    <3> QED BY <3>3, <3>4
  <2> QED BY <2>1, <2>2, <2>3 DEF PassedInv, Looked
<1>10. CASE Show
  <2> DEFINE s == poller.next - 1
  <2>1. /\ poller'.pc = "draw" /\ poller'.next = poller.next /\ poller.pc = "show" /\ Count({s})
        /\ UNCHANGED <<log, box, hidden, dropped>>
    BY <1>10, Shapes DEF Show, PollerGoes, PollerAt
  <2>2. s \in Seqs /\ printed[s] = 0
    BY <2>1 DEF CountsInv, By
  <2>3. printed'[s] = 1 /\ \A t \in Seqs : t # s => printed'[t] = printed[t]
    BY <2>1, <2>2, Counted
  <2>4. By("other")' = By("other") /\ By("other") \subseteq Seqs
    BY <2>1 DEF By, Seqs
  <2> QED BY <2>1, <2>3, <2>4 DEF PassedInv, AtHand, Looked
<1>11. CASE TickFails
  <2>1. /\ poller'.pc = "wait" /\ poller'.next = poller.hi + 1 /\ poller.pc # "off"
        /\ dropped' = dropped \cup (poller.next - (IF poller.pc = "show" THEN 1 ELSE 0) .. poller.hi)
        /\ UNCHANGED <<log, printed, box, hidden>>
    BY <1>11, Shapes DEF TickFails, PollerAt
  <2>2. By("other")' = By("other") /\ \A t \in By("other") : t \in Nat
    BY <2>1 DEF By, Seqs
  <2>3. ASSUME NEW t \in By("other"), t < poller.hi + 1 \/ t <= box PROVE Looked(t)'
    <3>1. CASE (t < poller.next \/ t <= box) /\ ~AtHand(t)
      BY <2>1, <3>1 DEF PassedInv, Looked
    <3>2. CASE AtHand(t)
      <4>1. t \in poller.next - 1 .. poller.hi
        BY <2>2, <3>2, Shapes DEF AtHand, JoinTypes, PollerOK
      <4> QED BY <2>1, <3>2, <4>1 DEF AtHand, Looked
    <3>3. CASE ~(t < poller.next \/ t <= box)
      <4>1. t \in poller.next - (IF poller.pc = "show" THEN 1 ELSE 0) .. poller.hi
        BY <2>2, <2>3, <3>3, Shapes
      <4> QED BY <2>1, <4>1 DEF Looked
    <3> QED BY <3>1, <3>2, <3>3
  <2> QED BY <2>1, <2>2, <2>3 DEF PassedInv
<1>12. CASE PickerDraws \/ UNCHANGED vars
  BY <1>12 DEF PickerDraws, vars, PassedInv, AtHand, Looked, By, Seqs
<1> QED
  BY <1>1, <1>2, <1>3, <1>4, <1>5, <1>6, <1>7, <1>8, <1>9, <1>10, <1>11, <1>12
     DEF Next, Main, Poller

-----------------------------------------------------------------------------
(* Left                                                                    *)

LeftInv ==
  /\ main.pc \in {"leave", "exited"} /\ ~outlived => poller.pc = "off"
  /\ main.pc = "exited" /\ present => outlived \/ unmarked

LEMMA LeftStep ==
  ASSUME JoinTypes, CountsInv, LeftInv, [Next]_vars
  PROVE  LeftInv'
<1> USE DEF screenVars, history
<1>1. CASE Post \/ PickerDraws \/ UNCHANGED vars
  BY <1>1 DEF Post, PickerDraws, vars, LeftInv
<1>2. CASE Begin \/ Enter \/ Send
  <2>1. main'.pc \in {"enter", "draw", "raise"}
    BY <1>2 DEF Begin, Enter, Send
  <2> QED BY <2>1 DEF LeftInv
<1>3. CASE \/ Key \/ Empty \/ Invite \/ OpenCurses \/ CloseCurses \/ Invited \/ ClearOwn
           \/ MainDraws \/ Quit \/ RaiseBox \/ PrintOwn
  <2>1. main'.pc \notin {"leave", "exited"}
    <3>1. CASE MainDraws
      <4>1. main.pc \in DrawPCs /\ main' = [main EXCEPT !.pc = AfterDraw(main.pc, "type")]
        BY <3>1 DEF MainDraws, MainGoes
      <4>2. AfterDraw(main.pc, "type") \in {"zero", "write", "rows", "type"}
        BY <4>1 DEF AfterDraw, DrawPCs
      <4> QED BY <4>1, <4>2, Shapes
    <3> QED BY <1>3, <3>1, Shapes
            DEF Key, Empty, Invite, OpenCurses, CloseCurses, Invited, ClearOwn, Quit, RaiseBox,
                PrintOwn, MainGoes
  <2> QED BY <2>1 DEF LeftInv
<1>4. CASE Joined
  <2>1. main'.pc = "leave" /\ UNCHANGED poller /\ outlived' = (poller.pc # "off")
    BY <1>4, Shapes DEF Joined, MainGoes
  <2> QED BY <2>1 DEF LeftInv
<1>5. CASE Leave
  <2>1. /\ main.pc = "leave" /\ main'.pc = "exited" /\ UNCHANGED <<poller, outlived>>
        /\ present' = FALSE \/ unmarked' = TRUE
    BY <1>5, Shapes DEF Leave, MainGoes, MainAt
  <2> QED BY <2>1 DEF LeftInv
<1>6. CASE PollerEnds \/ Exit
  <2>1. PollerGone /\ UNCHANGED <<present, outlived, unmarked>>
    BY <1>6, GoneStep DEF PollerEnds, Exit
  <2> QED BY <2>1 DEF PollerGone, LeftInv
<1>7. CASE Tick \/ Judge \/ Show \/ PollerDraws \/ BatchOver \/ TickFails \/ Touch
  <2>1. poller.pc # "off" /\ UNCHANGED <<main, outlived>>
    BY <1>7 DEF Tick, Judge, Show, PollerDraws, BatchOver, TickFails, Touch, PollerAt, PollerGoes,
                DrawPCs
  <2> QED BY <2>1 DEF LeftInv
<1> QED
  BY <1>1, <1>2, <1>3, <1>4, <1>5, <1>6, <1>7 DEF Next, Main, Poller

-----------------------------------------------------------------------------
(* The screen                                                              *)
ScreenShape ==
  /\ screen \in Seq(Nat) /\ Len(screen) > 0 /\ screen[Len(screen)] = Blank
  /\ rows \in Nat \ {0} /\ drawn \in Nat

BlankTail(n) ==
  n <= Len(screen) /\ \A i \in 1 .. Len(screen) : i > Len(screen) - n => screen[i] = Blank

OnScreen(s) == \E i \in 1 .. Len(screen) : screen[i] = s

(* What curses will put back.                                              *)
UnderTail(n) ==
  n <= Len(under) /\ \A i \in 1 .. Len(under) : i > Len(under) - n => under[i] = Blank

OnUnder(s) == \E i \in 1 .. Len(under) : under[i] = s

UnderShape ==
  /\ under \in Seq(Nat)
  /\ main.pc = "curses" => Len(under) > 0 /\ under[Len(under)] = Blank
  /\ main.pc # "curses" => under = << >>

AllShown == \A s \in Seqs : printed[s] > 0 => OnScreen(s) \/ OnUnder(s) \/ s \in gone

(* What the next clearing takes away is blank: the rows of _printed_       *)
(* visual_rows, and before they are counted the rows just written.  It is  *)
(* not so between a clearing and the zeroing of the count, where nobody    *)
(* else draws unless a post arrives beside several rows.                   *)
TailBlank ==
  /\ main.pc \notin {"zero", "wiped"} => drawn <= 1 \/ BlankTail(drawn)
  /\ main.pc = "curses" => drawn <= 1 \/ UnderTail(drawn)
  /\ main.pc = "rows" => BlankTail(rows)
  /\ main.pc \in {"begin", "enter", "write", "rows", "print"} => drawn <= 1

ScreenInv == ScreenShape /\ UnderShape /\ (~tall => TailBlank /\ AllShown)

LEMMA UnderKept ==
  ASSUME UnderShape, UNCHANGED under, main' = main \/ (main.pc # "curses" /\ main'.pc # "curses")
  PROVE  UnderShape' /\ \A n : UnderTail(n)' <=> UnderTail(n)
BY DEF UnderShape, UnderTail

LEMMA Joining ==
  ASSUME NEW s \in Seq(Nat), NEW t \in Seq(Nat)
  PROVE  /\ s \o t \in Seq(Nat) /\ Len(s \o t) = Len(s) + Len(t)
         /\ \A i \in 1 .. Len(s) : (s \o t)[i] = s[i]
         /\ \A i \in 1 .. Len(t) : (s \o t)[Len(s) + i] = t[i]
OBVIOUS

(* Everything of the screen but blank rows stays on it.                    *)
KeepsPosts == \A s \in Nat \ {0} : OnScreen(s) => OnScreen(s)'

LEMMA WipeScreen ==
  ASSUME ScreenShape, Wipe
  PROVE  /\ ScreenShape'
         /\ drawn <= 1 \/ BlankTail(drawn) => KeepsPosts
<1> DEFINE up == IF drawn > 1 THEN drawn - 1 ELSE 0
           n == IF up < Len(screen) THEN Len(screen) - 1 - up ELSE 0
<1>1. /\ Len(screen) \in Nat /\ n \in Nat /\ n < Len(screen)
      /\ screen' = Append(SubSeq(screen, 1, n), Blank) /\ UNCHANGED <<drawn, rows>>
  BY DEF ScreenShape, Wipe, Above
<1>2. drawn <= 1 \/ BlankTail(drawn) =>
        \A i \in 1 .. Len(screen) : i > n => screen[i] = Blank
  BY DEF ScreenShape, BlankTail
<1> HIDE DEF n
<1>3. /\ SubSeq(screen, 1, n) \in Seq(Nat) /\ Len(SubSeq(screen, 1, n)) = n
      /\ \A i \in 1 .. n : SubSeq(screen, 1, n)[i] = screen[i]
  BY <1>1 DEF ScreenShape
<1>4. Blank \in Nat
  BY DEF Blank
<1>5. /\ screen' \in Seq(Nat) /\ Len(screen') = n + 1 /\ screen'[n + 1] = Blank
      /\ \A i \in 1 .. n : screen'[i] = screen[i]
  BY <1>1, <1>3, <1>4
<1>6. ScreenShape'
  BY <1>1, <1>5 DEF ScreenShape
<1>7. ASSUME drawn <= 1 \/ BlankTail(drawn), NEW s \in Nat \ {0}, OnScreen(s)
      PROVE  OnScreen(s)'
  <2>1. PICK i \in 1 .. Len(screen) : screen[i] = s
    BY <1>7 DEF OnScreen
  <2>2. i \in 1 .. n
    BY <1>1, <1>2, <1>7, <2>1 DEF Blank
  <2>3. i \in 1 .. Len(screen') /\ screen'[i] = s
    BY <1>1, <1>5, <2>1, <2>2
  <2> QED BY <2>3 DEF OnScreen
<1> QED BY <1>6, <1>7 DEF KeepsPosts

LEMMA PrintScreen ==
  ASSUME ScreenShape, NEW s \in Nat, screen' = Printed(s),
         rows' \in Nat \ {0}, drawn' \in Nat
  PROVE  ScreenShape' /\ KeepsPosts /\ OnScreen(s)'
<1> DEFINE n == Len(screen) - 1
           front == SubSeq(screen, 1, n)
<1>1. n \in Nat /\ Len(screen) = n + 1 /\ screen[n + 1] = Blank /\ Blank \in Nat
  BY DEF ScreenShape, Blank
<1>2. screen' = front \o <<s, Blank>>
  BY DEF Printed
<1> HIDE DEF n
<1>3. front \in Seq(Nat) /\ Len(front) = n /\ \A i \in 1 .. n : front[i] = screen[i]
  BY <1>1 DEF ScreenShape
<1> HIDE DEF front
<1>4. /\ screen' \in Seq(Nat) /\ Len(screen') = n + 2
      /\ screen'[n + 1] = s /\ screen'[n + 2] = Blank
      /\ \A i \in 1 .. n : screen'[i] = screen[i]
  <2> DEFINE back == <<s, Blank>>
  <2>1. /\ back \in Seq(Nat) /\ Len(back) = 2 /\ back[1] = s /\ back[2] = Blank
        /\ 1 \in 1 .. 2 /\ 2 \in 1 .. 2
    BY <1>1
  <2> HIDE DEF back
  <2>2. /\ front \o back \in Seq(Nat) /\ Len(front \o back) = n + 2
        /\ \A i \in 1 .. n : (front \o back)[i] = front[i]
        /\ \A i \in 1 .. 2 : (front \o back)[n + i] = back[i]
    <3>1. /\ front \o back \in Seq(Nat) /\ Len(front \o back) = Len(front) + Len(back)
          /\ \A i \in 1 .. Len(front) : (front \o back)[i] = front[i]
          /\ \A i \in 1 .. Len(back) : (front \o back)[Len(front) + i] = back[i]
      BY <1>3, <2>1, Joining
    <3> QED BY <1>3, <2>1, <3>1
  <2>3. screen' = front \o back
    BY <1>2 DEF back
  <2> QED BY <1>3, <2>1, <2>2, <2>3
<1>5. ScreenShape'
  BY <1>1, <1>4 DEF ScreenShape
<1>6. ASSUME NEW t \in Nat \ {0}, OnScreen(t)
      PROVE  OnScreen(t)'
  <2>1. PICK i \in 1 .. Len(screen) : screen[i] = t
    BY <1>6 DEF OnScreen
  <2>2. i \in 1 .. n
    BY <1>1, <2>1 DEF Blank
  <2>3. i \in 1 .. Len(screen') /\ screen'[i] = t
    BY <1>1, <1>4, <2>1, <2>2
  <2> QED BY <2>3 DEF OnScreen
<1>7. OnScreen(s)'
  <2>1. n + 1 \in 1 .. Len(screen')
    BY <1>1, <1>4
  <2> QED BY <1>4, <2>1 DEF OnScreen
<1> QED BY <1>5, <1>6, <1>7 DEF KeepsPosts

LEMMA WriteScreen ==
  ASSUME ScreenShape, Write
  PROVE  /\ ScreenShape' /\ KeepsPosts /\ BlankTail(rows)'
         /\ rows <= 1 => screen' = screen
<1> DEFINE n == Len(screen)
           k == rows - 1
           blanks == [i \in 1 .. k |-> Blank]
<1>1. n \in Nat \ {0} /\ k \in Nat /\ Blank \in Nat /\ screen[n] = Blank /\ rows = k + 1
  BY DEF ScreenShape, Blank
<1>2. screen' = screen \o blanks /\ UNCHANGED <<drawn, rows>>
  BY DEF Write
<1> HIDE DEF k
<1>3. blanks \in Seq(Nat) /\ Len(blanks) = k /\ \A i \in 1 .. k : blanks[i] = Blank
  BY <1>1
<1> HIDE DEF blanks
<1>4. /\ screen' \in Seq(Nat) /\ Len(screen') = n + k
      /\ \A i \in 1 .. n : screen'[i] = screen[i]
      /\ \A i \in 1 .. n + k : i > n => screen'[i] = Blank
  <2>1. screen \in Seq(Nat)
    BY DEF ScreenShape
  <2>2. /\ screen' \in Seq(Nat) /\ Len(screen') = n + k
        /\ \A i \in 1 .. k : screen'[n + i] = blanks[i]
    <3>1. /\ screen \o blanks \in Seq(Nat) /\ Len(screen \o blanks) = n + Len(blanks)
          /\ \A i \in 1 .. Len(blanks) : (screen \o blanks)[n + i] = blanks[i]
      BY <1>3, <2>1, Joining
    <3> QED BY <1>2, <1>3, <3>1
  <2>3. \A i \in 1 .. n : screen'[i] = screen[i]
    BY <1>2, <1>3, <2>1, Joining
  <2>4. ASSUME NEW i \in 1 .. n + k, i > n
        PROVE  screen'[i] = Blank
    <3>1. i - n \in 1 .. k /\ n + (i - n) = i
      BY <1>1, <2>4
    <3>2. screen'[i] = blanks[i - n]
      BY <2>2, <3>1
    <3> QED BY <1>3, <3>1, <3>2
  <2> QED BY <2>2, <2>3, <2>4
<1>5. screen'[n + k] = Blank
  <2>1. CASE k = 0
    BY <1>1, <1>4, <2>1
  <2>2. CASE k # 0
    BY <1>1, <1>4, <2>2
  <2> QED BY <2>1, <2>2
<1>6. ScreenShape'
  BY <1>1, <1>2, <1>4, <1>5 DEF ScreenShape
<1>7. ASSUME NEW s \in Nat \ {0}, OnScreen(s)
      PROVE  OnScreen(s)'
  <2>1. PICK i \in 1 .. n : screen[i] = s
    BY <1>7 DEF OnScreen
  <2>2. i \in 1 .. Len(screen') /\ screen'[i] = s
    BY <1>1, <1>4, <2>1
  <2> QED BY <2>2 DEF OnScreen
<1>8. BlankTail(rows)'
  <2>1. rows' = k + 1
    BY <1>1, <1>2
  <2>2. rows' <= Len(screen')
    BY <1>1, <1>4, <2>1
  <2>3. ASSUME NEW i \in 1 .. Len(screen'), i > Len(screen') - rows'
        PROVE  screen'[i] = Blank
    <3>1. i \in 1 .. n + k /\ (i = n \/ i > n)
      BY <1>1, <1>4, <2>1, <2>3
    <3> QED BY <1>1, <1>4, <3>1
  <2> QED BY <2>2, <2>3 DEF BlankTail
<1>9. ASSUME rows <= 1
      PROVE  screen' = screen
  <2>1. k = 0
    BY <1>1, <1>9
  <2>2. Len(screen') = Len(screen) /\ \A i \in 1 .. Len(screen) : screen'[i] = screen[i]
    BY <1>1, <1>4, <2>1
  <2>3. screen \in Seq(Nat) /\ screen' \in Seq(Nat)
    BY <1>4 DEF ScreenShape
  <2> QED BY <2>2, <2>3
<1> QED BY <1>6, <1>7, <1>8, <1>9 DEF KeepsPosts

(* What stays on the screen stays shown.                                   *)
LEMMA StillShown ==
  ASSUME JoinTypes, AllShown, KeepsPosts, UNCHANGED <<log, printed, under, gone>>
  PROVE  AllShown'
<1>1. \A s \in Seqs : s \in Nat \ {0}
  BY Shapes DEF Seqs
<1>2. Seqs' = Seqs
  BY DEF Seqs
<1> QED BY <1>1, <1>2 DEF AllShown, KeepsPosts, OnUnder

LEMMA NowShown ==
  ASSUME JoinTypes, AllShown, KeepsPosts, UNCHANGED <<log, under, gone>>,
         NEW s \in Seqs, OnScreen(s)', Count({s})
  PROVE  AllShown'
<1>1. \A t \in Seqs : t \in Nat \ {0}
  BY Shapes DEF Seqs
<1>2. Seqs' = Seqs
  BY DEF Seqs
<1>3. \A t \in Seqs : t # s => printed'[t] = printed[t]
  BY Counted
<1> QED BY <1>1, <1>2, <1>3 DEF AllShown, KeepsPosts, OnUnder

LEMMA SameScreen ==
  ASSUME UNCHANGED screen
  PROVE  /\ KeepsPosts
         /\ \A n : BlankTail(n)' <=> BlankTail(n)
BY DEF KeepsPosts, OnScreen, BlankTail

(* The main thread draws: between clearing and zeroing nobody else does,   *)
(* and what is counted was written.                                        *)
LEMMA MainDrawsScreen ==
  ASSUME JoinTypes, ScreenInv, MainDraws \/ ClearOwn
  PROVE  ScreenInv'
<1> USE DEF history
<1>1. UNCHANGED <<log, printed, tall, gone, under>>
  BY DEF MainDraws, ClearOwn, Redraw, Wipe, Forget, Write, Remember
<1>0. UnderShape'
  <2>1. main.pc # "curses" /\ main'.pc # "curses"
    BY Shapes DEF MainDraws, ClearOwn, MainAt, MainGoes, AfterDraw, DrawPCs
  <2> QED BY <1>1, <2>1, UnderKept DEF ScreenInv
<1>2. CASE main.pc \in {"draw", "wipe"}
  <2>1. Wipe /\ main'.pc \in {"zero", "wiped"}
    BY <1>2, Shapes DEF MainDraws, ClearOwn, Redraw, MainAt, MainGoes, AfterDraw, DrawPCs
  <2>2. ScreenShape' /\ (drawn <= 1 \/ BlankTail(drawn) => KeepsPosts)
    BY <2>1, WipeScreen DEF ScreenInv
  <2>3. ASSUME ~tall
        PROVE  TailBlank' /\ AllShown'
    <3>1. KeepsPosts
      BY <1>2, <2>2, <2>3 DEF ScreenInv, TailBlank
    <3>2. AllShown'
      BY <1>1, <2>3, <3>1, StillShown DEF ScreenInv
    <3>3. TailBlank'
      BY <2>1 DEF TailBlank
    <3> QED BY <3>2, <3>3
  <2> QED BY <1>0, <1>1, <2>2, <2>3 DEF ScreenInv
<1>3. CASE main.pc \in {"zero", "wiped"}
  <2>1. Forget /\ main'.pc \in {"write", "print"}
    BY <1>3, Shapes DEF MainDraws, ClearOwn, Redraw, MainAt, MainGoes, AfterDraw, DrawPCs
  <2>2. ScreenShape'
    BY <2>1 DEF Forget, ScreenInv, ScreenShape
  <2>3. ASSUME ~tall
        PROVE  TailBlank' /\ AllShown'
    <3>1. AllShown'
      BY <1>1, <2>1, <2>3, SameScreen, StillShown DEF Forget, ScreenInv
    <3>2. TailBlank'
      BY <2>1 DEF Forget, TailBlank
    <3> QED BY <3>1, <3>2
  <2> QED BY <1>0, <1>1, <2>2, <2>3 DEF ScreenInv
<1>4. CASE main.pc = "write"
  <2>1. Write /\ main'.pc = "rows"
    BY <1>4, Shapes DEF MainDraws, ClearOwn, Redraw, MainAt, MainGoes, AfterDraw, DrawPCs
  <2>2. ScreenShape' /\ KeepsPosts /\ BlankTail(rows)'
    BY <2>1, WriteScreen DEF ScreenInv
  <2>3. ASSUME ~tall
        PROVE  TailBlank' /\ AllShown'
    <3>1. AllShown'
      BY <1>1, <2>2, <2>3, StillShown DEF ScreenInv
    <3>2. drawn' <= 1
      BY <1>4, <2>1, <2>3 DEF Write, ScreenInv, TailBlank
    <3>3. TailBlank'
      BY <2>1, <2>2, <3>2 DEF TailBlank
    <3> QED BY <3>1, <3>3
  <2> QED BY <1>0, <1>1, <2>2, <2>3 DEF ScreenInv
<1>5. CASE main.pc = "rows"
  <2>1. Remember /\ main'.pc = "type"
    BY <1>5, Shapes DEF MainDraws, ClearOwn, Redraw, MainAt, MainGoes, AfterDraw, DrawPCs
  <2>2. ScreenShape'
    BY <2>1 DEF Remember, ScreenInv, ScreenShape
  <2>3. ASSUME ~tall
        PROVE  TailBlank' /\ AllShown'
    <3>1. AllShown'
      BY <1>1, <2>1, <2>3, SameScreen, StillShown DEF Remember, ScreenInv
    <3>2. BlankTail(rows) /\ drawn' = rows /\ screen' = screen
      BY <1>5, <2>1, <2>3 DEF Remember, ScreenInv, TailBlank
    <3>3. BlankTail(drawn)'
      BY <3>2 DEF BlankTail
    <3>4. TailBlank'
      BY <2>1, <3>3 DEF TailBlank
    <3> QED BY <3>1, <3>4
  <2> QED BY <1>0, <1>1, <2>2, <2>3 DEF ScreenInv
<1> QED
  BY <1>2, <1>3, <1>4, <1>5 DEF MainDraws, ClearOwn, MainAt, DrawPCs

(* Beside a composition of one row the poller's drawing changes nothing    *)
(* but the count, which it leaves at no more than one.                     *)
LEMMA PollerDrawsScreen ==
  ASSUME JoinTypes, ScreenInv, PollerDraws
  PROVE  ScreenInv'
<1>1. /\ Redraw(poller.pc) /\ UNCHANGED <<main, log, printed, rows, under, gone>>
      /\ tall' = (tall \/ drawn > 1 \/ rows > 1)
  BY DEF PollerDraws, Beside, PollerGoes, Redraw, Wipe, Forget, Write, Remember, history
<1>2. (~tall' <=> ~tall /\ ~(drawn > 1) /\ ~(rows > 1))
  BY <1>1, Zenon
<1>3. drawn \in Nat /\ rows \in Nat
  BY DEF ScreenInv, ScreenShape
<1>4. ScreenShape' /\ (~tall' => KeepsPosts /\ drawn' <= 1)
  <2>1. CASE Wipe
    <3>1. ScreenShape' /\ drawn' = drawn /\ (drawn <= 1 => KeepsPosts)
      BY <2>1, WipeScreen DEF ScreenInv, Wipe
    <3> QED BY <1>2, <1>3, <3>1
  <2>2. CASE Forget
    BY <2>2, SameScreen DEF Forget, ScreenInv, ScreenShape
  <2>3. CASE Write
    <3>1. ScreenShape' /\ KeepsPosts /\ drawn' = drawn
      BY <2>3, WriteScreen DEF ScreenInv, Write
    <3> QED BY <1>2, <1>3, <3>1
  <2>4. CASE Remember
    <3>1. ScreenShape' /\ KeepsPosts /\ drawn' = rows
      BY <2>4, SameScreen DEF Remember, ScreenInv, ScreenShape
    <3> QED BY <1>2, <1>3, <3>1
  <2> QED BY <1>1, <2>1, <2>2, <2>3, <2>4 DEF Redraw
<1>5. ASSUME ~tall'
      PROVE  TailBlank' /\ AllShown'
  <2>1. AllShown'
    BY <1>1, <1>2, <1>4, <1>5, StillShown DEF ScreenInv
  <2>2. BlankTail(rows)'
    <3>1. /\ Len(screen') \in Nat /\ Len(screen') > 0 /\ screen'[Len(screen')] = Blank
          /\ rows' = rows /\ rows = 1
      BY <1>1, <1>2, <1>3, <1>4, <1>5 DEF ScreenInv, ScreenShape
    <3>2. \A i \in 1 .. Len(screen') : i > Len(screen') - 1 => i = Len(screen')
      BY <3>1
    <3> QED BY <3>1, <3>2 DEF BlankTail
  <2>3. TailBlank'
    BY <1>4, <1>5, <2>2 DEF TailBlank
  <2> QED BY <2>1, <2>3
<1>6. UnderShape'
  BY <1>1, UnderKept DEF ScreenInv
<1> QED BY <1>4, <1>5, <1>6 DEF ScreenInv

(* A post is printed by the poller, or by the main thread.                 *)
LEMMA ShowScreen ==
  ASSUME JoinTypes, ScreenInv, Show
  PROVE  ScreenInv'
<1>1. PICK s \in Seqs : s = poller.next - 1 /\ s \in Nat
  <2>1. poller.next > 1 /\ poller.next \in 1 .. Len(log) + 1 /\ Len(log) \in Nat
    BY Shapes DEF Show, PollerAt, JoinTypes
  <2> QED BY <2>1 DEF Seqs
<1>2. /\ screen' = Printed(s) /\ Count({s})
      /\ UNCHANGED <<main, log, drawn, rows, under, gone>>
      /\ tall' = (tall \/ drawn > 1 \/ rows > 1)
  BY <1>1 DEF Show, Beside, PollerGoes
<1>3. (~tall' <=> ~tall /\ ~(drawn > 1) /\ ~(rows > 1))
  BY <1>2, Zenon
<1>4. drawn \in Nat /\ rows \in Nat \ {0}
  BY DEF ScreenInv, ScreenShape
<1>5. ScreenShape' /\ KeepsPosts /\ OnScreen(s)'
  <2>1. rows' \in Nat \ {0} /\ drawn' \in Nat
    BY <1>2, <1>4
  <2> QED BY <1>1, <1>2, <2>1, PrintScreen DEF ScreenInv
<1>6. ASSUME ~tall'
      PROVE  TailBlank' /\ AllShown'
  <2>1. AllShown'
    BY <1>1, <1>2, <1>3, <1>5, <1>6, NowShown DEF ScreenInv
  <2>2. drawn' <= 1 /\ rows' = 1
    BY <1>2, <1>3, <1>4, <1>6
  <2>3. BlankTail(rows)'
    <3>1. /\ Len(screen') \in Nat /\ Len(screen') > 0 /\ screen'[Len(screen')] = Blank
      BY <1>5 DEF ScreenShape
    <3>2. \A i \in 1 .. Len(screen') : i > Len(screen') - 1 => i = Len(screen')
      BY <3>1
    <3> QED BY <2>2, <3>1, <3>2 DEF BlankTail
  <2>4. TailBlank'
    BY <2>2, <2>3 DEF TailBlank
  <2> QED BY <2>1, <2>4
<1>7. UnderShape'
  BY <1>2, UnderKept DEF ScreenInv
<1> QED BY <1>5, <1>6, <1>7 DEF ScreenInv

LEMMA PrintOwnScreen ==
  ASSUME JoinTypes, ScreenInv, PrintOwn
  PROVE  ScreenInv'
<1>1. PICK s \in Seqs : s = main.own /\ s \in Nat
  BY Shapes DEF PrintOwn, MainAt, JoinTypes, Owning, Seqs
<1>2. /\ main.pc = "print" /\ main'.pc = "draw"
      /\ screen' = Printed(s) /\ Count({s}) /\ rows' = 1
      /\ UNCHANGED <<log, drawn, tall, under, gone>>
  BY <1>1, Shapes DEF PrintOwn, MainAt, MainGoes
<1>3. ScreenShape' /\ KeepsPosts /\ OnScreen(s)'
  <2>1. rows' \in Nat \ {0} /\ drawn' \in Nat
    BY <1>2 DEF ScreenInv, ScreenShape
  <2> QED BY <1>1, <1>2, <2>1, PrintScreen DEF ScreenInv
<1>4. ASSUME ~tall
      PROVE  TailBlank' /\ AllShown'
  <2>1. AllShown'
    BY <1>1, <1>2, <1>3, <1>4, NowShown DEF ScreenInv
  <2>2. drawn' <= 1
    BY <1>2, <1>4 DEF ScreenInv, TailBlank
  <2>3. TailBlank'
    BY <1>2, <2>2 DEF TailBlank
  <2> QED BY <2>1, <2>3
<1>5. UnderShape'
  BY <1>2, UnderKept DEF ScreenInv
<1> QED BY <1>2, <1>3, <1>4, <1>5 DEF ScreenInv

(* The backlog is printed before the poller has begun.                     *)
LEMMA BeginScreen ==
  ASSUME JoinTypes, ScreenInv, Begin
  PROVE  ScreenInv'
<1> DEFINE n == Len(log)
           front == [s \in 1 .. n |-> s]
           back == <<Blank>>
<1>1. /\ main.pc = "begin" /\ main'.pc = "enter"
      /\ screen' = front \o back
      /\ UNCHANGED <<log, drawn, rows, tall, under>>
  BY DEF Begin, MainAt
<1>2. n \in Nat /\ Seqs = 1 .. n /\ Seqs' = 1 .. n
  BY <1>1, Shapes DEF Seqs
<1> HIDE DEF n
<1>3. /\ front \in Seq(Nat) /\ Len(front) = n /\ \A i \in 1 .. n : front[i] = i
      /\ back \in Seq(Nat) /\ Len(back) = 1 /\ back[1] = Blank
  BY <1>2 DEF Blank
<1> HIDE DEF front, back
<1>4. /\ screen' \in Seq(Nat) /\ Len(screen') = n + 1 /\ screen'[n + 1] = Blank
      /\ \A i \in 1 .. n : screen'[i] = i
  <2>1. /\ front \o back \in Seq(Nat) /\ Len(front \o back) = Len(front) + Len(back)
        /\ \A i \in 1 .. Len(front) : (front \o back)[i] = front[i]
        /\ \A i \in 1 .. Len(back) : (front \o back)[Len(front) + i] = back[i]
    BY <1>3, Joining
  <2>2. 1 \in 1 .. Len(back)
    BY <1>3
  <2> QED BY <1>1, <1>3, <2>1, <2>2
<1>5. ScreenShape'
  BY <1>1, <1>2, <1>4 DEF ScreenInv, ScreenShape
<1>6. AllShown'
  <2>1. ASSUME NEW s \in Seqs'
        PROVE  OnScreen(s)'
    <3>1. s \in 1 .. Len(screen') /\ screen'[s] = s
      BY <1>2, <1>4, <2>1
    <3> QED BY <3>1 DEF OnScreen
  <2> QED BY <2>1 DEF AllShown
<1>7. ~tall => TailBlank'
  BY <1>1 DEF ScreenInv, TailBlank
<1>8. UnderShape'
  BY <1>1, UnderKept DEF ScreenInv
<1> QED BY <1>1, <1>5, <1>6, <1>7, <1>8 DEF ScreenInv

(* The picker clears the screen, and what was on it is named or put by.    *)
LEMMA ClearedScreen ==
  ASSUME JoinTypes, ScreenShape, screen' = Cleared, UNCHANGED <<drawn, rows>>
  PROVE  /\ ScreenShape'
         /\ \A n : BlankTail(n) => BlankTail(n)'
         /\ \A s \in Seqs : OnScreen(s) => s \in Shown
<1>1. /\ Len(screen) \in Nat /\ Len(screen) > 0 /\ Blank \in Nat
      /\ screen' = [i \in 1 .. Len(screen) |-> Blank]
  BY DEF ScreenShape, Cleared, Blank
<1>2. /\ screen' \in Seq(Nat) /\ Len(screen') = Len(screen)
      /\ \A i \in 1 .. Len(screen) : screen'[i] = Blank
  BY <1>1
<1>3. ScreenShape'
  BY <1>1, <1>2 DEF ScreenShape
<1>4. \A n : BlankTail(n) => BlankTail(n)'
  BY <1>1, <1>2 DEF BlankTail
<1>5. \A s \in Seqs : OnScreen(s) => s \in Shown
  <2>1. \A s \in Seqs : s # Blank
    BY Shapes DEF Seqs, Blank
  <2> QED BY <2>1 DEF OnScreen, Shown, RowsOf
<1> QED BY <1>3, <1>4, <1>5

LEMMA PickerDrawsScreen ==
  ASSUME JoinTypes, ScreenInv, PickerDraws
  PROVE  ScreenInv'
<1>1. /\ screen' = Cleared /\ gone' = gone \cup Shown /\ main.pc \in {"picker", "curses"}
      /\ UNCHANGED <<main, log, printed, drawn, rows, under, tall>>
  BY DEF PickerDraws, MainAt
<1>2. /\ ScreenShape' /\ \A n : BlankTail(n) => BlankTail(n)'
      /\ \A s \in Seqs : OnScreen(s) => s \in Shown
  BY <1>1, ClearedScreen DEF ScreenInv
<1>3. UnderShape' /\ \A n : UnderTail(n)' <=> UnderTail(n)
  BY <1>1, UnderKept DEF ScreenInv
<1>4. ASSUME ~tall
      PROVE  TailBlank' /\ AllShown'
  <2>1. TailBlank'
    BY <1>1, <1>2, <1>3, <1>4 DEF ScreenInv, TailBlank
  <2>2. AllShown'
    BY <1>1, <1>2, <1>4 DEF ScreenInv, AllShown, OnUnder, Seqs
  <2> QED BY <2>1, <2>2
<1> QED BY <1>1, <1>2, <1>3, <1>4 DEF ScreenInv

LEMMA OpenCursesScreen ==
  ASSUME JoinTypes, ScreenInv, OpenCurses
  PROVE  ScreenInv'
<1>1. /\ screen' = Cleared /\ under' = screen /\ main.pc = "picker" /\ main'.pc = "curses"
      /\ UNCHANGED <<log, printed, drawn, rows, gone, tall>>
  BY Shapes DEF OpenCurses, MainAt, MainGoes, history
<1>2. ScreenShape' /\ \A n : BlankTail(n) => BlankTail(n)'
  BY <1>1, ClearedScreen DEF ScreenInv
<1>3. UnderShape' /\ \A n : UnderTail(n)' <=> BlankTail(n)
  BY <1>1 DEF ScreenInv, ScreenShape, UnderShape, UnderTail, BlankTail
<1>4. ASSUME ~tall
      PROVE  TailBlank' /\ AllShown'
  <2>1. TailBlank'
    BY <1>1, <1>2, <1>3, <1>4 DEF ScreenInv, TailBlank
  <2>2. \A s : ~OnUnder(s) /\ (OnScreen(s) => OnUnder(s)')
    BY <1>1 DEF ScreenInv, UnderShape, OnUnder, OnScreen
  <2>3. AllShown'
    BY <1>1, <1>4, <2>2 DEF ScreenInv, AllShown, Seqs
  <2> QED BY <2>1, <2>3
<1> QED BY <1>1, <1>2, <1>3, <1>4 DEF ScreenInv

LEMMA CloseCursesScreen ==
  ASSUME JoinTypes, ScreenInv, CloseCurses
  PROVE  ScreenInv'
<1>1. /\ screen' = under /\ under' = << >> /\ main.pc = "curses" /\ main'.pc = "invited"
      /\ gone' = gone \cup Shown
      /\ UNCHANGED <<log, printed, drawn, rows, tall>>
  BY Shapes DEF CloseCurses, MainAt, MainGoes
<1>2. ScreenShape' /\ \A n : BlankTail(n)' <=> UnderTail(n)
  BY <1>1 DEF ScreenInv, ScreenShape, UnderShape, UnderTail, BlankTail
<1>3. UnderShape'
  BY <1>1 DEF UnderShape
<1>4. ASSUME ~tall
      PROVE  TailBlank' /\ AllShown'
  <2>1. TailBlank'
    BY <1>1, <1>2, <1>4 DEF ScreenInv, TailBlank
  <2>2. ASSUME NEW s \in Seqs, OnScreen(s)
        PROVE  s \in Shown
    <3>1. s # Blank
      BY Shapes DEF Seqs, Blank
    <3> QED BY <2>2, <3>1 DEF OnScreen, Shown, RowsOf
  <2>3. \A s : OnUnder(s) => OnScreen(s)'
    BY <1>1 DEF OnUnder, OnScreen
  <2>4. AllShown'
    BY <1>1, <1>4, <2>2, <2>3 DEF ScreenInv, AllShown, Seqs
  <2> QED BY <2>1, <2>4
<1> QED BY <1>1, <1>2, <1>3, <1>4 DEF ScreenInv

(* A line is added, that of who was invited.                               *)
LEMMA InvitedScreen ==
  ASSUME JoinTypes, ScreenInv, Invited
  PROVE  ScreenInv'
<1>1. /\ main.pc \in {"picker", "invited"} /\ main'.pc = "draw"
      /\ screen' = Append(screen, Blank) /\ rows' = 1
      /\ UNCHANGED <<log, printed, drawn, tall, under, gone>>
  BY Shapes DEF Invited, MainAt, MainGoes, history
<1>2. /\ screen \in Seq(Nat) /\ Blank \in Nat /\ Len(screen) \in Nat /\ drawn \in Nat
  BY DEF ScreenInv, ScreenShape, Blank
<1>3. /\ screen' \in Seq(Nat) /\ Len(screen') = Len(screen) + 1
      /\ screen'[Len(screen) + 1] = Blank
      /\ \A i \in 1 .. Len(screen) : screen'[i] = screen[i]
  BY <1>1, <1>2
<1>4. ScreenShape'
  BY <1>1, <1>2, <1>3 DEF ScreenShape
<1>5. KeepsPosts
  <2>1. ASSUME NEW s \in Nat \ {0}, OnScreen(s)
        PROVE  OnScreen(s)'
    <3>1. PICK i \in 1 .. Len(screen) : screen[i] = s
      BY <2>1 DEF OnScreen
    <3>2. i \in 1 .. Len(screen') /\ screen'[i] = s
      BY <1>2, <1>3, <3>1
    <3> QED BY <3>2 DEF OnScreen
  <2> QED BY <2>1 DEF KeepsPosts
<1>6. ASSUME ~tall
      PROVE  TailBlank' /\ AllShown'
  <2>1. AllShown'
    BY <1>1, <1>5, <1>6, StillShown DEF ScreenInv
  <2>2. drawn <= 1 \/ BlankTail(drawn)
    BY <1>1, <1>6 DEF ScreenInv, TailBlank
  <2>3. CASE drawn <= 1
    BY <1>1, <2>1, <2>3 DEF TailBlank
  <2>4. CASE BlankTail(drawn)
    <3>1. drawn' <= Len(screen')
      BY <1>1, <1>2, <1>3, <2>4 DEF BlankTail
    <3>2. ASSUME NEW i \in 1 .. Len(screen'), i > Len(screen') - drawn'
          PROVE  screen'[i] = Blank
      <4>1. i = Len(screen) + 1 \/ (i \in 1 .. Len(screen) /\ i > Len(screen) - drawn)
        BY <1>1, <1>2, <1>3, <3>2
      <4> QED BY <1>3, <2>4, <4>1 DEF BlankTail
    <3>3. BlankTail(drawn)'
      BY <3>1, <3>2 DEF BlankTail
    <3> QED BY <1>1, <2>1, <3>3 DEF TailBlank
  <2> QED BY <2>1, <2>2, <2>3, <2>4
<1>7. UnderShape'
  BY <1>1, UnderKept DEF ScreenInv
<1> QED BY <1>1, <1>4, <1>6, <1>7 DEF ScreenInv

(* The steps that leave the screen alone.                                  *)
LEMMA OffScreen ==
  ASSUME JoinTypes, ScreenInv, UNCHANGED <<screen, drawn, tall, under, gone>>,
         rows' \in Nat \ {0},
         main' = main \/ main'.pc \notin {"begin", "enter", "rows", "write", "print"},
         main' = main \/ (main.pc \notin {"zero", "wiped", "curses"} /\ main'.pc # "curses"),
         main' = main => rows' = rows,
         \A s \in Seqs' : printed'[s] > 0 => s \in Seqs /\ printed[s] > 0
  PROVE  ScreenInv'
<1>1. ScreenShape' /\ UnderShape'
  BY UnderKept DEF ScreenInv, ScreenShape
<1>2. ASSUME ~tall
      PROVE  TailBlank' /\ AllShown'
  <2>1. AllShown'
    BY <1>2 DEF ScreenInv, AllShown, OnScreen, OnUnder
  <2>2. CASE main' = main
    BY <1>2, <2>1, <2>2 DEF ScreenInv, TailBlank, BlankTail, UnderTail
  <2>3. CASE main' # main
    BY <1>2, <2>1, <2>3 DEF ScreenInv, TailBlank, BlankTail
  <2> QED BY <2>1, <2>2, <2>3
<1> QED BY <1>1, <1>2 DEF ScreenInv

LEMMA ScreenStep ==
  ASSUME JoinTypes, ScreenInv, [Next]_vars
  PROVE  ScreenInv'
<1> USE DEF screenVars, history
<1>0. rows \in Nat \ {0}
  BY DEF ScreenInv, ScreenShape
<1>1. CASE Post \/ Send
  <2>1. /\ \E who \in {"me", "other"} : log' = Append(log, who)
        /\ printed' = Append(printed, 0)
        /\ UNCHANGED <<screen, drawn, rows, tall, under, gone>>
        /\ main' = main \/ main'.pc = "raise"
        /\ main' = main \/ main.pc = "type"
    BY <1>1 DEF Post, Send, MainAt
  <2>2. /\ log \in Seq({"me", "other"}) /\ printed \in Seq(Nat) /\ Len(printed) = Len(log)
        /\ Len(log) \in Nat
    BY DEF JoinTypes, ThreadOK
  <2>3. /\ Len(log') = Len(log) + 1
        /\ \A s \in 1 .. Len(log) : printed'[s] = printed[s]
        /\ printed'[Len(log) + 1] = 0
    BY <2>1, <2>2, Appended
  <2>4. ASSUME NEW s \in Seqs', printed'[s] > 0
        PROVE  s \in Seqs /\ printed[s] > 0
    <3>1. s \in 1 .. Len(log) + 1 /\ s # Len(log) + 1
      BY <2>3, <2>4 DEF Seqs
    <3>2. s \in 1 .. Len(log)
      BY <2>2, <3>1
    <3> QED BY <2>3, <2>4, <3>2 DEF Seqs
  <2> QED BY <1>0, <2>1, <2>4, OffScreen
<1>2. CASE Begin
  BY <1>2, BeginScreen
<1>3. CASE MainDraws \/ ClearOwn
  BY <1>3, MainDrawsScreen
<1>4. CASE PrintOwn
  BY <1>4, PrintOwnScreen
<1>5. CASE Invited
  BY <1>5, InvitedScreen
<1>10. CASE PickerDraws \/ OpenCurses \/ CloseCurses
  BY <1>10, PickerDrawsScreen, OpenCursesScreen, CloseCursesScreen
<1>6. CASE Enter \/ Key \/ Empty \/ Invite \/ RaiseBox \/ Quit \/ Joined \/ Leave
  <2>1. /\ UNCHANGED <<screen, drawn, tall, under, gone, log, printed>>
        /\ main'.pc \in {"draw", "picker", "wipe", "join", "leave", "exited"}
        /\ main.pc \in {"enter", "type", "picker", "invited", "raise", "join", "leave"}
    <3>1. CASE Enter \/ Key \/ Empty \/ Invite
      BY <3>1, Shapes DEF Enter, Key, Empty, Invite, MainAt, MainGoes
    <3>2. CASE RaiseBox \/ Joined \/ Leave
      BY <3>2, Shapes DEF RaiseBox, Joined, Leave, MainAt, MainGoes
    <3>3. CASE Quit
      BY <3>3, Shapes DEF Quit, MainAt, MainGoes
    <3> QED BY <1>6, <3>1, <3>2, <3>3
  <2>2. rows' \in Nat \ {0}
    <3>1. CASE Key \/ Empty
      BY <3>1, JoinAssumption DEF Key, Empty, JoinAssumption
    <3>2. CASE Enter \/ Invite \/ RaiseBox \/ Quit \/ Joined \/ Leave
      BY <1>0, <3>2 DEF Enter, Invite, RaiseBox, Quit, Joined, Leave
    <3> QED BY <1>6, <3>1, <3>2
  <2>3. \A s \in Seqs' : printed'[s] > 0 => s \in Seqs /\ printed[s] > 0
    BY <2>1 DEF Seqs
  <2>4. main.pc \notin {"zero", "wiped", "curses"} /\ main'.pc # "curses" /\ main' # main
    <3>1. main'.pc # main.pc
      BY <1>6, Shapes
         DEF Enter, Key, Empty, Invite, RaiseBox, Quit, Joined, Leave, MainAt, MainGoes
    <3> QED BY <2>1, <3>1
  <2> QED BY <2>1, <2>2, <2>3, <2>4, OffScreen
<1>7. CASE Show
  BY <1>7, ShowScreen
<1>8. CASE PollerDraws
  BY <1>8, PollerDrawsScreen
<1>9. CASE \/ Exit \/ PollerEnds \/ Tick \/ Judge \/ BatchOver \/ Touch \/ TickFails
           \/ UNCHANGED vars
  <2>1. UNCHANGED <<screen, drawn, tall, under, gone, log, printed, rows, main>>
    BY <1>9 DEF Exit, PollerEnds, Tick, Judge, BatchOver, Touch, TickFails, PollerGoes, vars
  <2>2. \A s \in Seqs' : printed'[s] > 0 => s \in Seqs /\ printed[s] > 0
    BY <2>1 DEF Seqs
  <2> QED BY <1>0, <2>1, <2>2, OffScreen
<1> QED
  BY <1>1, <1>2, <1>3, <1>4, <1>5, <1>6, <1>7, <1>8, <1>9, <1>10 DEF Next, Main, Poller

LEMMA ScreenInit ==
  ASSUME Init
  PROVE  ScreenInv
<1>1. ScreenShape
  BY DEF Init, ScreenShape, Blank
<1>2. TailBlank
  BY DEF Init, TailBlank
<1>3. AllShown
  BY DEF Init, AllShown, Seqs
<1>4. UnderShape
  BY DEF Init, UnderShape
<1> QED BY <1>1, <1>2, <1>3, <1>4 DEF ScreenInv

(* The rows of the screen are posts or blank, and no more are drawn than   *)
(* the composition may take.                                               *)
RowsInv ==
  /\ screen \in Seq({Blank} \cup Seqs)
  /\ under \in Seq({Blank} \cup Seqs) /\ gone \subseteq Seqs
  /\ drawn \in 0 .. MaxRows /\ rows \in 0 .. MaxRows

LEMMA RowsGrow ==
  ASSUME JoinTypes, [Next]_vars
  PROVE  Seqs \subseteq Seqs'
<1> USE DEF screenVars, history
<1>1. CASE Post \/ Send
  <2>1. PICK who \in {"me", "other"} : log' = Append(log, who)
    BY <1>1 DEF Post, Send
  <2>2. Len(log') = Len(log) + 1 /\ Len(log) \in Nat
    BY <2>1, Appended, Shapes DEF JoinTypes, ThreadOK
  <2> QED BY <2>2 DEF Seqs
<1>2. CASE ~(Post \/ Send)
  <2>1. log' = log
    BY <1>2 DEF Next, Main, Poller, Begin, Enter, Key, Empty, Invite, PickerDraws, OpenCurses,
                CloseCurses, Invited, RaiseBox, ClearOwn, PrintOwn, MainDraws, Quit, Joined,
                Leave, Exit, PollerEnds, Tick, Judge, Show, PollerDraws, BatchOver, Touch, TickFails, vars
  <2> QED BY <2>1 DEF Seqs
<1> QED BY <1>1, <1>2

(* What the writes to the terminal make of the rows.                       *)
LEMMA RowsWritten ==
  ASSUME NEW S, Blank \in S, screen \in Seq(S)
  PROVE  /\ \A n \in 0 .. MaxRows : Append(Above(n), Blank) \in Seq(S)
         /\ \A s \in S : Printed(s) \in Seq(S)
         /\ \A n \in 0 .. MaxRows : screen \o [i \in 1 .. n - 1 |-> Blank] \in Seq(S)
         /\ Append(screen, Blank) \in Seq(S)
<1>1. Len(screen) \in Nat /\ screen \in [1 .. Len(screen) -> S]
  BY LenProperties
<1>2. ASSUME NEW k \in Int, k <= Len(screen)
      PROVE  SubSeq(screen, 1, k) \in Seq(S)
  <2>1. \A i \in 1 .. k : screen[i] \in S
    BY <1>1, <1>2
  <2> QED BY <2>1, SubSeqProperties
<1>3. ASSUME NEW n \in 0 .. MaxRows
      PROVE  Append(Above(n), Blank) \in Seq(S)
  <2>1. MaxRows \in Nat
    BY JoinAssumption DEF JoinAssumption
  <2> DEFINE up == IF n > 1 THEN n - 1 ELSE 0
             k == IF up < Len(screen) THEN Len(screen) - 1 - up ELSE 0
  <2>2. k \in Int /\ k <= Len(screen)
    BY <1>1, <2>1
  <2>3. Above(n) = SubSeq(screen, 1, k)
    BY Zenon DEF Above
  <2> QED BY <1>2, <2>2, <2>3, AppendProperties
<1>4. ASSUME NEW s \in S
      PROVE  Printed(s) \in Seq(S)
  <2>1. SubSeq(screen, 1, Len(screen) - 1) \in Seq(S)
    BY <1>1, <1>2
  <2>2. <<s, Blank>> \in Seq(S)
    OBVIOUS
  <2> QED BY <2>1, <2>2, ConcatProperties DEF Printed
<1>5. ASSUME NEW n \in 0 .. MaxRows
      PROVE  screen \o [i \in 1 .. n - 1 |-> Blank] \in Seq(S)
  <2>1. MaxRows \in Nat
    BY JoinAssumption DEF JoinAssumption
  <2>2. [i \in 1 .. n - 1 |-> Blank] \in Seq(S)
    <3>1. CASE n = 0
      <4>1. 1 .. n - 1 = 1 .. 0
        BY <3>1
      <4> QED BY <4>1
    <3>2. CASE n # 0
      <4>1. n - 1 \in Nat
        BY <2>1, <3>2
      <4>2. [i \in 1 .. n - 1 |-> Blank] \in [1 .. n - 1 -> S]
        OBVIOUS
      <4> QED BY <4>1, <4>2, SeqDef
    <3> QED BY <3>1, <3>2
  <2> QED BY <2>2, ConcatProperties
<1>6. Append(screen, Blank) \in Seq(S)
  BY AppendProperties
<1> QED BY <1>3, <1>4, <1>5, <1>6

LEMMA RowsDrawn ==
  ASSUME RowsInv, NEW pc, Redraw(pc), UNCHANGED <<log, gone>>
  PROVE  RowsInv'
<1>1. Seqs' = Seqs
  BY DEF Seqs
<1> DEFINE S == {Blank} \cup Seqs
<1>2. Blank \in S /\ screen \in Seq(S)
  BY DEF RowsInv
<1>3. screen' \in Seq(S) /\ drawn' \in 0 .. MaxRows /\ rows' \in 0 .. MaxRows
  <2> HIDE DEF S
  <2>1. CASE Wipe
    BY <1>2, <2>1, RowsWritten DEF Wipe, RowsInv
  <2>2. CASE Forget
    <3>1. 0 \in 0 .. MaxRows
      BY JoinAssumption DEF JoinAssumption
    <3> QED BY <1>2, <2>2, <3>1 DEF Forget, RowsInv
  <2>3. CASE Write
    BY <1>2, <2>3, RowsWritten DEF Write, RowsInv
  <2>4. CASE Remember
    BY <1>2, <2>4 DEF Remember, RowsInv
  <2> QED BY <2>1, <2>2, <2>3, <2>4 DEF Redraw
<1>4. UNCHANGED under
  BY DEF Redraw, Wipe, Forget, Write, Remember
<1> QED BY <1>1, <1>3, <1>4 DEF RowsInv

LEMMA RowsStep ==
  ASSUME JoinTypes, RowsInv, [Next]_vars
  PROVE  RowsInv'
<1> USE DEF screenVars, history
<1> DEFINE S == {Blank} \cup Seqs
           T == {Blank} \cup Seqs'
<1>0. /\ 1 \in 0 .. MaxRows /\ 1 .. MaxRows \subseteq 0 .. MaxRows
  BY JoinAssumption DEF JoinAssumption
<1>1. /\ Blank \in S /\ S \subseteq T /\ screen \in Seq(S)
      /\ under \in Seq(S) /\ gone \subseteq Seqs'
      /\ drawn \in 0 .. MaxRows /\ rows \in 0 .. MaxRows
  BY RowsGrow DEF RowsInv
<1>2. /\ screen' \in Seq(T) /\ drawn' \in 0 .. MaxRows /\ rows' \in 0 .. MaxRows
      /\ under' \in Seq(S) /\ gone' \subseteq Seqs'
      => RowsInv'
  <2>1. S \subseteq T
    BY <1>1
  <2>2. RowsInv' <=> /\ screen' \in Seq(T) /\ drawn' \in 0 .. MaxRows /\ rows' \in 0 .. MaxRows
                     /\ under' \in Seq(T) /\ gone' \subseteq Seqs'
    BY DEF RowsInv, Blank
  <2> QED BY <2>1, <2>2, SeqMonotonic
<1>3. CASE MainDraws \/ PollerDraws \/ ClearOwn
  <2>1. UNCHANGED <<log, gone>> /\ \E pc : Redraw(pc)
    BY <1>3 DEF MainDraws, PollerDraws, ClearOwn, Redraw
  <2> QED BY <2>1, RowsDrawn
<1>4. CASE Begin
  <2> DEFINE front == [s \in 1 .. Len(log) |-> s]
  <2>1. screen' = front \o <<Blank>> /\ UNCHANGED <<drawn, rows, under, gone>>
    BY <1>4 DEF Begin
  <2>2. front \in [1 .. Len(log) -> S] /\ Len(log) \in Nat
    BY Shapes DEF Seqs
  <2>3. front \in Seq(S) /\ <<Blank>> \in Seq(S)
    BY <1>1, <2>2, SeqDef
  <2> HIDE DEF front, S
  <2>4. screen' \in Seq(S)
    BY <2>1, <2>3, ConcatProperties
  <2> QED BY <1>1, <1>2, <2>1, <2>4, SeqMonotonic
<1>5. CASE PrintOwn \/ Show
  <2>1. PICK s \in S : screen' = Printed(s)
    <3>1. CASE PrintOwn
      <4>1. main.own \in Seqs
        BY <3>1, Shapes DEF PrintOwn, MainAt, JoinTypes, Owning, Seqs
      <4> QED BY <3>1, <4>1 DEF PrintOwn
    <3>2. CASE Show
      <4>1. poller.next > 1 /\ poller.next \in 1 .. Len(log) + 1 /\ Len(log) \in Nat
        BY <3>2, Shapes DEF Show, PollerAt, JoinTypes
      <4>2. poller.next - 1 \in Seqs
        BY <4>1 DEF Seqs
      <4> QED BY <3>2, <4>2 DEF Show
    <3> QED BY <1>5, <3>1, <3>2
  <2>2. drawn' = drawn /\ rows' \in {1, rows} /\ UNCHANGED <<under, gone>>
    BY <1>5 DEF PrintOwn, Show
  <2> HIDE DEF S
  <2>3. screen' \in Seq(S)
    BY <1>1, <2>1, RowsWritten
  <2> QED BY <1>0, <1>1, <1>2, <2>2, <2>3, SeqMonotonic
<1>6. CASE Invited
  <2>1. screen' = Append(screen, Blank) /\ drawn' = drawn /\ rows' = 1 /\ UNCHANGED <<under, gone>>
    BY <1>6 DEF Invited
  <2> HIDE DEF S
  <2>2. screen' \in Seq(S)
    BY <1>1, <2>1, RowsWritten
  <2> QED BY <1>0, <1>1, <1>2, <2>1, <2>2, SeqMonotonic
<1>7. CASE Key \/ Empty
  <2>1. screen' = screen /\ drawn' = drawn /\ rows' \in 0 .. MaxRows /\ UNCHANGED <<under, gone>>
    BY <1>0, <1>7 DEF Key, Empty
  <2> QED BY <1>1, <1>2, <2>1, SeqMonotonic
<1>8. CASE \/ Post \/ Enter \/ Invite \/ Send \/ RaiseBox \/ Quit \/ Joined \/ Leave \/ Exit
           \/ PollerEnds \/ Tick \/ Judge \/ BatchOver \/ Touch \/ TickFails \/ UNCHANGED vars
  <2>1. UNCHANGED <<screen, drawn, rows, under, gone>>
    BY <1>8 DEF Post, Enter, Invite, Send, RaiseBox, Quit, Joined, Leave, Exit, PollerEnds, Tick,
                Judge, BatchOver, Touch, TickFails, vars
  <2> QED BY <1>1, <1>2, <2>1, SeqMonotonic
<1>9. CASE PickerDraws \/ OpenCurses \/ CloseCurses
  <2>1. /\ screen' \in {Cleared, under} /\ under' \in {under, screen, << >>}
        /\ gone' \subseteq gone \cup Shown /\ UNCHANGED <<log, drawn, rows>>
    BY <1>9 DEF PickerDraws, OpenCurses, CloseCurses
  <2>2. /\ Len(screen) \in Nat /\ Seqs' = Seqs
        /\ \A i \in 1 .. Len(screen) : screen[i] \in S
    BY <1>1, <2>1, LenProperties, ElementOfSeq DEF Seqs
  <2>3. Shown \subseteq Seqs'
    BY <2>2 DEF Shown, RowsOf
  <2>4. Cleared \in Seq(S)
    <3>1. Cleared \in [1 .. Len(screen) -> S]
      BY <1>1 DEF Cleared
    <3> QED BY <2>2, <3>1, SeqDef
  <2> HIDE DEF S
  <2>5. screen' \in Seq(S) /\ under' \in Seq(S)
    BY <1>1, <2>1, <2>4, EmptySeq
  <2> QED BY <1>1, <1>2, <2>1, <2>3, <2>5, SeqMonotonic
<1> QED
  BY <1>3, <1>4, <1>5, <1>6, <1>7, <1>8, <1>9 DEF Next, Main, Poller

-----------------------------------------------------------------------------
(* The theorems                                                            *)

ViewInv == JoinTypes /\ CountsInv /\ PassedInv /\ LeftInv

LEMMA ViewInvariant == Spec => []ViewInv
<1>1. Init => ViewInv
  <2> SUFFICES ASSUME Init PROVE ViewInv
    OBVIOUS
  <2>1. JoinTypes
    BY TypesInit
  <2>2. Seqs = {}
    BY DEF Init, Seqs
  <2>3. main.pc = "begin" /\ poller.pc = "off" /\ poller.next = 1
    BY DEF Init
  <2> QED BY <2>1, <2>2, <2>3 DEF ViewInv, CountsInv, PassedInv, LeftInv, Entering, Owning, Raised, ShownOnce
<1>2. ViewInv /\ [Next]_vars => ViewInv'
  BY TypesStep, CountsStep, PassedStep, LeftStep DEF ViewInv
<1> QED BY <1>1, <1>2, PTL DEF Spec

(* No post is printed twice, for any number of posts by the person and by  *)
(* others and however the steps of the two threads interleave: neither the *)
(* backlog nor an own post, both of which the poller's tail reads again    *)
(* (run_join, _poll_loop).                                                 *)
THEOREM ShownOnceEver == Spec => []ShownOnce
<1>1. ViewInv => ShownOnce
  BY DEF ViewInv, CountsInv
<1> QED BY <1>1, ViewInvariant, PTL

(* Another's post that the poller has passed was printed, unless the       *)
(* person posted before the poller had looked at it, or the tick that had  *)
(* read it failed (run_join, _poll_loop).                                  *)
THEOREM UnshownOnlyIfEver == Spec => []UnshownOnlyIf
<1>1. ASSUME ViewInv PROVE UnshownOnlyIf
  <2>1. ASSUME NEW s \in By("other") \cap Passed, printed[s] = 0
        PROVE  s \in hidden \cup dropped
    <3>1. JoinTypes /\ PassedInv /\ s \in Nat
      BY <1>1 DEF ViewInv, By, Seqs
    <3>2. poller.pc # "off" /\ s < poller.next /\ ~AtHand(s)
      BY <2>1, <3>1, Shapes DEF Passed, PollerAt, AtHand
    <3> QED BY <2>1, <3>1, <3>2 DEF PassedInv, Looked
  <2> QED BY <2>1 DEF UnshownOnlyIf
<1> QED BY <1>1, ViewInvariant, PTL

(* Who has left is no member of the room, unless the poller was not over   *)
(* when the main thread stopped waiting for it, or the presence could not  *)
(* be marked (run_join, _poll_loop, leave_thread_presence).                *)
THEOREM LeftMeansLeftEver == Spec => []LeftMeansLeft
<1>1. ViewInv => LeftMeansLeft
  BY DEF ViewInv, LeftInv, LeftMeansLeft, MainAt
<1> QED BY <1>1, ViewInvariant, PTL

(* What was printed stays on the screen, for any number of posts, keys and *)
(* rows and however the two threads draw over each other, until a post     *)
(* arrives beside a composition of several rows, or a picker clears the    *)
(* screen it is on (clear_rendered_area and render of rawline.py, called   *)
(* by both, _printed_visual_rows, and picker.py).                          *)
THEOREM StaysOnScreenEver == Spec => []StaysOnScreen
<1>1. Init => JoinTypes /\ ScreenInv
  BY TypesInit, ScreenInit
<1>2. JoinTypes /\ ScreenInv /\ [Next]_vars => JoinTypes' /\ ScreenInv'
  BY TypesStep, ScreenStep
<1>3. ScreenInv => StaysOnScreen
  BY DEF ScreenInv, AllShown, OnScreen, OnUnder, StaysOnScreen, RowsOf
<1> QED BY <1>1, <1>2, <1>3, PTL DEF Spec

(* However the two threads of the view interleave, every row of the screen *)
(* is blank or a post of the thread and the last is the free one of the    *)
(* cursor, last_seq_box stays within the thread, and the poller is never   *)
(* more than one past its batch (join.py:125-273, rawline.py:158-188).     *)
THEOREM JoinTypeCorrect == Spec => []TypeOK
<1> DEFINE I == JoinTypes /\ ScreenInv /\ RowsInv
<1>1. Init => I
  <2> SUFFICES ASSUME Init PROVE I
    OBVIOUS
  <2>1. RowsInv
    BY JoinAssumption DEF Init, RowsInv, JoinAssumption
  <2> QED BY <2>1, TypesInit, ScreenInit
<1>2. I /\ [Next]_vars => I'
  BY TypesStep, ScreenStep, RowsStep
<1>3. I => TypeOK
  <2> SUFFICES ASSUME I PROVE TypeOK
    OBVIOUS
  <2>1. ThreadOK /\ MainOK /\ PollerOK
    BY DEF JoinTypes
  <2>2. screen # << >> /\ screen[Len(screen)] = Blank
    BY DEF ScreenInv, ScreenShape
  <2> QED BY <2>1, <2>2 DEF TypeOK, ScreenOK, RowsInv
<1> HIDE DEF I
<1>4. QED BY <1>1, <1>2, <1>3, PTL DEF Spec

-----------------------------------------------------------------------------
(* The editor                                                              *)

LinesOK == lines \in Seq(Seq(Chars)) /\ lines # << >> /\ col \in 0 .. Len(line)

TabShape(t) ==
  /\ t = [start |-> t.start, matches |-> t.matches, index |-> t.index]
  /\ t.start \in Nat /\ t.matches \in Seq(DOMAIN Names) /\ t.index \in 1 .. Len(t.matches)

(* What Tab has put in stands between the start of its token and the       *)
(* cursor.                                                                 *)
TabOK ==
  tab # NoTab =>
    /\ TabShape(tab)
    /\ col = tab.start + 1 + Len(Chosen(tab))
    /\ SubSeq(line, tab.start + 1, col) = <<At>> \o Chosen(tab)

EditInv == LinesOK /\ TabOK /\ candidates \subseteq DOMAIN Names

LEMMA TheLine ==
  ASSUME LinesOK
  PROVE  /\ line \in Seq(Chars) /\ Len(line) \in Nat /\ col \in Nat /\ col <= Len(line)
         /\ Front(lines) \in Seq(Seq(Chars)) /\ lines = Append(Front(lines), line)
         /\ Len(Front(lines)) = Len(lines) - 1 /\ Len(lines) \in Nat \ {0}
         /\ Before \in Seq(Chars) /\ After \in Seq(Chars) /\ Len(Before) = col
<1>1. lines \in Seq(Seq(Chars)) /\ lines # << >> /\ col \in 0 .. Len(line)
  BY DEF LinesOK
<1>2. line \in Seq(Chars) /\ Front(lines) \in Seq(Seq(Chars)) /\ lines = Append(Front(lines), line)
      /\ Len(Front(lines)) = Len(lines) - 1 /\ Len(lines) \in Nat \ {0}
  BY <1>1, LastOne DEF line
<1>3. Len(line) \in Nat /\ col \in Nat /\ col <= Len(line)
  BY <1>1, <1>2, LenProperties
<1>4. Before \in Seq(Chars) /\ After \in Seq(Chars) /\ Len(Before) = col
  BY <1>1, <1>2, CutAt DEF Before, After
<1>5. QED
  BY <1>2, <1>3, <1>4

(* The composition after a key, from what stands before and after the      *)
(* cursor.                                                                 *)
LEMMA Composed ==
  ASSUME NEW fr \in Seq(Seq(Chars)), NEW s \in Seq(Chars), NEW t \in Seq(Chars),
         lines' = Append(fr, s \o t), col' = Len(s)
  PROVE  /\ LinesOK' /\ Front(lines') = fr /\ line' = s \o t /\ Before' = s /\ After' = t
         /\ WithLine(Before)' = Append(fr, s)
<1>1. s \o t \in Seq(Chars) /\ Len(s \o t) = Len(s) + Len(t) /\ Len(s) \in Nat /\ Len(t) \in Nat
  BY ConcatProperties, LenProperties
<1>2. lines' \in Seq(Seq(Chars)) /\ lines' # << >>
  BY <1>1, AppendProperties
<1>3. Front(lines') = fr /\ line' = s \o t
  BY <1>1, LastAppended DEF line
<1>4. Before' = s /\ After' = t
  BY <1>3, CutJoined DEF Before, After
<1>5. col' \in 0 .. Len(line')
  BY <1>1, <1>3
<1>6. WithLine(Before)' = Append(fr, s)
  BY <1>3, <1>4 DEF WithLine
<1>7. QED
  BY <1>2, <1>3, <1>4, <1>5, <1>6 DEF LinesOK

(* What each key leaves before and after the cursor.                       *)
LEMMA AppendCharDoes ==
  ASSUME LinesOK, NEW c \in Chars, AppendChar(c)
  PROVE  /\ LinesOK' /\ Front(lines') = Front(lines) /\ After' = After
         /\ Before' = Append(Before, c) /\ tab' = NoTab
<1>1. lines' = Append(Front(lines), Append(Before, c) \o After) /\ col' = col + 1 /\ tab' = NoTab
  BY DEF AppendChar, Edited, WithLine
<1>2. Append(Before, c) \in Seq(Chars) /\ Len(Append(Before, c)) = col + 1
  <2>1. PICK b \in Seq(Chars) : b = Before /\ Len(b) = col
    BY TheLine
  <2>2. Append(b, c) \in Seq(Chars) /\ Len(Append(b, c)) = Len(b) + 1
    BY AppendProperties
  <2>3. QED
    BY <2>1, <2>2
<1>3. QED
  BY <1>1, <1>2, TheLine, Composed

LEMMA BackspaceDoes ==
  ASSUME LinesOK, Backspace
  PROVE  /\ LinesOK' /\ tab' = NoTab
         /\ \/ /\ Front(lines') = Front(lines) /\ After' = After
               /\ Before # << >> /\ Before' = Front(Before)
            \/ lines' = Front(lines) /\ col = 0
<1>1. tab' = NoTab
  BY DEF Backspace
<1>2. CASE col > 0 /\ Edited(WithLine(Front(Before) \o After), col - 1)
  <2>1. lines' = Append(Front(lines), Front(Before) \o After) /\ col' = col - 1
    BY <1>2 DEF Edited, WithLine
  <2>2. Before # << >>
    BY <1>2, TheLine, EmptySeq
  <2>3. Front(Before) \in Seq(Chars) /\ Len(Front(Before)) = col - 1
    BY <2>2, TheLine, LastOne
  <2>4. LinesOK' /\ Front(lines') = Front(lines) /\ After' = After /\ Before' = Front(Before)
    BY <2>1, <2>3, TheLine, Composed
  <2>5. QED
    BY <1>1, <2>2, <2>4
<1>3. CASE col = 0 /\ Len(lines) > 1 /\ Edited(Front(lines), Len(lines[Len(lines) - 1]))
  <2>1. lines' = Front(lines) /\ col' = Len(lines[Len(lines) - 1])
    BY <1>3 DEF Edited
  <2>2. PICK fr : fr = Front(lines)
    OBVIOUS
  <2>3. fr \in Seq(Seq(Chars)) /\ Len(fr) = Len(lines) - 1 /\ lines = Append(fr, line)
        /\ Len(lines) \in Nat
    BY <2>2, TheLine
  <2>4. Len(fr) > 0 /\ fr # << >> /\ Len(fr) \in 1 .. Len(fr) /\ Len(fr) \in Nat
    BY <1>3, <2>3, EmptySeq
  <2>5. Last(fr) \in Seq(Chars) /\ lines[Len(lines) - 1] = Last(fr)
    <3>1. Append(fr, line)[Len(fr)] = fr[Len(fr)]
      BY <2>3, <2>4, TheLine, AppendProperties
    <3>2. fr[Len(fr)] \in Seq(Chars)
      BY <2>3, <2>4, ElementOfSeq
    <3>3. QED
      BY <2>3, <3>1, <3>2 DEF Last
  <2>6. line' = Last(fr) /\ col' = Len(Last(fr)) /\ Len(Last(fr)) \in Nat
    BY <2>1, <2>2, <2>5, LenProperties DEF line
  <2>7. LinesOK'
    <3>1. lines' \in Seq(Seq(Chars)) /\ lines' # << >>
      BY <2>1, <2>2, <2>3, <2>4
    <3>2. col' \in 0 .. Len(line')
      BY <2>6
    <3>3. QED
      BY <3>1, <3>2 DEF LinesOK
  <2>8. QED
    BY <1>1, <1>3, <2>1, <2>7
<1>4. QED
  BY <1>2, <1>3 DEF Backspace

LEMMA WordPlaces ==
  ASSUME NEW l \in Seq(Chars), NEW i \in 0 .. Len(l)
  PROVE  WordLeftOf(l, i) \in 0 .. Len(l) /\ WordRightOf(l, i) \in 0 .. Len(l)
<1>1. Len(l) \in Nat
  BY LenProperties
<1>2. WordLeftOf(l, i) \in 0 .. Len(l)
  <2>1. CASE InWord(l, 1, i) = {}
    BY <1>1, <2>1 DEF WordLeftOf
  <2>2. CASE InWord(l, 1, i) # {}
    <3>1. PICK W : W = InWord(l, 1, i)
      OBVIOUS
    <3>2. W \subseteq 0 .. Len(l) /\ W \subseteq 1 .. i
      BY <1>1, <3>1 DEF InWord
    <3>3. Max(W) \in W
      BY <1>1, <2>2, <3>1, <3>2, MaxIs
    <3>4. PICK m : m = Max(W) - 1
      OBVIOUS
    <3>5. m \in Nat /\ m <= Len(l)
      <4>1. \A w \in W : w \in Nat /\ 1 <= w /\ w <= Len(l)
        BY <1>1, <3>2
      <4>2. QED
        BY <1>1, <3>3, <3>4, <4>1
    <3>6. PICK D : D = {j \in 0 .. m : WordStart(l, j)}
      OBVIOUS
    <3>7. 0 \in D /\ D \subseteq 0 .. m
      BY <3>5, <3>6 DEF WordStart
    <3>8. Max(D) \in 0 .. m
      BY <3>5, <3>7, MaxIs
    <3>9. WordLeftOf(l, i) = Max(D)
      BY <2>2, <3>1, <3>4, <3>6 DEF WordLeftOf
    <3>10. QED
      BY <1>1, <3>5, <3>8, <3>9
  <2>3. QED
    BY <2>1, <2>2
<1>3. WordRightOf(l, i) \in 0 .. Len(l)
  <2>1. CASE InWord(l, i + 1, Len(l)) = {}
    BY <1>1, <2>1 DEF WordRightOf
  <2>2. CASE InWord(l, i + 1, Len(l)) # {}
    <3>1. PICK W : W = InWord(l, i + 1, Len(l))
      OBVIOUS
    <3>2. W \subseteq Nat /\ W \subseteq i + 1 .. Len(l)
      BY <1>1, <3>1 DEF InWord
    <3>3. Min(W) \in W
      BY <2>2, <3>1, <3>2, MinIs
    <3>4. PICK m : m = Min(W)
      OBVIOUS
    <3>5. m \in Nat /\ m <= Len(l)
      <4>1. \A w \in W : w \in Nat /\ w <= Len(l)
        BY <1>1, <3>2
      <4>2. QED
        BY <1>1, <3>3, <3>4, <4>1
    <3>6. PICK D : D = {j \in m .. Len(l) : WordEnd(l, j)}
      OBVIOUS
    <3>7. Len(l) \in D /\ D \subseteq Nat /\ D \subseteq 0 .. Len(l)
      BY <1>1, <3>5, <3>6 DEF WordEnd
    <3>8. Min(D) \in D
      BY <3>7, MinIs
    <3>9. WordRightOf(l, i) = Min(D)
      BY <2>2, <3>1, <3>4, <3>6 DEF WordRightOf
    <3>10. QED
      BY <3>7, <3>8, <3>9
  <2>3. QED
    BY <2>1, <2>2
<1>4. QED
  BY <1>2, <1>3

LEMMA MoveDoes ==
  ASSUME LinesOK, Move
  PROVE  LinesOK' /\ lines' = lines /\ tab' = NoTab
<1>1. PICK to \in {IF col > 0 THEN col - 1 ELSE 0, IF col < Len(line) THEN col + 1 ELSE col,
                   WordLeftOf(line, col), WordRightOf(line, col)} : lines' = lines /\ col' = to
  BY DEF Move, Edited
<1>2. WordLeftOf(line, col) \in 0 .. Len(line) /\ WordRightOf(line, col) \in 0 .. Len(line)
  BY TheLine, WordPlaces DEF LinesOK
<1>3. to \in 0 .. Len(line)
  BY <1>1, <1>2, TheLine
<1>4. QED
  BY <1>1, <1>3 DEF LinesOK, line, Move

LEMMA NewLineDoes ==
  ASSUME LinesOK, NewLine
  PROVE  LinesOK' /\ lines' = Append(lines, << >>) /\ tab' = NoTab
<1>1. lines' = Append(lines, << >>) /\ col' = 0 /\ tab' = NoTab
  BY DEF NewLine, Edited
<1>2. << >> \in Seq(Chars) /\ << >> \o << >> = << >> /\ Len(<< >>) = 0
  BY EmptySeq
<1>3. lines \in Seq(Seq(Chars))
  BY DEF LinesOK
<1>4. LinesOK'
  BY <1>1, <1>2, <1>3, Composed
<1>5. QED
  BY <1>1, <1>4

LEMMA Middle ==
  ASSUME NEW S, NEW u \in Seq(S), NEW w \in Seq(S), NEW a \in Seq(S)
  PROVE  SubSeq((u \o w) \o a, Len(u) + 1, Len(u) + Len(w)) = w
<1>1. PICK l : l = (u \o w) \o a
  OBVIOUS
<1>2. u \o w \in Seq(S) /\ Len(u \o w) = Len(u) + Len(w)
      /\ Len(u) \in Nat /\ Len(w) \in Nat /\ Len(a) \in Nat
  BY ConcatProperties, LenProperties
<1>3. l \in Seq(S) /\ Len(l) = Len(u) + Len(w) + Len(a)
  BY <1>1, <1>2, ConcatProperties
<1>4. ASSUME NEW i \in 1 .. Len(w)
      PROVE  l[Len(u) + i] = w[i] /\ Len(u) + i \in 1 .. Len(l)
  <2>1. Len(u) + i \in 1 .. Len(u \o w) + Len(a) /\ Len(u) + i <= Len(u \o w)
    BY <1>2
  <2>2. l[Len(u) + i] = (u \o w)[Len(u) + i]
    BY <1>1, <1>2, <2>1, ConcatProperties
  <2>3. Len(u) + i \in 1 .. Len(u) + Len(w) /\ ~(Len(u) + i <= Len(u)) /\ (Len(u) + i) - Len(u) = i
    BY <1>2
  <2>4. (u \o w)[Len(u) + i] = w[i]
    BY <2>3, ConcatProperties
  <2>5. QED
    BY <1>2, <1>3, <2>1, <2>2, <2>4
<1>5. PICK m, n : m = Len(u) + 1 /\ n = Len(u) + Len(w)
  OBVIOUS
<1>6. m \in Int /\ n \in Int /\ n - m + 1 = Len(w) /\ (m <= n <=> Len(w) > 0)
  BY <1>2, <1>5
<1>7. \A i \in m .. n : l[i] \in S
  <2>1. \A i \in 1 .. Len(l) : l[i] \in S
    BY <1>3, ElementOfSeq
  <2>2. \A i \in m .. n : i \in 1 .. Len(l)
    BY <1>2, <1>3, <1>5
  <2>3. QED
    BY <2>1, <2>2
<1>8. /\ SubSeq(l, m, n) \in Seq(S)
      /\ Len(SubSeq(l, m, n)) = IF m <= n THEN n - m + 1 ELSE 0
      /\ \A i \in 1 .. n - m + 1 : SubSeq(l, m, n)[i] = l[m + i - 1]
  BY <1>6, <1>7, SubSeqProperties
<1>9. Len(SubSeq(l, m, n)) = Len(w)
  BY <1>2, <1>6, <1>8
<1>10. \A i \in 1 .. Len(w) : SubSeq(l, m, n)[i] = w[i]
  <2>1. ASSUME NEW i \in 1 .. Len(w) PROVE SubSeq(l, m, n)[i] = w[i]
    <3>1. i \in 1 .. n - m + 1 /\ m + i - 1 = Len(u) + i
      BY <1>2, <1>5, <1>6
    <3>2. QED
      BY <1>4, <1>8, <3>1
  <2>2. QED
    BY <2>1
<1>11. SubSeq(l, m, n) = w
  BY <1>8, <1>9, <1>10, SeqEqual
<1>12. QED
  BY <1>1, <1>5, <1>11

(* The names that a completion may put in.                                 *)
LEMMA NamesAre ==
  ASSUME NEW i \in DOMAIN Names
  PROVE  Names[i] \in Seq(Chars) /\ Names[i] # << >>
<1>1. Names \in Seq(Seq(Chars) \ {<< >>})
  BY EditorAssumption
<1>2. DOMAIN Names = 1 .. Len(Names)
  BY <1>1, LenProperties
<1>3. QED
  BY <1>1, <1>2, ElementOfSeq

LEMMA MatchesAre ==
  Matches \in Seq(DOMAIN Names)
<1>1. Names \in Seq(Seq(Chars) \ {<< >>})
  BY EditorAssumption
<1>2. DOMAIN Names = 1 .. Len(Names) /\ Len(Names) \in Nat
  BY <1>1, LenProperties
<1>3. [i \in DOMAIN Names |-> i] \in [1 .. Len(Names) -> DOMAIN Names]
  BY <1>2
<1>4. [i \in DOMAIN Names |-> i] \in Seq(DOMAIN Names)
  BY <1>2, <1>3, SeqDef
<1>5. QED
  BY <1>4, PickedType DEF Matches

LEMMA ChosenIs ==
  ASSUME NEW t, TabShape(t)
  PROVE  Chosen(t) \in Seq(Chars) /\ t # NoTab
<1>1. t.matches[t.index] \in DOMAIN Names
  BY ElementOfSeq DEF TabShape
<1>2. Chosen(t) \in Seq(Chars)
  BY <1>1, NamesAre DEF Chosen
<1>3. t # NoTab
  BY DEF TabShape, NoTab
<1>4. QED
  BY <1>2, <1>3

LEMMA CompletedDoes ==
  ASSUME LinesOK, NEW t, TabShape(t), t.start < col, Completed(t)
  PROVE  /\ LinesOK' /\ TabOK' /\ tab' = t /\ tab' # NoTab
         /\ Front(lines') = Front(lines) /\ After' = After
         /\ Before' = Upto(line, t.start) \o (<<At>> \o Chosen(t))
<1>1. tab' = t /\ tab' # NoTab /\ Chosen(t) \in Seq(Chars)
  BY ChosenIs DEF Completed
<1>2. t.start \in Nat /\ col \in Nat /\ line \in Seq(Chars) /\ t.start \in 0 .. Len(line)
  BY TheLine DEF TabShape
<1>3. PICK u \in Seq(Chars) : u = Upto(line, t.start) /\ Len(u) = t.start
  BY <1>2, CutAt
<1>4. <<At>> \in Seq(Chars)
  BY DEF Chars
<1>5. PICK w \in Seq(Chars) : w = <<At>> \o Chosen(t)
  BY <1>1, <1>4, ConcatProperties
<1>6. Len(w) = 1 + Len(Chosen(t))
  BY <1>1, <1>4, <1>5, ConcatProperties
<1>7. (u \o <<At>>) \o Chosen(t) = u \o w
  BY <1>1, <1>4, <1>5, ConcatAssociative
<1>8. lines' = Append(Front(lines), (u \o w) \o After) /\ col' = t.start + 1 + Len(Chosen(t))
  BY <1>3, <1>7 DEF Completed, Edited, WithLine
<1>9. u \o w \in Seq(Chars) /\ Len(u \o w) = Len(u) + Len(w)
  BY ConcatProperties
<1>10. Len(u \o w) = col'
  <2>1. Len(Chosen(t)) \in Nat
    BY <1>1, LenProperties
  <2>2. PICK n \in Nat : n = Len(Chosen(t))
    BY <2>1
  <2>3. Len(u) + Len(w) = t.start + 1 + n
    <3>1. PICK k \in Nat : k = t.start
      BY <1>2
    <3>2. Len(u) = k /\ Len(w) = 1 + n
      BY <1>3, <1>6, <2>2, <3>1
    <3>3. k + (1 + n) = k + 1 + n
      OBVIOUS
    <3>4. QED
      BY <3>1, <3>2, <3>3
  <2>4. QED
    BY <1>8, <1>9, <2>2, <2>3
<1>11. LinesOK' /\ Front(lines') = Front(lines) /\ line' = (u \o w) \o After
       /\ Before' = u \o w /\ After' = After
  BY <1>8, <1>9, <1>10, TheLine, Composed
<1>12. TabOK'
  <2>1. SubSeq((u \o w) \o After, Len(u) + 1, Len(u) + Len(w)) = w
    BY TheLine, Middle
  <2>2. SubSeq(line', t.start + 1, col') = <<At>> \o Chosen(t)
    BY <1>3, <1>5, <1>9, <1>10, <1>11, <2>1
  <2>3. Chosen(tab)' = Chosen(t)
    BY <1>1 DEF Chosen
  <2>4. TabShape(tab)'
    BY <1>1 DEF TabShape
  <2>5. QED
    BY <1>1, <1>8, <2>2, <2>3, <2>4 DEF TabOK
<1>13. QED
  BY <1>1, <1>3, <1>5, <1>11, <1>12

LEMMA TokenStarts ==
  ASSUME LinesOK
  PROVE  TokenStart \in 0 .. col
<1>1. col \in Nat
  BY TheLine
<1>2. PICK D : D = {i \in 0 .. col : WordStart(line, i)}
  OBVIOUS
<1>3. 0 \in D /\ D \subseteq 0 .. col
  BY <1>1, <1>2 DEF WordStart
<1>4. Max(D) \in D
  BY <1>1, <1>3, MaxIs
<1>5. QED
  BY <1>2, <1>3, <1>4 DEF TokenStart

LEMMA CompleteMentionDoes ==
  ASSUME LinesOK, TabOK, CompleteMention
  PROVE  \E t : /\ TabShape(t) /\ t.start < col /\ Completed(t)
<1>1. CASE tab = NoTab /\ InMention /\ Matches # << >>
           /\ Completed([start |-> TokenStart, matches |-> Matches, index |-> 1])
  <2>1. PICK t : t = [start |-> TokenStart, matches |-> Matches, index |-> 1]
    OBVIOUS
  <2>2. TokenStart \in Nat /\ TokenStart < col
    BY <1>1, TokenStarts, TheLine DEF InMention
  <2>3. Matches \in Seq(DOMAIN Names) /\ 1 \in 1 .. Len(Matches)
    BY <1>1, MatchesAre, EmptySeq
  <2>4. TabShape(t) /\ t.start < col
    BY <2>1, <2>2, <2>3 DEF TabShape
  <2>5. QED
    BY <1>1, <2>1, <2>4
<1>2. CASE tab # NoTab /\ Completed([tab EXCEPT !.index = (@ % Len(tab.matches)) + 1])
  <2>1. PICK t : t = [tab EXCEPT !.index = (@ % Len(tab.matches)) + 1]
    OBVIOUS
  <2>2. TabShape(tab) /\ tab.start < col
    <3>1. TabShape(tab) /\ col = tab.start + 1 + Len(Chosen(tab))
      BY <1>2 DEF TabOK
    <3>2. Chosen(tab) \in Seq(Chars)
      BY <3>1, ChosenIs
    <3>3. Len(Chosen(tab)) \in Nat /\ tab.start \in Nat
      BY <3>1, <3>2, LenProperties DEF TabShape
    <3>4. QED
      BY <3>1, <3>3
  <2>3. QED
    BY <1>2, <2>1, <2>2 DEF TabShape
<1>3. QED
  BY <1>1, <1>2 DEF CompleteMention

(* The text with what is pasted, up to where the cursor comes to be.       *)
Pasted(p) ==
  IF Len(p) = 1 THEN WithLine(Before \o p[1])
  ELSE (Front(lines) \o <<Before \o p[1]>>) \o Tail(p)

LEMMA PastesAre ==
  ASSUME NEW p \in Pastes
  PROVE  /\ p \in Seq(Seq(Chars)) /\ p # << >> /\ p[1] \in Seq(Chars)
         /\ Tail(p) \in Seq(Seq(Chars))
<1>1. p \in Seq(Seq(Chars)) /\ p # << >>
  BY EditorAssumption
<1>4. 1 \in 1 .. Len(p)
  <2>1. Len(p) \in Nat /\ Len(p) # 0
    BY <1>1, EmptySeq, LenProperties
  <2>2. QED
    BY <2>1
<1>5. QED
  BY <1>1, <1>4, ElementOfSeq, HeadTailProperties

LEMMA PasteDoes ==
  ASSUME LinesOK, NEW p \in Pastes, PasteExtend(p)
  PROVE  /\ LinesOK' /\ tab' = NoTab /\ After' = After
         /\ WithLine(Before)' = Pasted(p)
         /\ p[1] \in Seq(Chars) /\ Tail(p) \in Seq(Seq(Chars))
<1>1. PICK ls : ls = Pasted(p)
  OBVIOUS
<1>2. lines' = Append(Front(ls), Last(ls) \o After) /\ col' = Len(Last(ls)) /\ tab' = NoTab
  BY <1>1 DEF PasteExtend, Pasted, Edited
<1>3. ls \in Seq(Seq(Chars)) /\ ls # << >>
  <2>1. PICK first \in Seq(Chars) : first = Before \o p[1]
    BY TheLine, PastesAre, ConcatProperties
  <2>2. PICK fr \in Seq(Seq(Chars)) : fr = Front(lines)
    BY TheLine
  <2>3. Append(fr, first) \in Seq(Seq(Chars)) /\ Append(fr, first) # << >>
    BY AppendProperties
  <2>4. PICK ab \in Seq(Seq(Chars)) : ab = Append(fr, first) /\ ab = fr \o <<first>> /\ ab # << >>
    BY <2>3, AppendIsConcat
  <2>5. ab \o Tail(p) \in Seq(Seq(Chars)) /\ ab \o Tail(p) # << >>
    BY <2>4, PastesAre, ConcatProperties, ConcatEqualIffEmpty
  <2>6. ls = ab \/ ls = ab \o Tail(p)
    BY <1>1, <2>1, <2>2, <2>4 DEF Pasted, WithLine
  <2>7. QED
    BY <2>4, <2>5, <2>6
<1>4. Front(ls) \in Seq(Seq(Chars)) /\ Last(ls) \in Seq(Chars) /\ ls = Append(Front(ls), Last(ls))
  BY <1>3, LastOne
<1>5. LinesOK' /\ After' = After /\ WithLine(Before)' = Append(Front(ls), Last(ls))
  BY <1>2, <1>4, TheLine, Composed
<1>6. QED
  BY <1>1, <1>2, <1>4, <1>5, PastesAre

LEMMA EscapeDoes ==
  ASSUME Escape
  PROVE  LinesOK' /\ lines' = << << >> >> /\ tab' = NoTab
<1>1. lines' = << << >> >> /\ col' = 0 /\ tab' = NoTab
  BY DEF Escape, Edited
<1>2. line' = << >> /\ Len(<< >>) = 0 /\ << >> \in Seq(Chars)
  BY <1>1 DEF line, Last
<1>3. QED
  BY <1>1, <1>2 DEF LinesOK

LEMMA EnterDoes ==
  ASSUME LinesOK, EnterKey
  PROVE  \/ UNCHANGED <<lines, col, tab>>
         \/ /\ LinesOK' /\ tab' = NoTab /\ line # << >> /\ Last(line) = Backslash
            /\ lines' = Append(WithLine(Front(line)), << >>)
<1>1. CASE line # << >> /\ Last(line) = Backslash
  <2>1. lines' = Append(WithLine(Front(line)), << >>) /\ col' = 0 /\ tab' = NoTab
    BY <1>1 DEF EnterKey, Edited
  <2>2. Front(line) \in Seq(Chars)
    BY <1>1, TheLine, LastOne
  <2>3. PICK fr \in Seq(Seq(Chars)) : fr = WithLine(Front(line))
    BY <2>2, TheLine, AppendProperties DEF WithLine
  <2>4. << >> \in Seq(Chars) /\ << >> \o << >> = << >> /\ Len(<< >>) = 0
    BY EmptySeq
  <2>5. LinesOK'
    BY <2>1, <2>3, <2>4, Composed
  <2>6. QED
    BY <1>1, <2>1, <2>5
<1>2. CASE ~(line # << >> /\ Last(line) = Backslash)
  BY <1>2 DEF EnterKey
<1>3. QED
  BY <1>1, <1>2

-----------------------------------------------------------------------------

LEMMA EditInvInit == EditInit => EditInv
<1> SUFFICES ASSUME EditInit PROVE EditInv
  OBVIOUS
<1>1. lines = << << >> >> /\ col = 0 /\ tab = NoTab /\ candidates = DOMAIN Names
  BY DEF EditInit
<1>2. line = << >> /\ Len(<< >>) = 0 /\ << >> \in Seq(Chars)
  BY <1>1 DEF line, Last
<1>3. LinesOK
  BY <1>1, <1>2 DEF LinesOK
<1>4. TabOK
  BY <1>1 DEF TabOK
<1>5. QED
  BY <1>1, <1>3, <1>4 DEF EditInv

LEMMA SameText ==
  ASSUME EditInv, UNCHANGED <<lines, col, tab>>
  PROVE  LinesOK' /\ TabOK'
BY DEF EditInv, LinesOK, TabOK, TabShape, Chosen, line

LEMMA EditInvStep ==
  ASSUME EditInv, [EditNext]_editVars
  PROVE  EditInv'
<1> USE DEF EditInv
<1>1. candidates' \subseteq DOMAIN Names
  BY DEF EditNext, KeyPressed, AppendChar, Backspace, Move, NewLine, CompleteMention,
         PasteExtend, Escape, EnterKey, Abandon, Refresh, editVars
<1>2. ASSUME LinesOK', tab' = NoTab PROVE EditInv'
  BY <1>1, <1>2 DEF TabOK
<1>3. ASSUME NEW c \in Chars, AppendChar(c) PROVE EditInv'
  BY <1>2, <1>3, AppendCharDoes
<1>4. CASE Backspace
  BY <1>2, <1>4, BackspaceDoes
<1>5. CASE Move
  BY <1>2, <1>5, MoveDoes
<1>6. CASE NewLine
  BY <1>2, <1>6, NewLineDoes
<1>7. CASE CompleteMention
  <2>1. PICK t : TabShape(t) /\ t.start < col /\ Completed(t)
    BY <1>7, CompleteMentionDoes
  <2>2. LinesOK' /\ TabOK'
    BY <2>1, CompletedDoes
  <2>3. QED
    BY <1>1, <2>2
<1>8. ASSUME NEW p \in Pastes, PasteExtend(p) PROVE EditInv'
  BY <1>2, <1>8, PasteDoes
<1>9. CASE Escape
  BY <1>2, <1>9, EscapeDoes
<1>10. CASE EnterKey
  BY <1>1, <1>2, <1>10, EnterDoes, SameText
<1>11. CASE Abandon \/ Refresh \/ UNCHANGED editVars
  <2>1. UNCHANGED <<lines, col, tab>>
    BY <1>11 DEF Abandon, Refresh, editVars
  <2>2. QED
    BY <1>1, <2>1, SameText
<1>12. QED
  BY <1>3, <1>4, <1>5, <1>6, <1>7, <1>8, <1>9, <1>10, <1>11 DEF EditNext

(* Whatever is typed, moved over, pasted or completed, the cursor is in its*)
(* line, and the completion under way stands in front of it, at the place  *)
(* where its token began (LineEditor of rawline.py, every method).         *)
THEOREM EditInvariant == EditSpec => []EditInv
<1>1. EditInv /\ [EditNext]_editVars => EditInv'
  BY EditInvStep
<1>2. QED
  BY EditInvInit, <1>1, PTL DEF EditSpec

LEMMA EditInvTypes == EditInv => EditTypeOK
<1> SUFFICES ASSUME EditInv PROVE EditTypeOK
  OBVIOUS
<1>1. lines \in Seq(Seq(Chars)) \ {<< >>} /\ col \in 0 .. Len(line)
  BY DEF EditInv, LinesOK
<1>2. ASSUME tab # NoTab
      PROVE  /\ tab.start < col /\ tab.index \in DOMAIN tab.matches
             /\ ToSet(tab.matches) \subseteq DOMAIN Names
  <2>1. TabShape(tab) /\ col = tab.start + 1 + Len(Chosen(tab))
    BY <1>2 DEF EditInv, TabOK
  <2>2. Chosen(tab) \in Seq(Chars)
    BY <2>1, ChosenIs
  <2>3. Len(Chosen(tab)) \in Nat /\ tab.start \in Nat
    BY <2>1, <2>2, LenProperties DEF TabShape
  <2>4. tab.start < col
    BY <2>1, <2>3
  <2>5. tab.matches \in Seq(DOMAIN Names) /\ tab.index \in 1 .. Len(tab.matches)
    BY <2>1 DEF TabShape
  <2>6. DOMAIN tab.matches = 1 .. Len(tab.matches)
    BY <2>5, LenProperties
  <2>7. \A i \in 1 .. Len(tab.matches) : tab.matches[i] \in DOMAIN Names
    BY <2>5, ElementOfSeq
  <2>8. QED
    BY <2>4, <2>5, <2>6, <2>7 DEF ToSet
<1>3. QED
  BY <1>1, <1>2 DEF EditTypeOK, EditInv

(* The composition, the cursor and the completion have their types after   *)
(* any keys and pastes: no method of LineEditor moves the cursor out of its*)
(* line (rawline.py:50-156).                                               *)
THEOREM EditTypeCorrect == EditSpec => []EditTypeOK
BY EditInvariant, EditInvTypes, PTL

(* What is read of a name is all of it, or ends before a character that is *)
(* no letter.                                                              *)
LEMMA ReadableIs ==
  ASSUME NEW s \in Seq(Chars)
  PROVE  \E m \in 0 .. Len(s) :
           /\ Readable(s) \in Seq(Chars) /\ Len(Readable(s)) = m
           /\ \A i \in 1 .. m : Readable(s)[i] = s[i]
           /\ m < Len(s) => s[m + 1] \notin Letters
<1> DEFINE D == {k \in 0 .. Len(s) : \A i \in 1 .. k : s[i] \in Letters}
<1>1. Len(s) \in Nat
  BY LenProperties
<1>2. 0 \in D /\ D \subseteq 0 .. Len(s)
  BY <1>1
<1>3. PICK m \in D : m = Max(D) /\ \A k \in D : k <= m
  <2> HIDE DEF D
  <2>1. Max(D) \in D /\ \A k \in D : k <= Max(D)
    BY <1>1, <1>2, MaxIs
  <2>2. QED
    BY <2>1
<1>4. m \in 0 .. Len(s) /\ \A i \in 1 .. m : s[i] \in Letters
  BY <1>3
<1>5. ASSUME m < Len(s), s[m + 1] \in Letters
      PROVE  FALSE
  <2>1. m + 1 \in 0 .. Len(s) /\ \A i \in 1 .. m + 1 : i \in 1 .. m \/ i = m + 1
    BY <1>1, <1>4, <1>5
  <2>2. m + 1 \in D
    BY <1>4, <1>5, <2>1
  <2>3. m + 1 <= m
    BY <1>3, <2>2
  <2>4. QED
    BY <1>1, <1>4, <2>3
<1>6. Readable(s) = Upto(s, m)
  BY <1>3 DEF Readable
<1>7. /\ Upto(s, m) \in Seq(Chars) /\ Len(Upto(s, m)) = m
      /\ \A i \in 1 .. m : Upto(s, m)[i] = s[i]
  BY <1>4, CutAt DEF Upto
<1>8. QED
  BY <1>4, <1>5, <1>6, <1>7

(* The places after the @ of a mention.                                    *)
LEMMA AfterAt ==
  ASSUME NEW s \in Seq(Chars)
  PROVE  /\ Len(<<At>> \o s) = Len(s) + 1
         /\ (<<At>> \o s)[1] = At
         /\ \A i \in 1 .. Len(s) : (<<At>> \o s)[i + 1] = s[i]
<1>1. PICK a : a = <<At>>
  OBVIOUS
<1>2. a \in Seq(Chars) /\ Len(a) = 1 /\ a[1] = At
  BY <1>1 DEF Chars
<1>3. /\ Len(a \o s) = Len(a) + Len(s) /\ Len(s) \in Nat
      /\ \A i \in 1 .. Len(a) + Len(s) :
           (a \o s)[i] = IF i <= Len(a) THEN a[i] ELSE s[i - Len(a)]
  BY <1>2, ConcatProperties, LenProperties
<1>4. QED
  BY <1>1, <1>2, <1>3

LEMMA EditInvMentions == EditInv => CompletedIsMentioned
<1> DEFINE c == Chosen(tab)
           n == Readable(c)
<1> SUFFICES ASSUME EditInv, tab # NoTab, n # << >>, n = c => NameEnds(line, col, n)
             PROVE  Mentions(line, n)
  BY DEF CompletedIsMentioned
<1>1. LinesOK /\ TabShape(tab) /\ col = tab.start + 1 + Len(c)
      /\ SubSeq(line, tab.start + 1, col) = <<At>> \o c
  BY DEF EditInv, TabOK
<1>2. c \in Seq(Chars) /\ Len(c) \in Nat /\ tab.start \in Nat
  BY <1>1, ChosenIs, LenProperties DEF TabShape
<1> HIDE DEF c
<1>3. PICK m \in 0 .. Len(c) :
        /\ n \in Seq(Chars) /\ Len(n) = m /\ \A i \in 1 .. m : n[i] = c[i]
        /\ m < Len(c) => c[m + 1] \notin Letters
  BY <1>2, ReadableIs
<1> HIDE DEF n
<1>4. PICK i \in Nat : i = tab.start + 1
  BY <1>2
<1>5. line \in Seq(Chars) /\ Len(line) \in Nat /\ col <= Len(line) /\ col = i + Len(c) /\ i >= 1
  <2>1. line \in Seq(Chars) /\ Len(line) \in Nat /\ col <= Len(line)
    BY <1>1, TheLine
  <2>2. col = tab.start + 1 + Len(c)
    BY <1>1
  <2>3. col = i + Len(c) /\ i >= 1
    BY <1>2, <1>4, <2>2
  <2> QED BY <2>1, <2>3
<1>6. \A k \in 1 .. Len(line) : line[k] \in Chars
  BY <1>5, ElementOfSeq
<1>7. \A k \in 1 .. Len(c) + 1 : line[i + k - 1] = (<<At>> \o c)[k]
  <2>1. /\ i \in Int /\ col \in Int /\ col - i + 1 = Len(c) + 1
        /\ \A k \in i .. col : line[k] \in Chars
    BY <1>2, <1>5, <1>6
  <2>2. \A k \in 1 .. col - i + 1 : SubSeq(line, i, col)[k] = line[i + k - 1]
    BY <2>1, SubSeqProperties
  <2>3. SubSeq(line, i, col) = <<At>> \o c
    BY <1>1, <1>4
  <2>4. QED
    BY <2>1, <2>2, <2>3
<1>8. line[i] = At /\ \A k \in 1 .. Len(c) : line[i + k] = c[k]
  <2>1. line[i + 1 - 1] = At
    BY <1>2, <1>7, AfterAt
  <2>2. ASSUME NEW k \in 1 .. Len(c) PROVE line[i + k] = c[k]
    <3>1. k + 1 \in 1 .. Len(c) + 1 /\ i + (k + 1) - 1 = i + k
      BY <1>2
    <3>2. QED
      BY <1>2, <1>7, <3>1, AfterAt
  <2>3. i + 1 - 1 = i
    OBVIOUS
  <2>4. QED
    BY <2>1, <2>2, <2>3
<1>9. SubSeq(line, i, i + m) = <<At>> \o n
  <2>1. PICK u : u = SubSeq(line, i, i + m)
    OBVIOUS
  <2>2. PICK w : w = <<At>> \o n
    OBVIOUS
  <2>3. \A k \in i .. i + m : line[k] \in Chars
    BY <1>2, <1>3, <1>5, <1>6
  <2>4. /\ u \in Seq(Chars) /\ Len(u) = m + 1
        /\ \A k \in 1 .. m + 1 : u[k] = line[i + k - 1]
    <3>1. i + m - i + 1 = m + 1 /\ i <= i + m /\ i \in Int /\ i + m \in Int
      BY <1>2, <1>3
    <3>2. QED
      BY <2>1, <2>3, <3>1, SubSeqProperties
  <2>5. /\ w \in Seq(Chars) /\ Len(w) = m + 1 /\ w[1] = At
        /\ \A k \in 1 .. m : w[k + 1] = n[k]
    <3>1. <<At>> \in Seq(Chars)
      BY DEF Chars
    <3>2. QED
      BY <1>3, <2>2, <3>1, AfterAt, ConcatProperties
  <2>6. ASSUME NEW k \in 1 .. m + 1 PROVE u[k] = w[k]
    <3>1. CASE k = 1
      BY <1>8, <2>4, <2>5, <3>1
    <3>2. CASE k # 1
      <4>1. k - 1 \in 1 .. m /\ k - 1 \in 1 .. Len(c) /\ (k - 1) + 1 = k /\ i + (k - 1) = i + k - 1
        BY <1>2, <1>3, <3>2
      <4>2. u[k] = line[i + (k - 1)] /\ line[i + (k - 1)] = c[k - 1]
        BY <1>8, <2>4, <4>1
      <4>3. w[(k - 1) + 1] = n[k - 1] /\ n[k - 1] = c[k - 1]
        BY <1>3, <2>5, <4>1
      <4>4. QED
        BY <4>1, <4>2, <4>3
    <3>3. QED
      BY <3>1, <3>2
  <2>7. u = w
    BY <2>4, <2>5, <2>6, SeqEqual
  <2>8. QED
    BY <2>1, <2>2, <2>7
<1>10. NameEnds(line, i + m, n)
  <2>1. CASE m = Len(c)
    <3>1. n = c
      BY <1>2, <1>3, <2>1, SeqEqual
    <3>2. QED
      BY <1>5, <2>1, <3>1
  <2>2. CASE m # Len(c)
    <3>1. m < Len(c) /\ m + 1 \in 1 .. Len(c) /\ i + (m + 1) = i + m + 1
      BY <1>2, <1>3, <2>2
    <3>2. line[i + m + 1] \notin Letters
      BY <1>3, <1>8, <3>1
    <3>3. i + m \in i + m .. Len(line) /\ i + m + 1 .. i + m = {} /\ ~(i + m > i + m)
      BY <1>2, <1>3, <1>5
    <3>4. QED
      BY <3>2, <3>3 DEF NameEnds
  <2>3. QED
    BY <2>1, <2>2
<1>11. i \in 1 .. Len(line) - Len(n)
  BY <1>2, <1>3, <1>5
<1>12. QED
  BY <1>3, <1>9, <1>10, <1>11 DEF Mentions

(* Whatever the names, the text around and the keys, what _mention_tokens  *)
(* reads of a name that Tab has put in is mentioned by the post, if no     *)
(* code is quoted in it and no letter follows a name that is read whole    *)
(* (complete_mention, rawline.py:112-139, and thread.py:197-203).          *)
THEOREM CompletedMentioned == EditSpec => []CompletedIsMentioned
BY EditInvariant, EditInvMentions, PTL

(* The lines, each ended.                                                  *)
Ended(us) == [i \in DOMAIN us |-> Append(us[i], Break)]
Broken(us) == FlattenSeq(Ended(us))
Written == Chars \cup {Break}

LEMMA WrittenAre ==
  ASSUME NEW l \in Seq(Chars)
  PROVE  l \in Seq(Written) /\ Append(l, Break) \in Seq(Written)
<1>1. Seq(Chars) \subseteq Seq(Written) /\ Break \in Written
  BY SeqMonotonic DEF Written
<1>2. QED
  BY <1>1, AppendProperties

LEMMA EndedAre ==
  ASSUME NEW us \in Seq(Seq(Chars))
  PROVE  Ended(us) \in Seq(Seq(Written)) /\ Broken(us) \in Seq(Written)
<1>1. Len(us) \in Nat /\ DOMAIN us = 1 .. Len(us)
  BY LenProperties
<1>2. \A i \in 1 .. Len(us) : Append(us[i], Break) \in Seq(Written)
  BY WrittenAre, ElementOfSeq
<1>3. Ended(us) \in Seq(Seq(Written))
  BY <1>1, <1>2 DEF Ended
<1>4. QED
  BY <1>3, FlattenType DEF Broken

LEMMA GoesBefore ==
  ASSUME NEW S, NEW s \in Seq(S), NEW t \in Seq(S)
  PROVE  IsPrefix(s, s \o t)
<1>1. PICK u \in Seq(S) : u = s \o t
  BY ConcatProperties
<1>2. Len(u) = Len(s) + Len(t) /\ Len(s) \in Nat /\ Len(t) \in Nat /\ \A i \in 1 .. Len(s) : u[i] = s[i]
  BY <1>1, ConcatProperties, LenProperties
<1>3. Len(s) <= Len(u)
  BY <1>2
<1>4. SubSeq(s, 1, Len(s)) = SubSeq(u, 1, Len(s))
  BY <1>2
<1>5. QED
  BY <1>1, <1>3, <1>4 DEF IsPrefix

LEMMA PrefixIs ==
  ASSUME NEW S, NEW s \in Seq(S), NEW v \in Seq(S)
  PROVE  IsPrefix(s, v) <=> Len(s) <= Len(v) /\ Agree(s, v, Len(s))
<1>1. PICK m \in Nat, n \in Nat : m = Len(s) /\ n = Len(v)
  BY LenProperties
<1>2. ASSUME m <= n PROVE SubSeq(s, 1, m) = SubSeq(v, 1, m) <=> Agree(s, v, m)
  <2>1. PICK p, q : p = SubSeq(s, 1, m) /\ q = SubSeq(v, 1, m)
    OBVIOUS
  <2>2. p = [i \in 1 .. m |-> s[i]]
    BY <1>1, <2>1
  <2>3. q = [i \in 1 .. m |-> v[i]]
    BY <1>1, <1>2, <2>1
  <2>4. p = q <=> \A i \in 1 .. m : s[i] = v[i]
    BY <2>2, <2>3
  <2>5. QED
    BY <2>1, <2>4 DEF Agree
<1>3. QED
  BY <1>1, <1>2 DEF IsPrefix

LEMMA PrefixOfLonger ==
  ASSUME NEW S, NEW s \in Seq(S), NEW v \in Seq(S), NEW y \in Seq(S), IsPrefix(s, v)
  PROVE  IsPrefix(s, v \o y)
<1>1. PICK u \in Seq(S) : u = v \o y
  BY ConcatProperties
<1>2. PICK l \in Nat, m \in Nat, n \in Nat : l = Len(s) /\ m = Len(v) /\ n = Len(y)
  BY LenProperties
<1>3. Len(u) = m + n /\ \A i \in 1 .. m : u[i] = v[i]
  BY <1>1, <1>2, ConcatProperties
<1>4. l <= m /\ \A i \in 1 .. l : s[i] = v[i]
  BY <1>2, PrefixIs DEF Agree
<1>5. l <= Len(u) /\ \A i \in 1 .. l : s[i] = u[i]
  BY <1>3, <1>4
<1>6. IsPrefix(s, u)
  BY <1>2, <1>5, PrefixIs DEF Agree
<1>7. QED
  BY <1>1, <1>6

LEMMA PrefixAfter ==
  ASSUME NEW S, NEW b \in Seq(S), NEW s \in Seq(S), NEW v \in Seq(S), IsPrefix(s, v)
  PROVE  IsPrefix(b \o s, b \o v)
<1>1. PICK p \in Seq(S), q \in Seq(S) : p = b \o s /\ q = b \o v
  BY ConcatProperties
<1>2. PICK k \in Nat, l \in Nat, m \in Nat : k = Len(b) /\ l = Len(s) /\ m = Len(v)
  BY LenProperties
<1>3. Len(p) = k + l /\ \A i \in 1 .. k + l : p[i] = IF i <= k THEN b[i] ELSE s[i - k]
  BY <1>1, <1>2, ConcatProperties
<1>4. Len(q) = k + m /\ \A i \in 1 .. k + m : q[i] = IF i <= k THEN b[i] ELSE v[i - k]
  BY <1>1, <1>2, ConcatProperties
<1>5. l <= m /\ \A i \in 1 .. l : s[i] = v[i]
  BY <1>2, PrefixIs DEF Agree
<1>6. ASSUME NEW i \in 1 .. k + l PROVE p[i] = q[i]
  <2>1. i \in 1 .. k + m
    BY <1>5
  <2>2. i <= k \/ i - k \in 1 .. l
    OBVIOUS
  <2>3. QED
    BY <1>3, <1>4, <1>5, <2>1, <2>2
<1>7. k + l <= k + m
  BY <1>5
<1>8. IsPrefix(p, q)
  BY <1>3, <1>4, <1>6, <1>7, PrefixIs DEF Agree
<1>9. QED
  BY <1>1, <1>8

LEMMA GoesOnWith ==
  ASSUME NEW S, NEW b \in Seq(S), NEW s \in Seq(S), NEW t \in Seq(S), NEW x \in S,
         NEW w \in Seq(S), NEW y \in Seq(S)
  PROVE  IsPrefix(b \o s, ((b \o Append(s \o t, x)) \o w) \o y)
<1>1. PICK st \in Seq(S) : st = s \o t
  BY ConcatProperties
<1>2. IsPrefix(s, st)
  BY <1>1, GoesBefore
<1>3. PICK v \in Seq(S) : v = Append(st, x)
  BY AppendProperties
<1>4. IsPrefix(s, v)
  <2>1. PICK o \in Seq(S) : o = <<x>>
    <3>1. <<x>> \in Seq(S)
      OBVIOUS
    <3>2. QED
      BY <3>1
  <2>2. v = st \o o
    BY <1>3, <2>1, AppendIsConcat
  <2>3. QED
    BY <1>2, <2>2, PrefixOfLonger
<1>5. PICK bs \in Seq(S), bv \in Seq(S) : bs = b \o s /\ bv = b \o v
  BY ConcatProperties
<1>6. IsPrefix(bs, bv)
  BY <1>4, <1>5, PrefixAfter
<1>7. PICK vw \in Seq(S) : vw = bv \o w
  BY ConcatProperties
<1>8. IsPrefix(bs, vw)
  BY <1>6, <1>7, PrefixOfLonger
<1>9. IsPrefix(bs, vw \o y)
  BY <1>8, PrefixOfLonger
<1>10. QED
  BY <1>1, <1>3, <1>5, <1>7, <1>9

LEMMA TextIs ==
  ASSUME NEW us \in Seq(Seq(Chars)), NEW l \in Seq(Chars)
  PROVE  /\ Text(Append(us, l)) = Broken(us) \o l
         /\ Broken(Append(us, l)) = Broken(us) \o Append(l, Break)
<1>1. Len(us) \in Nat /\ DOMAIN us = 1 .. Len(us)
  BY LenProperties
<1>2. PICK n \in Nat : n = Len(us)
  BY <1>1
<1>3. PICK vs \in Seq(Seq(Chars)) : vs = Append(us, l)
  BY AppendProperties
<1>4. Len(vs) = n + 1 /\ DOMAIN vs = 1 .. n + 1 /\ vs[n + 1] = l /\ \A i \in 1 .. n : vs[i] = us[i]
  BY <1>2, <1>3, AppendProperties, LenProperties
<1>5. PICK es \in Seq(Seq(Written)) : es = Ended(us)
  BY EndedAre
<1>6. Len(es) = n /\ \A i \in 1 .. n : es[i] = Append(us[i], Break)
  BY <1>1, <1>2, <1>5 DEF Ended
<1>7. [i \in DOMAIN vs |-> IF i < Len(vs) THEN Append(vs[i], Break) ELSE vs[i]] = Append(es, l)
  <2>1. PICK g : g = [i \in 1 .. n + 1 |-> IF i < n + 1 THEN Append(vs[i], Break) ELSE vs[i]]
    OBVIOUS
  <2>2. \A i \in 1 .. n : i < n + 1 /\ i \in 1 .. n + 1
    OBVIOUS
  <2>3. g = [i \in 1 .. n + 1 |-> g[i]] /\ Agree(g, es, n)
    BY <1>4, <1>6, <2>1, <2>2 DEF Agree
  <2>4. g[n + 1] = l
    BY <1>4, <2>1
  <2>5. g = Append(es, l)
    BY <1>6, <2>3, <2>4, WrittenAre, AppendIs
  <2>6. QED
    BY <1>4, <2>1, <2>5
<1>8. Ended(vs) = Append(es, Append(l, Break))
  <2>1. PICK x \in Seq(Written) : x = Append(l, Break)
    BY WrittenAre
  <2>2. PICK g : g = [i \in 1 .. n + 1 |-> Append(vs[i], Break)]
    OBVIOUS
  <2>3. \A i \in 1 .. n : i \in 1 .. n + 1
    OBVIOUS
  <2>4. g = [i \in 1 .. n + 1 |-> g[i]] /\ Agree(g, es, n)
    BY <1>4, <1>6, <2>2, <2>3 DEF Agree
  <2>5. g[n + 1] = x
    BY <1>4, <2>1, <2>2
  <2>6. g = Append(es, x)
    BY <1>6, <2>4, <2>5, AppendIs
  <2>7. QED
    BY <1>4, <2>1, <2>2, <2>6 DEF Ended
<1>9. FlattenSeq(Append(es, l)) = FlattenSeq(es) \o l
      /\ FlattenSeq(Append(es, Append(l, Break))) = FlattenSeq(es) \o Append(l, Break)
  BY WrittenAre, FlattenAppend
<1>10. QED
  BY <1>3, <1>5, <1>7, <1>8, <1>9 DEF Text, Broken

LEMMA FrontOfConcat ==
  ASSUME NEW S, NEW s \in Seq(S), NEW t \in Seq(S), t # << >>
  PROVE  Front(s \o t) = s \o Front(t) /\ s \o Front(t) \in Seq(S)
<1>1. PICK f \in Seq(S), x \in S : f = Front(t) /\ t = Append(f, x)
  BY LastOne
<1>2. s \o Append(f, x) = Append(s \o f, x) /\ s \o f \in Seq(S)
  BY ConcatProperties
<1>3. Front(Append(s \o f, x)) = s \o f
  BY <1>2, LastAppended
<1>4. QED
  BY <1>1, <1>2, <1>3

LEMMA BrokenConcat ==
  ASSUME NEW xs \in Seq(Seq(Chars)), NEW ws \in Seq(Seq(Chars))
  PROVE  Broken(xs \o ws) = Broken(xs) \o Broken(ws)
<1>1. PICK m \in Nat, n \in Nat : m = Len(xs) /\ n = Len(ws)
  BY LenProperties
<1>2. PICK ys \in Seq(Seq(Chars)) : ys = xs \o ws
  BY ConcatProperties
<1>3. Len(ys) = m + n /\ DOMAIN ys = 1 .. m + n /\ (\A i \in 1 .. m : ys[i] = xs[i])
      /\ \A i \in 1 .. n : ys[m + i] = ws[i]
  BY <1>1, <1>2, ConcatProperties, LenProperties
<1>4. PICK es \in Seq(Seq(Written)), fs \in Seq(Seq(Written)), gs \in Seq(Seq(Written)) :
        es = Ended(xs) /\ fs = Ended(ws) /\ gs = Ended(ys)
  BY EndedAre
<1>5. DOMAIN xs = 1 .. m /\ DOMAIN ws = 1 .. n
  BY <1>1, LenProperties
<1>6. Len(es) = m /\ Len(fs) = n /\ Len(gs) = m + n
  BY <1>1, <1>3, <1>4, <1>5 DEF Ended
<1>7. \A i \in 1 .. m : es[i] = Append(xs[i], Break) /\ gs[i] = Append(ys[i], Break)
  <2>1. \A i \in 1 .. m : i \in 1 .. m + n
    BY <1>1
  <2>2. QED
    BY <1>3, <1>4, <1>5, <2>1 DEF Ended
<1>8. \A i \in 1 .. n : fs[i] = Append(ws[i], Break) /\ gs[m + i] = Append(ys[m + i], Break)
  <2>1. \A i \in 1 .. n : m + i \in 1 .. m + n
    BY <1>1
  <2>2. QED
    BY <1>3, <1>4, <1>5, <2>1 DEF Ended
<1>9. \A i \in 1 .. m + n : gs[i] = (es \o fs)[i]
  <2> SUFFICES ASSUME NEW i \in 1 .. m + n PROVE gs[i] = (es \o fs)[i]
    OBVIOUS
  <2>1. CASE i <= m
    <3>1. i \in 1 .. m
      BY <2>1
    <3>2. (es \o fs)[i] = es[i]
      BY <1>6, <3>1, ConcatProperties
    <3>3. QED
      BY <1>3, <1>7, <3>1, <3>2
  <2>2. CASE i > m
    <3>1. PICK k \in 1 .. n : i = m + k /\ k = i - m
      <4>1. i - m \in 1 .. n /\ i = m + (i - m)
        BY <1>1, <2>2
      <4>2. QED
        BY <4>1
    <3>2. (es \o fs)[i] = IF i <= Len(es) THEN es[i] ELSE fs[i - Len(es)]
      <4>1. \A j \in 1 .. Len(es) + Len(fs) :
              (es \o fs)[j] = IF j <= Len(es) THEN es[j] ELSE fs[j - Len(es)]
        BY ConcatProperties, Zenon
      <4>2. QED
        BY <1>6, <4>1
    <3>3. (es \o fs)[i] = fs[k]
      BY <1>6, <2>2, <3>1, <3>2
    <3>4. ys[m + k] = ws[k] /\ fs[k] = Append(ws[k], Break) /\ gs[m + k] = Append(ys[m + k], Break)
      BY <1>3, <1>8
    <3>5. gs[m + k] = fs[k]
      BY <3>4
    <3>6. QED
      BY <3>1, <3>3, <3>5
  <2>3. i <= m \/ i > m
    BY <1>1
  <2>4. QED
    BY <2>1, <2>2, <2>3
<1>10. es \o fs \in Seq(Seq(Written)) /\ Len(es \o fs) = m + n
  BY <1>6, ConcatProperties
<1>11. gs = es \o fs
  BY <1>6, <1>9, <1>10, SeqEqual
<1>12. QED
  BY <1>2, <1>4, <1>11, FlattenConcat DEF Broken

(* A text that goes on where another one is.                               *)
LEMMA TextGoesOn ==
  ASSUME NEW us \in Seq(Seq(Chars)), NEW s \in Seq(Chars), NEW t \in Seq(Chars),
         NEW vs \in Seq(Seq(Chars))
  PROVE  /\ IsPrefix(Text(Append(us, s)), Text(Append(us, s \o t)))
         /\ vs # << >> => IsPrefix(Text(Append(us, s)), Text(Append(us, s \o t) \o vs))
<1>1. s \o t \in Seq(Chars)
  BY ConcatProperties
<1>2. PICK b \in Seq(Written) : b = Broken(us)
  BY EndedAre
<1>3. s \in Seq(Written) /\ t \in Seq(Written)
  BY WrittenAre
<1>4. Text(Append(us, s)) = b \o s /\ b \o s \in Seq(Written)
  BY <1>2, <1>3, TextIs, ConcatProperties
<1>5. Text(Append(us, s \o t)) = b \o (s \o t)
  BY <1>1, <1>2, TextIs
<1>6. b \o (s \o t) = (b \o s) \o t
  BY <1>2, <1>3
<1>7. ASSUME vs # << >> PROVE IsPrefix(b \o s, Text(Append(us, s \o t) \o vs))
  <2>1. PICK ws \in Seq(Seq(Chars)), l \in Seq(Chars) : vs = Append(ws, l)
    BY <1>7, LastOne
  <2>2. PICK xs \in Seq(Seq(Chars)) : xs = Append(us, s \o t)
    BY <1>1, AppendProperties
  <2>3. xs \o vs = Append(xs \o ws, l) /\ xs \o ws \in Seq(Seq(Chars))
    BY <2>1, <2>2, ConcatProperties
  <2>4. Text(xs \o vs) = Broken(xs \o ws) \o l
    BY <2>3, TextIs
  <2>5. Broken(xs \o ws) = Broken(xs) \o Broken(ws)
    BY <2>1, <2>2, BrokenConcat
  <2>6. Broken(xs) = b \o Append(s \o t, Break)
    BY <1>1, <1>2, <2>2, TextIs
  <2>7. PICK w \in Seq(Written), y \in Seq(Written) : w = Broken(ws) /\ y = l
    BY <2>1, EndedAre, WrittenAre
  <2>8. PICK x \in Written : x = Break
    BY DEF Written
  <2>9. Text(xs \o vs) = ((b \o Append(s \o t, x)) \o w) \o y
    BY <2>4, <2>5, <2>6, <2>7, <2>8
  <2>10. IsPrefix(b \o s, ((b \o Append(s \o t, x)) \o w) \o y)
    BY <1>3, GoesOnWith
  <2>11. QED
    BY <2>2, <2>9, <2>10
<1>8. QED
  BY <1>3, <1>4, <1>5, <1>6, <1>7, GoesBefore

LEMMA EditStepAtCursor ==
  ASSUME EditInv, EditNext
  PROVE  EditAtCursor
<1> USE DEF EditInv
<1>1. /\ Front(lines) \in Seq(Seq(Chars)) /\ line \in Seq(Chars)
      /\ Before \in Seq(Chars) /\ lines = Append(Front(lines), line)
  BY TheLine
<1>2. PICK fr \in Seq(Seq(Chars)), bf \in Seq(Chars) : fr = Front(lines) /\ bf = Before
  BY <1>1
<1>3. PICK b \in Seq(Written) : b = Broken(fr)
  BY EndedAre
<1>4. Text(WithLine(Before)) = Text(Append(fr, bf))
  BY <1>2 DEF WithLine
<1>5. Text(lines) = b \o line
  BY <1>1, <1>2, <1>3, TextIs
<1>6. ASSUME NEW c \in Chars, AppendChar(c) PROVE EditAtCursor
  <2>1. Front(lines') = fr /\ After' = After /\ Before' = Append(bf, c)
    BY <1>2, <1>6, AppendCharDoes
  <2>2. Append(bf, c) = bf \o <<c>> /\ <<c>> \in Seq(Chars)
    BY AppendIsConcat
  <2>3. Text(WithLine(Before))' = Text(Append(fr, bf \o <<c>>))
    BY <2>1, <2>2 DEF WithLine, Text
  <2>4. IsPrefix(Text(WithLine(Before)), Text(WithLine(Before))')
    BY <1>4, <2>2, <2>3, TextGoesOn
  <2>5. QED
    BY <2>1, <2>4 DEF EditAtCursor
<1>7. CASE Backspace
  <2>1. CASE /\ Front(lines') = Front(lines) /\ After' = After
             /\ Before # << >> /\ Before' = Front(Before)
    <3>1. Front(bf) \in Seq(Chars)
      BY <1>2, <2>1, LastOne
    <3>2. Text(WithLine(Before))' = Text(Append(fr, Front(bf)))
      BY <1>2, <2>1 DEF WithLine, Text
    <3>3. Text(Append(fr, Front(bf))) = b \o Front(bf) /\ Text(Append(fr, bf)) = b \o bf
      BY <1>3, <3>1, TextIs
    <3>4. Front(b \o bf) = b \o Front(bf)
      BY <1>2, <2>1, WrittenAre, FrontOfConcat
    <3>5. QED
      BY <1>4, <2>1, <3>2, <3>3, <3>4 DEF EditAtCursor
  <2>2. CASE lines' = Front(lines) /\ col = 0
    BY <2>2 DEF EditAtCursor
  <2>3. QED
    BY <1>7, <2>1, <2>2, BackspaceDoes
<1>8. CASE Move
  BY <1>8, MoveDoes DEF EditAtCursor
<1>9. CASE NewLine
  <2>1. lines' = Append(Append(fr, line), << >>)
    BY <1>1, <1>2, <1>9, NewLineDoes
  <2>2. Append(fr, line) \in Seq(Seq(Chars)) /\ << >> \in Seq(Chars)
    BY <1>1, AppendProperties
  <2>3. Text(Append(Append(fr, line), << >>)) = (b \o Append(line, Break)) \o << >>
    BY <1>1, <1>3, <2>2, TextIs
  <2>4. (b \o Append(line, Break)) \o << >> = Append(b \o line, Break)
    <3>1. PICK l \in Seq(Written) : l = line
      BY <1>1, WrittenAre
    <3>2. PICK x \in Written : x = Break
      BY DEF Written
    <3>3. Append(l, x) \in Seq(Written) /\ b \o Append(l, x) = Append(b \o l, x)
      BY AppendProperties
    <3>4. b \o Append(l, x) \in Seq(Written)
      BY <3>3, ConcatProperties
    <3>5. (b \o Append(l, x)) \o << >> = b \o Append(l, x)
      BY <3>4, ConcatEmptySeq
    <3>6. QED
      BY <3>1, <3>2, <3>3, <3>5
  <2>5. Text(lines)' = Append(Text(lines), Break)
    BY <1>5, <2>1, <2>3, <2>4 DEF Text
  <2>6. QED
    BY <2>5 DEF EditAtCursor
<1>10. CASE CompleteMention
  <2>1. PICK t : TabShape(t) /\ t.start < col /\ Completed(t)
    BY <1>10, CompleteMentionDoes
  <2>2. PICK m \in Nat : m = t.start
    BY <2>1 DEF TabShape
  <2>3. PICK u \in Seq(Chars), w \in Seq(Chars) :
          u = Upto(line, m) /\ w = <<At>> \o Chosen(t)
    <3>1. m \in 0 .. Len(line)
      <4>1. Len(line) \in Nat /\ col \in Nat /\ col <= Len(line)
        BY TheLine
      <4>2. QED
        BY <2>1, <2>2, <4>1
    <3>2. Upto(line, m) \in Seq(Chars)
      BY <1>1, <3>1, CutAt
    <3>3. <<At>> \o Chosen(t) \in Seq(Chars)
      <4>1. <<At>> \in Seq(Chars)
        BY DEF Chars
      <4>2. QED
        BY <2>1, <4>1, ChosenIs, ConcatProperties
    <3>4. QED
      BY <3>2, <3>3
  <2>4. /\ tab' = t /\ tab' # NoTab /\ Front(lines') = fr /\ After' = After
        /\ Before' = u \o w
    BY <1>2, <2>1, <2>2, <2>3, CompletedDoes
  <2>5. Text(WithLine(Before))' = Text(Append(fr, u \o w))
    BY <2>4 DEF WithLine, Text
  <2>6. Text(WithLine(Upto(line, tab'.start))) = Text(Append(fr, u))
    BY <1>2, <2>2, <2>3, <2>4 DEF WithLine
  <2>7. IsPrefix(Text(WithLine(Upto(line, tab'.start))), Text(WithLine(Before))')
    BY <2>5, <2>6, TextGoesOn
  <2>8. QED
    BY <2>4, <2>7 DEF EditAtCursor
<1>11. ASSUME NEW p \in Pastes, PasteExtend(p) PROVE EditAtCursor
  <2>1. After' = After /\ WithLine(Before)' = Pasted(p)
        /\ p[1] \in Seq(Chars) /\ Tail(p) \in Seq(Seq(Chars))
    BY <1>11, PasteDoes
  <2>2. Text(WithLine(Before))' = Text(Pasted(p))
    BY <2>1 DEF Text
  <2>3. PICK h \in Seq(Chars), tl \in Seq(Seq(Chars)) : h = p[1] /\ tl = Tail(p)
    BY <2>1
  <2>4. CASE Len(p) = 1
    <3>1. Pasted(p) = Append(fr, bf \o h)
      BY <1>2, <2>3, <2>4 DEF Pasted, WithLine
    <3>2. IsPrefix(Text(Append(fr, bf)), Text(Append(fr, bf \o h)))
      BY TextGoesOn
    <3>3. QED
      BY <1>4, <2>1, <2>2, <3>1, <3>2 DEF EditAtCursor
  <2>5. CASE Len(p) # 1
    <3>1. bf \o h \in Seq(Chars)
      BY ConcatProperties
    <3>2. Pasted(p) = Append(fr, bf \o h) \o tl
      BY <1>2, <2>3, <2>5, <3>1, AppendIsConcat DEF Pasted
    <3>3. tl # << >>
      <4>1. p \in Seq(Seq(Chars)) /\ p # << >>
        BY PastesAre
      <4>2. Len(p) \in Nat /\ Len(p) # 0 /\ Len(tl) = Len(p) - 1
        BY <2>3, <4>1, EmptySeq, HeadTailProperties
      <4>3. Len(tl) # 0
        BY <2>5, <4>2
      <4>4. QED
        BY <4>3, EmptySeq
    <3>4. IsPrefix(Text(Append(fr, bf)), Text(Append(fr, bf \o h) \o tl))
      BY <3>3, TextGoesOn
    <3>5. QED
      BY <1>4, <2>1, <2>2, <3>2, <3>4 DEF EditAtCursor
  <2>6. QED
    BY <2>4, <2>5
<1>12. CASE Escape
  BY <1>12, EscapeDoes DEF EditAtCursor
<1>13. CASE EnterKey
  <2>1. CASE UNCHANGED <<lines, col, tab>>
    BY <2>1 DEF EditAtCursor
  <2>2. CASE /\ line # << >> /\ Last(line) = Backslash
             /\ lines' = Append(WithLine(Front(line)), << >>)
    <3>1. PICK l \in Seq(Chars) : l = Front(line)
      BY <1>1, <2>2, LastOne
    <3>2. lines' = Append(Append(fr, l), << >>) /\ Append(fr, l) \in Seq(Seq(Chars)) /\ << >> \in Seq(Chars)
      BY <1>2, <2>2, <3>1, AppendProperties DEF WithLine
    <3>3. Text(Append(Append(fr, l), << >>)) = (b \o Append(l, Break)) \o << >>
      BY <1>3, <3>2, TextIs
    <3>4. PICK k \in Seq(Written) : k = l
      BY WrittenAre
    <3>5. PICK x \in Written : x = Break
      BY DEF Written
    <3>6. Append(k, x) \in Seq(Written) /\ b \o Append(k, x) = Append(b \o k, x)
      BY AppendProperties
    <3>7. b \o Append(k, x) \in Seq(Written)
      BY <3>6, ConcatProperties
    <3>8. (b \o Append(k, x)) \o << >> = b \o Append(k, x)
      BY <3>7, ConcatEmptySeq
    <3>9. Front(b \o line) = b \o k
      BY <1>1, <2>2, <3>1, <3>4, WrittenAre, FrontOfConcat
    <3>10. Text(lines)' = Append(Front(Text(lines)), Break)
      BY <1>5, <3>2, <3>3, <3>4, <3>5, <3>6, <3>8, <3>9 DEF Text
    <3>11. QED
      BY <2>2, <3>10 DEF EditAtCursor
  <2>3. QED
    BY <1>13, <2>1, <2>2, EnterDoes
<1>14. CASE Abandon \/ Refresh
  BY <1>14 DEF Abandon, Refresh, EditAtCursor
<1>15. QED
  BY <1>6, <1>7, <1>8, <1>9, <1>10, <1>11, <1>12, <1>13, <1>14 DEF EditNext

(* Every key and every paste changes the text at the cursor only: what is  *)
(* before it and after it stays, but for what EditAtCursor lists: a removed*)
(* character, a completed token, a backslash, a removed last line          *)
(* (rawline.py:53-156).                                                    *)
THEOREM KeysEditAtCursor == EditSpec => EditsAtCursor
<1>1. EditInv /\ [EditNext]_editVars => [EditAtCursor]_editVars
  BY EditStepAtCursor
<1>2. QED
  BY EditInvariant, <1>1, PTL DEF EditSpec, EditsAtCursor

-----------------------------------------------------------------------------
(* What the recursive functions that strip a text compute: at i, nothing,  *)
(* or what they compute further on, where nx says, with s[i] before it if  *)
(* i is in A.                                                              *)

ChainAt(s, nx, A, f, i) ==
  IF nx[i] = 0 THEN << >> ELSE IF i \in A THEN <<s[i]>> \o f[nx[i]] ELSE f[nx[i]]
Chain(s, nx, A, n, m, f) == f = [i \in n .. m |-> ChainAt(s, nx, A, f, i)]
Ahead(nx, m) == \A i \in 1 .. m : nx[i] = 0 \/ nx[i] \in i + 1 .. m

LEMMA ChainIs ==
  ASSUME NEW s, NEW nx, NEW A, NEW n, NEW m, NEW f, Chain(s, nx, A, n, m, f), NEW i \in n .. m
  PROVE  f[i] = ChainAt(s, nx, A, f, i)
<1> DEFINE g == [j \in n .. m |-> ChainAt(s, nx, A, f, j)]
<1>1. g[i] = ChainAt(s, nx, A, f, i)
  OBVIOUS
<1>2. f = g
  BY Zenon DEF Chain
<1> HIDE DEF g
<1>3. QED
  BY <1>1, <1>2

LEMMA ChainExists ==
  ASSUME NEW s, NEW nx, NEW A, NEW m \in Nat, Ahead(nx, m)
  PROVE  \E f : Chain(s, nx, A, 1, m, f)
<1> DEFINE N == {k \in Nat : k <= m => \E f : Chain(s, nx, A, m - k + 1, m, f)}
<1>1. 0 \in N
  <2>1. Chain(s, nx, A, m + 1, m, [i \in m + 1 .. m |-> << >>])
    BY DEF Chain
  <2>2. QED
    BY <2>1
<1>2. ASSUME NEW k \in N PROVE k + 1 \in N
  <2> SUFFICES ASSUME k + 1 <= m PROVE \E f : Chain(s, nx, A, m - (k + 1) + 1, m, f)
    OBVIOUS
  <2>1. PICK n \in Nat : n = m - k
    OBVIOUS
  <2>2. n >= 1 /\ n <= m /\ m - k + 1 = n + 1 /\ m - (k + 1) + 1 = n
    BY <2>1
  <2>3. PICK f : Chain(s, nx, A, n + 1, m, f)
    BY <2>2
  <2> DEFINE h == [i \in n .. m |-> ChainAt(s, nx, A, f, i)]
  <2>4. ASSUME NEW i \in n + 1 .. m PROVE h[i] = f[i]
    <3>1. h[i] = ChainAt(s, nx, A, f, i)
      OBVIOUS
    <3>2. f[i] = ChainAt(s, nx, A, f, i)
      BY <2>3, ChainIs
    <3> HIDE DEF h
    <3>3. QED
      BY <3>1, <3>2
  <2>5. ASSUME NEW i \in n .. m PROVE ChainAt(s, nx, A, h, i) = ChainAt(s, nx, A, f, i)
    <3> HIDE DEF h
    <3>1. i \in 1 .. m
      BY <2>2
    <3>2. nx[i] = 0 \/ nx[i] \in n + 1 .. m
      BY <3>1 DEF Ahead
    <3>3. CASE nx[i] = 0
      BY <3>3 DEF ChainAt
    <3>4. CASE nx[i] \in n + 1 .. m
      <4>1. h[nx[i]] = f[nx[i]]
        BY <2>4, <3>4
      <4>2. QED
        BY <4>1 DEF ChainAt
    <3>5. QED
      BY <3>2, <3>3, <3>4
  <2>6. h = [i \in n .. m |-> ChainAt(s, nx, A, h, i)]
    BY <2>5
  <2>7. Chain(s, nx, A, n, m, h)
    BY <2>6, Zenon DEF Chain
  <2>8. QED
    BY <2>2, <2>7
<1>3. N = Nat
  <2> HIDE DEF N
  <2>1. N \subseteq Nat
    BY DEF N
  <2>2. QED
    BY <1>1, <1>2, <2>1, CountingUp
<1>4. m \in N
  BY <1>3
<1>5. QED
  BY <1>4

-----------------------------------------------------------------------------
(* The two ways to strip a post                                            *)

FencedAt(ls, from, i) ==
  IF i > Len(ls) THEN << >>
  ELSE IF ~Opens(ls[i]) THEN <<ls[i]>> \o from[i + 1]
  ELSE LET closers == {j \in i + 1 .. Len(ls) : Closes(ls[j], ls[i][1])}
       IN IF closers = {} THEN << >> ELSE from[Min(closers) + 1]
Fenced(ls, from) == from = [i \in 1 .. Len(ls) + 1 |-> FencedAt(ls, from, i)]

LEMMA FencedIs ==
  ASSUME NEW ls, NEW from, Fenced(ls, from), NEW i \in 1 .. Len(ls) + 1
  PROVE  from[i] = FencedAt(ls, from, i)
<1> DEFINE g == [j \in 1 .. Len(ls) + 1 |-> FencedAt(ls, from, j)]
<1>1. g[i] = FencedAt(ls, from, i)
  OBVIOUS
<1>2. from = g
  BY Zenon DEF Fenced
<1> HIDE DEF g
<1>3. QED
  BY <1>1, <1>2

LEMMA FencedExists ==
  ASSUME NEW S, NEW ls \in Seq(S)
  PROVE  \E from : Fenced(ls, from) /\ StripFencedCodeBlocks(ls) = from[1]
<1>1. PICK n \in Nat : n = Len(ls)
  BY LenProperties
<1> DEFINE C(i) == {j \in i + 1 .. n : Closes(ls[j], ls[i][1])}
           nx == [i \in 1 .. n + 1 |-> IF i > n THEN 0 ELSE IF ~Opens(ls[i]) THEN i + 1
                                       ELSE IF C(i) = {} THEN 0 ELSE Min(C(i)) + 1]
           A == {i \in 1 .. n : ~Opens(ls[i])}
<1>2. ASSUME NEW i \in 1 .. n + 1 PROVE nx[i] = 0 \/ nx[i] \in i + 1 .. n + 1
  <2>1. nx[i] = IF i > n THEN 0 ELSE IF ~Opens(ls[i]) THEN i + 1
                ELSE IF C(i) = {} THEN 0 ELSE Min(C(i)) + 1
    OBVIOUS
  <2>2. PICK D : D = C(i)
    OBVIOUS
  <2>3. D \subseteq Nat /\ D \subseteq i + 1 .. n
    BY <2>2
  <2>4. D # {} => Min(D) \in i + 1 .. n
    BY <2>3, MinIs
  <2> HIDE DEF C, nx
  <2>5. CASE i > n
    BY <2>1, <2>5
  <2>6. CASE i <= n /\ ~Opens(ls[i])
    BY <2>1, <2>6
  <2>7. CASE i <= n /\ Opens(ls[i]) /\ D = {}
    BY <2>1, <2>2, <2>7
  <2>8. CASE i <= n /\ Opens(ls[i]) /\ D # {}
    <3>1. PICK k \in i + 1 .. n : k = Min(D)
      BY <2>4, <2>8
    <3>2. nx[i] = k + 1
      BY <2>1, <2>2, <2>8, <3>1
    <3>3. QED
      BY <3>1, <3>2
  <2>9. QED
    BY <2>5, <2>6, <2>7, <2>8
<1>3. Ahead(nx, n + 1)
  BY <1>2 DEF Ahead
<1>4. PICK from : Chain(ls, nx, A, 1, n + 1, from)
  <2> HIDE DEF nx, A
  <2>1. n + 1 \in Nat
    OBVIOUS
  <2>2. QED
    BY <1>3, <2>1, ChainExists
<1>5. ASSUME NEW i \in 1 .. n + 1 PROVE ChainAt(ls, nx, A, from, i) = FencedAt(ls, from, i)
  <2>1. nx[i] = IF i > n THEN 0 ELSE IF ~Opens(ls[i]) THEN i + 1
                ELSE IF C(i) = {} THEN 0 ELSE Min(C(i)) + 1
    OBVIOUS
  <2>2. i \in A <=> i <= n /\ ~Opens(ls[i])
    OBVIOUS
  <2>3. PICK D : D = C(i) /\ D = {j \in i + 1 .. Len(ls) : Closes(ls[j], ls[i][1])}
    BY <1>1
  <2>4. nx[i] = 0 \/ nx[i] \in i + 1 .. n + 1
    BY <1>2
  <2> HIDE DEF C, nx, A
  <2>5. CASE i > n
    BY <1>1, <2>1, <2>5 DEF ChainAt, FencedAt
  <2>6. CASE i <= n /\ ~Opens(ls[i])
    <3>1. nx[i] = i + 1 /\ nx[i] # 0 /\ i \in A
      BY <2>1, <2>2, <2>6
    <3>2. QED
      BY <1>1, <2>6, <3>1 DEF ChainAt, FencedAt
  <2>7. CASE i <= n /\ Opens(ls[i]) /\ D = {}
    <3>1. nx[i] = 0
      BY <2>1, <2>3, <2>7
    <3>2. ChainAt(ls, nx, A, from, i) = << >>
      BY <3>1 DEF ChainAt
    <3>3. FencedAt(ls, from, i) = << >>
      BY <1>1, <2>3, <2>7 DEF FencedAt
    <3>4. QED
      BY <3>2, <3>3
  <2>8. CASE i <= n /\ Opens(ls[i]) /\ D # {}
    <3>1. nx[i] = Min(D) + 1 /\ i \notin A
      BY <2>1, <2>2, <2>3, <2>8
    <3>2. nx[i] # 0
      <4>1. D \subseteq Nat /\ D \subseteq i + 1 .. n
        BY <1>1, <2>3
      <4>2. PICK k \in i + 1 .. n : k = Min(D)
        BY <2>8, <4>1, MinIs
      <4>3. QED
        BY <3>1, <4>2
    <3>3. ChainAt(ls, nx, A, from, i) = from[Min(D) + 1]
      BY <3>1, <3>2 DEF ChainAt
    <3>4. FencedAt(ls, from, i) = from[Min(D) + 1]
      BY <1>1, <2>3, <2>8 DEF FencedAt
    <3>5. QED
      BY <3>3, <3>4
  <2>9. QED
    BY <2>5, <2>6, <2>7, <2>8
<1>6. \E f : Fenced(ls, f)
  <2> HIDE DEF nx, A
  <2>1. from = [i \in 1 .. n + 1 |-> ChainAt(ls, nx, A, from, i)]
    BY <1>4, Zenon DEF Chain
  <2>2. [i \in 1 .. n + 1 |-> ChainAt(ls, nx, A, from, i)]
          = [i \in 1 .. n + 1 |-> FencedAt(ls, from, i)]
    BY <1>5
  <2>3. from = [i \in 1 .. n + 1 |-> FencedAt(ls, from, i)]
    BY <2>1, <2>2, Zenon
  <2>4. QED
    BY <1>1, <2>3, Zenon DEF Fenced
<1>7. QED
  BY <1>6, Zenon DEF Fenced, FencedAt, StripFencedCodeBlocks
InlineAt(ts, from, i) ==
  IF i > Len(ts) THEN << >>
  ELSE LET closers == {j \in i + 1 .. Len(ts) : Pairs(ts[i], ts[j])}
       IN IF IsRun(ts[i], Backtick) /\ closers # {} THEN from[Min(closers) + 1]
          ELSE <<ts[i]>> \o from[i + 1]
Inline(ts, from) == from = [i \in 1 .. Len(ts) + 1 |-> InlineAt(ts, from, i)]

LEMMA InlineIs ==
  ASSUME NEW ts, NEW from, Inline(ts, from), NEW i \in 1 .. Len(ts) + 1
  PROVE  from[i] = InlineAt(ts, from, i)
<1> DEFINE g == [j \in 1 .. Len(ts) + 1 |-> InlineAt(ts, from, j)]
<1>1. g[i] = InlineAt(ts, from, i)
  OBVIOUS
<1>2. from = g
  BY Zenon DEF Inline
<1> HIDE DEF g
<1>3. QED
  BY <1>1, <1>2

LEMMA InlineExists ==
  ASSUME NEW S, NEW ts \in Seq(S)
  PROVE  \E from : Inline(ts, from) /\ StripInlineCodeSpans(ts) = from[1]
<1>1. PICK n \in Nat : n = Len(ts)
  BY LenProperties
<1> DEFINE C(i) == {j \in i + 1 .. n : Pairs(ts[i], ts[j])}
           nx == [i \in 1 .. n + 1 |-> IF i > n THEN 0
                                       ELSE IF IsRun(ts[i], Backtick) /\ C(i) # {} THEN Min(C(i)) + 1
                                       ELSE i + 1]
           A == {i \in 1 .. n : ~(IsRun(ts[i], Backtick) /\ C(i) # {})}
<1>2. ASSUME NEW i \in 1 .. n + 1 PROVE nx[i] = 0 \/ nx[i] \in i + 1 .. n + 1
  <2>1. nx[i] = IF i > n THEN 0
                ELSE IF IsRun(ts[i], Backtick) /\ C(i) # {} THEN Min(C(i)) + 1 ELSE i + 1
    OBVIOUS
  <2>2. PICK D : D = C(i)
    OBVIOUS
  <2>3. D \subseteq Nat /\ D \subseteq i + 1 .. n
    BY <2>2
  <2>4. D # {} => Min(D) \in i + 1 .. n
    BY <2>3, MinIs
  <2> HIDE DEF C, nx
  <2>5. CASE i > n
    BY <2>1, <2>5
  <2>6. CASE i <= n /\ ~(IsRun(ts[i], Backtick) /\ D # {})
    BY <2>1, <2>2, <2>6
  <2>7. CASE i <= n /\ IsRun(ts[i], Backtick) /\ D # {}
    <3>1. PICK k \in i + 1 .. n : k = Min(D)
      BY <2>4, <2>7
    <3>2. nx[i] = k + 1
      BY <2>1, <2>2, <2>7, <3>1
    <3>3. QED
      BY <3>1, <3>2
  <2>8. QED
    BY <2>5, <2>6, <2>7
<1>3. Ahead(nx, n + 1)
  BY <1>2 DEF Ahead
<1>4. PICK from : Chain(ts, nx, A, 1, n + 1, from)
  <2> HIDE DEF nx, A
  <2>1. n + 1 \in Nat
    OBVIOUS
  <2>2. QED
    BY <1>3, <2>1, ChainExists
<1>5. ASSUME NEW i \in 1 .. n + 1 PROVE ChainAt(ts, nx, A, from, i) = InlineAt(ts, from, i)
  <2>1. nx[i] = IF i > n THEN 0
                ELSE IF IsRun(ts[i], Backtick) /\ C(i) # {} THEN Min(C(i)) + 1 ELSE i + 1
    OBVIOUS
  <2>2. i \in A <=> i <= n /\ ~(IsRun(ts[i], Backtick) /\ C(i) # {})
    OBVIOUS
  <2>3. PICK D : D = C(i) /\ D = {j \in i + 1 .. Len(ts) : Pairs(ts[i], ts[j])}
    BY <1>1
  <2>4. nx[i] = 0 \/ nx[i] \in i + 1 .. n + 1
    BY <1>2
  <2> HIDE DEF C, nx, A
  <2>5. CASE i > n
    BY <1>1, <2>1, <2>5 DEF ChainAt, InlineAt
  <2>6. CASE i <= n /\ ~(IsRun(ts[i], Backtick) /\ D # {})
    <3>1. nx[i] = i + 1 /\ nx[i] # 0 /\ i \in A
      BY <2>1, <2>2, <2>3, <2>6
    <3>2. ChainAt(ts, nx, A, from, i) = <<ts[i]>> \o from[i + 1]
      BY <3>1 DEF ChainAt
    <3>3. InlineAt(ts, from, i) = <<ts[i]>> \o from[i + 1]
      BY <1>1, <2>3, <2>6 DEF InlineAt
    <3>4. QED
      BY <3>2, <3>3
  <2>7. CASE i <= n /\ IsRun(ts[i], Backtick) /\ D # {}
    <3>1. nx[i] = Min(D) + 1 /\ i \notin A
      BY <2>1, <2>2, <2>3, <2>7
    <3>2. nx[i] # 0
      <4>1. D \subseteq Nat /\ D \subseteq i + 1 .. n
        BY <1>1, <2>3
      <4>2. PICK k \in i + 1 .. n : k = Min(D)
        BY <2>7, <4>1, MinIs
      <4>3. QED
        BY <3>1, <4>2
    <3>3. ChainAt(ts, nx, A, from, i) = from[Min(D) + 1]
      BY <3>1, <3>2 DEF ChainAt
    <3>4. InlineAt(ts, from, i) = from[Min(D) + 1]
      BY <1>1, <2>3, <2>7 DEF InlineAt
    <3>5. QED
      BY <3>3, <3>4
  <2>8. QED
    BY <2>5, <2>6, <2>7
<1>6. \E f : Inline(ts, f)
  <2> HIDE DEF nx, A
  <2>1. from = [i \in 1 .. n + 1 |-> ChainAt(ts, nx, A, from, i)]
    BY <1>4, Zenon DEF Chain
  <2>2. [i \in 1 .. n + 1 |-> ChainAt(ts, nx, A, from, i)]
          = [i \in 1 .. n + 1 |-> InlineAt(ts, from, i)]
    BY <1>5
  <2>3. from = [i \in 1 .. n + 1 |-> InlineAt(ts, from, i)]
    BY <2>1, <2>2, Zenon
  <2>4. QED
    BY <1>1, <2>3, Zenon DEF Inline
<1>7. QED
  BY <1>6, Zenon DEF Inline, InlineAt, StripInlineCodeSpans

MsgInv == post \in Seq(Seq(Tokens)) /\ post # << >>

LEMMA MsgInvStep ==
  ASSUME MsgInv, [MsgNext]_post
  PROVE  MsgInv'
<1> USE DEF MsgInv
<1>1. ASSUME NEW l \in Seq(Tokens), NEW ls \in Seq(Seq(Tokens)), post' = Append(ls, l)
      PROVE  MsgInv'
  BY <1>1, AppendProperties, SMTT(30)
<1>2. CASE post' = Append(post, << >>)
  <2>1. << >> \in Seq(Tokens)
    OBVIOUS
  <2>2. QED
    BY <1>1, <1>2, <2>1
<1>3. ASSUME NEW t \in Tokens, post' = Append(Front(post), Append(Last(post), t))
      PROVE  MsgInv'
  <2>1. Front(post) \in Seq(Seq(Tokens)) /\ Last(post) \in Seq(Tokens)
    BY LastOne
  <2>2. Append(Last(post), t) \in Seq(Tokens)
    BY <2>1, AppendProperties
  <2>3. QED
    BY <1>1, <1>3, <2>1, <2>2
<1>4. CASE UNCHANGED post
  BY <1>4
<1>5. QED
  BY <1>2, <1>3, <1>4 DEF MsgNext

LEMMA MsgInvInit == MsgInit => MsgInv
<1>1. << << >> >> \in Seq(Seq(Tokens)) /\ << << >> >> # << >>
  OBVIOUS
<1>2. QED
  BY <1>1 DEF MsgInit, MsgInv

LEMMA TokensAre ==
  /\ \A t \in Tokens : t.n \in Nat
  /\ \A w \in Who : Name(w) \in Tokens /\ Name(w).char = "@" /\ Name(w).name = w /\ Name(w).n = 0
  /\ Plain \in Tokens /\ Plain.char = "-" /\ Plain.n = 0
  /\ \A c, n : Run(c, n).char = c /\ Run(c, n).n = n
<1>1. \A c, n : Run(c, n).char = c /\ Run(c, n).n = n
  BY DEF Run
<1>2. \A w : Name(w).char = "@" /\ Name(w).name = w /\ Name(w).n = 0
  BY DEF Name
<1>3. Plain.char = "-" /\ Plain.n = 0
  BY DEF Plain
<1>4. ASSUME NEW t \in Tokens PROVE t.n \in Nat
  <2>1. (\E c \in {Backtick, Tilde} : \E n \in Runs : t = Run(c, n)) \/ (\E w \in Who : t = Name(w)) \/ t = Plain
    BY DEF Tokens
  <2>2. \A n \in Runs : n \in Nat
    BY MentionsAssumption
  <2>3. QED
    BY <1>1, <1>2, <1>3, <2>1, <2>2
<1>5. Plain \in Tokens /\ \A w \in Who : Name(w) \in Tokens
  BY DEF Tokens
<1>6. QED
  BY <1>1, <1>2, <1>3, <1>4, <1>5

(* There is a longest run.                                                 *)
LEMMA RunsEnd ==
  ASSUME NEW s \in Seq(Tokens)
  PROVE  \E b \in Nat : \A i \in 1 .. Len(s) : s[i].n <= b
<1> DEFINE G == {u \in Seq(Tokens) : \E b \in Nat : \A i \in 1 .. Len(u) : u[i].n <= b}
<1>1. << >> \in G
  BY EmptySeq
<1>2. ASSUME NEW u \in G, NEW x \in Tokens PROVE Append(u, x) \in G
  <2>1. PICK b \in Nat : \A i \in 1 .. Len(u) : u[i].n <= b
    OBVIOUS
  <2>2. PICK v \in Seq(Tokens) : v = Append(u, x)
    BY AppendProperties
  <2>3. PICK k \in Nat : k = Len(u)
    BY LenProperties
  <2>4. Len(v) = k + 1 /\ v[k + 1] = x /\ \A i \in 1 .. k : v[i] = u[i]
    BY <2>2, <2>3, AppendProperties
  <2>5. PICK c \in Nat : c >= b /\ c >= x.n
    <3>1. x.n \in Nat
      BY TokensAre
    <3>2. PICK m \in Nat : m = x.n
      BY <3>1
    <3>3. b + m \in Nat /\ b + m >= b /\ b + m >= m
      OBVIOUS
    <3>4. QED
      BY <3>2, <3>3
  <2>6. \A i \in 1 .. k : u[i] \in Tokens /\ u[i].n \in Nat /\ u[i].n <= b
    BY <2>1, <2>3, ElementOfSeq, TokensAre
  <2>7. \A i \in 1 .. k + 1 : i \in 1 .. k \/ i = k + 1
    BY <2>3
  <2>8. ASSUME NEW i \in 1 .. k + 1 PROVE v[i].n <= c
    <3>1. CASE i \in 1 .. k
      <4>1. PICK m \in Nat : m = u[i].n /\ m <= b
        BY <2>6, <3>1
      <4>2. m <= c
        BY <2>5, <4>1
      <4>3. QED
        BY <2>4, <3>1, <4>1, <4>2
    <3>2. CASE i = k + 1
      BY <2>4, <2>5, <3>2
    <3>3. QED
      BY <2>7, <3>1, <3>2
  <2>9. QED
    BY <2>2, <2>4, <2>8
<1>3. G = Seq(Tokens)
  <2> HIDE DEF G
  <2>1. G \subseteq Seq(Tokens)
    BY DEF G
  <2>2. QED
    BY <1>1, <1>2, <2>1, SeqInduction
<1>4. s \in G
  BY <1>3
<1>5. QED
  BY <1>4

Lengths == {t.n : t \in ToSet(FlattenSeq(post))}

LEMMA LongerThanAll ==
  ASSUME MsgInv
  PROVE  /\ Max(Lengths \cup {2}) \in Nat /\ Max(Lengths \cup {2}) >= 2
         /\ \A j \in 1 .. Len(post) : \A i \in 1 .. Len(post[j]) :
              /\ post[j][i] \in Tokens /\ post[j][i].n \in Lengths
              /\ post[j][i].n <= Max(Lengths \cup {2})
<1>1. PICK s \in Seq(Tokens) : s = FlattenSeq(post)
  BY FlattenType DEF MsgInv
<1>2. PICK b \in Nat : \A i \in 1 .. Len(s) : s[i].n <= b
  BY RunsEnd
<1>3. DOMAIN s = 1 .. Len(s) /\ \A i \in 1 .. Len(s) : s[i] \in Tokens
  BY LenProperties, ElementOfSeq
<1>4. PICK L : L = Lengths \cup {2}
  OBVIOUS
<1>5. \A t \in ToSet(s) : t.n \in Nat /\ t.n <= b
  BY <1>2, <1>3, TokensAre DEF ToSet
<1>6. ASSUME NEW x \in L PROVE x \in 0 .. b + 2
  <2>1. x = 2 \/ \E t \in ToSet(s) : x = t.n
    BY <1>1, <1>4 DEF Lengths
  <2>2. x = 2 \/ (x \in Nat /\ x <= b)
    BY <1>5, <2>1
  <2>3. QED
    BY <2>2
<1>7. L # {} /\ 2 \in L /\ b + 2 \in Nat
  BY <1>4
<1>8. Max(L) \in L /\ \A x \in L : x <= Max(L)
  BY <1>6, <1>7, MaxIs
<1>9. PICK m \in Nat : m = Max(L)
  BY <1>6, <1>8
<1>10. m >= 2
  BY <1>7, <1>8, <1>9
<1>11. ASSUME NEW j \in 1 .. Len(post), NEW i \in 1 .. Len(post[j])
       PROVE  /\ post[j][i] \in Tokens /\ post[j][i].n \in Lengths
              /\ post[j][i].n <= m
  <2>1. PICK l \in Seq(Tokens) : l = post[j]
    BY ElementOfSeq DEF MsgInv
  <2>2. l \in ToSet(post)
    <3>1. DOMAIN post = 1 .. Len(post)
      BY LenProperties DEF MsgInv
    <3>2. QED
      BY <2>1, <3>1 DEF ToSet
  <2>3. l[i] \in ToSet(l) /\ l[i] \in Tokens
    <3>1. DOMAIN l = 1 .. Len(l)
      BY LenProperties
    <3>2. QED
      BY <2>1, <3>1, ElementOfSeq DEF ToSet
  <2>4. l[i] \in ToSet(s)
    BY <1>1, <2>2, <2>3, FlattenedSet DEF MsgInv
  <2>5. l[i].n \in Lengths
    BY <1>1, <2>4 DEF Lengths
  <2>6. l[i].n <= m
    BY <1>4, <1>8, <1>9, <2>5
  <2>7. QED
    BY <2>1, <2>3, <2>5, <2>6
<1>12. QED
  BY <1>4, <1>9, <1>10, <1>11

(* What is left when only a name is.                                       *)
LEMMA OnlyName ==
  ASSUME NEW w \in Who, NEW T, NEW f, NEW i \in Nat, i >= 1, NEW ts \in Seq(T),
         Len(ts) = i, Inline(ts, f), ts[i] = Name(w)
  PROVE  f[i] = <<Name(w)>>
<1>1. i \in 1 .. Len(ts) + 1 /\ i + 1 \in 1 .. Len(ts) + 1 /\ i + 1 > Len(ts) /\ ~(i > Len(ts))
  OBVIOUS
<1>2. f[i + 1] = << >>
  <2>1. f[i + 1] = InlineAt(ts, f, i + 1)
    BY <1>1, InlineIs
  <2>2. QED
    BY <1>1, <2>1 DEF InlineAt
<1>3. f[i] = <<ts[i]>> \o f[i + 1]
  <2>1. f[i] = InlineAt(ts, f, i)
    BY <1>1, InlineIs
  <2>2. ~IsRun(ts[i], Backtick)
    BY TokensAre DEF IsRun, Backtick
  <2>3. QED
    BY <1>1, <2>1, <2>2 DEF InlineAt
<1>4. <<ts[i]>> \o << >> = <<ts[i]>>
  OBVIOUS
<1>5. QED
  BY <1>2, <1>3, <1>4

LEMMA MentionsOnly ==
  ASSUME NEW w \in Who, NEW ls, StripCodeSpans(ls) = <<Name(w)>>
  PROVE  MentionTokens(ls) = {w}
<1>1. ToSet(<<Name(w)>>) = {Name(w)}
  BY DEF ToSet
<1>2. {x \in {Name(w)} : IsRun(x, "@")} = {Name(w)}
  BY TokensAre DEF IsRun
<1>3. QED
  BY <1>1, <1>2, TokensAre DEF MentionTokens

LEMMA FlattenOne ==
  ASSUME NEW S, NEW l \in Seq(S)
  PROVE  FlattenSeq(<<l>>) = l
<1>1. PICK e \in Seq(Seq(S)) : e = << >>
  <2>1. << >> \in Seq(Seq(S))
    OBVIOUS
  <2>2. QED
    BY <2>1
<1>2. FlattenSeq(Append(e, l)) = FlattenSeq(e) \o l
  BY FlattenAppend
<1>3. FlattenSeq(e) = << >>
  BY <1>1, FlattenEmpty
<1>4. Append(e, l) = <<l>> /\ << >> \o l = l
  BY <1>1
<1>5. QED
  BY <1>2, <1>3, <1>4

(* A post in a block.                                                      *)
LEMMA BlockSilent ==
  ASSUME MsgInv, NEW c \in {Backtick, Tilde}, NEW w \in Who, NEW m \in Nat,
         m >= 3, \A j \in 1 .. Len(post) : \A i \in 1 .. Len(post[j]) : post[j][i].n < m
  PROVE  MentionTokens(<< <<Run(c, m)>> >> \o post \o << <<Run(c, m)>>, <<Name(w)>> >>) = {w}
<1>1. PICK r, f, nm : r = Run(c, m) /\ f = <<r>> /\ nm = <<Name(w)>>
  OBVIOUS
<1>2. PICK T : T = Tokens \cup {r}
  OBVIOUS
<1>3. f \in Seq(T) /\ nm \in Seq(T) /\ post \in Seq(Seq(T))
  <2>1. Name(w) \in T /\ r \in T
    BY <1>2, TokensAre
  <2>2. Seq(Tokens) \subseteq Seq(T)
    BY <1>2, SeqMonotonic
  <2>3. post \in Seq(Seq(T))
    BY <2>2, SeqMonotonic DEF MsgInv
  <2>4. QED
    BY <1>1, <2>1, <2>3
<1>4. PICK k \in Nat : k = Len(post)
  BY LenProperties DEF MsgInv
<1>5. PICK a \in Seq(Seq(T)) : a = <<f>> \o post
  <2>1. <<f>> \in Seq(Seq(T))
    BY <1>3
  <2>2. QED
    BY <1>3, <2>1, ConcatProperties
<1>6. Len(a) = k + 1 /\ a[1] = f /\ \A j \in 2 .. k + 1 : a[j] = post[j - 1]
  BY <1>3, <1>4, <1>5
<1>7. PICK z \in Seq(Seq(T)) : z = <<f, nm>>
  <2>1. <<f, nm>> \in Seq(Seq(T))
    BY <1>3
  <2>2. QED
    BY <2>1
<1>8. Len(z) = 2 /\ z[1] = f /\ z[2] = nm
  BY <1>7
<1>9. PICK ls \in Seq(Seq(T)) : ls = a \o z
  BY ConcatProperties
<1>10. Len(ls) = k + 3 /\ ls[1] = f /\ ls[k + 2] = f /\ ls[k + 3] = nm
       /\ \A j \in 2 .. k + 1 : ls[j] = post[j - 1]
  <2>1. Len(ls) = (k + 1) + 2 /\ \A j \in 1 .. (k + 1) + 2 :
           ls[j] = IF j <= k + 1 THEN a[j] ELSE z[j - (k + 1)]
    <3>1. Len(a \o z) = Len(a) + Len(z)
          /\ \A j \in 1 .. Len(a) + Len(z) : (a \o z)[j] = IF j <= Len(a) THEN a[j] ELSE z[j - Len(a)]
      BY ConcatProperties, Zenon
    <3>2. Len(a) = k + 1 /\ Len(z) = 2
      BY <1>6, <1>8
    <3>3. QED
      BY <1>9, <3>1, <3>2
  <2>2. ls[1] = f
    BY <1>6, <2>1
  <2>3. ls[k + 2] = z[1] /\ ls[k + 3] = z[2]
    <3>1. /\ k + 2 \in 1 .. (k + 1) + 2 /\ ~(k + 2 <= k + 1) /\ k + 2 - (k + 1) = 1
          /\ k + 3 \in 1 .. (k + 1) + 2 /\ ~(k + 3 <= k + 1) /\ k + 3 - (k + 1) = 2
      OBVIOUS
    <3>2. QED
      BY <2>1, <3>1, SMTT(30)
  <2>4. \A j \in 2 .. k + 1 : j \in 1 .. (k + 1) + 2
    OBVIOUS
  <2>5. ASSUME NEW j \in 2 .. k + 1 PROVE ls[j] = a[j]
    <3>1. j <= k + 1
      OBVIOUS
    <3>2. QED
      BY <2>1, <2>4, <3>1, Zenon
  <2>6. Len(ls) = k + 3
    BY <2>1
  <2>7. \A j \in 2 .. k + 1 : ls[j] = post[j - 1]
    BY <1>6, <2>5
  <2>8. QED
    BY <1>8, <2>2, <2>3, <2>6, <2>7
<1>11. r.char = c /\ r.n = m /\ f[1] = r /\ Len(f) = 1 /\ nm[1] = Name(w) /\ Len(nm) = 1
  BY <1>1, TokensAre
<1>12. Opens(f) /\ Closes(f, f[1]) /\ ~Closes(nm, f[1]) /\ ~Opens(nm)
  <2>1. f # << >>
    BY <1>1
  <2>2. Opens(f)
    BY <1>11, <2>1 DEF Opens
  <2>3. Closes(f, f[1])
    BY <1>11 DEF Closes
  <2>4. Name(w).char \notin {Backtick, Tilde}
    BY TokensAre DEF Backtick, Tilde
  <2>5. QED
    BY <1>11, <2>2, <2>3, <2>4 DEF Closes, Opens
<1>13. ASSUME NEW j \in 2 .. k + 1 PROVE ~Closes(ls[j], f[1])
  <2>1. PICK i \in 1 .. Len(post) : ls[j] = post[i]
    <3>1. j - 1 \in 1 .. Len(post)
      BY <1>4
    <3>2. QED
      BY <1>10, <3>1
  <2>2. ASSUME Len(post[i]) = 1 PROVE ~(post[i][1].n >= m)
    <3>1. 1 \in 1 .. Len(post[i])
      BY <2>2
    <3>2. post[i][1].n < m /\ post[i][1] \in Tokens
      BY <3>1, LongerThanAll
    <3>3. PICK n \in Nat : n = post[i][1].n
      BY <3>2, TokensAre
    <3>4. QED
      BY <3>2, <3>3
  <2>3. QED
    BY <1>11, <2>1, <2>2 DEF Closes
<1>14. PICK D : /\ D = {j \in 1 + 1 .. Len(ls) : Closes(ls[j], ls[1][1])}
                /\ D = {j \in 2 .. k + 3 : Closes(ls[j], f[1])}
  <2>1. 1 + 1 = 2 /\ Len(ls) = k + 3 /\ ls[1][1] = f[1]
    BY <1>10
  <2>2. QED
    BY <2>1
<1>15. D = {k + 2}
  <2>1. k + 2 \in 2 .. k + 3 /\ \A j \in 2 .. k + 3 : j \in 2 .. k + 1 \/ j = k + 2 \/ j = k + 3
    OBVIOUS
  <2>2. k + 2 \in D
    BY <1>10, <1>12, <1>14, <2>1
  <2>3. \A j \in D : j = k + 2
    BY <1>10, <1>12, <1>13, <1>14, <2>1
  <2>4. QED
    BY <2>2, <2>3
<1>16. Min(D) = k + 2
  <2>1. D \subseteq Nat /\ D # {}
    BY <1>15
  <2>2. Min(D) \in D
    BY <2>1, MinIs
  <2>3. QED
    BY <1>15, <2>2
<1>17. PICK from : Fenced(ls, from) /\ StripFencedCodeBlocks(ls) = from[1]
  BY FencedExists
<1>18. from[1] = from[k + 3]
  <2>1. from[1] = FencedAt(ls, from, 1)
    BY <1>10, <1>17, FencedIs
  <2>2. ~(1 > Len(ls)) /\ Opens(ls[1]) /\ D # {}
    BY <1>10, <1>12, <1>15
  <2>3. FencedAt(ls, from, 1) = from[Min(D) + 1]
    BY <1>14, <2>2 DEF FencedAt
  <2>4. QED
    BY <1>16, <2>1, <2>3
<1>19. from[k + 4] = << >>
  <2>1. from[k + 4] = FencedAt(ls, from, k + 4)
    BY <1>10, <1>17, FencedIs
  <2>2. QED
    BY <1>10, <2>1 DEF FencedAt
<1>20. from[k + 3] = <<nm>>
  <2>1. from[k + 3] = FencedAt(ls, from, k + 3)
    BY <1>10, <1>17, FencedIs
  <2>2. ~(k + 3 > Len(ls)) /\ ~Opens(ls[k + 3])
    BY <1>10, <1>12
  <2>3. FencedAt(ls, from, k + 3) = <<ls[k + 3]>> \o from[(k + 3) + 1]
    BY <2>2 DEF FencedAt
  <2>4. (k + 3) + 1 = k + 4 /\ <<nm>> \o << >> = <<nm>>
    OBVIOUS
  <2>5. QED
    BY <1>10, <1>19, <2>1, <2>3, <2>4
<1>21. FlattenSeq(<<nm>>) = nm
  BY <1>3, FlattenOne
<1>22. PICK g : Inline(nm, g) /\ StripInlineCodeSpans(nm) = g[1]
  BY <1>3, InlineExists
<1>23. g[1] = <<Name(w)>>
  <2>1. PICK i \in Nat : i = 1
    OBVIOUS
  <2>2. Len(nm) = i /\ nm[i] = Name(w) /\ i >= 1
    BY <1>11, <2>1
  <2>3. g[i] = <<Name(w)>>
    BY <1>3, <1>22, <2>2, OnlyName
  <2>4. QED
    BY <2>1, <2>3
<1>24. StripCodeSpans(ls) = <<Name(w)>>
  BY <1>17, <1>18, <1>20, <1>21, <1>22, <1>23 DEF StripCodeSpans
<1>25. MentionTokens(ls) = {w}
  BY <1>24, MentionsOnly
<1>26. QED
  BY <1>1, <1>5, <1>7, <1>9, <1>25

(* A line in a span.                                                       *)
LEMMA SpanSilent ==
  ASSUME MsgInv, Len(post) = 1, NEW w \in Who, NEW n \in {1, 2}, n \notin Lengths
  PROVE  MentionTokens(<< <<Run(Backtick, n), Plain>> \o post[1] \o
                          <<Plain, Run(Backtick, n), Name(w)>> >>) = {w}
<1>1. PICK r : r = Run(Backtick, n)
  OBVIOUS
<1>2. PICK T : T = Tokens \cup {r}
  OBVIOUS
<1>3. Name(w) \in T /\ r \in T /\ Plain \in T /\ Seq(Tokens) \subseteq Seq(T)
  BY <1>2, TokensAre, SeqMonotonic
<1>4. PICK p \in Seq(T) : p = post[1] /\ \A i \in 1 .. Len(p) : p[i] \in Tokens /\ p[i].n # n
  <2>1. 1 \in 1 .. Len(post)
    OBVIOUS
  <2>2. post[1] \in Seq(Tokens)
    BY <2>1, ElementOfSeq DEF MsgInv
  <2>3. \A i \in 1 .. Len(post[1]) : post[1][i] \in Tokens /\ post[1][i].n \in Lengths
    BY <2>1, LongerThanAll
  <2>4. QED
    BY <1>3, <2>2, <2>3
<1>5. PICK k \in Nat : k = Len(p)
  BY LenProperties
<1>6. PICK h \in Seq(T) : h = <<r, Plain>>
  <2>1. <<r, Plain>> \in Seq(T)
    BY <1>3
  <2>2. QED
    BY <2>1
<1>7. PICK z \in Seq(T) : z = <<Plain, r, Name(w)>>
  <2>1. <<Plain, r, Name(w)>> \in Seq(T)
    BY <1>3
  <2>2. QED
    BY <2>1
<1>8. Len(h) = 2 /\ h[1] = r /\ h[2] = Plain
      /\ Len(z) = 3 /\ z[1] = Plain /\ z[2] = r /\ z[3] = Name(w)
  BY <1>6, <1>7
<1>9. PICK a \in Seq(T) : a = h \o p
  BY ConcatProperties
<1>10. Len(a) = k + 2 /\ a[1] = r /\ a[2] = Plain /\ \A j \in 3 .. k + 2 : a[j] = p[j - 2]
  <2>1. Len(h \o p) = Len(h) + Len(p)
        /\ \A j \in 1 .. Len(h) + Len(p) : (h \o p)[j] = IF j <= Len(h) THEN h[j] ELSE p[j - Len(h)]
    BY ConcatProperties, Zenon
  <2>2. Len(a) = 2 + k /\ \A j \in 1 .. 2 + k : a[j] = IF j <= 2 THEN h[j] ELSE p[j - 2]
    BY <1>5, <1>8, <1>9, <2>1
  <2>3. 1 \in 1 .. 2 + k /\ 2 \in 1 .. 2 + k
        /\ \A j \in 3 .. k + 2 : j \in 1 .. 2 + k /\ ~(j <= 2)
    OBVIOUS
  <2>4. QED
    BY <1>8, <2>2, <2>3
<1>11. PICK l \in Seq(T) : l = a \o z
  BY ConcatProperties
<1>12. Len(l) = k + 5 /\ l[1] = r /\ l[2] = Plain /\ l[k + 3] = Plain /\ l[k + 4] = r
       /\ l[k + 5] = Name(w) /\ \A j \in 3 .. k + 2 : l[j] = p[j - 2]
  <2>1. Len(a \o z) = Len(a) + Len(z)
        /\ \A j \in 1 .. Len(a) + Len(z) : (a \o z)[j] = IF j <= Len(a) THEN a[j] ELSE z[j - Len(a)]
    BY ConcatProperties, Zenon
  <2>2. Len(l) = (k + 2) + 3
        /\ \A j \in 1 .. (k + 2) + 3 : l[j] = IF j <= k + 2 THEN a[j] ELSE z[j - (k + 2)]
    BY <1>8, <1>10, <1>11, <2>1
  <2>3. l[1] = a[1] /\ l[2] = a[2]
    <3>1. 1 \in 1 .. (k + 2) + 3 /\ 2 \in 1 .. (k + 2) + 3 /\ 1 <= k + 2 /\ 2 <= k + 2
      OBVIOUS
    <3>2. QED
      BY <2>2, <3>1
  <2>4. l[k + 3] = z[1] /\ l[k + 4] = z[2] /\ l[k + 5] = z[3]
    BY <2>2
  <2>5. \A j \in 3 .. k + 2 : j \in 1 .. (k + 2) + 3 /\ j <= k + 2
    OBVIOUS
  <2>6. \A j \in 3 .. k + 2 : l[j] = a[j]
    BY <2>2, <2>5
  <2>7. QED
    BY <1>8, <1>10, <2>2, <2>3, <2>4, <2>6
<1>13. r.char = Backtick /\ r.n = n /\ Plain.n = 0 /\ Plain.char # Backtick /\ n # 0
  BY <1>1, TokensAre DEF Backtick
<1>14. PICK ls \in Seq(Seq(T)) : ls = <<l>> /\ Len(ls) = 1 /\ ls[1] = l
  <2>1. <<l>> \in Seq(Seq(T))
    OBVIOUS
  <2>2. QED
    BY <2>1
<1>15. PICK from : Fenced(ls, from) /\ StripFencedCodeBlocks(ls) = from[1]
  BY FencedExists
<1>16. from[1] = <<l>>
  <2>1. from[2] = << >>
    <3>1. from[2] = FencedAt(ls, from, 2)
      <4>1. 2 \in 1 .. Len(ls) + 1
        BY <1>14
      <4>2. QED
        BY <1>15, <4>1, FencedIs
    <3>2. QED
      BY <1>14, <3>1 DEF FencedAt
  <2>2. ~Opens(ls[1])
    <3>1. ~(l[1].n >= 3)
      BY <1>12, <1>13
    <3>2. QED
      BY <1>14, <3>1 DEF Opens
  <2>3. from[1] = FencedAt(ls, from, 1)
    BY <1>14, <1>15, FencedIs
  <2>4. FencedAt(ls, from, 1) = <<ls[1]>> \o from[1 + 1]
    BY <1>14, <2>2 DEF FencedAt
  <2>5. <<l>> \o << >> = <<l>> /\ 1 + 1 = 2
    OBVIOUS
  <2>6. QED
    BY <1>14, <2>1, <2>3, <2>4, <2>5
<1>17. FlattenSeq(<<l>>) = l
  BY FlattenOne
<1>18. PICK g : Inline(l, g) /\ StripInlineCodeSpans(l) = g[1]
  BY InlineExists
<1>19. PICK D : /\ D = {j \in 1 + 1 .. Len(l) : Pairs(l[1], l[j])}
                /\ D = {j \in 2 .. k + 5 : Pairs(r, l[j])}
  <2>1. 1 + 1 = 2 /\ Len(l) = k + 5 /\ l[1] = r
    BY <1>12
  <2>2. QED
    BY <2>1
<1>20. D = {k + 4}
  <2>1. k + 4 \in 2 .. k + 5
        /\ \A j \in 2 .. k + 5 : j = 2 \/ j \in 3 .. k + 2 \/ j = k + 3 \/ j = k + 4 \/ j = k + 5
    OBVIOUS
  <2>2. Pairs(r, r) /\ ~Pairs(r, Plain) /\ ~Pairs(r, Name(w))
    BY <1>13, TokensAre DEF Pairs, Backtick
  <2>3. ASSUME NEW j \in 3 .. k + 2 PROVE ~Pairs(r, l[j])
    <3>1. j - 2 \in 1 .. Len(p)
      BY <1>5
    <3>2. l[j].n # n
      BY <1>4, <1>12, <3>1
    <3>3. QED
      BY <1>13, <3>2 DEF Pairs
  <2>4. k + 4 \in D
    BY <1>12, <1>19, <2>1, <2>2
  <2>5. \A j \in D : j = k + 4
    BY <1>12, <1>19, <2>1, <2>2, <2>3
  <2>6. QED
    BY <2>4, <2>5
<1>21. Min(D) = k + 4
  <2>1. D \subseteq Nat /\ D # {}
    BY <1>20
  <2>2. Min(D) \in D
    BY <2>1, MinIs
  <2>3. QED
    BY <1>20, <2>2
<1>22. g[1] = g[k + 5]
  <2>1. g[1] = InlineAt(l, g, 1)
    BY <1>12, <1>18, InlineIs
  <2>2. ~(1 > Len(l)) /\ IsRun(l[1], Backtick) /\ D # {}
    BY <1>12, <1>13, <1>20 DEF IsRun
  <2>3. InlineAt(l, g, 1) = g[Min(D) + 1]
    BY <1>19, <2>2 DEF InlineAt
  <2>4. QED
    BY <1>21, <2>1, <2>3
<1>23. g[k + 5] = <<Name(w)>>
  <2>1. PICK i \in Nat : i = k + 5
    OBVIOUS
  <2>2. Len(l) = i /\ l[i] = Name(w) /\ i >= 1
    BY <1>12, <2>1
  <2>3. g[i] = <<Name(w)>>
    BY <1>18, <2>2, OnlyName
  <2>4. QED
    BY <2>1, <2>3
<1>24. StripCodeSpans(ls) = <<Name(w)>>
  BY <1>15, <1>16, <1>17, <1>18, <1>22, <1>23 DEF StripCodeSpans
<1>25. MentionTokens(ls) = {w}
  BY <1>24, MentionsOnly
<1>26. QED
  BY <1>1, <1>4, <1>6, <1>7, <1>9, <1>11, <1>14, <1>25

LEMMA QuotedInv == MsgInv => QuotedIsSilent
<1> SUFFICES ASSUME MsgInv PROVE QuotedIsSilent
  OBVIOUS
<1>1. PICK m \in Nat : m = Max(Lengths \cup {2})
  BY LongerThanAll
<1>2. m >= 2 /\ m + 1 \in Nat /\ m + 1 >= 3
  BY <1>1, LongerThanAll
<1>3. \A j \in 1 .. Len(post) : \A i \in 1 .. Len(post[j]) : post[j][i].n < m + 1
  <2> SUFFICES ASSUME NEW j \in 1 .. Len(post), NEW i \in 1 .. Len(post[j])
               PROVE  post[j][i].n < m + 1
    OBVIOUS
  <2>1. post[j][i] \in Tokens /\ post[j][i].n <= m
    BY <1>1, LongerThanAll
  <2>2. PICK n \in Nat : n = post[j][i].n
    BY <2>1, TokensAre
  <2>3. QED
    BY <2>1, <2>2
<1>4. ASSUME NEW w \in Who, NEW c \in {Backtick, Tilde}
      PROVE  MentionTokens(<< <<Run(c, m + 1)>> >> \o post \o
                           << <<Run(c, m + 1)>>, <<Name(w)>> >>) = {w}
  BY <1>2, <1>3, BlockSilent
<1>5. ASSUME NEW w \in Who, Len(post) = 1, NEW n \in {n \in {1, 2} : n \notin Lengths}
      PROVE  MentionTokens(<< <<Run(Backtick, n), Plain>> \o post[1] \o
                              <<Plain, Run(Backtick, n), Name(w)>> >>) = {w}
  BY <1>5, SpanSilent
<1>6. QED
  BY <1>1, <1>4, <1>5 DEF QuotedIsSilent, Lengths

(* Whatever a post says, quoted whole in a longer fence, or on one line in *)
(* a span of a length it does not have, it notifies nobody, and the handle *)
(* behind the quotation is read (thread.py:129-208).                       *)
THEOREM QuotedSilent == MsgSpec => []QuotedIsSilent
<1>1. MsgInv /\ [MsgNext]_post => MsgInv'
  BY MsgInvStep
<1>2. QED
  BY MsgInvInit, <1>1, QuotedInv, PTL DEF MsgSpec

-----------------------------------------------------------------------------
(* The words of a file                                                     *)

Ours == Markers \cup {Rule}

(* No marker is left in it.                                                *)
Unmarred(f) == ToSet(FlattenSeq(f)) \cap Markers = {}

LEMMA WordsAre ==
  ASSUME NEW f \in Seq(Seq(Word))
  PROVE  /\ f # Absent /\ FlattenSeq(f) \in Seq(Word)
         /\ Words(f) = Purged(FlattenSeq(f), Ours) /\ Words(f) \in Seq(Word)
<1>1. f # Absent
  BY BlockAssumption
<1>2. FlattenSeq(f) \in Seq(Word)
  BY FlattenType
<1>3. QED
  BY <1>1, <1>2, PurgedType DEF Words, Ours

LEMMA WordsConcat ==
  ASSUME NEW f \in Seq(Seq(Word)), NEW g \in Seq(Seq(Word))
  PROVE  /\ f \o g \in Seq(Seq(Word)) /\ Words(f \o g) = Words(f) \o Words(g)
         /\ Unmarred(f \o g) <=> Unmarred(f) /\ Unmarred(g)
<1>1. f \o g \in Seq(Seq(Word))
  BY ConcatProperties
<1>2. FlattenSeq(f \o g) = FlattenSeq(f) \o FlattenSeq(g)
  BY FlattenConcat
<1>3. PICK u \in Seq(Word), v \in Seq(Word) : u = FlattenSeq(f) /\ v = FlattenSeq(g)
  BY WordsAre
<1>4. Purged(u \o v, Ours) = Purged(u, Ours) \o Purged(v, Ours)
  BY PurgedConcat
<1>5. ToSet(u \o v) = ToSet(u) \cup ToSet(v)
  BY JoinedSet
<1>6. Words(f \o g) = Words(f) \o Words(g)
  BY <1>1, <1>2, <1>3, <1>4, WordsAre
<1>7. Unmarred(f \o g) <=> Unmarred(f) /\ Unmarred(g)
  BY <1>2, <1>3, <1>5 DEF Unmarred
<1>8. QED
  BY <1>1, <1>6, <1>7

LEMMA WordsOfLine ==
  ASSUME NEW l \in Seq(Word)
  PROVE  /\ <<l>> \in Seq(Seq(Word)) /\ Words(<<l>>) = Purged(l, Ours)
         /\ Unmarred(<<l>>) <=> ToSet(l) \cap Markers = {}
<1>1. <<l>> \in Seq(Seq(Word))
  OBVIOUS
<1>2. FlattenSeq(<<l>>) = l
  BY FlattenOne
<1>3. QED
  BY <1>1, <1>2, WordsAre DEF Unmarred

LEMMA WordsOfNone ==
  /\ << >> \in Seq(Seq(Word)) /\ Words(<< >>) = << >> /\ Unmarred(<< >>)
  /\ << << >> >> \in Seq(Seq(Word)) /\ Words(<< << >> >>) = << >> /\ Unmarred(<< << >> >>)
<1>1. << >> \in Seq(Seq(Word)) /\ << >> \in Seq(Word) /\ ToSet(<< >>) = {}
  BY DEF ToSet
<1>2. Words(<< >>) = << >> /\ Unmarred(<< >>)
  BY <1>1, WordsAre, FlattenEmpty, PurgedEmpty DEF Unmarred
<1>3. QED
  BY <1>1, <1>2, WordsOfLine, PurgedEmpty

-----------------------------------------------------------------------------
(* What is cleaned                                                         *)

CleanLine(l, m) == IF l = <<m>> THEN << >> ELSE <<Unmarked(l, m)>>

LEMMA CleanLineIs ==
  ASSUME NEW l \in Seq(Word), NEW m \in Markers
  PROVE  /\ CleanLine(l, m) \in Seq(Seq(Word))
         /\ Words(CleanLine(l, m)) = Words(<<l>>)
<1>1. PICK u \in Seq(Word) : u = Unmarked(l, m) /\ u = Purged(l, {m})
  BY PurgedType DEF Unmarked
<1>2. CASE l = <<m>>
  <2>1. CleanLine(l, m) = << >>
    BY <1>2 DEF CleanLine
  <2>2. Purged(l, Ours) = << >>
    BY <1>2, PurgedOne DEF Kept1, Ours
  <2>3. QED
    BY <2>1, <2>2, WordsOfLine, WordsOfNone
<1>3. CASE l # <<m>>
  <2>1. CleanLine(l, m) = <<u>>
    BY <1>1, <1>3 DEF CleanLine
  <2>2. Purged(u, Ours) = Purged(l, Ours)
    <3>1. {m} \subseteq Ours
      BY DEF Ours
    <3>2. QED
      BY <1>1, <3>1, PurgedTwice
  <2>3. QED
    BY <2>1, <2>2, WordsOfLine
<1>4. QED
  BY <1>2, <1>3

LEMMA CleanedOfAppend ==
  ASSUME NEW f \in Seq(Seq(Word)), NEW l \in Seq(Word), NEW m \in Markers
  PROVE  /\ CleanedOf(f, m) \in Seq(Seq(Word))
         /\ CleanedOf(Append(f, l), m) = CleanedOf(f, m) \o CleanLine(l, m)
<1>1. PICK k \in Seq(Seq(Word)) : k = Purged(f, {<<m>>})
  BY PurgedType
<1>2. PICK n \in Nat : n = Len(k) /\ DOMAIN k = 1 .. n
  BY LenProperties
<1>3. \A i \in 1 .. n : k[i] \in Seq(Word) /\ Unmarked(k[i], m) \in Seq(Word)
  <2>1. \A i \in 1 .. n : k[i] \in Seq(Word)
    BY <1>2, ElementOfSeq
  <2>2. QED
    BY <2>1, PurgedType DEF Unmarked
<1>4. PICK g \in Seq(Seq(Word)) : g = CleanedOf(f, m) /\ g = [i \in 1 .. n |-> Unmarked(k[i], m)]
  <2>1. [i \in 1 .. n |-> Unmarked(k[i], m)] \in Seq(Seq(Word))
    BY <1>3
  <2>2. CleanedOf(f, m) = [i \in 1 .. n |-> Unmarked(k[i], m)]
    BY <1>1, <1>2 DEF CleanedOf
  <2>3. QED
    BY <2>1, <2>2
<1>5. Purged(Append(f, l), {<<m>>}) = k \o Kept1(l, {<<m>>})
  BY <1>1, PurgedAppend
<1>6. CASE l = <<m>>
  <2>1. Kept1(l, {<<m>>}) = << >> /\ k \o << >> = k
    BY <1>6, ConcatEmptySeq DEF Kept1
  <2>2. CleanedOf(Append(f, l), m) = g
    BY <1>2, <1>4, <1>5, <2>1 DEF CleanedOf
  <2>3. g \o << >> = g
    BY ConcatEmptySeq
  <2>4. QED
    BY <1>4, <1>6, <2>2, <2>3 DEF CleanLine
<1>7. CASE l # <<m>>
  <2>1. Kept1(l, {<<m>>}) = <<l>> /\ k \o <<l>> = Append(k, l)
    BY <1>7, AppendIsConcat DEF Kept1
  <2>2. PICK v \in Seq(Seq(Word)) : v = Append(k, l)
    BY AppendProperties
  <2>3. DOMAIN v = 1 .. n + 1 /\ v[n + 1] = l /\ \A i \in 1 .. n : v[i] = k[i]
    BY <1>2, <2>2, AppendProperties, LenProperties
  <2>4. PICK x \in Seq(Word) : x = Unmarked(l, m)
    BY PurgedType DEF Unmarked
  <2>5. PICK h : h = [i \in 1 .. n + 1 |-> Unmarked(v[i], m)]
    OBVIOUS
  <2>6. CleanedOf(Append(f, l), m) = h
    BY <1>5, <2>1, <2>2, <2>3, <2>5 DEF CleanedOf
  <2>7. Len(g) = n /\ \A i \in 1 .. n : g[i] = Unmarked(k[i], m)
    BY <1>4
  <2>8. h = [i \in 1 .. n + 1 |-> h[i]] /\ h[n + 1] = x /\ Agree(h, g, n)
    <3>1. \A i \in 1 .. n : i \in 1 .. n + 1
      OBVIOUS
    <3>2. h = [i \in 1 .. n + 1 |-> h[i]]
      BY <2>5
    <3>3. h[n + 1] = x
      BY <2>3, <2>4, <2>5
    <3>4. \A i \in 1 .. n : h[i] = g[i]
      BY <2>3, <2>5, <2>7, <3>1
    <3>5. QED
      BY <3>2, <3>3, <3>4 DEF Agree
  <2>9. h = Append(g, x)
    BY <2>7, <2>8, AppendIs
  <2>10. Append(g, x) = g \o <<x>>
    BY AppendIsConcat
  <2>11. QED
    BY <1>4, <1>7, <2>4, <2>6, <2>9, <2>10 DEF CleanLine
<1>8. QED
  BY <1>4, <1>6, <1>7

LEMMA CleanedOfWords ==
  ASSUME NEW f \in Seq(Seq(Word)), NEW m \in Markers
  PROVE  Words(CleanedOf(f, m)) = Words(f)
<1> DEFINE G == {g \in Seq(Seq(Word)) : Words(CleanedOf(g, m)) = Words(g)}
<1>1. << >> \in G
  <2>1. Purged(<< >>, {<<m>>}) = << >>
    BY PurgedEmpty
  <2>2. CleanedOf(<< >>, m) = << >>
    <3>1. CleanedOf(<< >>, m) = [i \in DOMAIN << >> |-> Unmarked(<< >>[i], m)]
      BY <2>1 DEF CleanedOf
    <3>2. PICK h : h = [i \in DOMAIN << >> |-> Unmarked(<< >>[i], m)]
      OBVIOUS
    <3>3. DOMAIN << >> = 1 .. 0
      OBVIOUS
    <3>4. [i \in 1 .. 0 |-> Unmarked(<< >>[i], m)] = << >>
      OBVIOUS
    <3>5. QED
      BY <3>1, <3>3, <3>4
  <2>3. QED
    BY <2>2, WordsOfNone
<1>2. ASSUME NEW g \in G, NEW l \in Seq(Word) PROVE Append(g, l) \in G
  <2>1. g \in Seq(Seq(Word)) /\ Words(CleanedOf(g, m)) = Words(g)
    OBVIOUS
  <2> HIDE DEF G
  <2>2. PICK c \in Seq(Seq(Word)), d \in Seq(Seq(Word)) :
          c = CleanedOf(g, m) /\ d = CleanLine(l, m) /\ Words(d) = Words(<<l>>)
    BY <2>1, CleanedOfAppend, CleanLineIs
  <2>3. CleanedOf(Append(g, l), m) = c \o d
    BY <2>1, <2>2, CleanedOfAppend
  <2>4. Words(c \o d) = Words(c) \o Words(d)
    BY WordsConcat
  <2>5. PICK e \in Seq(Seq(Word)) : e = <<l>>
    BY WordsOfLine
  <2>6. Append(g, l) = g \o e /\ Append(g, l) \in Seq(Seq(Word))
    BY <2>1, <2>5, AppendIsConcat, AppendProperties
  <2>7. Words(g \o e) = Words(g) \o Words(e)
    BY <2>1, WordsConcat
  <2>8. Words(CleanedOf(Append(g, l), m)) = Words(Append(g, l))
    BY <2>1, <2>2, <2>3, <2>4, <2>5, <2>6, <2>7
  <2>9. QED
    BY <2>6, <2>8 DEF G
<1>3. G = Seq(Seq(Word))
  <2> HIDE DEF G
  <2>1. G \subseteq Seq(Seq(Word))
    BY DEF G
  <2>2. QED
    BY <1>1, <1>2, <2>1, SeqInduction
<1>4. QED
  BY <1>3

LEMMA CleanedOfMarks ==
  ASSUME NEW f \in Seq(Seq(Word)), NEW m \in Markers
  PROVE  ToSet(FlattenSeq(CleanedOf(f, m))) \subseteq ToSet(FlattenSeq(f)) \ {m}
<1>1. PICK k \in Seq(Seq(Word)) : k = Purged(f, {<<m>>}) /\ ToSet(k) = ToSet(f) \ {<<m>>}
  BY PurgedType, PurgedSet
<1>2. PICK g \in Seq(Seq(Word)) : g = CleanedOf(f, m)
  <2>1. << >> \in Seq(Word)
    OBVIOUS
  <2>2. QED
    BY <2>1, CleanedOfAppend
<1>3. ASSUME NEW x \in ToSet(FlattenSeq(g)) PROVE x \in ToSet(FlattenSeq(f)) /\ x # m
  <2>1. PICK l \in ToSet(g) : x \in ToSet(l)
    BY FlattenedSet
  <2>2. PICK i \in DOMAIN k : l = Unmarked(k[i], m)
    <3>1. g = [i \in DOMAIN k |-> Unmarked(k[i], m)]
      BY <1>1, <1>2 DEF CleanedOf
    <3>2. QED
      BY <2>1, <3>1 DEF ToSet
  <2>3. k[i] \in ToSet(k) /\ k[i] \in Seq(Word)
    <3>1. DOMAIN k = 1 .. Len(k)
      BY LenProperties
    <3>2. QED
      BY <2>2, <3>1, ElementOfSeq DEF ToSet
  <2>4. ToSet(Unmarked(k[i], m)) = ToSet(k[i]) \ {m}
    BY <2>3, PurgedSet DEF Unmarked
  <2>5. k[i] \in ToSet(f)
    BY <1>1, <2>3
  <2>6. x \in ToSet(k[i]) /\ x # m
    BY <2>1, <2>2, <2>4
  <2>7. QED
    BY <2>5, <2>6, FlattenedSet
<1>4. QED
  BY <1>2, <1>3

LEMMA CleanedIs ==
  ASSUME NEW f \in Seq(Seq(Word))
  PROVE  /\ Cleaned(f) \in Seq(Seq(Word)) /\ Words(Cleaned(f)) = Words(f) /\ Unmarred(Cleaned(f))
<1>1. << >> \in Seq(Word) /\ Start \in Markers /\ End \in Markers
  BY DEF Markers
<1>2. PICK g \in Seq(Seq(Word)) : g = CleanedOf(f, Start)
  BY <1>1, CleanedOfAppend
<1>3. PICK h \in Seq(Seq(Word)) : h = CleanedOf(g, End) /\ h = Cleaned(f)
  BY <1>1, <1>2, CleanedOfAppend DEF Cleaned
<1>4. Words(h) = Words(f)
  BY <1>1, <1>2, <1>3, CleanedOfWords
<1>5. ToSet(FlattenSeq(g)) \subseteq ToSet(FlattenSeq(f)) \ {Start}
  BY <1>1, <1>2, CleanedOfMarks
<1>6. ToSet(FlattenSeq(h)) \subseteq ToSet(FlattenSeq(g)) \ {End}
  BY <1>1, <1>3, CleanedOfMarks
<1>7. QED
  BY <1>3, <1>4, <1>5, <1>6 DEF Unmarred, Markers

-----------------------------------------------------------------------------
(* What is collapsed: only blank lines go.                                 *)

LEMMA PickedWords ==
  ASSUME NEW f \in Seq(Seq(Word)), NEW K, \A i \in 1 .. Len(f) : i \notin K => f[i] = << >>
  PROVE  FlattenSeq(Picked(f, K)) = FlattenSeq(f)
<1> DEFINE G == {g \in Seq(Seq(Word)) :
                   (\A i \in 1 .. Len(g) : i \notin K => g[i] = << >>)
                     => FlattenSeq(Picked(g, K)) = FlattenSeq(g)}
<1>1. << >> \in G
  BY PickedEmpty
<1>2. ASSUME NEW g \in G, NEW l \in Seq(Word) PROVE Append(g, l) \in G
  <2>1. PICK h \in Seq(Seq(Word)) : h = Append(g, l)
    BY AppendProperties
  <2>2. PICK n \in Nat : n = Len(g)
    BY LenProperties
  <2>3. Len(h) = n + 1 /\ h[n + 1] = l /\ \A i \in 1 .. n : h[i] = g[i]
    BY <2>1, <2>2, AppendProperties
  <2>4. SUFFICES ASSUME \A i \in 1 .. n + 1 : i \notin K => h[i] = << >>
                 PROVE  FlattenSeq(Picked(h, K)) = FlattenSeq(h)
    BY <2>1, <2>3
  <2>5. FlattenSeq(Picked(g, K)) = FlattenSeq(g)
    <3>1. \A i \in 1 .. n : i \in 1 .. n + 1
      OBVIOUS
    <3>2. \A i \in 1 .. n : i \notin K => g[i] = << >>
      BY <2>3, <2>4, <3>1
    <3>3. QED
      BY <2>2, <3>2
  <2> HIDE DEF G
  <2>6. g \in Seq(Seq(Word))
    BY DEF G
  <2>7. PICK p \in Seq(Seq(Word)) : p = Picked(g, K)
    BY <2>6, PickedType
  <2>8. FlattenSeq(h) = FlattenSeq(g) \o l
    BY <2>1, <2>6, FlattenAppend
  <2>9. CASE n + 1 \in K
    <3>1. Picked(h, K) = p \o <<l>>
      BY <2>1, <2>2, <2>6, <2>7, <2>9, PickedAppend
    <3>2. p \o <<l>> = Append(p, l)
      BY AppendIsConcat
    <3>3. FlattenSeq(Append(p, l)) = FlattenSeq(p) \o l
      BY FlattenAppend
    <3>4. QED
      BY <2>5, <2>7, <2>8, <3>1, <3>2, <3>3
  <2>10. CASE n + 1 \notin K
    <3>1. l = << >>
      BY <2>3, <2>4, <2>10
    <3>2. Picked(h, K) = p \o << >>
      <4>1. Picked(Append(g, l), K) = Picked(g, K) \o (IF Len(g) + 1 \in K THEN <<l>> ELSE << >>)
        BY <2>6, PickedAppend, SMTT(30)
      <4>2. QED
        BY <2>1, <2>2, <2>7, <2>10, <4>1, Zenon
    <3>3. p \o << >> = p
      BY ConcatEmptySeq
    <3>4. FlattenSeq(g) \o << >> = FlattenSeq(g)
      <4>1. FlattenSeq(g) \in Seq(Word)
        BY <2>6, FlattenType
      <4>2. QED
        BY <4>1, ConcatEmptySeq
    <3>5. QED
      BY <2>5, <2>7, <2>8, <3>1, <3>2, <3>3, <3>4
  <2>11. QED
    BY <2>9, <2>10
<1>3. G = Seq(Seq(Word))
  <2> HIDE DEF G
  <2>1. G \subseteq Seq(Seq(Word))
    BY DEF G
  <2>2. QED
    BY <1>1, <1>2, <2>1, SeqInduction
<1>4. QED
  BY <1>3

LEMMA CollapsedIs ==
  ASSUME NEW f \in Seq(Seq(Word))
  PROVE  /\ Collapsed(f) \in Seq(Seq(Word)) /\ Words(Collapsed(f)) = Words(f)
         /\ Unmarred(Collapsed(f)) <=> Unmarred(f)
<1>1. PICK K : K = {i \in DOMAIN f : ~(i >= 3 /\ f[i] = << >> /\ f[i - 1] = << >>)}
  OBVIOUS
<1>2. PICK c \in Seq(Seq(Word)) : c = Picked(f, K) /\ c = Collapsed(f)
  BY <1>1, PickedType DEF Collapsed
<1>3. DOMAIN f = 1 .. Len(f)
  BY LenProperties
<1>4. \A i \in 1 .. Len(f) : i \notin K => f[i] = << >>
  BY <1>1, <1>3
<1>5. FlattenSeq(c) = FlattenSeq(f)
  BY <1>2, <1>4, PickedWords
<1>6. QED
  BY <1>2, <1>5, WordsAre DEF Unmarred

-----------------------------------------------------------------------------
(* A block between the lines P and the lines Q                             *)

Framed(P, Q) == (P \o Block) \o Q

LEMMA ConcatAt ==
  ASSUME NEW S, NEW s \in Seq(S), NEW t \in Seq(S)
  PROVE  /\ s \o t \in Seq(S) /\ Len(s \o t) = Len(s) + Len(t)
         /\ \A i \in 1 .. Len(s) : (s \o t)[i] = s[i]
         /\ \A i \in 1 .. Len(t) : (s \o t)[Len(s) + i] = t[i]
BY ConcatProperties, LenProperties

LEMMA InThree ==
  ASSUME NEW S, NEW a \in S, NEW b \in S, NEW c \in S
  PROVE  << a, b, c >> = (<<a>> \o <<b>>) \o <<c>>
<1>1. PICK x \in Seq(S), y \in Seq(S), z \in Seq(S), w \in Seq(S) :
        x = <<a>> /\ y = <<b>> /\ z = <<c>> /\ w = << a, b, c >>
  <2>1. <<a>> \in Seq(S) /\ <<b>> \in Seq(S) /\ <<c>> \in Seq(S) /\ << a, b, c >> \in Seq(S)
    OBVIOUS
  <2>2. QED
    BY <2>1
<1>2. /\ Len(x) = 1 /\ x[1] = a /\ Len(y) = 1 /\ y[1] = b /\ Len(z) = 1 /\ z[1] = c
      /\ Len(w) = 3 /\ w[1] = a /\ w[2] = b /\ w[3] = c
  BY <1>1
<1>3. PICK u \in Seq(S) : u = x \o y /\ Len(u) = 2 /\ u[1] = a /\ u[2] = b
  <2>1. 1 \in 1 .. 1
    OBVIOUS
  <2>2. /\ x \o y \in Seq(S) /\ Len(x \o y) = Len(x) + Len(y)
        /\ \A i \in 1 .. Len(x) : (x \o y)[i] = x[i]
        /\ \A i \in 1 .. Len(y) : (x \o y)[Len(x) + i] = y[i]
    BY ConcatAt
  <2>3. PICK u \in Seq(S) : u = x \o y
    BY <2>2
  <2>4. Len(u) = 2 /\ u[1] = a
    BY <1>2, <2>1, <2>2, <2>3
  <2>5. u[1 + 1] = b
    BY <1>2, <2>1, <2>2, <2>3
  <2>6. 1 + 1 = 2
    OBVIOUS
  <2>7. u[2] = b
    BY <2>5, <2>6, Zenon
  <2>8. QED
    BY <2>3, <2>4, <2>7, Zenon
<1>4. PICK v \in Seq(S) : v = u \o z /\ Len(v) = 3 /\ v[1] = a /\ v[2] = b /\ v[3] = c
  <2>1. 1 \in 1 .. 1 /\ 1 \in 1 .. 2 /\ 2 \in 1 .. 2
    OBVIOUS
  <2>2. /\ u \o z \in Seq(S) /\ Len(u \o z) = Len(u) + Len(z)
        /\ \A i \in 1 .. Len(u) : (u \o z)[i] = u[i]
        /\ \A i \in 1 .. Len(z) : (u \o z)[Len(u) + i] = z[i]
    BY ConcatAt
  <2>3. PICK v \in Seq(S) : v = u \o z
    BY <2>2
  <2>4. Len(v) = 3 /\ v[1] = a /\ v[2] = b
    BY <1>2, <1>3, <2>1, <2>2, <2>3
  <2>5. v[2 + 1] = c
    BY <1>2, <1>3, <2>1, <2>2, <2>3
  <2>6. 2 + 1 = 3
    OBVIOUS
  <2>7. v[3] = c
    BY <2>5, <2>6, Zenon
  <2>8. QED
    BY <2>3, <2>4, <2>7, Zenon
<1>5. v = w
  <2>1. \A i \in 1 .. 3 : i = 1 \/ i = 2 \/ i = 3
    OBVIOUS
  <2>2. \A i \in 1 .. 3 : v[i] = w[i]
    BY <1>2, <1>4, <2>1
  <2>3. QED
    BY <1>2, <1>4, <2>2, SeqEqual
<1>6. QED
  BY <1>1, <1>3, <1>4, <1>5, Zenon

LEMMA BlockIs ==
  /\ Block \in Seq(Seq(Word)) /\ Len(Block) = 3
  /\ Block[1] = <<Start>> /\ Block[2] = <<Rule>> /\ Block[3] = <<End>>
  /\ Words(Block) = << >>
<1>1. Start \in Word /\ Rule \in Word /\ End \in Word
  BY DEF Word, Markers
<1>2. <<Start>> \in Seq(Word) /\ <<Rule>> \in Seq(Word) /\ <<End>> \in Seq(Word)
  BY <1>1
<1>3. PICK a \in Seq(Seq(Word)), b \in Seq(Seq(Word)), c \in Seq(Seq(Word)) :
        a = << <<Start>> >> /\ b = << <<Rule>> >> /\ c = << <<End>> >>
  <2>1. << <<Start>> >> \in Seq(Seq(Word)) /\ << <<Rule>> >> \in Seq(Seq(Word))
        /\ << <<End>> >> \in Seq(Seq(Word))
    BY <1>2
  <2>2. QED
    BY <2>1
<1>4. Words(a) = << >> /\ Words(b) = << >> /\ Words(c) = << >>
  BY <1>2, <1>3, WordsOfLine, PurgedOne DEF Kept1, Ours, Markers
<1>5. Block = (a \o b) \o c
  <2>1. << <<Start>>, <<Rule>>, <<End>> >>
          = (<< <<Start>> >> \o << <<Rule>> >>) \o << <<End>> >>
    <3>1. PICK a1 \in Seq(Word), b1 \in Seq(Word), c1 \in Seq(Word) :
            a1 = <<Start>> /\ b1 = <<Rule>> /\ c1 = <<End>>
      BY <1>2
    <3>2. << a1, b1, c1 >> = (<<a1>> \o <<b1>>) \o <<c1>>
      BY InThree, SMTT(30)
    <3>3. QED
      BY <3>1, <3>2, Zenon
  <2>2. QED
    BY <1>3, <2>1, Zenon DEF Block
<1>6. a \o b \in Seq(Seq(Word)) /\ Words(a \o b) = << >> \o << >>
  BY <1>4, WordsConcat
<1>7. Words((a \o b) \o c) = Words(a \o b) \o Words(c)
  BY <1>6, WordsConcat
<1>8. Block \in Seq(Seq(Word))
  BY <1>5, <1>6, WordsConcat
<1>9. Words(Block) = << >>
  <2>1. << >> \o << >> = << >>
    OBVIOUS
  <2>2. QED
    BY <1>4, <1>5, <1>6, <1>7, <2>1
<1>10. Len(Block) = 3 /\ Block[1] = <<Start>> /\ Block[2] = <<Rule>> /\ Block[3] = <<End>>
  BY DEF Block
<1>11. QED
  BY <1>8, <1>9, <1>10

LEMMA FramedAt ==
  ASSUME NEW P \in Seq(Seq(Word)), NEW Q \in Seq(Seq(Word))
  PROVE  \E g \in Seq(Seq(Word)), p \in Nat, q \in Nat :
           /\ g = Framed(P, Q) /\ p = Len(P) /\ q = Len(Q) /\ Len(g) = p + 3 + q
           /\ \A i \in 1 .. p : g[i] = P[i]
           /\ g[p + 1] = <<Start>> /\ g[p + 2] = <<Rule>> /\ g[p + 3] = <<End>>
           /\ \A i \in 1 .. q : g[p + 3 + i] = Q[i]
           /\ Upto(g, p) = P /\ Past(g, p + 3) = Q
<1>1. PICK B \in Seq(Seq(Word)) : B = Block
  BY BlockIs
<1>2. PICK p \in Nat, q \in Nat : p = Len(P) /\ q = Len(Q)
  BY LenProperties
<1>3. PICK h \in Seq(Seq(Word)) : h = P \o B
  BY ConcatProperties
<1>4. /\ Len(h) = p + 3
      /\ \A i \in 1 .. p : h[i] = P[i]
      /\ h[p + 1] = <<Start>> /\ h[p + 2] = <<Rule>> /\ h[p + 3] = <<End>>
  <2>1. Len(B) = 3 /\ B[1] = <<Start>> /\ B[2] = <<Rule>> /\ B[3] = <<End>>
    BY <1>1, BlockIs
  <2>2. /\ Len(h) = Len(P) + Len(B)
        /\ \A i \in 1 .. Len(P) : h[i] = P[i]
        /\ \A i \in 1 .. Len(B) : h[Len(P) + i] = B[i]
    BY <1>3, ConcatAt
  <2>3. 1 \in 1 .. 3 /\ 2 \in 1 .. 3 /\ 3 \in 1 .. 3
    OBVIOUS
  <2>4. QED
    BY <1>2, <2>1, <2>2, <2>3
<1>5. PICK g \in Seq(Seq(Word)) : g = h \o Q /\ g = Framed(P, Q)
  BY <1>1, <1>3, ConcatProperties DEF Framed
<1>6. /\ Len(g) = p + 3 + q
      /\ \A i \in 1 .. p + 3 : g[i] = h[i]
      /\ \A i \in 1 .. q : g[p + 3 + i] = Q[i]
  <2>1. /\ Len(g) = Len(h) + Len(Q)
        /\ \A i \in 1 .. Len(h) : g[i] = h[i]
        /\ \A i \in 1 .. Len(Q) : g[Len(h) + i] = Q[i]
    <3>1. /\ Len(h \o Q) = Len(h) + Len(Q)
          /\ \A i \in 1 .. Len(h) : (h \o Q)[i] = h[i]
          /\ \A i \in 1 .. Len(Q) : (h \o Q)[Len(h) + i] = Q[i]
      BY ConcatAt
    <3>2. QED
      BY <1>5, <3>1, Zenon
  <2>2. QED
    BY <1>2, <1>4, <2>1
<1>7. /\ p + 1 \in 1 .. p + 3 /\ p + 2 \in 1 .. p + 3 /\ p + 3 \in 1 .. p + 3
      /\ \A i \in 1 .. p : i \in 1 .. p + 3
  OBVIOUS
<1>8. /\ \A i \in 1 .. p : g[i] = P[i]
      /\ g[p + 1] = <<Start>> /\ g[p + 2] = <<Rule>> /\ g[p + 3] = <<End>>
  BY <1>4, <1>6, <1>7
<1>9. Past(g, p + 3) = Q
  <2>1. Past(h \o Q, Len(h)) = Q
    BY CutJoined
  <2>2. QED
    BY <1>4, <1>5, <2>1
<1>10. Upto(g, p) = P
  <2>1. PICK r \in Seq(Seq(Word)) : r = B \o Q
    BY ConcatProperties
  <2>2. g = P \o r
    <3>1. (P \o B) \o Q = P \o (B \o Q)
      BY Regrouped, SMTT(30)
    <3>2. QED
      BY <1>3, <1>5, <2>1, <3>1, Zenon
  <2>3. Upto(P \o r, Len(P)) = P
    BY CutJoined
  <2>4. QED
    BY <1>2, <2>2, <2>3
<1>11. QED
  BY <1>2, <1>5, <1>6, <1>8, <1>9, <1>10

(* No line of P is the start marker.                                       *)
Unstarted(P) == \A i \in 1 .. Len(P) : P[i] # <<Start>>

LEMMA FramedBlock ==
  ASSUME NEW P \in Seq(Seq(Word)), NEW Q \in Seq(Seq(Word)), Unstarted(P)
  PROVE  LET g == Framed(P, Q) IN
         /\ g \in Seq(Seq(Word)) /\ HasBlock(g)
         /\ Min(Starts(g)) = Len(P) + 1 /\ Min(Ends(g, Len(P) + 1)) = Len(P) + 3
         /\ Theirs(g) = Words(P) \o Words(Q) /\ Injected(g) = g
<1>1. PICK g \in Seq(Seq(Word)), p \in Nat, q \in Nat :
           /\ g = Framed(P, Q) /\ p = Len(P) /\ q = Len(Q) /\ Len(g) = p + 3 + q
           /\ \A i \in 1 .. p : g[i] = P[i]
           /\ g[p + 1] = <<Start>> /\ g[p + 2] = <<Rule>> /\ g[p + 3] = <<End>>
           /\ \A i \in 1 .. q : g[p + 3 + i] = Q[i]
           /\ Upto(g, p) = P /\ Past(g, p + 3) = Q
  BY FramedAt
<1>2. DOMAIN g = 1 .. p + 3 + q
  BY <1>1, LenProperties
<1>3. Min(Ends(g, p + 1)) = p + 3 /\ Ends(g, p + 1) # {}
  <2>1. PICK E : E = Ends(g, p + 1)
    OBVIOUS
  <2>2. E \subseteq Nat /\ p + 3 \in E /\ \A j \in E : p + 3 <= j
    BY <1>1, <2>1 DEF Ends
  <2>3. Min(E) \in E /\ Min(E) <= p + 3
    BY <2>2, MinIs
  <2>4. QED
    BY <2>1, <2>2, <2>3
<1>4. Min(Starts(g)) = p + 1 /\ Starts(g) # {}
  <2>1. PICK E : E = Starts(g)
    OBVIOUS
  <2>2. E \subseteq 1 .. p + 3 + q /\ p + 1 \in E
    BY <1>1, <1>2, <1>3, <2>1 DEF Starts
  <2>3. \A i \in E : p + 1 <= i
    <3>1. \A i \in E : i \notin 1 .. p
      BY <1>1, <2>1 DEF Starts, Unstarted
    <3>2. QED
      BY <2>2, <3>1
  <2>4. E \subseteq Nat /\ E # {}
    BY <2>2
  <2>5. Min(E) \in E /\ Min(E) <= p + 1
    BY <2>2, <2>4, MinIs
  <2>6. Min(E) = p + 1
    <3>1. PICK m \in Nat : m = Min(E) /\ m <= p + 1 /\ p + 1 <= m
      BY <2>2, <2>3, <2>4, <2>5
    <3>2. QED
      BY <3>1
  <2>7. QED
    BY <2>1, <2>4, <2>6
<1>5. SubSeq(g, 1, (p + 1) - 1) = P /\ SubSeq(g, (p + 3) + 1, Len(g)) = Q
  <2>1. (p + 1) - 1 = p /\ (p + 3) + 1 = p + 3 + 1
    OBVIOUS
  <2>2. QED
    BY <1>1, <2>1, Zenon DEF Upto, Past
<1>6. HasBlock(g) /\ g # Absent
  BY <1>4, WordsAre DEF HasBlock
<1>7. Theirs(g) = Words(P \o Q)
  BY <1>3, <1>4, <1>5, <1>6 DEF Theirs
<1>8. Injected(g) = (P \o Block) \o Q
  BY <1>3, <1>4, <1>5, <1>6 DEF Injected
<1>9. QED
  BY <1>1, <1>3, <1>4, <1>6, <1>7, <1>8, WordsConcat DEF Framed

-----------------------------------------------------------------------------
(* What is installed                                                       *)

LEMMA BlockFound ==
  ASSUME NEW f \in Seq(Seq(Word)), HasBlock(f)
  PROVE  \E i \in Nat, j \in Nat :
           /\ i = Min(Starts(f)) /\ j = Min(Ends(f, i)) /\ 1 <= i /\ i + 2 <= j /\ j <= Len(f)
           /\ f[i] = <<Start>> /\ f[j] = <<End>>
           /\ \A k \in 1 .. i - 1 : f[k] # <<Start>>
           /\ \A k \in i + 2 .. j - 1 : f[k] # <<End>>
<1>1. PICK n \in Nat : n = Len(f) /\ DOMAIN f = 1 .. n
  BY LenProperties
<1>2. PICK S : S = Starts(f) /\ S \subseteq 1 .. n /\ S # {}
  BY <1>1 DEF Starts, HasBlock
<1>3. S \subseteq Nat
  BY <1>2
<1>4. PICK i \in Nat : i = Min(S) /\ i \in S /\ i \in 1 .. n /\ \A x \in S : i <= x
  BY <1>2, <1>3, MinIs
<1>5. f[i] = <<Start>> /\ Ends(f, i) # {}
  BY <1>2, <1>4 DEF Starts
<1>6. PICK E : E = Ends(f, i)
  OBVIOUS
<1>7. E \subseteq i + 2 .. n /\ E \subseteq Nat /\ E # {}
  <2>1. E \subseteq i + 2 .. n /\ E # {}
    BY <1>1, <1>5, <1>6 DEF Ends
  <2>2. \A x \in i + 2 .. n : x \in Nat
    OBVIOUS
  <2>3. QED
    BY <2>1, <2>2
<1>8. PICK j \in Nat : j = Min(E) /\ j \in E /\ \A x \in E : j <= x
  BY <1>7, MinIs
<1>9. j \in i + 2 .. n /\ f[j] = <<End>>
  BY <1>6, <1>7, <1>8 DEF Ends
<1>10. \A k \in i + 2 .. j - 1 : f[k] # <<End>>
  <2>1. SUFFICES ASSUME NEW k \in i + 2 .. j - 1, f[k] = <<End>> PROVE FALSE
    OBVIOUS
  <2>2. k \in i + 2 .. n /\ ~(j <= k)
    BY <1>9
  <2>3. k \in E
    BY <1>1, <1>6, <2>1, <2>2 DEF Ends
  <2>4. QED
    BY <1>8, <2>2, <2>3
<1>11. \A k \in 1 .. i - 1 : f[k] # <<Start>>
  <2>1. SUFFICES ASSUME NEW k \in 1 .. i - 1, f[k] = <<Start>> PROVE FALSE
    OBVIOUS
  <2>2. k \in 1 .. n /\ ~(i <= k) /\ j \in k + 2 .. n
    BY <1>4, <1>9
  <2>3. Ends(f, k) # {}
    BY <1>1, <1>9, <2>2 DEF Ends
  <2>4. k \in S
    BY <1>1, <1>2, <2>1, <2>2, <2>3 DEF Starts
  <2>5. QED
    BY <1>4, <2>2, <2>4
<1>12. i = Min(Starts(f)) /\ j = Min(Ends(f, i))
  BY <1>2, <1>4, <1>6, <1>8
<1>13. 1 <= i /\ i + 2 <= j /\ j <= Len(f)
  BY <1>1, <1>4, <1>9
<1>14. QED
  BY <1>5, <1>9, <1>10, <1>11, <1>12, <1>13

LEMMA UnmarredIs ==
  ASSUME NEW f \in Seq(Seq(Word))
  PROVE  Unmarred(f) <=> \A k \in 1 .. Len(f) : ToSet(f[k]) \cap Markers = {}
<1>1. DOMAIN f = 1 .. Len(f)
  BY LenProperties
<1>2. ToSet(f) = {f[k] : k \in 1 .. Len(f)}
  BY <1>1 DEF ToSet
<1>3. ToSet(FlattenSeq(f)) = UNION {ToSet(l) : l \in ToSet(f)}
  <2>1. << >> \in Seq(Word)
    OBVIOUS
  <2>2. QED
    BY FlattenedSet
<1>4. QED
  BY <1>2, <1>3 DEF Unmarred

LEMMA UnmarredUnstarted ==
  ASSUME NEW P \in Seq(Seq(Word)), Unmarred(P)
  PROVE  /\ Unstarted(P) /\ ~HasBlock(P) /\ ~Stray(P) /\ Theirs(P) = Words(P)
<1>1. ToSet(<<Start>>) = {Start}
  BY DEF ToSet
<1>2. Unstarted(P)
  BY <1>1, UnmarredIs DEF Unstarted, Markers
<1>3. ~HasBlock(P)
  <2>1. DOMAIN P = 1 .. Len(P)
    BY LenProperties
  <2>2. QED
    BY <1>2, <2>1 DEF HasBlock, Starts, Unstarted
<1>4. QED
  BY <1>2, <1>3 DEF Stray, Theirs

(* What lies before a block and what follows it.                           *)
LEMMA AroundBlock ==
  ASSUME NEW f \in Seq(Seq(Word)), HasBlock(f)
  PROVE  \E i \in Nat, j \in Nat, P \in Seq(Seq(Word)), Q \in Seq(Seq(Word)) :
           /\ i = Min(Starts(f)) /\ j = Min(Ends(f, i)) /\ 1 <= i /\ i + 2 <= j /\ j <= Len(f)
           /\ f[i] = <<Start>> /\ f[j] = <<End>>
           /\ P = SubSeq(f, 1, i - 1) /\ Q = SubSeq(f, j + 1, Len(f))
           /\ Unstarted(P) /\ Theirs(f) = Words(P) \o Words(Q) /\ Injected(f) = Framed(P, Q)
           /\ ~Stray(f) => Unmarred(P) /\ Unmarred(Q)
<1>1. PICK i \in Nat, j \in Nat :
           /\ i = Min(Starts(f)) /\ j = Min(Ends(f, i)) /\ 1 <= i /\ i + 2 <= j /\ j <= Len(f)
           /\ f[i] = <<Start>> /\ f[j] = <<End>>
           /\ \A k \in 1 .. i - 1 : f[k] # <<Start>>
  BY BlockFound
<1>2. PICK n \in Nat, h \in Nat : n = Len(f) /\ DOMAIN f = 1 .. n /\ h = i - 1 /\ h + 1 = i
  <2>1. i - 1 \in Nat /\ (i - 1) + 1 = i
    BY <1>1
  <2>2. QED
    BY <2>1, LenProperties
<1>3. h \in 0 .. Len(f) /\ j \in 0 .. Len(f)
  BY <1>1, <1>2
<1>4. PICK P \in Seq(Seq(Word)) : P = Upto(f, h) /\ Len(P) = h /\ \A k \in 1 .. h : P[k] = f[k]
  <2>1. Upto(f, h) \in Seq(Seq(Word)) /\ Len(Upto(f, h)) = h
        /\ \A k \in 1 .. h : Upto(f, h)[k] = f[k]
    BY <1>3, CutAt
  <2>2. QED
    BY <2>1, Zenon
<1>5. PICK Q \in Seq(Seq(Word)) :
        Q = Past(f, j) /\ Len(Q) = n - j /\ \A k \in 1 .. n - j : Q[k] = f[j + k]
  <2>1. Past(f, j) \in Seq(Seq(Word)) /\ Len(Past(f, j)) = Len(f) - j
        /\ \A k \in 1 .. Len(f) - j : Past(f, j)[k] = f[j + k]
    BY <1>3, CutAt
  <2>2. QED
    BY <1>2, <2>1, Zenon
<1>6. P = SubSeq(f, 1, i - 1) /\ Q = SubSeq(f, j + 1, Len(f))
  BY <1>2, <1>4, <1>5 DEF Upto, Past
<1>7. Unstarted(P)
  BY <1>1, <1>2, <1>4 DEF Unstarted
<1>8. Theirs(f) = Words(P) \o Words(Q)
  <2>1. Theirs(f) = Words(P \o Q)
    BY <1>1, <1>6, WordsAre DEF Theirs
  <2>2. QED
    BY <2>1, WordsConcat
<1>9. Injected(f) = Framed(P, Q)
  BY <1>1, <1>6, WordsAre DEF Injected, Framed
<1>10. ASSUME ~Stray(f) PROVE Unmarred(P) /\ Unmarred(Q)
  <2>1. \A k \in 1 .. n : (Start \in ToSet(f[k]) => k = i) /\ (End \in ToSet(f[k]) => k = j)
    BY <1>1, <1>2, <1>10, WordsAre DEF Stray
  <2>2. \A k \in 1 .. h : k \in 1 .. n /\ k # i /\ k # j
    <3>1. i + 2 <= j /\ j <= n /\ h + 1 = i
      BY <1>1, <1>2
    <3>2. QED
      BY <3>1
  <2>3. \A k \in 1 .. n - j : j + k \in 1 .. n /\ j + k # i /\ j + k # j
    <3>1. i + 2 <= j /\ j <= n
      BY <1>1, <1>2
    <3>2. QED
      BY <3>1
  <2>4. \A k \in 1 .. h : ToSet(P[k]) \cap Markers = {}
    BY <1>4, <2>1, <2>2 DEF Markers
  <2>5. \A k \in 1 .. n - j : ToSet(Q[k]) \cap Markers = {}
    BY <1>5, <2>1, <2>3 DEF Markers
  <2>6. QED
    BY <1>4, <1>5, <2>4, <2>5, UnmarredIs
<1>11. QED
  BY <1>1, <1>6, <1>7, <1>8, <1>9, <1>10, Zenon

LEMMA SeparatorIs ==
  ASSUME NEW f \in Seq(Seq(Word))
  PROVE  /\ Separator(f) \in Seq(Seq(Word)) /\ Words(Separator(f)) = << >>
         /\ Unmarred(Separator(f))
BY WordsOfNone DEF Separator

LEMMA InjectedIs ==
  ASSUME NEW f, f = Absent \/ f \in Seq(Seq(Word))
  PROVE  \E P \in Seq(Seq(Word)), Q \in Seq(Seq(Word)) :
           /\ Injected(f) = Framed(P, Q) /\ Unstarted(P)
           /\ Theirs(f) = Words(P) \o Words(Q)
           /\ ~Stray(f) => Unmarred(P) /\ Unmarred(Q)
<1>0. PICK none \in Seq(Seq(Word)) : none = << >> /\ Words(none) = << >> /\ Unmarred(none)
  BY WordsOfNone
<1>1. CASE f = Absent
  <2>1. Framed(none, none) = Block
    <3>1. PICK B \in Seq(Seq(Word)) : B = Block
      BY BlockIs
    <3>2. << >> \o B = B /\ B \o << >> = B
      BY ConcatEmptySeq
    <3>3. QED
      BY <1>0, <3>1, <3>2 DEF Framed
  <2>2. Theirs(f) = << >> /\ << >> \o << >> = << >>
    BY <1>1 DEF Theirs, Words
  <2>3. Injected(f) = Block
    BY <1>1 DEF Injected
  <2>4. QED
    BY <1>0, <2>1, <2>2, <2>3, UnmarredUnstarted
<1>2. CASE f \in Seq(Seq(Word)) /\ HasBlock(f)
  BY <1>2, AroundBlock
<1>3. CASE f \in Seq(Seq(Word)) /\ ~HasBlock(f)
  <2>1. PICK c \in Seq(Seq(Word)) : c = Cleaned(f) /\ Words(c) = Words(f) /\ Unmarred(c)
    BY <1>3, CleanedIs
  <2>2. PICK d \in Seq(Seq(Word)) : d = Separator(c) /\ Words(d) = << >> /\ Unmarred(d)
    BY SeparatorIs
  <2>3. PICK P \in Seq(Seq(Word)) :
          P = c \o d /\ Words(P) = Words(c) \o Words(d) /\ Unmarred(P)
    <3>1. /\ c \o d \in Seq(Seq(Word)) /\ Words(c \o d) = Words(c) \o Words(d)
          /\ Unmarred(c \o d)
      BY <2>1, <2>2, WordsConcat
    <3>2. QED
      BY <3>1
  <2>4. Injected(f) = P \o Block
    BY <1>3, <2>1, <2>2, <2>3, WordsAre DEF Injected
  <2>5. Framed(P, none) = P \o Block
    <3>1. PICK B \in Seq(Seq(Word)) : B = Block
      BY BlockIs
    <3>2. PICK r \in Seq(Seq(Word)) : r = P \o B
      BY ConcatProperties
    <3>3. r \o << >> = r
      BY ConcatEmptySeq
    <3>4. QED
      BY <1>0, <3>1, <3>2, <3>3 DEF Framed
  <2>6. Words(P) = Words(P) \o Words(none) /\ Theirs(f) = Words(P)
    <3>1. PICK u \in Seq(Word) : u = Words(f)
      BY <1>3, WordsAre
    <3>2. u \o << >> = u
      BY ConcatEmptySeq
    <3>3. Words(P) = u
      BY <2>1, <2>2, <2>3, <3>1, <3>2
    <3>4. Theirs(f) = u
      BY <1>3, <3>1 DEF Theirs
    <3>5. QED
      BY <1>0, <3>2, <3>3, <3>4
  <2>7. QED
    BY <1>0, <2>3, <2>4, <2>5, <2>6, UnmarredUnstarted
<1>4. QED
  BY <1>1, <1>2, <1>3

LEMMA FramedClean ==
  ASSUME NEW P \in Seq(Seq(Word)), NEW Q \in Seq(Seq(Word)), Unmarred(P), Unmarred(Q)
  PROVE  ~Stray(Framed(P, Q))
<1>1. PICK g \in Seq(Seq(Word)), p \in Nat, q \in Nat :
           /\ g = Framed(P, Q) /\ p = Len(P) /\ q = Len(Q) /\ Len(g) = p + 3 + q
           /\ \A i \in 1 .. p : g[i] = P[i]
           /\ g[p + 1] = <<Start>> /\ g[p + 2] = <<Rule>> /\ g[p + 3] = <<End>>
           /\ \A i \in 1 .. q : g[p + 3 + i] = Q[i]
           /\ Upto(g, p) = P /\ Past(g, p + 3) = Q
  BY FramedAt
<1>2. DOMAIN g = 1 .. p + 3 + q
  BY <1>1, LenProperties
<1>3. Min(Starts(g)) = p + 1 /\ Min(Ends(g, p + 1)) = p + 3
  BY <1>1, UnmarredUnstarted, FramedBlock
<1>4. \A k \in 1 .. p : Start \notin ToSet(g[k]) /\ End \notin ToSet(g[k])
  BY <1>1, UnmarredIs DEF Markers
<1>5. \A i \in 1 .. q : Start \notin ToSet(g[p + 3 + i]) /\ End \notin ToSet(g[p + 3 + i])
  BY <1>1, UnmarredIs DEF Markers
<1>6. /\ ToSet(g[p + 1]) = {Start} /\ ToSet(g[p + 2]) = {Rule} /\ ToSet(g[p + 3]) = {End}
      /\ Start # End /\ Rule # Start /\ Rule # End
  BY <1>1 DEF ToSet, Start, End, Rule
<1>7. \A k \in 1 .. p + 3 + q :
        k \in 1 .. p \/ k = p + 1 \/ k = p + 2 \/ k = p + 3
          \/ \E i \in 1 .. q : k = p + 3 + i
  <2>1. SUFFICES ASSUME NEW k \in 1 .. p + 3 + q, ~(k <= p + 3)
                 PROVE  \E i \in 1 .. q : k = p + 3 + i
    OBVIOUS
  <2>2. k - (p + 3) \in 1 .. q /\ k = p + 3 + (k - (p + 3))
    BY <2>1
  <2>3. QED
    BY <2>2
<1>8. \A k \in DOMAIN g : (Start \in ToSet(g[k]) => k = p + 1) /\ (End \in ToSet(g[k]) => k = p + 3)
  <2>1. SUFFICES ASSUME NEW k \in 1 .. p + 3 + q
                 PROVE  (Start \in ToSet(g[k]) => k = p + 1) /\ (End \in ToSet(g[k]) => k = p + 3)
    BY <1>2
  <2>2. CASE k \in 1 .. p
    BY <1>4, <2>2
  <2>3. CASE k = p + 1 \/ k = p + 2 \/ k = p + 3
    BY <1>6, <2>3
  <2>4. CASE \E i \in 1 .. q : k = p + 3 + i
    BY <1>5, <2>4
  <2>5. QED
    BY <1>7, <2>2, <2>3, <2>4
<1>9. QED
  BY <1>1, <1>3, <1>8, Zenon DEF Stray

(* An install makes a block where it found one, or one at the end, and     *)
(* leaves all of the user's words.                                         *)
LEMMA InstallIs ==
  ASSUME NEW f, f = Absent \/ f \in Seq(Seq(Word))
  PROVE  /\ Injected(f) \in Seq(Seq(Word)) /\ HasBlock(Injected(f))
         /\ Injected(Injected(f)) = Injected(f) /\ Theirs(Injected(f)) = Theirs(f)
         /\ ~Stray(f) => ~Stray(Injected(f))
<1>1. PICK P \in Seq(Seq(Word)), Q \in Seq(Seq(Word)) :
           /\ Injected(f) = Framed(P, Q) /\ Unstarted(P)
           /\ Theirs(f) = Words(P) \o Words(Q)
           /\ ~Stray(f) => Unmarred(P) /\ Unmarred(Q)
  BY InjectedIs
<1>2. /\ Framed(P, Q) \in Seq(Seq(Word)) /\ HasBlock(Framed(P, Q))
      /\ Theirs(Framed(P, Q)) = Words(P) \o Words(Q) /\ Injected(Framed(P, Q)) = Framed(P, Q)
  BY <1>1, FramedBlock
<1>3. ~Stray(f) => ~Stray(Framed(P, Q))
  BY <1>1, FramedClean
<1>4. QED
  BY <1>1, <1>2, <1>3, Zenon

-----------------------------------------------------------------------------
(* What is removed                                                         *)

LEMMA LooseFound ==
  ASSUME NEW f \in Seq(Seq(Word)), HasBlock(f)
  PROVE  \E i \in 1 .. Len(f), j \in 1 .. Len(f) :
           /\ i = Min(LooseStarts(f)) /\ j = Min(LooseEnds(f, i))
           /\ f[i] # << >> /\ f[j] # << >>
           /\ ~Stray(f) => i = Min(Starts(f)) /\ j = Min(Ends(f, i))
<1>1. PICK a \in Nat, b \in Nat :
           /\ a = Min(Starts(f)) /\ b = Min(Ends(f, a)) /\ 1 <= a /\ a + 2 <= b /\ b <= Len(f)
           /\ f[a] = <<Start>> /\ f[b] = <<End>>
  BY BlockFound
<1>2. PICK n \in Nat : n = Len(f) /\ DOMAIN f = 1 .. n
  BY LenProperties
<1>3. a \in 1 .. n /\ b \in 1 .. n /\ b \in a + 2 .. n
  BY <1>1, <1>2
<1>4. b \in LooseEnds(f, a)
  <2>1. <<End>> # << >> /\ Head(<<End>>) = End
    OBVIOUS
  <2>2. QED
    BY <1>1, <1>2, <1>3, <2>1 DEF LooseEnds
<1>5. a \in LooseStarts(f)
  <2>1. <<Start>> # << >> /\ Last(<<Start>>) = Start
    BY DEF Last
  <2>2. QED
    BY <1>1, <1>2, <1>3, <1>4, <2>1 DEF LooseStarts
<1>6. PICK S : S = LooseStarts(f) /\ S \subseteq 1 .. n /\ a \in S
  BY <1>2, <1>5 DEF LooseStarts
<1>7. S \subseteq Nat
  BY <1>6
<1>8. PICK i \in 1 .. n : i = Min(S) /\ i \in S
  BY <1>6, <1>7, MinIs
<1>9. f[i] # << >> /\ LooseEnds(f, i) # {} /\ Last(f[i]) = Start
  BY <1>6, <1>8 DEF LooseStarts
<1>10. PICK E : E = LooseEnds(f, i) /\ E # {}
  BY <1>9
<1>11. E \subseteq 1 .. n
  <2>1. \A x \in i + 2 .. n : x \in 1 .. n
    BY <1>8
  <2>2. QED
    BY <1>2, <1>10, <2>1 DEF LooseEnds
<1>12. E \subseteq Nat
  BY <1>11
<1>13. PICK j \in 1 .. n : j = Min(E) /\ j \in E
  BY <1>10, <1>11, <1>12, MinIs
<1>14. f[j] # << >> /\ Head(f[j]) = End
  BY <1>10, <1>13 DEF LooseEnds
<1>15. ASSUME ~Stray(f) PROVE i = a /\ j = b
  <2>1. \A k \in 1 .. n : (Start \in ToSet(f[k]) => k = a) /\ (End \in ToSet(f[k]) => k = b)
    BY <1>1, <1>2, <1>15, WordsAre DEF Stray
  <2>2. PICK l \in Seq(Word), r \in Seq(Word) : l = f[i] /\ r = f[j]
    BY <1>2, <1>8, <1>13, ElementOfSeq
  <2>3. DOMAIN l = 1 .. Len(l) /\ Len(l) \in Nat \ {0} /\ DOMAIN r = 1 .. Len(r) /\ Len(r) \in Nat \ {0}
    BY <1>9, <1>14, <2>2, EmptySeq, LenProperties
  <2>4. Len(l) \in DOMAIN l /\ 1 \in DOMAIN r
    BY <2>3
  <2>5. Last(l) = l[Len(l)] /\ Head(r) = r[1]
    BY <1>14, <2>2 DEF Last
  <2>6. Start \in ToSet(l) /\ End \in ToSet(r)
    BY <1>9, <1>14, <2>2, <2>4, <2>5 DEF ToSet
  <2>7. QED
    BY <1>8, <1>13, <2>1, <2>2, <2>6
<1>16. QED
  BY <1>1, <1>2, <1>6, <1>8, <1>9, <1>10, <1>13, <1>14, <1>15, Zenon

LEMMA CutOutIs ==
  ASSUME NEW f \in Seq(Seq(Word)), HasBlock(f)
  PROVE  /\ CutOut(f) \in Seq(Seq(Word))
         /\ ~Stray(f) => Unmarred(CutOut(f)) /\ Words(CutOut(f)) = Theirs(f)
<1>1. PICK i \in 1 .. Len(f), j \in 1 .. Len(f) :
           /\ i = Min(LooseStarts(f)) /\ j = Min(LooseEnds(f, i))
           /\ f[i] # << >> /\ f[j] # << >>
           /\ ~Stray(f) => i = Min(Starts(f)) /\ j = Min(Ends(f, i))
  BY LooseFound
<1>2. PICK n \in Nat : n = Len(f)
  BY LenProperties
<1>3. PICK l \in Seq(Word), r \in Seq(Word) : l = f[i] /\ r = f[j]
  BY <1>1, ElementOfSeq
<1>4. PICK before \in Seq(Word) : before = Front(l)
  BY <1>1, <1>3, LastOne
<1>5. PICK after \in Seq(Word) : after = Tail(r)
  BY <1>1, <1>3, HeadTailProperties
<1>6. PICK P \in Seq(Seq(Word)) : P = SubSeq(f, 1, i - 1)
  <2>1. i - 1 \in 0 .. Len(f)
    BY <1>1, <1>2
  <2>2. QED
    BY <2>1, CutAt DEF Upto
<1>7. PICK rest \in Seq(Seq(Word)) : rest = SubSeq(f, j + 1, Len(f))
  <2>1. j \in 0 .. Len(f)
    BY <1>1, <1>2
  <2>2. QED
    BY <2>1, CutAt DEF Past
<1>8. PICK left : left = IF after # << >> \/ (before # << >> /\ rest = << >>)
               THEN <<before \o after>> \o rest
               ELSE IF before = << >> THEN rest
               ELSE <<before \o Head(rest)>> \o Tail(rest)
  OBVIOUS
<1>9. CutOut(f) = P \o left
  BY <1>1, <1>3, <1>4, <1>5, <1>6, <1>7, <1>8 DEF CutOut
<1>10. left \in Seq(Seq(Word))
  <2>1. CASE after # << >> \/ (before # << >> /\ rest = << >>)
    <3>1. before \o after \in Seq(Word)
      BY ConcatProperties
    <3>2. <<before \o after>> \in Seq(Seq(Word))
      BY <3>1
    <3>3. QED
      BY <1>8, <2>1, <3>2, ConcatProperties
  <2>2. CASE ~(after # << >> \/ (before # << >> /\ rest = << >>)) /\ before = << >>
    BY <1>8, <2>2
  <2>3. CASE ~(after # << >> \/ (before # << >> /\ rest = << >>)) /\ before # << >>
    <3>1. Head(rest) \in Seq(Word) /\ Tail(rest) \in Seq(Seq(Word))
      BY <2>3, HeadTailProperties
    <3>2. before \o Head(rest) \in Seq(Word)
      BY <3>1, ConcatProperties
    <3>3. <<before \o Head(rest)>> \in Seq(Seq(Word))
      BY <3>2
    <3>4. QED
      BY <1>8, <2>3, <3>1, <3>3, ConcatProperties
  <2>4. QED
    BY <2>1, <2>2, <2>3
<1>11. CutOut(f) \in Seq(Seq(Word))
  BY <1>9, <1>10, ConcatProperties
<1>12. ASSUME ~Stray(f) PROVE Unmarred(CutOut(f)) /\ Words(CutOut(f)) = Theirs(f)
  <2>1. /\ f[i] = <<Start>> /\ f[j] = <<End>>
        /\ Unmarred(P) /\ Unmarred(rest) /\ Theirs(f) = Words(P) \o Words(rest)
    <3>1. PICK a \in Nat, b \in Nat, A \in Seq(Seq(Word)), B \in Seq(Seq(Word)) :
           /\ a = Min(Starts(f)) /\ b = Min(Ends(f, a)) /\ 1 <= a /\ a + 2 <= b /\ b <= Len(f)
           /\ f[a] = <<Start>> /\ f[b] = <<End>>
           /\ A = SubSeq(f, 1, a - 1) /\ B = SubSeq(f, b + 1, Len(f))
           /\ Unstarted(A) /\ Theirs(f) = Words(A) \o Words(B) /\ Injected(f) = Framed(A, B)
           /\ ~Stray(f) => Unmarred(A) /\ Unmarred(B)
      BY AroundBlock
    <3>2. i = a /\ j = b
      BY <1>1, <1>12, <3>1
    <3>3. P = A /\ rest = B
      BY <1>6, <1>7, <3>1, <3>2
    <3>4. QED
      BY <1>12, <3>1, <3>2, <3>3, Zenon
  <2>2. before = << >>
    <3>1. Front(<<Start>>) = << >>
      <4>1. Start \in Word
        BY DEF Word, Markers
      <4>2. << >> \in Seq(Word) /\ Append(<< >>, Start) = <<Start>>
        OBVIOUS
      <4>3. QED
        BY <4>1, <4>2, LastAppended
    <3>2. QED
      BY <1>3, <1>4, <2>1, <3>1
  <2>3. after = << >>
    <3>1. Tail(<<End>>) = << >>
      OBVIOUS
    <3>2. QED
      BY <1>3, <1>5, <2>1, <3>1
  <2>4. CutOut(f) = P \o rest
    BY <1>8, <1>9, <2>2, <2>3
  <2>5. QED
    BY <2>1, <2>4, WordsConcat
<1>13. QED
  BY <1>11, <1>12

(* A removal leaves no marker, and all of the user's words.                *)
LEMMA RemovedIs ==
  ASSUME NEW f \in Seq(Seq(Word))
  PROVE  /\ Removed(f) \in Seq(Seq(Word))
         /\ ~Stray(f) => /\ Unmarred(Removed(f)) /\ Words(Removed(f)) = Theirs(f)
                         /\ Theirs(Removed(f)) = Theirs(f)
<1>1. CASE HasBlock(f)
  <2>1. PICK c \in Seq(Seq(Word)) :
          c = CutOut(f) /\ (~Stray(f) => Unmarred(c) /\ Words(c) = Theirs(f))
    BY <1>1, CutOutIs
  <2>2. PICK d \in Seq(Seq(Word)) :
          d = Removed(f) /\ Words(d) = Words(c) /\ (Unmarred(d) <=> Unmarred(c))
    BY <1>1, <2>1, CollapsedIs DEF Removed
  <2>3. QED
    BY <2>1, <2>2, UnmarredUnstarted
<1>2. CASE ~HasBlock(f)
  <2>1. PICK d \in Seq(Seq(Word)) : d = Removed(f) /\ Words(d) = Words(f) /\ Unmarred(d)
    BY <1>2, CleanedIs DEF Removed
  <2>2. Theirs(f) = Words(f)
    BY <1>2 DEF Theirs
  <2>3. QED
    BY <2>1, <2>2, UnmarredUnstarted
<1>3. QED
  BY <1>1, <1>2

-----------------------------------------------------------------------------
(* The file, whatever happens to it, is a sequence of lines of words, and  *)
(* what a setup under way is to write has all that the user wrote.         *)

Files == Seq(Seq(Word)) \cup {Absent}

BlockInv ==
  /\ file \in Files
  /\ setup = Idle \/ \E text \in Seq(Seq(Word)), pc \in {"open", "write"} :
                       setup = [pc |-> pc, text |-> text]
  /\ ~mishap => /\ setup.pc # "write" => Theirs(file) = theirs
                /\ setup # Idle => Theirs(setup.text) = theirs

(* The lines of the user are lines, and so is what they make of the file.  *)
LEMMA EditIs ==
  ASSUME NEW f \in Seq(Seq(Word))
  PROVE  /\ \A l \in UserLines, k \in 0 .. Len(f) : Insert(f, k, l) \in Seq(Seq(Word))
         /\ \A k \in DOMAIN f : Without(f, k) \in Seq(Seq(Word))
<1>1. PICK n \in Nat : n = Len(f) /\ DOMAIN f = 1 .. n
  BY LenProperties
<1>2. ASSUME NEW l \in UserLines, NEW k \in 0 .. Len(f) PROVE Insert(f, k, l) \in Seq(Seq(Word))
  <2>1. l \in Seq(Word)
    BY BlockAssumption
  <2>2. <<l>> \in Seq(Seq(Word))
    BY <2>1
  <2>3. SubSeq(f, 1, k) \in Seq(Seq(Word)) /\ SubSeq(f, k + 1, Len(f)) \in Seq(Seq(Word))
    BY CutAt DEF Upto, Past
  <2>4. SubSeq(f, 1, k) \o <<l>> \in Seq(Seq(Word))
    BY <2>2, <2>3, ConcatProperties
  <2>5. QED
    BY <2>3, <2>4, ConcatProperties DEF Insert
<1>3. ASSUME NEW k \in DOMAIN f PROVE Without(f, k) \in Seq(Seq(Word))
  <2>1. k - 1 \in 0 .. Len(f) /\ k \in 0 .. Len(f)
    BY <1>1
  <2>2. SubSeq(f, 1, k - 1) \in Seq(Seq(Word)) /\ SubSeq(f, k + 1, Len(f)) \in Seq(Seq(Word))
    BY <2>1, CutAt DEF Upto, Past
  <2>3. QED
    BY <2>2, ConcatProperties DEF Without
<1>4. QED
  BY <1>2, <1>3

LEMMA ReadKeeps ==
  ASSUME BlockInv, NEW text \in Seq(Seq(Word)), Read(text),
         ~Stray(file) => Theirs(text) = Theirs(file)
  PROVE  BlockInv'
<1>1. /\ setup = Idle /\ setup' = [pc |-> "open", text |-> text]
      /\ mishap' = (mishap \/ Stray(file)) /\ file' = file /\ theirs' = theirs
  BY DEF Read
<1>2. ~mishap => Theirs(file) = theirs
  BY <1>1 DEF BlockInv, Idle
<1>3. Theirs(file)' = Theirs(file) /\ Theirs(setup.text)' = Theirs(text)
  BY <1>1
<1>4. file' \in Files
  BY <1>1 DEF BlockInv
<1>5. setup' = [pc |-> "open", text |-> text]
  BY <1>1
<1>6. QED
  BY <1>1, <1>2, <1>3, <1>4 DEF BlockInv

LEMMA EditKeeps ==
  ASSUME BlockInv, Edit
  PROVE  BlockInv'
<1>1. theirs' = Theirs(file') /\ mishap' = (setup # Idle) /\ setup' = setup
  BY DEF Edit
<1>2. file' \in Seq(Seq(Word))
  <2>1. CASE \E l \in UserLines :
               LET f == IF file = Absent THEN << >> ELSE file IN
               Len(f) < MaxLines /\ \E k \in 0 .. Len(f) : file' = Insert(f, k, l)
    <3>1. PICK f \in Seq(Seq(Word)) : f = IF file = Absent THEN << >> ELSE file
      <4>1. << >> \in Seq(Seq(Word))
        OBVIOUS
      <4>2. QED
        BY <4>1 DEF BlockInv, Files
    <3>2. PICK l \in UserLines : \E k \in 0 .. Len(f) : file' = Insert(f, k, l)
      BY <2>1, <3>1
    <3>3. QED
      BY <3>2, EditIs
  <2>2. CASE file # Absent /\ \E k \in DOMAIN file : file' = Without(file, k)
    <3>1. PICK f \in Seq(Seq(Word)) : f = file
      BY <2>2 DEF BlockInv, Files
    <3>2. QED
      BY <2>2, <3>1, EditIs
  <2>3. QED
    BY <2>1, <2>2 DEF Edit
<1>3. Theirs(file)' = Theirs(file')
  OBVIOUS
<1>4. (setup = Idle \/ \E text \in Seq(Seq(Word)), pc \in {"open", "write"} :
                         setup = [pc |-> pc, text |-> text])'
  BY <1>1 DEF BlockInv
<1>5. QED
  BY <1>1, <1>2, <1>3, <1>4 DEF BlockInv, Files

LEMMA InjectKeeps ==
  ASSUME BlockInv, InjectBlock
  PROVE  BlockInv'
<1>1. file = Absent \/ file \in Seq(Seq(Word))
  BY DEF BlockInv, Files
<1>2. PICK text \in Seq(Seq(Word)) : text = Injected(file) /\ Theirs(text) = Theirs(file)
  BY <1>1, InstallIs
<1>3. Read(text)
  BY <1>2 DEF InjectBlock
<1>4. QED
  BY <1>2, <1>3, ReadKeeps

LEMMA RemoveKeeps ==
  ASSUME BlockInv, RemoveBlock
  PROVE  BlockInv'
<1>1. file \in Seq(Seq(Word))
  BY DEF BlockInv, Files, RemoveBlock
<1>2. PICK text \in Seq(Seq(Word)) :
        text = Removed(file) /\ (~Stray(file) => Theirs(text) = Theirs(file))
  BY <1>1, RemovedIs
<1>3. Read(text)
  BY <1>2 DEF RemoveBlock
<1>4. QED
  BY <1>2, <1>3, ReadKeeps

(* What a setup under way is.                                              *)
LEMMA UnderWay ==
  ASSUME BlockInv, setup.pc # "idle"
  PROVE  \E text \in Seq(Seq(Word)) :
           /\ setup.text = text /\ setup # Idle
           /\ setup = [pc |-> "open", text |-> text] \/ setup = [pc |-> "write", text |-> text]
<1>1. setup # Idle
  BY DEF Idle
<1>2. PICK text \in Seq(Seq(Word)), pc \in {"open", "write"} : setup = [pc |-> pc, text |-> text]
  BY <1>1 DEF BlockInv
<1>3. setup.text = text
  BY <1>2
<1>4. QED
  BY <1>1, <1>2, <1>3

LEMMA TruncateKeeps ==
  ASSUME BlockInv, Truncate
  PROVE  BlockInv'
<1>1. /\ setup.pc = "open" /\ file' = << >> /\ setup' = [setup EXCEPT !.pc = "write"]
      /\ theirs' = theirs /\ mishap' = mishap
  BY DEF Truncate
<1>2. PICK text \in Seq(Seq(Word)) :
        /\ setup.text = text /\ setup # Idle
        /\ setup = [pc |-> "open", text |-> text] \/ setup = [pc |-> "write", text |-> text]
  BY <1>1, UnderWay
<1>3. setup = [pc |-> "open", text |-> text]
  BY <1>1, <1>2
<1>4. setup' = [pc |-> "write", text |-> text]
  BY <1>1, <1>3
<1>5. Theirs(setup.text)' = Theirs(text) /\ setup'.pc = "write"
  BY <1>4
<1>6. ~mishap => Theirs(text) = theirs
  BY <1>2 DEF BlockInv
<1>7. << >> \in Seq(Seq(Word))
  OBVIOUS
<1>8. file' \in Files
  BY <1>1, <1>7 DEF Files
<1>9. (setup = Idle \/ \E t \in Seq(Seq(Word)), pc \in {"open", "write"} :
                         setup = [pc |-> pc, text |-> t])'
  BY <1>4
<1>10. QED
  BY <1>1, <1>5, <1>6, <1>8, <1>9 DEF BlockInv

LEMMA WriteKeeps ==
  ASSUME BlockInv, WriteAll
  PROVE  BlockInv'
<1>1. /\ setup.pc = "write" /\ file' = setup.text /\ setup' = Idle
      /\ theirs' = theirs /\ mishap' = mishap
  BY DEF WriteAll
<1>2. PICK text \in Seq(Seq(Word)) : setup.text = text /\ setup # Idle
  BY <1>1, UnderWay
<1>3. ~mishap => Theirs(text) = theirs
  BY <1>2 DEF BlockInv
<1>4. Theirs(file)' = Theirs(text)
  BY <1>1, <1>2
<1>5. file' \in Files
  BY <1>1, <1>2 DEF Files
<1>6. QED
  BY <1>1, <1>3, <1>4, <1>5 DEF BlockInv

LEMMA KillKeeps ==
  ASSUME BlockInv, Kill
  PROVE  BlockInv'
<1>1. /\ setup' = Idle /\ mishap' = (mishap \/ setup.pc = "write")
      /\ file' = file /\ theirs' = theirs
  BY DEF Kill
<1>2. Theirs(file)' = Theirs(file)
  BY <1>1
<1>3. ~mishap' => Theirs(file) = theirs
  BY <1>1 DEF BlockInv
<1>4. file' \in Files
  BY <1>1 DEF BlockInv
<1>5. QED
  BY <1>1, <1>2, <1>3, <1>4 DEF BlockInv

LEMMA BlockStep ==
  ASSUME BlockInv, [BlockNext]_blockVars
  PROVE  BlockInv'
<1>1. CASE UNCHANGED blockVars
  <2>1. file' = file /\ setup' = setup /\ theirs' = theirs /\ mishap' = mishap
    BY <1>1 DEF blockVars
  <2>2. QED
    BY <2>1 DEF BlockInv
<1>2. QED
  BY <1>1, EditKeeps, InjectKeeps, RemoveKeeps, TruncateKeeps, WriteKeeps, KillKeeps
  DEF BlockNext

LEMMA BlockInvariant == BlockSpec => []BlockInv
<1>1. BlockInit => BlockInv
  BY DEF BlockInit, BlockInv, Files, Theirs, Words, Idle
<1>2. BlockInv /\ [BlockNext]_blockVars => BlockInv'
  BY BlockStep
<1>3. QED
  BY <1>1, <1>2, PTL DEF BlockSpec

(* An install or a removal that is not killed as it writes, and whose file *)
(* the user has not saved since it read it, leaves all that they wrote     *)
(* outside of the block, in order (setup_rules.py:64-152).                 *)
THEOREM WordsKept == BlockSpec => []Kept
<1>1. BlockInv => Kept
  BY DEF BlockInv, Kept, Idle
<1>2. QED
  BY <1>1, BlockInvariant, PTL

(* Whatever the file has become, an install leaves a complete block, a     *)
(* second one changes nothing, and a removal after it takes every marker   *)
(* and no word of the user (setup_rules.py:37-47, 76-152).                 *)
THEOREM InstallStable == BlockSpec => []InstallIsStable
<1>1. BlockInv => InstallIsStable
  <2>1. SUFFICES ASSUME BlockInv PROVE InstallIsStable
    OBVIOUS
  <2>2. file = Absent \/ file \in Seq(Seq(Word))
    BY <2>1 DEF BlockInv, Files
  <2>3. PICK g \in Seq(Seq(Word)) :
          /\ g = Injected(file) /\ HasBlock(g) /\ Injected(g) = g /\ Theirs(g) = Theirs(file)
          /\ ~Stray(file) => ~Stray(g)
    BY <2>2, InstallIs
  <2>4. ~Stray(g) => Unmarred(Removed(g)) /\ Words(Removed(g)) = Theirs(g)
    BY RemovedIs
  <2>5. QED
    BY <2>3, <2>4, Zenon DEF InstallIsStable, Unmarred
<1>2. QED
  BY <1>1, BlockInvariant, PTL
=============================================================================
