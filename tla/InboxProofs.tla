---------------------------- MODULE InboxProofs ----------------------------
(***************************************************************************)
(* Proofs about Inbox, for any number of handlers and any bounds.          *)
(***************************************************************************)
EXTENDS Inbox, FiniteSetTheorems, TLAPS

-----------------------------------------------------------------------------
(* Numbers in order: the places of the unread messages (see InOrder).      *)

LEMMA Least ==
  ASSUME NEW S, S \subseteq Nat, S # {}
  PROVE  \E x \in S : \A y \in S : x <= y
<1> DEFINE Order == StrictSubsetOrdering(Nat)
           Below == {0 .. x - 1 : x \in S}
<1>1. IsWellFoundedOn(Order, FiniteSubsetsOf(Nat))
  BY FS_StrictSubsetOrderingWellFounded
<1>2. Below \subseteq FiniteSubsetsOf(Nat) /\ Below # {}
  <2>1. \A x \in S : 0 .. x - 1 \in SUBSET Nat /\ IsFiniteSet(0 .. x - 1)
    BY FS_Interval
  <2>2. QED
    BY <2>1 DEF FiniteSubsetsOf
<1>3. PICK b \in Below : \A c \in Below : <<c, b>> \notin Order
  <2> HIDE DEF Order, Below
  <2>1. QED
    BY <1>1, <1>2, WFMin, Zenon
<1>4. PICK x \in S : b = 0 .. x - 1
  BY <1>3
<1>5. ASSUME NEW y \in S, ~(x <= y) PROVE FALSE
  <2>1. 0 .. y - 1 \subseteq 0 .. x - 1 /\ y \in 0 .. x - 1 /\ y \notin 0 .. y - 1
    BY <1>5
  <2>2. <<0 .. y - 1, 0 .. x - 1>> \in Order
    BY <2>1 DEF StrictSubsetOrdering
  <2>3. QED
    BY <1>3, <1>4, <2>2
<1>6. QED
  BY <1>5

Increasing(s, n) == \A i, j \in 1 .. n : i < j => s[i] < s[j]

LEMMA HasOrder ==
  ASSUME NEW k \in Nat, NEW S, S \subseteq 1 .. k
  PROVE  \E s \in [1 .. Cardinality(S) -> S] : Increasing(s, Cardinality(S))
<1> DEFINE Good(T) == \E s \in [1 .. Cardinality(T) -> T] : Increasing(s, Cardinality(T))
           Bad == {n \in Nat : \E T \in SUBSET (1 .. n) : ~Good(T)}
<1>1. SUFFICES ASSUME Bad # {} PROVE FALSE
  <2>1. k \in Bad \/ Good(S)
    OBVIOUS
  <2>2. QED
    BY <1>1, <2>1
<1>2. PICK n \in Bad : \A m \in Bad : n <= m
  <2>1. Bad \subseteq Nat
    OBVIOUS
  <2> HIDE DEF Bad
  <2>2. QED
    BY <1>1, <2>1, Least
<1>3. PICK T \in SUBSET (1 .. n) : ~Good(T)
  BY <1>2
<1>4. n \in Nat /\ \A m \in Nat : m \in Bad => n <= m
  BY <1>2
<1>5. ASSUME NEW m \in Nat, m < n, NEW V \in SUBSET (1 .. m) PROVE Good(V)
  <2>1. m \notin Bad
    <3> HIDE DEF Bad
    <3>1. QED
      BY <1>4, <1>5
  <2> HIDE DEF Good
  <2>2. QED
    BY <1>5, <2>1
<1>6. n # 0
  <2>1. ASSUME n = 0 PROVE FALSE
    <3>1. T = {}
      BY <2>1
    <3>2. Cardinality(T) = 0
      BY <3>1, FS_EmptySet
    <3>3. <<>> \in [1 .. Cardinality(T) -> T] /\ Increasing(<<>>, Cardinality(T))
      BY <3>1, <3>2 DEF Increasing
    <3>4. QED
      BY <1>3, <3>3
  <2>2. QED
    BY <2>1
<1>7. n - 1 \in Nat /\ n - 1 < n
  BY <1>4, <1>6
<1>8. n \in T
  <2>1. ASSUME n \notin T PROVE FALSE
    <3>1. T \in SUBSET (1 .. n - 1)
      BY <1>4, <2>1
    <3> HIDE DEF Good
    <3>2. QED
      BY <1>3, <1>5, <1>7, <3>1
  <2>2. QED
    BY <2>1
<1> DEFINE U == T \ {n}
<1>9. U \in SUBSET (1 .. n - 1)
  BY <1>4
<1>10. PICK s \in [1 .. Cardinality(U) -> U] : Increasing(s, Cardinality(U))
  <2>1. Good(U)
    <3> HIDE DEF Good, U
    <3>1. QED
      BY <1>5, <1>7, <1>9
  <2>2. QED
    BY <2>1
<1>11. /\ Cardinality(T) \in Nat /\ Cardinality(U) \in Nat
       /\ Cardinality(T) = Cardinality(U) + 1
  <2>1. IsFiniteSet(1 .. n)
    BY <1>4, FS_Interval
  <2>2. IsFiniteSet(T)
    BY <2>1, FS_Subset
  <2>3. IsFiniteSet(U) /\ Cardinality(U) = Cardinality(T) - 1
    BY <1>8, <2>2, FS_RemoveElement
  <2>4. Cardinality(T) \in Nat /\ Cardinality(U) \in Nat
    BY <2>2, <2>3, FS_CardinalityType
  <2>5. QED
    BY <2>3, <2>4
<1> DEFINE c == Cardinality(T)
           d == Cardinality(U)
           r == [i \in 1 .. c |-> IF i = c THEN n ELSE s[i]]
<1>12. c \in Nat /\ d \in Nat /\ c = d + 1 /\ s \in [1 .. d -> U] /\ Increasing(s, d)
  BY <1>10, <1>11
<1> HIDE DEF c, d, Good
<1>13. \A i \in 1 .. c : i # c => i \in 1 .. d /\ s[i] \in T /\ s[i] \in 1 .. n - 1
  <2>1. \A i \in 1 .. c : i # c => i \in 1 .. d
    BY <1>12
  <2>2. QED
    BY <1>9, <1>12, <2>1
<1>14. r \in [1 .. c -> T]
  BY <1>8, <1>13
<1>15. Increasing(r, c)
  <2>1. ASSUME NEW i \in 1 .. c, NEW j \in 1 .. c, i < j PROVE r[i] < r[j]
    <3>1. i # c /\ i \in 1 .. d /\ s[i] \in 1 .. n - 1
      <4>1. i # c
        BY <1>12, <2>1
      <4>2. QED
        BY <1>13, <4>1
    <3>2. CASE j = c
      BY <1>4, <3>1, <3>2
    <3>3. CASE j # c
      <4>1. j \in 1 .. d
        BY <1>13, <3>3
      <4>2. QED
        BY <1>12, <2>1, <3>1, <3>3, <4>1 DEF Increasing
    <3>4. QED
      BY <3>2, <3>3
  <2>2. QED
    BY <2>1 DEF Increasing
<1>16. QED
  BY <1>3, <1>14, <1>15 DEF Good, c

LEMMA FirstNumbers ==
  ASSUME NEW m \in Nat
  PROVE  IsFiniteSet(1 .. m) /\ Cardinality(1 .. m) = m
BY FS_Interval

(* Below the m-th of an increasing sequence are the m - 1 before it, so    *)
(* InOrder picks the members of such a sequence.                           *)
LEMMA OrderIsInOrder ==
  ASSUME NEW k \in Nat, NEW S, S \subseteq 1 .. k, IsFiniteSet(S), Cardinality(S) \in Nat
  PROVE  InOrder(S) \in [1 .. Cardinality(S) -> S] /\ Increasing(InOrder(S), Cardinality(S))
<1> DEFINE c == Cardinality(S)
           Rank(x) == Cardinality({y \in S : y < x})
<1>1. PICK s \in [1 .. c -> S] : Increasing(s, c)
  BY HasOrder
<1> HIDE DEF c
<1>2. c \in Nat /\ IsFiniteSet(1 .. c) /\ Cardinality(1 .. c) = c
  BY FS_Interval DEF c
<1>3. \A n \in 1 .. c : s[n] \in S /\ s[n] \in 1 .. k
  BY <1>1
<1>4. s \in Injection(1 .. c, S)
  <2>1. ASSUME NEW i \in 1 .. c, NEW j \in 1 .. c, s[i] = s[j] PROVE i = j
    BY <1>1, <1>2, <1>3, <2>1 DEF Increasing
  <2>2. QED
    BY <1>1, <2>1 DEF Injection, IsInjective
<1>5. \A x \in S : \E n \in 1 .. c : s[n] = x
  <2>1. s \in Surjection(1 .. c, S)
    BY <1>2, <1>4, FS_Injection DEF c
  <2>2. QED
    BY <2>1 DEF Surjection
<1>6. ASSUME NEW n \in 1 .. c PROVE Rank(s[n]) = n - 1
  <2> DEFINE B == {y \in S : y < s[n]}
             t == [i \in 1 .. n - 1 |-> s[i]]
  <2>1. n - 1 \in Nat /\ \A i \in 1 .. n - 1 : i \in 1 .. c /\ i < n
    BY <1>2
  <2>2. \A i \in 1 .. n - 1 : t[i] \in B
    BY <1>1, <1>3, <2>1 DEF Increasing
  <2>3. ASSUME NEW y \in B PROVE \E i \in 1 .. n - 1 : t[i] = y
    <3>1. PICK i \in 1 .. c : s[i] = y
      BY <1>5
    <3>2. i < n
      <4>1. s[i] < s[n] /\ s[i] \in 1 .. k /\ s[n] \in 1 .. k
        BY <1>3, <3>1
      <4>2. n < i => s[n] < s[i]
        BY <1>1 DEF Increasing
      <4>3. QED
        BY <1>2, <4>1, <4>2
    <3>3. i \in 1 .. n - 1
      BY <1>2, <3>2
    <3>4. QED
      BY <3>1, <3>3
  <2>4. \A i, j \in 1 .. n - 1 : t[i] = t[j] => i = j
    BY <1>4, <2>1 DEF Injection, IsInjective
  <2> HIDE DEF B
  <2>5. t \in Injection(1 .. n - 1, B) /\ t \in Surjection(1 .. n - 1, B)
    <3>1. t \in [1 .. n - 1 -> B]
      BY <2>2
    <3>2. \A i, j \in 1 .. n - 1 : t[i] = t[j] => i = j
      BY <2>4
    <3>3. \A y \in B : \E i \in 1 .. n - 1 : t[i] = y
      BY <2>3
    <3> HIDE DEF t
    <3>4. t \in Injection(1 .. n - 1, B)
      BY <3>1, <3>2, Zenon DEF Injection, IsInjective
    <3>5. t \in Surjection(1 .. n - 1, B)
      BY <3>1, <3>3 DEF Surjection
    <3>6. QED
      BY <3>4, <3>5
  <2>6. IsFiniteSet(1 .. n - 1) /\ Cardinality(1 .. n - 1) = n - 1
    BY <2>1, FirstNumbers
  <2>7. Cardinality(B) = n - 1
    <3> DEFINE D == 1 .. n - 1
    <3>1. t \in Bijection(D, B)
      BY <2>5, Zenon DEF Bijection
    <3>2. IsFiniteSet(D) /\ ExistsBijection(D, B)
      BY <2>6, <3>1, Zenon DEF ExistsBijection
    <3> HIDE DEF D
    <3>3. Cardinality(B) = Cardinality(D)
      BY <3>2, FS_Bijection
    <3>4. QED
      BY <2>6, <3>3, Zenon DEF D
  <2>8. QED
    BY <2>7 DEF B
<1> HIDE DEF Rank
<1> DEFINE Member(n) == CHOOSE x \in S : Rank(x) = n - 1
<1>7. ASSUME NEW n \in 1 .. c PROVE Member(n) = s[n]
  <2>1. s[n] \in S /\ Rank(s[n]) = n - 1
    BY <1>3, <1>6
  <2>2. ASSUME NEW x \in S, Rank(x) = n - 1 PROVE x = s[n]
    <3>1. PICK m \in 1 .. c : s[m] = x
      BY <1>5
    <3>2. m - 1 = n - 1
      BY <1>6, <2>2, <3>1
    <3>3. m = n
      BY <1>2, <3>2
    <3>4. QED
      BY <3>1, <3>3
  <2>3. Member(n) \in S /\ Rank(Member(n)) = n - 1
    BY <2>1, Zenon
  <2> HIDE DEF Member
  <2>4. QED
    BY <2>2, <2>3
<1>8. InOrder(S) = s
  <2>1. InOrder(S) = [n \in 1 .. c |-> Member(n)]
    BY DEF InOrder, Rank, c
  <2> HIDE DEF Member
  <2>2. s = [n \in 1 .. c |-> s[n]]
    BY <1>1
  <2>3. QED
    BY <1>7, <2>1, <2>2
<1>9. QED
  BY <1>1, <1>8 DEF c

LEMMA InOrderFacts ==
  ASSUME NEW k \in Nat, NEW S, S \subseteq 1 .. k
  PROVE  /\ Cardinality(S) \in Nat
         /\ InOrder(S) \in [1 .. Cardinality(S) -> S]
         /\ Increasing(InOrder(S), Cardinality(S))
         /\ \A x \in S : \E n \in 1 .. Cardinality(S) : InOrder(S)[n] = x
<1> DEFINE n == Cardinality(S)
           s == InOrder(S)
<1>1. IsFiniteSet(S) /\ n \in Nat
  <2>1. IsFiniteSet(1 .. k)
    BY FS_Interval
  <2>2. IsFiniteSet(S)
    BY <2>1, FS_Subset
  <2>3. QED
    BY <2>2, FS_CardinalityType
<1>2. s \in [1 .. n -> S] /\ Increasing(s, n)
  BY <1>1, OrderIsInOrder
<1>3. IsFiniteSet(1 .. n) /\ Cardinality(1 .. n) = n
  BY <1>1, FS_Interval
<1>4. s \in Injection(1 .. n, S)
  <2> HIDE DEF s
  <2>1. ASSUME NEW i \in 1 .. n, NEW j \in 1 .. n, s[i] = s[j] PROVE i = j
    <3>1. s[i] \in 1 .. k /\ s[j] \in 1 .. k
      BY <1>2
    <3>2. QED
      BY <1>1, <1>2, <2>1, <3>1 DEF Increasing
  <2>2. QED
    BY <1>2, <2>1 DEF Injection, IsInjective
<1>5. s \in Surjection(1 .. n, S)
  <2> HIDE DEF s, n
  <2>1. QED
    BY <1>1, <1>3, <1>4, FS_Injection DEF n
<1>6. QED
  BY <1>1, <1>2, <1>5 DEF Surjection

-----------------------------------------------------------------------------
(* What a "wait" takes out of the inbox, and what it prints                *)

LEMMA MessagesFacts ==
  ASSUME inbox \in Seq(Stamps), NEW places, places \subseteq 1 .. Len(inbox)
  PROVE  LET u == MessagesAt(places) IN
         /\ u \in Seq(Stamps)
         /\ \A n \in 1 .. Len(u) : \E i \in places : u[n] = inbox[i]
         /\ \A m, n \in 1 .. Len(u) : m < n =>
              \E i, j \in places : i < j /\ u[m] = inbox[i] /\ u[n] = inbox[j]
         /\ \A i \in places : \E n \in 1 .. Len(u) : u[n] = inbox[i]
<1> DEFINE c == Cardinality(places)
           o == InOrder(places)
           u == MessagesAt(places)
<1>1. /\ c \in Nat
      /\ o \in [1 .. c -> places]
      /\ \A m, n \in 1 .. c : m < n => o[m] < o[n]
      /\ \A x \in places : \E n \in 1 .. c : o[n] = x
  <2>1. Len(inbox) \in Nat
    OBVIOUS
  <2>2. QED
    BY <2>1, InOrderFacts DEF Increasing
<1>2. u = [n \in 1 .. c |-> inbox[o[n]]]
  BY DEF MessagesAt
<1> HIDE DEF c, o, u
<1>3. \A n \in 1 .. c : o[n] \in places /\ u[n] = inbox[o[n]] /\ inbox[o[n]] \in Stamps
  <2>1. \A i \in places : inbox[i] \in Stamps
    OBVIOUS
  <2>2. \A n \in 1 .. c : o[n] \in places /\ u[n] = inbox[o[n]]
    BY <1>1, <1>2
  <2>3. QED
    BY <2>1, <2>2
<1>4. u \in Seq(Stamps) /\ Len(u) = c
  <2>1. u \in [1 .. c -> Stamps]
    BY <1>2, <1>3
  <2>2. QED
    BY <1>1, <2>1
<1>5. \A n \in 1 .. Len(u) : \E i \in places : u[n] = inbox[i]
  BY <1>3, <1>4
<1>6. ASSUME NEW m \in 1 .. Len(u), NEW n \in 1 .. Len(u), m < n
      PROVE  \E i, j \in places : i < j /\ u[m] = inbox[i] /\ u[n] = inbox[j]
  <2>1. m \in 1 .. c /\ n \in 1 .. c
    BY <1>4
  <2>2. o[m] < o[n] /\ o[m] \in places /\ o[n] \in places
    BY <1>1, <1>3, <1>6, <2>1
  <2>3. QED
    BY <1>3, <2>1, <2>2
<1>7. \A i \in places : \E n \in 1 .. Len(u) : u[n] = inbox[i]
  BY <1>1, <1>3, <1>4
<1>8. QED
  BY <1>4, <1>5, <1>6, <1>7 DEF u

LEMMA UnreadFacts ==
  ASSUME TypeOK
  PROVE  /\ Unread \in Seq(Stamps)
         /\ \A n \in 1 .. Len(Unread) : \E i \in 1 .. Len(inbox) :
              Unread[n] = inbox[i] /\ Unread[n] > wait.from
         /\ \A m, n \in 1 .. Len(Unread) : m < n =>
              \E i, j \in 1 .. Len(inbox) :
                i < j /\ Unread[m] = inbox[i] /\ Unread[n] = inbox[j]
         /\ \A i \in 1 .. Len(inbox) : inbox[i] > wait.from =>
              \E n \in 1 .. Len(Unread) : Unread[n] = inbox[i]
<1> DEFINE places == {i \in 1 .. Len(inbox) : inbox[i] > wait.from}
<1>1. inbox \in Seq(Stamps) /\ places \subseteq 1 .. Len(inbox)
  BY DEF TypeOK
<1>2. Unread = MessagesAt(places)
  BY DEF Unread
<1>3. \A i \in places : i \in 1 .. Len(inbox) /\ inbox[i] > wait.from
  OBVIOUS
<1>4. \A i \in 1 .. Len(inbox) : inbox[i] > wait.from => i \in places
  OBVIOUS
<1> HIDE DEF places
<1> DEFINE u == MessagesAt(places)
<1>5. /\ u \in Seq(Stamps)
      /\ \A n \in 1 .. Len(u) : \E i \in places : u[n] = inbox[i]
      /\ \A m, n \in 1 .. Len(u) : m < n =>
           \E i, j \in places : i < j /\ u[m] = inbox[i] /\ u[n] = inbox[j]
      /\ \A i \in places : \E n \in 1 .. Len(u) : u[n] = inbox[i]
  BY <1>1, MessagesFacts
<1>6. Unread = u
  BY <1>2
<1> HIDE DEF u
<1>7. /\ Unread \in Seq(Stamps)
      /\ \A n \in 1 .. Len(Unread) : \E i \in places : Unread[n] = inbox[i]
      /\ \A m, n \in 1 .. Len(Unread) : m < n =>
           \E i, j \in places : i < j /\ Unread[m] = inbox[i] /\ Unread[n] = inbox[j]
      /\ \A i \in places : \E n \in 1 .. Len(Unread) : Unread[n] = inbox[i]
  <2>1. Unread \in Seq(Stamps)
    BY <1>5, <1>6
  <2>2. \A n \in 1 .. Len(Unread) : \E i \in places : Unread[n] = inbox[i]
    BY <1>5, <1>6
  <2>3. \A m, n \in 1 .. Len(Unread) : m < n =>
          \E i, j \in places : i < j /\ Unread[m] = inbox[i] /\ Unread[n] = inbox[j]
    BY <1>5, <1>6, SMTT(30)
  <2>4. \A i \in places : \E n \in 1 .. Len(Unread) : Unread[n] = inbox[i]
    BY <1>5, <1>6
  <2>5. QED
    BY <2>1, <2>2, <2>3, <2>4
<1>8. \A n \in 1 .. Len(Unread) : \E i \in 1 .. Len(inbox) :
        Unread[n] = inbox[i] /\ Unread[n] > wait.from
  BY <1>3, <1>7
<1>9. ASSUME NEW m \in 1 .. Len(Unread), NEW n \in 1 .. Len(Unread), m < n
      PROVE  \E i, j \in 1 .. Len(inbox) :
               i < j /\ Unread[m] = inbox[i] /\ Unread[n] = inbox[j]
  <2>1. PICK i \in places, j \in places : i < j /\ Unread[m] = inbox[i] /\ Unread[n] = inbox[j]
    BY <1>7, <1>9
  <2>2. QED
    BY <1>3, <2>1
<1>10. QED
  BY <1>4, <1>7, <1>8, <1>9

LEMMA Joining ==
  ASSUME NEW s \in Seq(Nat), NEW t \in Seq(Nat)
  PROVE  /\ s \o t \in Seq(Nat) /\ Len(s \o t) = Len(s) + Len(t)
         /\ Len(s) \in Nat /\ Len(t) \in Nat
         /\ \A n \in 1 .. Len(s) : (s \o t)[n] = s[n] /\ s[n] \in Nat
         /\ \A n \in 1 .. Len(t) : (s \o t)[Len(s) + n] = t[n] /\ t[n] \in Nat
  OBVIOUS

LEMMA NumberSeqs ==
  ASSUME TypeOK
  PROVE  got \in Seq(Nat) /\ wait.unread \in Seq(Nat)
<1> DEFINE s == got
           t == wait.unread
<1>1. s \in Seq(Stamps) /\ t \in Seq(Stamps)
  BY DEF TypeOK
<1> HIDE DEF s, t
<1>2. \A x \in Stamps : x \in Nat
  BY DEF Stamps
<1>3. \A n \in 1 .. Len(s) : s[n] \in Nat
  BY <1>1, <1>2
<1>4. \A n \in 1 .. Len(t) : t[n] \in Nat
  BY <1>1, <1>2
<1>5. s \in Seq(Nat)
  BY <1>1, <1>3
<1>6. t \in Seq(Nat)
  BY <1>1, <1>4
<1>7. QED
  BY <1>5, <1>6 DEF s, t

LEMMA Printing ==
  ASSUME TypeOK, got' = got \o wait.unread
  PROVE  /\ got' \in Seq(Stamps)
         /\ Len(got') = Len(got) + Len(wait.unread)
         /\ \A n \in 1 .. Len(got') :
              n \in 1 .. Len(got) \/ \E m \in 1 .. Len(wait.unread) : n = Len(got) + m
         /\ \A n \in 1 .. Len(got) : n \in 1 .. Len(got') /\ got'[n] = got[n]
         /\ \A n \in 1 .. Len(wait.unread) :
              Len(got) + n \in 1 .. Len(got') /\ got'[Len(got) + n] = wait.unread[n]
<1> DEFINE s == got
           t == wait.unread
<1>1. s \in Seq(Nat) /\ t \in Seq(Nat) /\ Len(s) \in Nat /\ Len(t) \in Nat
  BY NumberSeqs
<1>2. /\ \A n \in 1 .. Len(s) : s[n] \in Stamps
      /\ \A n \in 1 .. Len(t) : t[n] \in Stamps
  BY DEF TypeOK
<1>3. PICK r : r = s \o t
  OBVIOUS
<1>4. got' = r
  BY <1>3
<1> HIDE DEF s, t
<1>5. /\ r \in Seq(Nat) /\ Len(r) = Len(s) + Len(t)
      /\ \A n \in 1 .. Len(s) : r[n] = s[n]
      /\ \A n \in 1 .. Len(t) : r[Len(s) + n] = t[n]
  BY <1>1, <1>3, Joining
<1>6. \A n \in 1 .. Len(r) :
        n \in 1 .. Len(s) \/ \E m \in 1 .. Len(t) : n = Len(s) + m
  <2>1. ASSUME NEW n \in 1 .. Len(r), n \notin 1 .. Len(s)
        PROVE  \E m \in 1 .. Len(t) : n = Len(s) + m
    <3>1. n - Len(s) \in 1 .. Len(t) /\ n = Len(s) + (n - Len(s))
      BY <1>1, <1>5, <2>1
    <3>2. QED
      BY <3>1
  <2>2. QED
    BY <2>1
<1>7. \A n \in 1 .. Len(r) : r[n] \in Stamps
  BY <1>2, <1>5, <1>6
<1>8. r \in Seq(Stamps)
  BY <1>5, <1>7
<1>9. \A n \in 1 .. Len(s) : n \in 1 .. Len(r)
  BY <1>1, <1>5
<1>10. \A n \in 1 .. Len(t) : Len(s) + n \in 1 .. Len(r)
  BY <1>1, <1>5
<1>11. QED
  BY <1>4, <1>5, <1>6, <1>8, <1>9, <1>10 DEF s, t

-----------------------------------------------------------------------------
(* The types                                                               *)

Delivers == {"commit", "writing", "print"}

(* A "wait" that delivers has something to deliver.                        *)
Taken == wait.pc \in Delivers => wait.unread # <<>>

LEMMA TypeInit == Init => TypeOK /\ Taken
  BY InboxAssumption DEF Init, TypeOK, Taken, Delivers, Off, None, Missing,
     Truncated, WaitPCs, Stamps

LEMMA NewestOf ==
  ASSUME NEW a \in Nat, NEW b \in Nat
  PROVE  Max({a, b}) = IF a < b THEN b ELSE a
<1> DEFINE m == IF a < b THEN b ELSE a
<1>1. m \in {a, b} /\ \A y \in {a, b} : m >= y
  OBVIOUS
<1>2. \A x \in {a, b} : (\A y \in {a, b} : x >= y) => x = m
  OBVIOUS
<1> HIDE DEF m
<1>3. Max({a, b}) \in {a, b} /\ \A y \in {a, b} : Max({a, b}) >= y
  BY <1>1, Zenon DEF Max
<1>4. QED
  BY <1>2, <1>3 DEF m

LEMMA TypeStep ==
  ASSUME TypeOK, Taken, [Next]_vars
  PROVE  TypeOK' /\ Taken'
<1> USE InboxAssumption DEF files, listenVars, clearVars, waited
<1>1. CASE Register
  <2>1. listener' \in [pc : {"down", "registered", "marking", "up"}, ts : {None} \cup Stamps]
    BY <1>1 DEF Register, TypeOK, Stamps, None
  <2>2. QED
    BY <1>1, <2>1 DEF Register, Taken, Delivers, TypeOK, Stamps
<1>2. CASE MarkTruncate
  BY <1>2 DEF MarkTruncate, Reading, Now, ResetCursor, Truncated, TypeOK,
     Taken, Delivers, Stamps, None, Missing, WaitPCs
<1>3. CASE MarkWrite
  BY <1>3 DEF MarkWrite, FillCursor, TypeOK, Taken, Delivers, Stamps, None,
     Missing, Truncated, WaitPCs
<1>4. CASE Stop
  BY <1>4 DEF Stop, TypeOK, Taken, Delivers, Stamps, None, Missing, Truncated,
     WaitPCs
<1>5. ASSUME NEW h \in Handlers, Stamp(h) PROVE (TypeOK /\ Taken)'
  BY <1>5 DEF Stamp, Reading, Now, TypeOK, Taken, Delivers, Stamps, None,
     Missing, Truncated, WaitPCs
<1>6. ASSUME NEW h \in Handlers, AppendInbox(h) PROVE (TypeOK /\ Taken)'
  <2>1. newest \in 0 .. MaxReadings /\ stamped[h] \in 1 .. MaxReadings
    BY <1>6 DEF AppendInbox, TypeOK, Stamps, None
  <2>2. newest' \in 0 .. MaxReadings
    BY <1>6, <2>1, NewestOf DEF AppendInbox
  <2>3. inbox' \in Seq(Stamps)
    BY <1>6, <2>1 DEF AppendInbox, TypeOK, Stamps
  <2>4. stamped' \in [Handlers -> {None} \cup Stamps]
    BY <1>6 DEF AppendInbox, TypeOK
  <2>5. late' \in SUBSET Stamps
    BY <1>6, <2>1 DEF AppendInbox, TypeOK, Stamps
  <2>6. QED
    BY <1>6, <2>2, <2>3, <2>4, <2>5 DEF AppendInbox, TypeOK, Taken, Delivers
<1>7. CASE StartWait
  <2>1. wait' \in [pc : WaitPCs, from : 0 .. MaxReadings, unread : Seq(Stamps)]
    <3>1. wait' = [pc |-> "cursor", from |-> 0, unread |-> <<>>]
      BY <1>7 DEF StartWait, Off
    <3>2. QED
      BY <3>1 DEF WaitPCs
  <2>2. QED
    BY <1>7, <2>1 DEF StartWait, Taken, Delivers, TypeOK, Stamps
<1>8. CASE ReadCursor
  <2>1. cursor \in 0 .. MaxReadings
    BY <1>8 DEF ReadCursor, TypeOK, Missing, Truncated, Stamps
  <2>2. /\ wait' = [wait EXCEPT !.pc = "inbox", !.from = cursor]
        /\ hurt' \in SUBSET {"lose", "replay"}
    BY <1>8 DEF ReadCursor, FindCursor, TypeOK
  <2>3. wait' \in [pc : WaitPCs, from : 0 .. MaxReadings, unread : Seq(Stamps)]
    BY <2>1, <2>2 DEF TypeOK, WaitPCs
  <2>4. QED
    BY <1>8, <2>2, <2>3 DEF ReadCursor, FindCursor, TypeOK, Taken, Delivers
<1>9. CASE FindNoCursor
  <2>1. wait' \in [pc : WaitPCs, from : 0 .. MaxReadings, unread : Seq(Stamps)]
    BY <1>9 DEF FindNoCursor, TypeOK, WaitPCs, Stamps
  <2>2. QED
    BY <1>9, <2>1 DEF FindNoCursor, Taken, Delivers, TypeOK, Stamps
<1>10. CASE TakeTime
  <2>1. clock' = Now /\ Now \in 1 .. MaxReadings /\ wait' = [wait EXCEPT !.pc = "timed", !.from = Now]
    BY <1>10 DEF TakeTime, Reading, TypeOK, Now
  <2>2. wait' \in [pc : WaitPCs, from : 0 .. MaxReadings, unread : Seq(Stamps)]
    <3>1. Now \in 0 .. MaxReadings
      BY <2>1
    <3> HIDE DEF Now
    <3>2. QED
      BY <2>1, <3>1 DEF TypeOK, WaitPCs
  <2>3. QED
    BY <1>10, <2>1, <2>2 DEF TakeTime, Taken, Delivers, TypeOK, Stamps
<1>11. CASE MakeCursor
  <2>1. wait' \in [pc : WaitPCs, from : 0 .. MaxReadings, unread : Seq(Stamps)]
    BY <1>11 DEF MakeCursor, TypeOK, WaitPCs, Stamps
  <2>2. QED
    BY <1>11, <2>1 DEF MakeCursor, Truncated, Taken, Delivers, TypeOK, Stamps
<1>12. CASE FillMade
  <2>1. wait' \in [pc : WaitPCs, from : 0 .. MaxReadings, unread : Seq(Stamps)]
    BY <1>12 DEF FillMade, TypeOK, WaitPCs, Stamps
  <2>2. wait.from \in 0 .. MaxReadings
    BY DEF TypeOK
  <2>3. QED
    BY <1>12, <2>1, <2>2 DEF FillMade, Missing, Truncated, Taken, Delivers, TypeOK, Stamps
<1>13. CASE ReadInbox
  <2>1. Unread \in Seq(Stamps)
    BY UnreadFacts
  <2>2. QED
    BY <1>13, <2>1 DEF ReadInbox, Taken, Delivers, TypeOK, WaitPCs
<1>14. CASE TimeOut
  BY <1>14 DEF TimeOut, Off, TypeOK, Taken, Delivers, Stamps, None, Missing,
     Truncated, WaitPCs
<1>15. CASE TruncateCursor
  <2>1. wait' \in [pc : WaitPCs, from : 0 .. MaxReadings, unread : Seq(Stamps)]
    BY <1>15 DEF TruncateCursor, TypeOK, WaitPCs, Stamps
  <2>2. QED
    BY <1>15, <2>1 DEF TruncateCursor, Taken, Delivers, TypeOK, Stamps
<1>16. CASE WriteCursor
  <2>3. Last(wait.unread) \in Stamps
    <3>1. wait.unread \in Seq(Stamps) /\ wait.unread # <<>>
      BY <1>16 DEF WriteCursor, TypeOK, Taken, Delivers
    <3>2. Len(wait.unread) \in 1 .. Len(wait.unread)
      BY <3>1
    <3>3. QED
      BY <3>1, <3>2 DEF Last
  <2>1. wait' \in [pc : WaitPCs, from : 0 .. MaxReadings, unread : Seq(Stamps)]
    BY <1>16 DEF WriteCursor, TypeOK, WaitPCs, Stamps
  <2>2. QED
    BY <1>16, <2>1, <2>3 DEF WriteCursor, Taken, Delivers, TypeOK, Stamps
<1>17. CASE PrintMessages
  <2>1. got' \in Seq(Stamps)
    BY <1>17, Printing DEF PrintMessages
  <2>2. QED
    BY <1>17, <2>1 DEF PrintMessages, Taken, Delivers, TypeOK, Off, WaitPCs,
       Stamps
<1>18. CASE Die
  BY <1>18 DEF Die, Off, TypeOK, Taken, Delivers, Stamps, None, Missing,
     Truncated, WaitPCs
<1>19. CASE EmptyInbox
  <2>1. clear' \in [pc : {"off", "emptied", "clearing"}, ts : {None} \cup Stamps]
    BY <1>19 DEF EmptyInbox, TypeOK, Stamps, None
  <2>2. QED
    BY <1>19, <2>1 DEF EmptyInbox, Taken, Delivers, TypeOK, Stamps
<1>20. CASE ClearTruncate
  BY <1>20 DEF ClearTruncate, Reading, Now, ResetCursor, Truncated, TypeOK,
     Taken, Delivers, Stamps, None, Missing, WaitPCs
<1>21. CASE ClearWrite
  BY <1>21 DEF ClearWrite, FillCursor, TypeOK, Taken, Delivers, Stamps, None,
     Missing, Truncated, WaitPCs
<1>22. CASE UNCHANGED vars
  BY <1>22 DEF vars, TypeOK, Taken, Delivers, Stamps, None, Missing, Truncated,
     WaitPCs
<1>23. QED
  BY <1>1, <1>2, <1>3, <1>4, <1>5, <1>6, <1>7, <1>8, <1>9, <1>10, <1>11, <1>12, <1>13, <1>14, <1>15, <1>16,
     <1>17, <1>18, <1>19, <1>20, <1>21, <1>22 DEF Next, Listening, Waiting,
     Looking, Making, Delivering, Clearing

(* The state of the inbox, of its cursor and of the processes has its      *)
(* types in every reachable state: inbox.py, listener.py and cmd_wait.     *)
THEOREM InboxTypeCorrect == Spec => []TypeOK
<1>1. TypeOK /\ Taken /\ [Next]_vars => (TypeOK /\ Taken)'
  BY TypeStep
<1>2. QED
  BY <1>1, TypeInit, PTL DEF Spec

-----------------------------------------------------------------------------
(* What the times are to each other                                        *)

(* A stamp names its message, whether it is appended yet or not.           *)
StampsDiffer ==
  /\ newest <= clock
  /\ \A h \in Handlers : stamped[h] <= clock
  /\ \A h \in Handlers : stamped[h] # None => stamped[h] # newest
  /\ \A h, k \in Handlers : h # k /\ stamped[h] # None => stamped[h] # stamped[k]

(* Out of order in the inbox is only what was appended late.               *)
InboxOrdered ==
  /\ \A i \in 1 .. Len(inbox) : inbox[i] <= newest
  /\ \A i, j \in 1 .. Len(inbox) : i < j /\ inbox[i] >= inbox[j] => inbox[j] \in late

TimesKnown ==
  /\ cursor <= clock /\ wait.from <= clock /\ baseline <= clock
  /\ listener.ts <= baseline /\ clear.ts <= baseline

Makes == {"making", "timed", "filling"}

(* Without a cursor file no listener has been up: the inbox is empty.  And *)
(* the "wait" that makes the file is the first to deliver.                 *)
FirstCursor ==
  /\ cursor = Missing =>
       /\ inbox = <<>>
       /\ listener.pc \in {"down", "registered"}
       /\ \A h \in Handlers : stamped[h] = None
       /\ wait.pc \in {"off", "cursor", "making", "timed"}
  /\ cursor = Missing \/ wait.pc \in Makes => got = <<>> /\ made = None

UnreadShape ==
  IF wait.pc \in Delivers
  THEN /\ \A i \in 1 .. Len(wait.unread) :
            wait.unread[i] > wait.from /\ wait.unread[i] <= newest
       /\ \A i, j \in 1 .. Len(wait.unread) :
            i < j /\ wait.unread[i] >= wait.unread[j] => wait.unread[j] \in late
  ELSE wait.unread = <<>>

(* While a "wait" fills the cursor, the cursor is a time that a listener   *)
(* or a clear has put there, or the one of the "wait".                     *)
CursorIs ==
  /\ wait.pc = "writing" => cursor <= baseline
  /\ wait.pc = "print" => cursor <= baseline \/ cursor = Last(wait.unread)

Times == StampsDiffer /\ InboxOrdered /\ TimesKnown /\ FirstCursor /\ UnreadShape /\ CursorIs

LEMMA StampsPositive ==
  ASSUME NEW s \in Seq(Stamps)
  PROVE  \A i \in 1 .. Len(s) : s[i] \in Nat /\ s[i] > 0
<1>1. \A i \in 1 .. Len(s) : s[i] \in Stamps
  OBVIOUS
<1>2. QED
  BY <1>1 DEF Stamps

LEMMA Numbers ==
  ASSUME TypeOK
  PROVE  /\ clock \in Nat /\ newest \in Nat /\ baseline \in Nat /\ cursor \in Int
         /\ made \in Nat
         /\ wait.from \in Nat /\ listener.ts \in Nat /\ clear.ts \in Nat
         /\ \A h \in Handlers : stamped[h] \in Nat
         /\ inbox \in Seq(Stamps) /\ wait.unread \in Seq(Stamps) /\ got \in Seq(Stamps)
         /\ \A i \in 1 .. Len(inbox) : inbox[i] \in Nat /\ inbox[i] > 0
         /\ \A i \in 1 .. Len(wait.unread) : wait.unread[i] \in Nat /\ wait.unread[i] > 0
         /\ \A i \in 1 .. Len(got) : got[i] \in Nat /\ got[i] > 0
<1> USE InboxAssumption DEF TypeOK, Stamps
<1>1. clock \in Nat /\ newest \in Nat /\ baseline \in Nat /\ made \in Nat
  OBVIOUS
<1>2. cursor \in Int
  BY DEF Missing, Truncated
<1>3. wait.from \in Nat /\ listener.ts \in Nat /\ clear.ts \in Nat
  BY DEF None
<1>4. \A h \in Handlers : stamped[h] \in Nat
  BY DEF None
<1>5. inbox \in Seq(Stamps) /\ wait.unread \in Seq(Stamps) /\ got \in Seq(Stamps)
  OBVIOUS
<1>6. \A i \in 1 .. Len(inbox) : inbox[i] \in Nat /\ inbox[i] > 0
  BY <1>5, StampsPositive
<1>7. \A i \in 1 .. Len(wait.unread) : wait.unread[i] \in Nat /\ wait.unread[i] > 0
  BY <1>5, StampsPositive
<1>8. \A i \in 1 .. Len(got) : got[i] \in Nat /\ got[i] > 0
  BY <1>5, StampsPositive
<1>9. QED
  BY <1>1, <1>2, <1>3, <1>4, <1>5, <1>6, <1>7, <1>8

LEMMA TimesAtInit == Init => Times
  BY DEF Init, Times, StampsDiffer, InboxOrdered, TimesKnown, FirstCursor,
     UnreadShape,
         CursorIs, Off, None, Missing, Delivers

LEMMA StampsDifferStep ==
  ASSUME TypeOK, StampsDiffer, [Next]_vars
  PROVE  StampsDiffer'
<1> USE InboxAssumption DEF files, listenVars, clearVars, waited
<1>1. CASE Register
  BY <1>1, Numbers DEF Register, StampsDiffer, None
<1>2. CASE MarkTruncate
  BY <1>2, Numbers DEF MarkTruncate, Reading, Now, ResetCursor, Truncated,
     StampsDiffer, None
<1>3. CASE MarkWrite
  BY <1>3, Numbers DEF MarkWrite, FillCursor, StampsDiffer, None
<1>4. CASE Stop
  <2>1. \A k \in Handlers : stamped'[k] = None
    BY <1>4 DEF Stop
  <2>2. QED
    BY <1>4, <2>1, Numbers DEF Stop, StampsDiffer, None
<1>5. ASSUME NEW h \in Handlers, Stamp(h) PROVE StampsDiffer'
  <2>1. clock' = clock + 1 /\ newest' = newest
    BY <1>5 DEF Stamp, Reading, Now
  <2>2. \A k \in Handlers : stamped'[k] = IF k = h THEN clock + 1 ELSE stamped[k]
    BY <1>5 DEF Stamp, Now, TypeOK
  <2>3. \A k \in Handlers : stamped[k] \in Nat /\ stamped[k] <= clock
    BY Numbers DEF StampsDiffer
  <2>4. newest' <= clock' /\ newest' # clock + 1
    BY <2>1, Numbers DEF StampsDiffer
  <2>5. \A k \in Handlers : stamped'[k] <= clock'
    <3>1. \A k \in Handlers : stamped[k] <= clock + 1
      BY <2>3, Numbers
    <3>2. clock + 1 <= clock + 1
      BY Numbers
    <3>3. QED
      BY <2>1, <2>2, <3>1, <3>2
  <2>6. \A k \in Handlers : stamped'[k] # None => stamped'[k] # newest'
    BY <2>1, <2>2, <2>4 DEF StampsDiffer
  <2>7. \A k, l \in Handlers : k # l /\ stamped'[k] # None => stamped'[k] # stamped'[l]
    <3>1. \A k \in Handlers : stamped[k] # clock + 1
      BY <2>3, Numbers
    <3>2. QED
      BY <2>2, <3>1 DEF StampsDiffer
  <2>8. QED
    BY <2>4, <2>5, <2>6, <2>7 DEF StampsDiffer
<1>6. ASSUME NEW h \in Handlers, AppendInbox(h) PROVE StampsDiffer'
  <2>1. stamped[h] \in Nat /\ stamped[h] # None /\ newest' = IF newest < stamped[h] THEN stamped[h] ELSE newest
    BY <1>6, Numbers, NewestOf DEF AppendInbox
  <2>2. /\ clock' = clock
        /\ \A k \in Handlers : stamped'[k] = IF k = h THEN None ELSE stamped[k]
    BY <1>6 DEF AppendInbox, TypeOK
  <2>3. newest' \in {newest, stamped[h]}
    BY <2>1
  <2>4. newest' <= clock'
    BY <2>2, <2>3 DEF StampsDiffer
  <2>5. \A k \in Handlers : stamped'[k] <= clock'
    BY <2>2, Numbers DEF StampsDiffer, None
  <2>6. \A k \in Handlers : stamped'[k] # None => stamped'[k] # newest'
    BY <2>1, <2>2, <2>3 DEF StampsDiffer
  <2>7. \A k, l \in Handlers : k # l /\ stamped'[k] # None => stamped'[k] # stamped'[l]
    BY <2>2 DEF StampsDiffer
  <2>8. QED
    BY <2>4, <2>5, <2>6, <2>7 DEF StampsDiffer
<1>7. CASE StartWait
  BY <1>7, Numbers DEF StartWait, Off, StampsDiffer, None
<1>8. CASE ReadCursor
  BY <1>8, Numbers DEF ReadCursor, FindCursor, StampsDiffer, None
<1>9. CASE FindNoCursor
  BY <1>9, Numbers DEF FindNoCursor, StampsDiffer, None
<1>10. CASE TakeTime
  BY <1>10, Numbers DEF TakeTime, Reading, Now, StampsDiffer, None
<1>11. CASE MakeCursor
  BY <1>11, Numbers DEF MakeCursor, Truncated, StampsDiffer, None
<1>12. CASE FillMade
  BY <1>12, Numbers DEF FillMade, StampsDiffer, None
<1>13. CASE ReadInbox
  BY <1>13, Numbers DEF ReadInbox, StampsDiffer, None
<1>14. CASE TimeOut
  BY <1>14, Numbers DEF TimeOut, Off, StampsDiffer, None
<1>15. CASE TruncateCursor
  BY <1>15, Numbers DEF TruncateCursor, Truncated, StampsDiffer, None
<1>16. CASE WriteCursor
  BY <1>16, Numbers DEF WriteCursor, StampsDiffer, None
<1>17. CASE PrintMessages
  BY <1>17, Numbers DEF PrintMessages, Off, StampsDiffer, None
<1>18. CASE Die
  BY <1>18, Numbers DEF Die, Off, StampsDiffer, None
<1>19. CASE EmptyInbox
  BY <1>19, Numbers DEF EmptyInbox, StampsDiffer, None
<1>20. CASE ClearTruncate
  BY <1>20, Numbers DEF ClearTruncate, Reading, Now, ResetCursor, Truncated,
     StampsDiffer, None
<1>21. CASE ClearWrite
  BY <1>21, Numbers DEF ClearWrite, FillCursor, StampsDiffer, None
<1>22. CASE UNCHANGED vars
  BY <1>22 DEF vars, StampsDiffer, None
<1>23. QED
  BY <1>1, <1>2, <1>3, <1>4, <1>5, <1>6, <1>7, <1>8, <1>9, <1>10, <1>11, <1>12, <1>13, <1>14, <1>15, <1>16,
     <1>17, <1>18, <1>19, <1>20, <1>21, <1>22 DEF Next, Listening, Waiting,
     Looking, Making, Delivering, Clearing

LEMMA InboxOrderedStep ==
  ASSUME TypeOK, StampsDiffer, InboxOrdered, [Next]_vars
  PROVE  InboxOrdered'
<1> USE InboxAssumption DEF files, listenVars, clearVars, waited
<1>1. CASE Register
  BY <1>1, Numbers DEF Register, InboxOrdered
<1>2. CASE MarkTruncate
  BY <1>2, Numbers DEF MarkTruncate, Reading, Now, ResetCursor, Truncated,
     InboxOrdered
<1>3. CASE MarkWrite
  BY <1>3, Numbers DEF MarkWrite, FillCursor, InboxOrdered
<1>4. CASE Stop
  BY <1>4, Numbers DEF Stop, InboxOrdered
<1>5. ASSUME NEW h \in Handlers, Stamp(h) PROVE InboxOrdered'
  BY <1>5, Numbers DEF Stamp, Reading, Now, InboxOrdered
<1>6. ASSUME NEW h \in Handlers, AppendInbox(h) PROVE InboxOrdered'
  <2>1. stamped[h] \in Nat /\ stamped[h] # newest /\ newest' = IF newest < stamped[h] THEN stamped[h] ELSE newest
    BY <1>6, Numbers, NewestOf DEF AppendInbox, StampsDiffer
  <2>2. /\ Len(inbox) \in Nat /\ Len(inbox') = Len(inbox) + 1
        /\ \A i \in 1 .. Len(inbox) : inbox'[i] = inbox[i]
        /\ inbox'[Len(inbox) + 1] = stamped[h]
    BY <1>6, Numbers DEF AppendInbox
  <2>3. late \subseteq late' /\ (stamped[h] < newest => stamped[h] \in late')
    BY <1>6 DEF AppendInbox
  <2>4. \A i \in 1 .. Len(inbox') : i \in 1 .. Len(inbox) \/ i = Len(inbox) + 1
    BY <2>2
  <2>5. newest <= newest' /\ stamped[h] <= newest' /\ newest' \in Nat
    BY <2>1, Numbers
  <2>6. \A i \in 1 .. Len(inbox') : inbox'[i] <= newest'
    <3>1. \A i \in 1 .. Len(inbox) : inbox[i] \in Nat /\ inbox[i] <= newest
      BY Numbers DEF InboxOrdered
    <3>2. \A i \in 1 .. Len(inbox) : inbox[i] <= newest'
      BY <2>5, <3>1, Numbers
    <3>3. QED
      BY <2>2, <2>4, <2>5, <3>2
  <2>7. ASSUME NEW i \in 1 .. Len(inbox'), NEW j \in 1 .. Len(inbox'), i < j, inbox'[i] >= inbox'[j]
        PROVE  inbox'[j] \in late'
    <3>1. i \in 1 .. Len(inbox)
      BY <2>2, <2>7
    <3>2. CASE j \in 1 .. Len(inbox)
      BY <2>2, <2>3, <2>7, <3>1, <3>2 DEF InboxOrdered
    <3>3. CASE j = Len(inbox) + 1
      <4>1. inbox[i] <= newest /\ inbox[i] >= stamped[h] /\ inbox[i] \in Nat
        BY <2>2, <2>7, <3>1, <3>3, Numbers DEF InboxOrdered
      <4>2. stamped[h] < newest
        BY <2>1, <4>1, Numbers
      <4>3. QED
        BY <2>2, <2>3, <3>3, <4>2
    <3>4. QED
      BY <2>4, <3>2, <3>3
  <2>8. QED
    BY <2>6, <2>7 DEF InboxOrdered
<1>7. CASE StartWait
  BY <1>7, Numbers DEF StartWait, Off, InboxOrdered
<1>8. CASE ReadCursor
  BY <1>8, Numbers DEF ReadCursor, FindCursor, InboxOrdered
<1>9. CASE FindNoCursor
  BY <1>9, Numbers DEF FindNoCursor, InboxOrdered
<1>10. CASE TakeTime
  BY <1>10, Numbers DEF TakeTime, Reading, Now, InboxOrdered
<1>11. CASE MakeCursor
  BY <1>11, Numbers DEF MakeCursor, Truncated, InboxOrdered
<1>12. CASE FillMade
  BY <1>12, Numbers DEF FillMade, InboxOrdered
<1>13. CASE ReadInbox
  BY <1>13, Numbers DEF ReadInbox, InboxOrdered
<1>14. CASE TimeOut
  BY <1>14, Numbers DEF TimeOut, Off, InboxOrdered
<1>15. CASE TruncateCursor
  BY <1>15, Numbers DEF TruncateCursor, Truncated, InboxOrdered
<1>16. CASE WriteCursor
  BY <1>16, Numbers DEF WriteCursor, InboxOrdered
<1>17. CASE PrintMessages
  BY <1>17, Numbers DEF PrintMessages, Off, InboxOrdered
<1>18. CASE Die
  BY <1>18, Numbers DEF Die, Off, InboxOrdered
<1>19. CASE EmptyInbox
  BY <1>19, Numbers DEF EmptyInbox, InboxOrdered
<1>20. CASE ClearTruncate
  BY <1>20, Numbers DEF ClearTruncate, Reading, Now, ResetCursor, Truncated,
     InboxOrdered
<1>21. CASE ClearWrite
  BY <1>21, Numbers DEF ClearWrite, FillCursor, InboxOrdered
<1>22. CASE UNCHANGED vars
  BY <1>22 DEF vars, InboxOrdered
<1>23. QED
  BY <1>1, <1>2, <1>3, <1>4, <1>5, <1>6, <1>7, <1>8, <1>9, <1>10, <1>11, <1>12, <1>13, <1>14, <1>15, <1>16,
     <1>17, <1>18, <1>19, <1>20, <1>21, <1>22 DEF Next, Listening, Waiting,
     Looking, Making, Delivering, Clearing

LEMMA TimesKnownStep ==
  ASSUME TypeOK, Taken, StampsDiffer, UnreadShape, TimesKnown, [Next]_vars
  PROVE  TimesKnown'
<1> USE InboxAssumption DEF files, listenVars, clearVars, waited
<1>1. CASE Register
  BY <1>1, Numbers DEF Register, TimesKnown, None
<1>2. CASE MarkTruncate
  BY <1>2, Numbers DEF MarkTruncate, Reading, Now, ResetCursor, Truncated,
     TimesKnown, None
<1>3. CASE MarkWrite
  BY <1>3, Numbers DEF MarkWrite, FillCursor, TimesKnown, None
<1>4. CASE Stop
  BY <1>4, Numbers DEF Stop, TimesKnown, None
<1>5. ASSUME NEW h \in Handlers, Stamp(h) PROVE TimesKnown'
  BY <1>5, Numbers DEF Stamp, Reading, Now, TimesKnown, None
<1>6. ASSUME NEW h \in Handlers, AppendInbox(h) PROVE TimesKnown'
  BY <1>6, Numbers DEF AppendInbox, TimesKnown, None
<1>7. CASE StartWait
  BY <1>7, Numbers DEF StartWait, Off, TimesKnown, None
<1>8. CASE ReadCursor
  BY <1>8, Numbers DEF ReadCursor, FindCursor, TypeOK, TimesKnown
<1>9. CASE FindNoCursor
  BY <1>9, Numbers DEF FindNoCursor, TypeOK, TimesKnown, None
<1>10. CASE TakeTime
  BY <1>10, Numbers DEF TakeTime, Reading, Now, TypeOK, TimesKnown, None
<1>11. CASE MakeCursor
  BY <1>11, Numbers DEF MakeCursor, Truncated, TypeOK, TimesKnown, None
<1>12. CASE FillMade
  BY <1>12, Numbers DEF FillMade, TypeOK, TimesKnown, None
<1>13. CASE ReadInbox
  BY <1>13, Numbers DEF ReadInbox, TimesKnown, None
<1>14. CASE TimeOut
  BY <1>14, Numbers DEF TimeOut, Off, TimesKnown, None
<1>15. CASE TruncateCursor
  BY <1>15, Numbers DEF TruncateCursor, Truncated, TimesKnown, None
<1>16. CASE WriteCursor
  <2>1. wait.unread # <<>> /\ wait.pc \in Delivers
    BY <1>16 DEF WriteCursor, Taken, Delivers
  <2>2. Len(wait.unread) \in 1 .. Len(wait.unread)
    BY <2>1, Numbers
  <2>3. Last(wait.unread) <= newest
    BY <2>1, <2>2 DEF Last, UnreadShape
  <2>4. Last(wait.unread) \in Nat
    BY <2>2, Numbers DEF Last
  <2>5. Last(wait.unread) <= clock
    BY <2>3, <2>4, Numbers DEF StampsDiffer
  <2>6. wait'.from = wait.from
    BY <1>16 DEF WriteCursor, TypeOK
  <2>7. QED
    BY <1>16, <2>5, <2>6 DEF WriteCursor, TimesKnown
<1>17. CASE PrintMessages
  BY <1>17, Numbers DEF PrintMessages, Off, TimesKnown, None
<1>18. CASE Die
  BY <1>18, Numbers DEF Die, Off, TimesKnown, None
<1>19. CASE EmptyInbox
  BY <1>19, Numbers DEF EmptyInbox, TimesKnown, None
<1>20. CASE ClearTruncate
  BY <1>20, Numbers DEF ClearTruncate, Reading, Now, ResetCursor, Truncated,
     TimesKnown, None
<1>21. CASE ClearWrite
  BY <1>21, Numbers DEF ClearWrite, FillCursor, TimesKnown, None
<1>22. CASE UNCHANGED vars
  BY <1>22 DEF vars, TimesKnown, None
<1>23. QED
  BY <1>1, <1>2, <1>3, <1>4, <1>5, <1>6, <1>7, <1>8, <1>9, <1>10, <1>11, <1>12, <1>13, <1>14, <1>15, <1>16,
     <1>17, <1>18, <1>19, <1>20, <1>21, <1>22 DEF Next, Listening, Waiting,
     Looking, Making, Delivering, Clearing

LEMMA FirstCursorStep ==
  ASSUME TypeOK, Taken, FirstCursor, [Next]_vars
  PROVE  FirstCursor'
<1> USE InboxAssumption DEF files, listenVars, clearVars, waited
<1>1. CASE Register
  BY <1>1 DEF Register, TypeOK, FirstCursor, Makes, Stamps, None, Missing
<1>2. CASE MarkTruncate
  BY <1>2 DEF MarkTruncate, Reading, Now, ResetCursor, Truncated, TypeOK,
     FirstCursor, Makes, Stamps, None, Missing
<1>3. CASE MarkWrite
  <2>1. cursor' = listener.ts
    BY <1>3 DEF MarkWrite, FillCursor
  <2>2. listener.ts # Missing
    BY Numbers DEF Missing
  <2>3. UNCHANGED <<wait, got, made>>
    BY <1>3 DEF MarkWrite
  <2>4. QED
    BY <2>1, <2>2, <2>3 DEF FirstCursor, Makes
<1>4. CASE Stop
  BY <1>4 DEF Stop, TypeOK, FirstCursor, Makes, Stamps, None, Missing
<1>5. ASSUME NEW h \in Handlers, Stamp(h) PROVE FirstCursor'
  BY <1>5 DEF Stamp, Reading, Now, TypeOK, FirstCursor, Makes, Stamps, None, Missing
<1>6. ASSUME NEW h \in Handlers, AppendInbox(h) PROVE FirstCursor'
  BY <1>6 DEF AppendInbox, TypeOK, FirstCursor, Makes, Stamps, None, Missing
<1>7. CASE StartWait
  BY <1>7 DEF StartWait, Off, TypeOK, FirstCursor, Makes, Stamps, None, Missing
<1>8. CASE ReadCursor
  BY <1>8 DEF ReadCursor, FindCursor, TypeOK, FirstCursor,
     Makes, Stamps, None, Missing
<1>9. CASE FindNoCursor
  BY <1>9 DEF FindNoCursor, TypeOK, FirstCursor, Makes, Stamps, None, Missing
<1>10. CASE TakeTime
  BY <1>10 DEF TakeTime, Reading, Now, TypeOK, FirstCursor, Makes, Stamps, None, Missing
<1>11. CASE MakeCursor
  BY <1>11 DEF MakeCursor, Truncated, TypeOK, FirstCursor, Makes, Stamps, None, Missing
<1>12. CASE FillMade
  BY <1>12 DEF FillMade, TypeOK, FirstCursor, Makes, Stamps, None, Missing
<1>13. CASE ReadInbox
  BY <1>13 DEF ReadInbox, TypeOK, FirstCursor, Makes, Stamps, None, Missing
<1>14. CASE TimeOut
  BY <1>14 DEF TimeOut, Off, TypeOK, FirstCursor, Makes, Stamps, None, Missing
<1>15. CASE TruncateCursor
  BY <1>15 DEF TruncateCursor, Truncated, TypeOK, FirstCursor, Makes, Stamps, None,
     Missing
<1>16. CASE WriteCursor
  <2>1. wait.unread # <<>>
    BY <1>16 DEF WriteCursor, Taken, Delivers
  <2>2. Last(wait.unread) \in Nat
    BY <2>1, Numbers DEF Last
  <2>3. QED
    BY <1>16, <2>2 DEF WriteCursor, FirstCursor, Makes, Missing
<1>17. CASE PrintMessages
  BY <1>17 DEF PrintMessages, Off, TypeOK, FirstCursor, Makes, Stamps, None, Missing
<1>18. CASE Die
  BY <1>18 DEF Die, Off, TypeOK, FirstCursor, Makes, Stamps, None, Missing
<1>19. CASE EmptyInbox
  BY <1>19 DEF EmptyInbox, TypeOK, FirstCursor, Makes, Stamps, None, Missing
<1>20. CASE ClearTruncate
  BY <1>20 DEF ClearTruncate, Reading, Now, ResetCursor, Truncated, TypeOK,
     FirstCursor, Makes, Stamps, None, Missing
<1>21. CASE ClearWrite
  <2>1. cursor' = clear.ts
    BY <1>21 DEF ClearWrite, FillCursor
  <2>2. clear.ts # Missing
    BY Numbers DEF Missing
  <2>3. UNCHANGED <<wait, got, made>>
    BY <1>21 DEF ClearWrite
  <2>4. QED
    BY <2>1, <2>2, <2>3 DEF FirstCursor, Makes
<1>22. CASE UNCHANGED vars
  BY <1>22 DEF vars, TypeOK, FirstCursor, Makes, Stamps, None, Missing
<1>23. QED
  BY <1>1, <1>2, <1>3, <1>4, <1>5, <1>6, <1>7, <1>8, <1>9, <1>10, <1>11, <1>12, <1>13, <1>14, <1>15, <1>16,
     <1>17, <1>18, <1>19, <1>20, <1>21, <1>22 DEF Next, Listening, Waiting,
     Looking, Making, Delivering, Clearing

LEMMA UnreadShapeStep ==
  ASSUME TypeOK, InboxOrdered, UnreadShape, [Next]_vars
  PROVE  UnreadShape'
<1> USE InboxAssumption DEF files, listenVars, clearVars, waited
<1>1. CASE Register
  BY <1>1 DEF Register, TypeOK, UnreadShape, Stamps, Delivers
<1>2. CASE MarkTruncate
  BY <1>2 DEF MarkTruncate, Reading, Now, ResetCursor, Truncated, TypeOK,
     UnreadShape, Stamps, Delivers
<1>3. CASE MarkWrite
  BY <1>3 DEF MarkWrite, FillCursor, TypeOK, UnreadShape, Stamps, Delivers
<1>4. CASE Stop
  BY <1>4 DEF Stop, TypeOK, UnreadShape, Stamps, Delivers
<1>5. ASSUME NEW h \in Handlers, Stamp(h) PROVE UnreadShape'
  BY <1>5 DEF Stamp, Reading, Now, TypeOK, UnreadShape, Stamps, Delivers
<1>6. ASSUME NEW h \in Handlers, AppendInbox(h) PROVE UnreadShape'
  <2>1. wait' = wait /\ late \subseteq late'
    BY <1>6 DEF AppendInbox
  <2>2. newest <= newest' /\ newest' \in Nat
    <3>1. stamped[h] \in Nat /\ newest' = IF newest < stamped[h] THEN stamped[h] ELSE newest
      BY <1>6, Numbers, NewestOf DEF AppendInbox
    <3>2. QED
      BY <3>1, Numbers
  <2>3. \A i \in 1 .. Len(wait.unread) : wait.unread[i] <= newest => wait.unread[i] <= newest'
    BY <2>2, Numbers
  <2>4. QED
    BY <2>1, <2>3 DEF UnreadShape
<1>7. CASE StartWait
  BY <1>7 DEF StartWait, Off, TypeOK, UnreadShape, Stamps, Delivers
<1>8. CASE ReadCursor
  BY <1>8 DEF ReadCursor, FindCursor, TypeOK, UnreadShape,
     Stamps, Delivers
<1>9. CASE FindNoCursor
  BY <1>9 DEF FindNoCursor, TypeOK, UnreadShape, Stamps, Delivers
<1>10. CASE TakeTime
  BY <1>10 DEF TakeTime, Reading, Now, TypeOK, UnreadShape, Stamps, Delivers
<1>11. CASE MakeCursor
  BY <1>11 DEF MakeCursor, Truncated, TypeOK, UnreadShape, Stamps, Delivers
<1>12. CASE FillMade
  BY <1>12 DEF FillMade, TypeOK, UnreadShape, Stamps, Delivers
<1>13. CASE ReadInbox
  <2>1. CASE Unread = <<>>
    BY <1>13, <2>1 DEF ReadInbox, TypeOK, UnreadShape, Delivers
  <2>2. CASE Unread # <<>>
    <3>1. wait' = [wait EXCEPT !.pc = "commit", !.unread = Unread]
      BY <1>13, <2>2 DEF ReadInbox
    <3>2. /\ wait'.unread = Unread /\ wait'.from = wait.from /\ wait'.pc \in Delivers
          /\ late' = late /\ newest' = newest
      BY <1>13, <3>1 DEF ReadInbox, TypeOK, Delivers
    <3>3. \A n \in 1 .. Len(Unread) : Unread[n] > wait.from /\ Unread[n] <= newest
      BY UnreadFacts DEF InboxOrdered
    <3>4. \A m, n \in 1 .. Len(Unread) :
            m < n /\ Unread[m] >= Unread[n] => Unread[n] \in late
      <4>1. ASSUME NEW m \in 1 .. Len(Unread), NEW n \in 1 .. Len(Unread),
                   m < n, Unread[m] >= Unread[n]
            PROVE  Unread[n] \in late
        <5>1. PICK i \in 1 .. Len(inbox), j \in 1 .. Len(inbox) :
                i < j /\ Unread[m] = inbox[i] /\ Unread[n] = inbox[j]
          BY <4>1, UnreadFacts
        <5>2. QED
          BY <4>1, <5>1 DEF InboxOrdered
      <4>2. QED
        BY <4>1
    <3>5. QED
      BY <3>2, <3>3, <3>4 DEF UnreadShape
  <2>3. QED
    BY <2>1, <2>2
<1>14. CASE TimeOut
  BY <1>14 DEF TimeOut, Off, TypeOK, UnreadShape, Stamps, Delivers
<1>15. CASE TruncateCursor
  BY <1>15 DEF TruncateCursor, Truncated, TypeOK, UnreadShape, Stamps, Delivers
<1>16. CASE WriteCursor
  BY <1>16 DEF WriteCursor, TypeOK, UnreadShape, Stamps, Delivers
<1>17. CASE PrintMessages
  BY <1>17 DEF PrintMessages, Off, TypeOK, UnreadShape, Stamps, Delivers
<1>18. CASE Die
  BY <1>18 DEF Die, Off, TypeOK, UnreadShape, Stamps, Delivers
<1>19. CASE EmptyInbox
  BY <1>19 DEF EmptyInbox, TypeOK, UnreadShape, Stamps, Delivers
<1>20. CASE ClearTruncate
  BY <1>20 DEF ClearTruncate, Reading, Now, ResetCursor, Truncated, TypeOK,
     UnreadShape, Stamps, Delivers
<1>21. CASE ClearWrite
  BY <1>21 DEF ClearWrite, FillCursor, TypeOK, UnreadShape, Stamps, Delivers
<1>22. CASE UNCHANGED vars
  BY <1>22 DEF vars, TypeOK, UnreadShape, Stamps, Delivers
<1>23. QED
  BY <1>1, <1>2, <1>3, <1>4, <1>5, <1>6, <1>7, <1>8, <1>9, <1>10, <1>11, <1>12, <1>13, <1>14, <1>15, <1>16,
     <1>17, <1>18, <1>19, <1>20, <1>21, <1>22 DEF Next, Listening, Waiting,
     Looking, Making, Delivering, Clearing

LEMMA CursorIsStep ==
  ASSUME TypeOK, TimesKnown, CursorIs, [Next]_vars
  PROVE  CursorIs'
<1> USE InboxAssumption DEF files, listenVars, clearVars, waited
<1>1. CASE Register
  BY <1>1 DEF Register, TypeOK, TimesKnown, CursorIs, Stamps
<1>2. CASE MarkTruncate
  BY <1>2 DEF MarkTruncate, Reading, Now, ResetCursor, Truncated, TypeOK,
     TimesKnown, CursorIs, Stamps
<1>3. CASE MarkWrite
  BY <1>3 DEF MarkWrite, FillCursor, TypeOK, TimesKnown, CursorIs, Stamps
<1>4. CASE Stop
  BY <1>4 DEF Stop, TypeOK, TimesKnown, CursorIs, Stamps
<1>5. ASSUME NEW h \in Handlers, Stamp(h) PROVE CursorIs'
  BY <1>5 DEF Stamp, Reading, Now, TypeOK, TimesKnown, CursorIs, Stamps
<1>6. ASSUME NEW h \in Handlers, AppendInbox(h) PROVE CursorIs'
  BY <1>6 DEF AppendInbox, TypeOK, TimesKnown, CursorIs, Stamps
<1>7. CASE StartWait
  BY <1>7 DEF StartWait, Off, TypeOK, TimesKnown, CursorIs, Stamps
<1>8. CASE ReadCursor
  BY <1>8 DEF ReadCursor, FindCursor, TypeOK, TimesKnown,
     CursorIs, Stamps
<1>9. CASE FindNoCursor
  BY <1>9 DEF FindNoCursor, TypeOK, TimesKnown, CursorIs, Stamps
<1>10. CASE TakeTime
  BY <1>10 DEF TakeTime, Reading, Now, TypeOK, TimesKnown, CursorIs, Stamps
<1>11. CASE MakeCursor
  BY <1>11 DEF MakeCursor, Truncated, TypeOK, TimesKnown, CursorIs, Stamps
<1>12. CASE FillMade
  BY <1>12 DEF FillMade, TypeOK, TimesKnown, CursorIs, Stamps
<1>13. CASE ReadInbox
  BY <1>13 DEF ReadInbox, TypeOK, TimesKnown, CursorIs, Stamps
<1>14. CASE TimeOut
  BY <1>14 DEF TimeOut, Off, TypeOK, TimesKnown, CursorIs, Stamps
<1>15. CASE TruncateCursor
  BY <1>15 DEF TruncateCursor, Truncated, TypeOK, TimesKnown, CursorIs, Stamps
<1>16. CASE WriteCursor
  BY <1>16 DEF WriteCursor, TypeOK, TimesKnown, CursorIs, Stamps
<1>17. CASE PrintMessages
  BY <1>17 DEF PrintMessages, Off, TypeOK, TimesKnown, CursorIs, Stamps
<1>18. CASE Die
  BY <1>18 DEF Die, Off, TypeOK, TimesKnown, CursorIs, Stamps
<1>19. CASE EmptyInbox
  BY <1>19 DEF EmptyInbox, TypeOK, TimesKnown, CursorIs, Stamps
<1>20. CASE ClearTruncate
  BY <1>20 DEF ClearTruncate, Reading, Now, ResetCursor, Truncated, TypeOK,
     TimesKnown, CursorIs, Stamps
<1>21. CASE ClearWrite
  BY <1>21 DEF ClearWrite, FillCursor, TypeOK, TimesKnown, CursorIs, Stamps
<1>22. CASE UNCHANGED vars
  BY <1>22 DEF vars, TypeOK, TimesKnown, CursorIs, Stamps
<1>23. QED
  BY <1>1, <1>2, <1>3, <1>4, <1>5, <1>6, <1>7, <1>8, <1>9, <1>10, <1>11, <1>12, <1>13, <1>14, <1>15, <1>16,
     <1>17, <1>18, <1>19, <1>20, <1>21, <1>22 DEF Next, Listening, Waiting,
     Looking, Making, Delivering, Clearing

-----------------------------------------------------------------------------
(* Nothing is lost                                                         *)

(* At the time t, what is in the inbox has been printed or was late ...    *)
Covered(t) ==
  \A i \in 1 .. Len(inbox) :
    inbox[i] > baseline /\ inbox[i] > made /\ inbox[i] <= t =>
      Printed(inbox[i]) \/ inbox[i] \in late

(* ... and what a handler has stamped and not yet appended will be late.   *)
Due(t) ==
  \A h \in Handlers :
    stamped[h] > baseline /\ stamped[h] > made /\ stamped[h] <= t => stamped[h] < newest

Past(t) == Covered(t) /\ Due(t)

InHand ==
  \A i \in 1 .. Len(inbox) :
    inbox[i] > baseline /\ inbox[i] > made /\ inbox[i] <= Last(wait.unread) =>
      \/ Printed(inbox[i]) \/ inbox[i] \in late
      \/ \E n \in 1 .. Len(wait.unread) : wait.unread[n] = inbox[i]

NoneLost ==
  "lose" \notin hurt =>
    /\ wait.pc \notin {"writing", "print"} => Past(cursor)
    /\ wait.pc = "inbox" => Past(wait.from)
    /\ wait.pc \in Delivers => InHand

LEMMA LastTaken ==
  ASSUME TypeOK, Taken, UnreadShape, StampsDiffer, wait.pc \in Delivers
  PROVE  /\ Len(wait.unread) \in 1 .. Len(wait.unread)
         /\ Last(wait.unread) = wait.unread[Len(wait.unread)]
         /\ Last(wait.unread) \in Nat /\ Last(wait.unread) > wait.from
         /\ Last(wait.unread) <= newest /\ Last(wait.unread) <= clock
<1>1. wait.unread # <<>>
  BY DEF Taken
<1>2. Len(wait.unread) \in 1 .. Len(wait.unread)
  BY <1>1, Numbers
<1>3. Last(wait.unread) = wait.unread[Len(wait.unread)]
  BY DEF Last
<1>4. /\ wait.unread[Len(wait.unread)] \in Nat
      /\ wait.unread[Len(wait.unread)] > wait.from
      /\ wait.unread[Len(wait.unread)] <= newest
  BY <1>2, Numbers DEF UnreadShape
<1>5. QED
  BY <1>2, <1>3, <1>4, Numbers DEF StampsDiffer

LEMMA ResetPast ==
  ASSUME TypeOK, StampsDiffer, InboxOrdered, NEW t, ResetCursor, UNCHANGED <<inbox, stamped>>
  PROVE  Covered(t)' /\ Due(t)'
<1>1. baseline' = clock + 1
  BY DEF ResetCursor, Now
<1>2. \A i \in 1 .. Len(inbox) : ~(inbox[i] > clock + 1)
  <2>1. \A i \in 1 .. Len(inbox) : inbox[i] \in Nat /\ inbox[i] <= newest /\ newest <= clock
    BY Numbers DEF InboxOrdered, StampsDiffer
  <2>2. QED
    BY <2>1, Numbers
<1>3. \A h \in Handlers : ~(stamped[h] > clock + 1)
  BY Numbers DEF StampsDiffer
<1>4. QED
  BY <1>1, <1>2, <1>3 DEF Covered, Due

LEMMA NoneLostInit == Init => NoneLost
  BY DEF Init, NoneLost, Past, Covered, Due, None, Missing, Off, Delivers

(* A time stays past: a message that is stamped or appended later is above *)
(* it or late.                                                             *)
LEMMA PastKept ==
  ASSUME TypeOK, TypeOK', StampsDiffer, TimesKnown, InboxOrdered, FirstCursor,
         [Next]_vars,
         NEW t \in Int, t <= clock, Past(t)
  PROVE  Past(t)'
<1> USE InboxAssumption DEF files, listenVars, clearVars, waited
<1>1. CASE Register
  BY <1>1, Numbers DEF Register, Past, Covered, Due, Printed
<1>2. CASE MarkTruncate
  BY <1>2, ResetPast DEF MarkTruncate, Past
<1>3. CASE MarkWrite
  BY <1>3, Numbers DEF MarkWrite, FillCursor, Past, Covered, Due, Printed
<1>4. CASE Stop
  <2>1. UNCHANGED <<inbox, newest, late, baseline, got, made>>
    BY <1>4 DEF Stop
  <2>2. \A k \in Handlers : stamped'[k] = None
    BY <1>4 DEF Stop
  <2>3. QED
    BY <2>1, <2>2, Numbers DEF Past, Covered, Due, Printed, None
<1>5. ASSUME NEW h \in Handlers, Stamp(h) PROVE Past(t)'
  <2>1. UNCHANGED <<inbox, newest, late, baseline, got, made>>
    BY <1>5 DEF Stamp
  <2>2. \A k \in Handlers : stamped'[k] = IF k = h THEN clock + 1 ELSE stamped[k]
    BY <1>5 DEF Stamp, Now, TypeOK
  <2>3. Covered(t)'
    BY <2>1 DEF Past, Covered, Printed
  <2>4. ~(clock + 1 <= t)
    BY Numbers
  <2>5. Due(t)'
    BY <2>1, <2>2, <2>4 DEF Past, Due
  <2>6. QED
    BY <2>3, <2>5 DEF Past
<1>6. ASSUME NEW h \in Handlers, AppendInbox(h) PROVE Past(t)'
  <2>1. /\ stamped[h] \in Nat /\ stamped[h] # newest /\ stamped[h] # None
        /\ newest' = IF newest < stamped[h] THEN stamped[h] ELSE newest
    BY <1>6, Numbers, NewestOf DEF AppendInbox, StampsDiffer
  <2>2. /\ Len(inbox) \in Nat
        /\ \A i \in 1 .. Len(inbox') : i \in 1 .. Len(inbox) \/ i = Len(inbox) + 1
        /\ \A i \in 1 .. Len(inbox) : inbox'[i] = inbox[i]
        /\ inbox'[Len(inbox) + 1] = stamped[h]
    BY <1>6, Numbers DEF AppendInbox
  <2>3. /\ late \subseteq late' /\ (stamped[h] < newest => stamped[h] \in late')
        /\ baseline' = baseline /\ made' = made /\ got' = got
    BY <1>6 DEF AppendInbox
  <2>4. \A at \in Nat : Printed(at) => Printed(at)'
    BY <2>3 DEF Printed
  <2>5. stamped[h] > baseline /\ stamped[h] > made /\ stamped[h] <= t => stamped[h] \in late'
    BY <2>3 DEF Past, Due
  <2>6. Covered(t)'
    <3>1. ASSUME NEW i \in 1 .. Len(inbox'), inbox'[i] > baseline', inbox'[i] > made',
                 inbox'[i] <= t
          PROVE  Printed(inbox[i])' \/ inbox'[i] \in late'
      <4>1. CASE i \in 1 .. Len(inbox)
        BY <2>2, <2>3, <2>4, <3>1, <4>1, Numbers DEF Past, Covered
      <4>2. CASE i = Len(inbox) + 1
        BY <2>2, <2>3, <2>5, <3>1, <4>2
      <4>3. QED
        BY <2>2, <4>1, <4>2
    <3>2. QED
      BY <3>1 DEF Covered
  <2>7. \A k \in Handlers : stamped'[k] = IF k = h THEN None ELSE stamped[k]
    BY <1>6 DEF AppendInbox, TypeOK
  <2>8. newest <= newest'
    BY <2>1, Numbers
  <2>9. Due(t)'
    <3>1. ASSUME NEW k \in Handlers, stamped'[k] > baseline', stamped'[k] > made',
                 stamped'[k] <= t
          PROVE  stamped'[k] < newest'
      <4>1. k # h
        BY <2>3, <2>7, <3>1, Numbers DEF None
      <4>2. stamped'[k] = stamped[k] /\ stamped[k] < newest
        BY <2>3, <2>7, <3>1, <4>1 DEF Past, Due
      <4>3. QED
        BY <2>1, <2>8, <4>2, Numbers
    <3>2. QED
      BY <3>1 DEF Due
  <2>10. QED
    BY <2>6, <2>9 DEF Past
<1>7. CASE StartWait
  BY <1>7, Numbers DEF StartWait, Off, Past, Covered, Due, Printed
<1>8. CASE ReadCursor
  BY <1>8, Numbers DEF ReadCursor, FindCursor, Past, Covered,
     Due, Printed
<1>9. CASE FindNoCursor
  BY <1>9, Numbers DEF FindNoCursor, Past, Covered, Due, Printed
<1>10. CASE TakeTime
  BY <1>10, Numbers DEF TakeTime, Reading, Now, Past, Covered, Due, Printed
<1>11. CASE MakeCursor
  BY <1>11, Numbers DEF MakeCursor, Truncated, Past, Covered, Due, Printed
<1>12. CASE FillMade
  BY <1>12, Numbers DEF FillMade, FirstCursor, Makes, None, Past, Covered, Due, Printed
<1>13. CASE ReadInbox
  BY <1>13, Numbers DEF ReadInbox, Past, Covered, Due, Printed
<1>14. CASE TimeOut
  BY <1>14, Numbers DEF TimeOut, Off, Past, Covered, Due, Printed
<1>15. CASE TruncateCursor
  BY <1>15, Numbers DEF TruncateCursor, Truncated, Past, Covered, Due, Printed
<1>16. CASE WriteCursor
  BY <1>16, Numbers DEF WriteCursor, Past, Covered, Due, Printed
<1>17. CASE PrintMessages
  <2>1. UNCHANGED <<inbox, stamped, newest, late, baseline, made>>
    BY <1>17 DEF PrintMessages
  <2>2. \A at \in Nat : Printed(at) => Printed(at)'
    BY <1>17, Printing DEF PrintMessages, Printed
  <2>3. QED
    BY <2>1, <2>2, Numbers DEF Past, Covered, Due
<1>18. CASE Die
  BY <1>18, Numbers DEF Die, Off, Past, Covered, Due, Printed
<1>19. CASE EmptyInbox
  <2>1. Covered(t)'
    BY <1>19 DEF EmptyInbox, Covered
  <2>2. QED
    BY <1>19, <2>1 DEF EmptyInbox, Past, Due
<1>20. CASE ClearTruncate
  BY <1>20, ResetPast DEF ClearTruncate, Past
<1>21. CASE ClearWrite
  BY <1>21, Numbers DEF ClearWrite, FillCursor, Past, Covered, Due, Printed
<1>22. CASE UNCHANGED vars
  BY <1>22 DEF vars, Past, Covered, Due, Printed
<1>23. QED
  BY <1>1, <1>2, <1>3, <1>4, <1>5, <1>6, <1>7, <1>8, <1>9, <1>10, <1>11, <1>12, <1>13, <1>14, <1>15, <1>16,
     <1>17, <1>18, <1>19, <1>20, <1>21, <1>22 DEF Next, Listening, Waiting,
     Looking, Making, Delivering, Clearing

(* What is not after the last time that a listener or a clear has put in   *)
(* the cursor is past.                                                     *)
LEMMA PastBelow ==
  ASSUME TypeOK', NEW t \in Int, t <= baseline' \/ t <= made'
  PROVE  Past(t)'
<1>1. baseline' \in Nat /\ made' \in Nat
  BY InboxAssumption DEF TypeOK
<1>2. \A i \in 1 .. Len(inbox') : inbox'[i] \in Nat
  <2>1. inbox' \in Seq(Stamps)
    BY DEF TypeOK
  <2>2. \A i \in 1 .. Len(inbox') : inbox'[i] \in Stamps
    BY <2>1
  <2>3. QED
    BY <2>2 DEF Stamps
<1>3. \A h \in Handlers : stamped'[h] \in Nat
  BY DEF TypeOK, Stamps, None
<1>4. QED
  BY <1>1, <1>2, <1>3 DEF Past, Covered, Due

LEMMA InHandKept ==
  ASSUME TypeOK, TypeOK', Taken, StampsDiffer, TimesKnown, InboxOrdered, UnreadShape,
         [Next]_vars, InHand, wait.pc \in Delivers, wait'.unread = wait.unread
  PROVE  InHand'
<1> USE InboxAssumption DEF files, listenVars, clearVars, waited
<1>1. CASE Register
  BY <1>1 DEF Register, InHand, Printed
<1>2. CASE MarkTruncate
  BY <1>2, ResetPast DEF MarkTruncate, InHand, Covered, Due, Printed,
     ResetCursor
<1>3. CASE MarkWrite
  BY <1>3 DEF MarkWrite, FillCursor, InHand, Printed
<1>4. CASE Stop
  BY <1>4 DEF Stop, InHand, Printed
<1>5. ASSUME NEW h \in Handlers, Stamp(h) PROVE InHand'
  BY <1>5 DEF Stamp, Reading, Now, InHand, Printed
<1>6. ASSUME NEW h \in Handlers, AppendInbox(h) PROVE InHand'
  <2>1. /\ stamped[h] \in Nat /\ stamped[h] # newest
        /\ wait' = wait /\ late \subseteq late' /\ (stamped[h] < newest => stamped[h] \in late')
        /\ baseline' = baseline /\ made' = made /\ got' = got
    BY <1>6, Numbers DEF AppendInbox, StampsDiffer
  <2>2. /\ Len(inbox) \in Nat
        /\ \A i \in 1 .. Len(inbox') : i \in 1 .. Len(inbox) \/ i = Len(inbox) + 1
        /\ \A i \in 1 .. Len(inbox) : inbox'[i] = inbox[i]
        /\ inbox'[Len(inbox) + 1] = stamped[h]
    BY <1>6, Numbers DEF AppendInbox
  <2>3. stamped[h] <= Last(wait.unread) => stamped[h] \in late'
    BY <2>1, LastTaken, Numbers
  <2>4. ASSUME NEW i \in 1 .. Len(inbox'), inbox'[i] > baseline', inbox'[i] > made',
                 inbox'[i] <= Last(wait'.unread)
        PROVE  \/ Printed(inbox[i])' \/ inbox'[i] \in late'
               \/ \E n \in 1 .. Len(wait'.unread) : wait'.unread[n] = inbox'[i]
    <3>1. CASE i \in 1 .. Len(inbox)
      BY <2>1, <2>2, <2>4, <3>1 DEF InHand, Printed
    <3>2. CASE i = Len(inbox) + 1
      BY <2>1, <2>2, <2>3, <2>4, <3>2
    <3>3. QED
      BY <2>2, <3>1, <3>2
  <2>5. QED
    BY <2>4 DEF InHand
<1>7. CASE StartWait
  BY <1>7 DEF StartWait, Off, InHand, Printed
<1>8. CASE ReadCursor
  BY <1>8 DEF ReadCursor, FindCursor, Delivers
<1>9. CASE FindNoCursor
  BY <1>9 DEF FindNoCursor, Delivers
<1>10. CASE TakeTime
  BY <1>10 DEF TakeTime, Delivers
<1>11. CASE MakeCursor
  BY <1>11 DEF MakeCursor, Delivers
<1>12. CASE FillMade
  BY <1>12 DEF FillMade, Delivers
<1>13. CASE ReadInbox
  BY <1>13 DEF ReadInbox, Delivers
<1>14. CASE TimeOut
  BY <1>14 DEF TimeOut, Off, InHand, Printed
<1>15. CASE TruncateCursor
  BY <1>15 DEF TruncateCursor, Truncated, InHand, Printed
<1>16. CASE WriteCursor
  BY <1>16 DEF WriteCursor, InHand, Printed
<1>17. CASE PrintMessages
  <2>1. \A at \in Nat : Printed(at) => Printed(at)'
    BY <1>17, Printing DEF PrintMessages, Printed
  <2>2. QED
    BY <1>17, <2>1, Numbers DEF PrintMessages, InHand
<1>18. CASE Die
  BY <1>18 DEF Die, Off, InHand, Printed
<1>19. CASE EmptyInbox
  BY <1>19 DEF EmptyInbox, InHand, Printed
<1>20. CASE ClearTruncate
  BY <1>20, ResetPast DEF ClearTruncate, InHand, Covered, Due, Printed,
     ResetCursor
<1>21. CASE ClearWrite
  BY <1>21 DEF ClearWrite, FillCursor, InHand, Printed
<1>22. CASE UNCHANGED vars
  BY <1>22 DEF vars, InHand, Printed
<1>23. QED
  BY <1>1, <1>2, <1>3, <1>4, <1>5, <1>6, <1>7, <1>8, <1>9, <1>10, <1>11, <1>12, <1>13, <1>14, <1>15, <1>16,
     <1>17, <1>18, <1>19, <1>20, <1>21, <1>22 DEF Next, Listening, Waiting,
     Looking, Making, Delivering, Clearing

LEMMA CursorPast ==
  ASSUME TypeOK, TypeOK', StampsDiffer, TimesKnown, InboxOrdered, FirstCursor, [Next]_vars,
         Past(cursor), cursor' = cursor
  PROVE  Past(cursor)'
<1>1. PICK t \in Int : t = cursor
  BY Numbers
<1>2. Past(t)'
  BY <1>1, PastKept DEF TimesKnown
<1>3. QED
  BY <1>1, <1>2

(* Whoever puts a time in the cursor but the "wait" puts one there that is *)
(* past.                                                                   *)
LEMMA NoneLostBeside ==
  ASSUME TypeOK, TypeOK', Taken, StampsDiffer, TimesKnown, InboxOrdered, UnreadShape,
         FirstCursor, [Next]_vars, NoneLost, wait' = wait, "lose" \in hurt => "lose" \in hurt',
         cursor' = cursor \/ cursor' <= baseline'
  PROVE  NoneLost'
<1> SUFFICES ASSUME "lose" \notin hurt'
             PROVE  /\ wait.pc \notin {"writing", "print"} => Past(cursor)'
                    /\ wait.pc = "inbox" => Past(wait.from)'
                    /\ wait.pc \in Delivers => InHand'
  BY DEF NoneLost
<1>1. /\ wait.pc \notin {"writing", "print"} => Past(cursor)
      /\ wait.pc = "inbox" => Past(wait.from)
      /\ wait.pc \in Delivers => InHand
  BY DEF NoneLost
<1>2. ASSUME wait.pc \notin {"writing", "print"} PROVE Past(cursor)'
  <2>1. PICK t \in Int : t = cursor'
    BY DEF TypeOK, Stamps, Missing, Truncated
  <2>2. Past(t)'
    <3>1. CASE t <= baseline'
      BY <3>1, PastBelow
    <3>2. CASE cursor' = cursor
      <4>1. Past(t) /\ t <= clock
        BY <1>1, <1>2, <2>1, <3>2 DEF TimesKnown
      <4>2. QED
        BY <4>1, PastKept
    <3>3. QED
      BY <2>1, <3>1, <3>2
  <2>3. QED
    BY <2>1, <2>2
<1>3. ASSUME wait.pc = "inbox" PROVE Past(wait.from)'
  <2>1. PICK t \in Int : t = wait.from
    BY Numbers
  <2>2. Past(t) /\ t <= clock
    BY <1>1, <1>3, <2>1 DEF TimesKnown
  <2>3. Past(t)'
    BY <2>2, PastKept
  <2>4. QED
    BY <2>1, <2>3
<1>4. ASSUME wait.pc \in Delivers PROVE InHand'
  BY <1>1, <1>4, InHandKept
<1>5. QED
  BY <1>2, <1>3, <1>4

LEMMA NoneLostStep ==
  ASSUME TypeOK, TypeOK', Taken, StampsDiffer, TimesKnown, InboxOrdered, UnreadShape,
         FirstCursor, CursorIs, [Next]_vars, NoneLost
  PROVE  NoneLost'
<1> USE InboxAssumption DEF files, listenVars, clearVars, waited
<1>1. CASE Register
  BY <1>1, NoneLostBeside DEF Register
<1>2. CASE MarkTruncate
  <2>1. cursor' <= baseline'
    BY <1>2, Numbers DEF MarkTruncate, ResetCursor, Truncated, Now
  <2>2. QED
    BY <1>2, <2>1, NoneLostBeside DEF MarkTruncate
<1>3. CASE MarkWrite
  <2>1. cursor' <= baseline' /\ hurt \subseteq hurt'
    BY <1>3 DEF MarkWrite, FillCursor, TimesKnown
  <2>2. QED
    BY <1>3, <2>1, NoneLostBeside DEF MarkWrite
<1>4. CASE Stop
  BY <1>4, NoneLostBeside DEF Stop
<1>5. ASSUME NEW h \in Handlers, Stamp(h) PROVE NoneLost'
  BY <1>5, NoneLostBeside DEF Stamp
<1>6. ASSUME NEW h \in Handlers, AppendInbox(h) PROVE NoneLost'
  BY <1>6, NoneLostBeside DEF AppendInbox
<1>7. CASE StartWait
  <2>1. wait.pc = "off" /\ wait'.pc = "cursor" /\ UNCHANGED <<cursor, hurt>>
    BY <1>7 DEF StartWait, Off
  <2>2. "lose" \notin hurt' => Past(cursor)'
    BY <2>1, CursorPast DEF NoneLost
  <2>3. QED
    BY <2>1, <2>2 DEF NoneLost, Delivers
<1>8. CASE ReadCursor
  <2>1. /\ wait.pc = "cursor" /\ wait'.pc = "inbox" /\ wait'.from = cursor'
        /\ cursor' = cursor /\ ("lose" \in hurt => "lose" \in hurt')
    BY <1>8 DEF ReadCursor, FindCursor, TypeOK
  <2>2. "lose" \notin hurt' => Past(cursor)'
    BY <2>1, CursorPast DEF NoneLost
  <2>3. "lose" \notin hurt' => Past(wait.from)'
    <3>1. PICK t : t = cursor'
      OBVIOUS
    <3>2. wait'.from = t /\ ("lose" \notin hurt' => Past(t)')
      BY <2>1, <2>2, <3>1
    <3>3. QED
      BY <3>2
  <2>4. QED
    BY <2>1, <2>2, <2>3 DEF NoneLost, Delivers
<1>9. CASE FindNoCursor
  <2>1. wait.pc = "cursor" /\ wait'.pc = "making" /\ UNCHANGED <<cursor, hurt>>
    BY <1>9 DEF FindNoCursor, TypeOK
  <2>2. "lose" \notin hurt' => Past(cursor)'
    BY <2>1, CursorPast DEF NoneLost
  <2>3. QED
    BY <2>1, <2>2 DEF NoneLost, Delivers
<1>10. CASE TakeTime
  <2>1. wait.pc = "making" /\ wait'.pc = "timed" /\ UNCHANGED <<cursor, hurt>>
    BY <1>10 DEF TakeTime, TypeOK
  <2>2. "lose" \notin hurt' => Past(cursor)'
    BY <2>1, CursorPast DEF NoneLost
  <2>3. QED
    BY <2>1, <2>2 DEF NoneLost, Delivers
<1>11. CASE MakeCursor
  <2>1. wait'.pc = "filling" /\ cursor' = 0 /\ baseline' \in Nat
    BY <1>11 DEF MakeCursor, Truncated, TypeOK
  <2>2. PICK t \in Int : t = cursor'
    BY <2>1
  <2>3. Past(t)'
    BY <2>1, <2>2, PastBelow
  <2>4. QED
    BY <2>1, <2>2, <2>3 DEF NoneLost, Delivers
<1>12. CASE FillMade
  <2>1. /\ wait'.pc = "inbox" /\ wait'.from = wait.from
        /\ cursor' = wait.from /\ made' = wait.from
    BY <1>12 DEF FillMade, TypeOK
  <2>2. PICK t \in Int : t = wait.from
    BY Numbers
  <2>3. Past(t)'
    BY <2>1, <2>2, PastBelow
  <2>4. Past(cursor)' /\ Past(wait.from)'
    BY <2>1, <2>2, <2>3
  <2>5. QED
    BY <2>1, <2>4 DEF NoneLost, Delivers
<1>13. CASE ReadInbox
  <2>1. wait.pc = "inbox" /\ UNCHANGED <<cursor, hurt, inbox, baseline, got, made, late>>
    BY <1>13 DEF ReadInbox
  <2>2. "lose" \notin hurt' => Past(cursor)'
    BY <2>1, CursorPast DEF NoneLost
  <2>3. CASE wait'.pc = "cursor"
    BY <2>2, <2>3 DEF NoneLost, Delivers
  <2>4. CASE wait'.pc = "commit" /\ wait'.unread = Unread
    <3>1. \A i \in 1 .. Len(inbox) : inbox[i] > wait.from =>
            \E n \in 1 .. Len(Unread) : Unread[n] = inbox[i]
      BY UnreadFacts
    <3>2. "lose" \notin hurt' => Covered(wait.from)
      BY <2>1 DEF NoneLost, Past
    <3>3. "lose" \notin hurt' =>
            \A i \in 1 .. Len(inbox) : inbox[i] > baseline /\ inbox[i] > made =>
              \/ Printed(inbox[i]) \/ inbox[i] \in late
              \/ \E n \in 1 .. Len(Unread) : Unread[n] = inbox[i]
      <4>1. \A i \in 1 .. Len(inbox) : inbox[i] > wait.from \/ inbox[i] <= wait.from
        BY Numbers
      <4>2. QED
        BY <3>1, <3>2, <4>1 DEF Covered
    <3>4. "lose" \notin hurt' => InHand'
      BY <2>1, <2>4, <3>3 DEF InHand, Printed
    <3>5. QED
      BY <2>2, <2>4, <3>4 DEF NoneLost
  <2>5. QED
    BY <1>13, <2>3, <2>4 DEF ReadInbox, TypeOK
<1>14. CASE TimeOut
  <2>1. wait.pc = "cursor" /\ wait'.pc = "off" /\ UNCHANGED <<cursor, hurt>>
    BY <1>14 DEF TimeOut, Off
  <2>2. "lose" \notin hurt' => Past(cursor)'
    BY <2>1, CursorPast DEF NoneLost
  <2>3. QED
    BY <2>1, <2>2 DEF NoneLost, Delivers
<1>15. CASE TruncateCursor
  <2>1. wait.pc \in Delivers /\ wait'.pc = "writing" /\ wait'.unread = wait.unread /\ hurt' = hurt
    BY <1>15 DEF TruncateCursor, TypeOK, Delivers
  <2>2. "lose" \notin hurt' => InHand'
    BY <2>1, InHandKept DEF NoneLost
  <2>3. QED
    BY <2>1, <2>2 DEF NoneLost
<1>16. CASE WriteCursor
  <2>1. wait.pc \in Delivers /\ wait'.pc = "print" /\ wait'.unread = wait.unread /\ hurt' = hurt
    BY <1>16 DEF WriteCursor, TypeOK, Delivers
  <2>2. "lose" \notin hurt' => InHand'
    BY <2>1, InHandKept DEF NoneLost
  <2>3. QED
    BY <2>1, <2>2 DEF NoneLost
<1>17. CASE PrintMessages
  <2>1. /\ wait.pc = "print" /\ wait'.pc = "off"
        /\ UNCHANGED <<cursor, inbox, stamped, newest, late, baseline, made, hurt>>
    BY <1>17 DEF PrintMessages, Off
  <2>2. PICK t \in Int : t = cursor'
    BY DEF TypeOK, Stamps, Missing, Truncated
  <2>3. "lose" \notin hurt' => Past(t)'
    <3>1. CASE t <= baseline'
      BY <3>1, PastBelow
    <3>2. CASE t = Last(wait.unread)
      <4>1. t <= newest
        BY <2>1, <3>2, LastTaken DEF Delivers
      <4>2. /\ \A at \in Nat : Printed(at) => Printed(at)'
            /\ \A at \in Nat :
                 (\E n \in 1 .. Len(wait.unread) : wait.unread[n] = at) => Printed(at)'
        BY <1>17, Printing DEF PrintMessages, Printed
      <4>3. "lose" \notin hurt' => Covered(t)'
        <5>1. "lose" \notin hurt' => InHand
          BY <2>1 DEF NoneLost, Delivers
        <5>2. \A i \in 1 .. Len(inbox) : inbox[i] \in Nat
          BY Numbers
        <5>3. QED
          BY <2>1, <3>2, <4>2, <5>1, <5>2 DEF InHand, Covered
      <4>4. Due(t)'
        BY <2>1, <4>1, Numbers DEF Due, StampsDiffer, None
      <4>5. QED
        BY <4>3, <4>4 DEF Past
    <3>3. QED
      BY <2>1, <2>2, <3>1, <3>2 DEF CursorIs
  <2>4. QED
    BY <2>1, <2>2, <2>3 DEF NoneLost, Delivers
<1>18. CASE Die
  <2>1. /\ wait.pc \in {"filling", "writing", "print"} /\ wait'.pc = "off"
        /\ UNCHANGED <<cursor, baseline>> /\ hurt \subseteq hurt'
        /\ wait.pc = "print" => "lose" \in hurt'
    BY <1>18 DEF Die, Off
  <2>2. "lose" \notin hurt' => Past(cursor)'
    <3>1. CASE wait.pc = "filling"
      BY <2>1, <3>1, CursorPast DEF NoneLost
    <3>2. CASE wait.pc # "filling"
      <4>1. "lose" \notin hurt' => cursor' <= baseline'
        BY <2>1, <3>2 DEF CursorIs
      <4>2. PICK t \in Int : t = cursor'
        BY DEF TypeOK, Stamps, Missing, Truncated
      <4>3. "lose" \notin hurt' => Past(t)'
        BY <4>1, <4>2, PastBelow
      <4>4. QED
        BY <4>2, <4>3
    <3>3. QED
      BY <3>1, <3>2
  <2>3. QED
    BY <2>1, <2>2 DEF NoneLost, Delivers
<1>19. CASE EmptyInbox
  BY <1>19, NoneLostBeside DEF EmptyInbox
<1>20. CASE ClearTruncate
  <2>1. cursor' <= baseline'
    BY <1>20, Numbers DEF ClearTruncate, ResetCursor, Truncated, Now
  <2>2. QED
    BY <1>20, <2>1, NoneLostBeside DEF ClearTruncate
<1>21. CASE ClearWrite
  <2>1. cursor' <= baseline' /\ hurt \subseteq hurt'
    BY <1>21 DEF ClearWrite, FillCursor, TimesKnown
  <2>2. QED
    BY <1>21, <2>1, NoneLostBeside DEF ClearWrite
<1>22. CASE UNCHANGED vars
  BY <1>22, NoneLostBeside DEF vars
<1>23. QED
  BY <1>1, <1>2, <1>3, <1>4, <1>5, <1>6, <1>7, <1>8, <1>9, <1>10, <1>11, <1>12, <1>13, <1>14, <1>15, <1>16,
     <1>17, <1>18, <1>19, <1>20, <1>21, <1>22 DEF Next, Listening, Waiting,
     Looking, Making, Delivering, Clearing

-----------------------------------------------------------------------------
(* Nothing is printed again                                                *)

(* What has been printed is not after c, or something late is not.         *)
Returned(c) == (\E at \in late : at <= c) \/ \A n \in 1 .. Len(got) : got[n] <= c

Outdone(c) ==
  (\E at \in late : at <= c) \/ \A n \in 1 .. Len(wait.unread) : wait.unread[n] <= c

OnceOrLate ==
  \A m, n \in 1 .. Len(got) :
    m < n /\ got[m] >= got[n] => \E at \in late : at <= got[n]

NoneAgain ==
  "replay" \notin hurt =>
    /\ cursor > 0 => Returned(cursor)
    /\ wait.pc \in Delivers \cup {"inbox"} => Returned(wait.from)
    /\ wait.pc = "print" /\ cursor > 0 => Outdone(cursor)
    /\ OnceOrLate

LEMMA NoneAgainInit == Init => NoneAgain
  BY DEF Init, NoneAgain, OnceOrLate, Missing, Off, Delivers

LEMMA ReturnedKept ==
  ASSUME NEW t, Returned(t), got' = got, late \subseteq late'
  PROVE  Returned(t)'
  BY DEF Returned

(* A cursor that goes back behind what was returned is a replay.           *)
LEMMA Refilled ==
  ASSUME TypeOK, NEW ts \in Nat, FillCursor(ts), "replay" \notin hurt'
  PROVE  /\ "replay" \notin hurt
         /\ \A n \in 1 .. Len(got) : got[n] <= ts
         /\ \A n \in 1 .. Len(wait.unread) : wait.unread[n] <= ts
<1> DEFINE s == got
           t == wait.unread
           r == s \o t
<1>1. ~(\E at \in Range(r) : at > ts) /\ "replay" \notin hurt
  BY DEF FillCursor
<1>2. s \in Seq(Nat) /\ t \in Seq(Nat)
  BY NumberSeqs
<1> HIDE DEF s, t
<1>3. /\ r \in Seq(Nat) /\ Len(r) = Len(s) + Len(t) /\ Len(s) \in Nat /\ Len(t) \in Nat
      /\ \A n \in 1 .. Len(s) : r[n] = s[n] /\ s[n] \in Nat
      /\ \A n \in 1 .. Len(t) : r[Len(s) + n] = t[n] /\ t[n] \in Nat
  BY <1>2, Joining
<1> HIDE DEF r
<1>4. \A n \in 1 .. Len(r) : ~(r[n] > ts)
  <2>1. DOMAIN r = 1 .. Len(r)
    BY <1>3
  <2>2. \A n \in DOMAIN r : r[n] \in Range(r)
    BY DEF Range
  <2>3. QED
    BY <1>1, <2>1, <2>2
<1>5. ASSUME NEW n \in 1 .. Len(s) PROVE s[n] <= ts
  <2>1. n \in 1 .. Len(r)
    BY <1>3
  <2>2. QED
    BY <1>3, <1>4, <2>1
<1>6. ASSUME NEW n \in 1 .. Len(t) PROVE t[n] <= ts
  <2>1. Len(s) + n \in 1 .. Len(r)
    BY <1>3
  <2>2. ~(r[Len(s) + n] > ts)
    BY <1>4, <2>1
  <2>3. r[Len(s) + n] = t[n] /\ t[n] \in Nat
    BY <1>3
  <2>4. QED
    BY <2>2, <2>3
<1>7. QED
  BY <1>1, <1>5, <1>6 DEF s, t

LEMMA NoneAgainBeside ==
  ASSUME NoneAgain, wait' = wait, got' = got, late \subseteq late',
         "replay" \notin hurt' => "replay" \notin hurt,
         \/ cursor' = cursor
         \/ cursor' = Truncated
         \/ "replay" \notin hurt' =>
              /\ \A n \in 1 .. Len(got) : got[n] <= cursor'
              /\ \A n \in 1 .. Len(wait.unread) : wait.unread[n] <= cursor'
  PROVE  NoneAgain'
<1> SUFFICES ASSUME "replay" \notin hurt'
             PROVE  /\ cursor' > 0 => Returned(cursor)'
                    /\ wait.pc \in Delivers \cup {"inbox"} => Returned(wait.from)'
                    /\ wait.pc = "print" /\ cursor' > 0 => Outdone(cursor)'
                    /\ OnceOrLate'
  BY DEF NoneAgain
<1>1. OnceOrLate'
  BY DEF NoneAgain, OnceOrLate
<1>2. wait.pc \in Delivers \cup {"inbox"} => Returned(wait.from)'
  BY DEF NoneAgain, Returned
<1>3. CASE cursor' = cursor
  <2>1. cursor' > 0 => Returned(cursor)'
    BY <1>3 DEF NoneAgain, Returned
  <2>2. wait.pc = "print" /\ cursor' > 0 => Outdone(cursor)'
    BY <1>3 DEF NoneAgain, Outdone
  <2>3. QED
    BY <1>1, <1>2, <2>1, <2>2
<1>4. CASE cursor' = Truncated
  BY <1>1, <1>2, <1>4 DEF Truncated
<1>5. CASE /\ \A n \in 1 .. Len(got) : got[n] <= cursor'
           /\ \A n \in 1 .. Len(wait.unread) : wait.unread[n] <= cursor'
  BY <1>1, <1>2, <1>5 DEF Returned, Outdone
<1>6. QED
  BY <1>3, <1>4, <1>5

LEMMA NoneAgainStep ==
  ASSUME TypeOK, TypeOK', Taken, StampsDiffer, FirstCursor, UnreadShape, CursorIs,
         [Next]_vars, NoneAgain
  PROVE  NoneAgain'
<1> USE InboxAssumption DEF files, listenVars, clearVars, waited
<1>1. CASE Register
  BY <1>1, NoneAgainBeside DEF Register
<1>2. CASE MarkTruncate
  BY <1>2, NoneAgainBeside DEF MarkTruncate, ResetCursor
<1>3. CASE MarkWrite
  <2>1. FillCursor(listener.ts) /\ listener.ts \in Nat /\ cursor' = listener.ts
    BY <1>3, Numbers DEF MarkWrite, FillCursor
  <2>2. "replay" \notin hurt' =>
          /\ "replay" \notin hurt
          /\ \A n \in 1 .. Len(got) : got[n] <= cursor'
          /\ \A n \in 1 .. Len(wait.unread) : wait.unread[n] <= cursor'
    BY <2>1, Refilled
  <2>3. UNCHANGED <<wait, got, late>>
    BY <1>3 DEF MarkWrite
  <2>4. QED
    BY <2>2, <2>3, NoneAgainBeside
<1>4. CASE Stop
  BY <1>4, NoneAgainBeside DEF Stop
<1>5. ASSUME NEW h \in Handlers, Stamp(h) PROVE NoneAgain'
  BY <1>5, NoneAgainBeside DEF Stamp
<1>6. ASSUME NEW h \in Handlers, AppendInbox(h) PROVE NoneAgain'
  BY <1>6, NoneAgainBeside DEF AppendInbox
<1>7. CASE StartWait
  <2>1. wait'.pc = "cursor" /\ UNCHANGED <<cursor, hurt, got, late>>
    BY <1>7 DEF StartWait, Off
  <2>2. "replay" \notin hurt' => OnceOrLate' /\ (cursor' > 0 => Returned(cursor)')
    BY <2>1 DEF NoneAgain, OnceOrLate, Returned
  <2>3. QED
    BY <2>1, <2>2 DEF NoneAgain, Delivers
<1>8. CASE ReadCursor
  <2>1. /\ wait'.pc = "inbox" /\ wait'.from = cursor' /\ cursor' = cursor
        /\ hurt' = IF cursor = Truncated THEN hurt \cup {"replay"} ELSE hurt
        /\ UNCHANGED <<got, late>>
    BY <1>8 DEF ReadCursor, FindCursor, TypeOK
  <2>2. cursor # Truncated => cursor > 0
    BY <1>8 DEF ReadCursor, TypeOK, Missing, Truncated, Stamps
  <2>3. "replay" \notin hurt' => "replay" \notin hurt /\ Returned(cursor)'
    BY <2>1, <2>2 DEF NoneAgain, Returned
  <2>4. "replay" \notin hurt' => Returned(wait.from)'
    <3>1. PICK t : t = cursor'
      OBVIOUS
    <3>2. wait'.from = t /\ ("replay" \notin hurt' => Returned(t)')
      BY <2>1, <2>3, <3>1
    <3>3. QED
      BY <3>2
  <2>5. "replay" \notin hurt' => OnceOrLate'
    BY <2>1, <2>3 DEF NoneAgain, OnceOrLate
  <2>6. QED
    BY <2>1, <2>3, <2>4, <2>5 DEF NoneAgain, Delivers
<1>9. CASE FindNoCursor
  <2>1. wait'.pc = "making" /\ UNCHANGED <<cursor, hurt, got, late>>
    BY <1>9 DEF FindNoCursor, TypeOK
  <2>2. "replay" \notin hurt' => OnceOrLate' /\ (cursor' > 0 => Returned(cursor)')
    BY <2>1 DEF NoneAgain, OnceOrLate, Returned
  <2>3. QED
    BY <2>1, <2>2 DEF NoneAgain, Delivers
<1>10. CASE TakeTime
  <2>1. wait'.pc = "timed" /\ UNCHANGED <<cursor, hurt, got, late>>
    BY <1>10 DEF TakeTime, TypeOK
  <2>2. "replay" \notin hurt' => OnceOrLate' /\ (cursor' > 0 => Returned(cursor)')
    BY <2>1 DEF NoneAgain, OnceOrLate, Returned
  <2>3. QED
    BY <2>1, <2>2 DEF NoneAgain, Delivers
<1>11. CASE MakeCursor
  <2>1. wait'.pc = "filling" /\ cursor' = 0 /\ UNCHANGED <<hurt, got, late>>
    BY <1>11 DEF MakeCursor, Truncated, TypeOK
  <2>2. "replay" \notin hurt' => OnceOrLate'
    BY <2>1 DEF NoneAgain, OnceOrLate
  <2>3. QED
    BY <2>1, <2>2 DEF NoneAgain, Delivers
<1>12. CASE FillMade
  <2>1. wait'.pc = "inbox" /\ got' = <<>> /\ UNCHANGED <<hurt, late>>
    BY <1>12 DEF FillMade, FirstCursor, Makes, TypeOK
  <2>2. OnceOrLate' /\ Returned(cursor)' /\ Returned(wait.from)'
    BY <2>1 DEF OnceOrLate, Returned
  <2>3. QED
    BY <2>1, <2>2 DEF NoneAgain, Delivers
<1>13. CASE ReadInbox
  <2>1. /\ wait.pc = "inbox" /\ wait'.pc \in {"cursor", "commit"} /\ wait'.from = wait.from
        /\ UNCHANGED <<cursor, hurt, got, late>>
    BY <1>13 DEF ReadInbox, TypeOK
  <2>2. "replay" \notin hurt' =>
          OnceOrLate' /\ (cursor' > 0 => Returned(cursor)') /\ Returned(wait.from)'
    BY <2>1 DEF NoneAgain, OnceOrLate, Returned
  <2>3. QED
    BY <2>1, <2>2 DEF NoneAgain
<1>14. CASE TimeOut
  <2>1. wait'.pc = "off" /\ UNCHANGED <<cursor, hurt, got, late>>
    BY <1>14 DEF TimeOut, Off
  <2>2. "replay" \notin hurt' => OnceOrLate' /\ (cursor' > 0 => Returned(cursor)')
    BY <2>1 DEF NoneAgain, OnceOrLate, Returned
  <2>3. QED
    BY <2>1, <2>2 DEF NoneAgain, Delivers
<1>15. CASE TruncateCursor
  <2>1. /\ wait.pc = "commit" /\ wait'.pc = "writing" /\ wait'.from = wait.from
        /\ cursor' = Truncated /\ UNCHANGED <<hurt, got, late>>
    BY <1>15 DEF TruncateCursor, TypeOK
  <2>2. "replay" \notin hurt' => OnceOrLate' /\ Returned(wait.from)'
    BY <2>1 DEF NoneAgain, OnceOrLate, Returned, Delivers
  <2>3. QED
    BY <2>1, <2>2 DEF NoneAgain, Truncated
<1>16. CASE WriteCursor
  <2>1. /\ wait.pc = "writing" /\ wait'.pc = "print" /\ wait'.from = wait.from
        /\ wait'.unread = wait.unread
        /\ cursor' = Last(wait.unread) /\ UNCHANGED <<hurt, got, late>>
    BY <1>16 DEF WriteCursor, TypeOK
  <2>2. "replay" \notin hurt' => OnceOrLate' /\ Returned(wait.from)' /\ Returned(wait.from)
    BY <2>1 DEF NoneAgain, OnceOrLate, Returned, Delivers
  <2>3. wait.pc \in Delivers
    BY <2>1 DEF Delivers
  <2>4. "replay" \notin hurt' => Returned(cursor)'
    <3>1. wait.from < cursor' /\ cursor' \in Nat /\ wait.from \in Nat
      BY <2>1, <2>3, LastTaken, Numbers
    <3>2. late \subseteq Nat
      BY DEF TypeOK, Stamps
    <3>3. \A at \in Nat : at <= wait.from => at <= cursor'
      BY <3>1
    <3>4. QED
      BY <2>1, <2>2, <3>2, <3>3, Numbers DEF Returned
  <2>5. Outdone(cursor)'
    <3>1. /\ Len(wait.unread) \in 1 .. Len(wait.unread)
          /\ cursor' = wait.unread[Len(wait.unread)] /\ cursor' \in Nat
      BY <2>1, <2>3, LastTaken
    <3>2. ASSUME NEW n \in 1 .. Len(wait.unread), ~(wait.unread[n] <= cursor')
          PROVE  cursor' \in late
      <4>1. n < Len(wait.unread) /\ wait.unread[n] >= cursor'
        <5>1. wait.unread[n] \in Nat
          BY Numbers
        <5>2. n # Len(wait.unread)
          BY <3>1, <3>2
        <5>3. QED
          BY <3>1, <3>2, <5>1, <5>2
      <4>2. QED
        BY <2>3, <3>1, <4>1 DEF UnreadShape
    <3>3. QED
      BY <2>1, <3>1, <3>2 DEF Outdone
  <2>6. QED
    BY <2>1, <2>2, <2>4, <2>5 DEF NoneAgain
<1>17. CASE PrintMessages
  <2>1. /\ wait.pc = "print" /\ wait'.pc = "off" /\ wait.pc \in Delivers
        /\ got' = got \o wait.unread /\ UNCHANGED <<cursor, hurt, late>>
    BY <1>17 DEF PrintMessages, Off, Delivers
  <2>2. /\ \A n \in 1 .. Len(got') :
             n \in 1 .. Len(got) \/ \E m \in 1 .. Len(wait.unread) : n = Len(got) + m
        /\ \A n \in 1 .. Len(got) : got'[n] = got[n]
        /\ \A n \in 1 .. Len(wait.unread) : got'[Len(got) + n] = wait.unread[n]
        /\ Len(got) \in Nat
    BY <2>1, Printing, Numbers
  <2>3. ASSUME "replay" \notin hurt', cursor' > 0 PROVE Returned(cursor)'
    <3>1. Returned(cursor) /\ Outdone(cursor)
      BY <2>1, <2>3 DEF NoneAgain
    <3>2. QED
      BY <2>1, <2>2, <3>1 DEF Returned, Outdone
  <2>4. ASSUME "replay" \notin hurt',
               NEW m \in 1 .. Len(got'), NEW n \in 1 .. Len(got'), m < n, got'[m] >= got'[n]
        PROVE  \E at \in late' : at <= got'[n]
    <3>1. OnceOrLate /\ Returned(wait.from)
      BY <2>1, <2>4 DEF NoneAgain
    <3>2. CASE n \in 1 .. Len(got)
      <4>1. m \in 1 .. Len(got)
        BY <2>2, <2>4, <3>2
      <4>2. QED
        BY <2>1, <2>2, <2>4, <3>1, <3>2, <4>1 DEF OnceOrLate
    <3>3. ASSUME NEW k \in 1 .. Len(wait.unread), n = Len(got) + k PROVE \E at \in late' : at <= got'[n]
      <4>1. got'[n] = wait.unread[k] /\ wait.unread[k] \in Nat /\ wait.unread[k] > wait.from
        BY <2>1, <2>2, <3>3, Numbers DEF UnreadShape
      <4>2. CASE m \in 1 .. Len(got)
        <5>1. got[m] >= wait.unread[k] /\ got[m] \in Nat /\ wait.from \in Nat
          BY <2>2, <2>4, <4>1, <4>2, Numbers
        <5>2. ~(got[m] <= wait.from)
          BY <4>1, <5>1
        <5>3. PICK at \in late : at <= wait.from
          BY <3>1, <4>2, <5>2 DEF Returned
        <5>4. at \in Nat
          BY <5>3 DEF TypeOK, Stamps
        <5>5. QED
          BY <2>1, <4>1, <5>1, <5>3, <5>4
      <4>3. ASSUME NEW j \in 1 .. Len(wait.unread), m = Len(got) + j PROVE \E at \in late' : at <= got'[n]
        <5>1. j < k /\ wait.unread[j] >= wait.unread[k]
          BY <2>2, <2>4, <3>3, <4>1, <4>3
        <5>2. wait.unread[k] \in late
          BY <2>1, <5>1 DEF UnreadShape
        <5>3. QED
          BY <2>1, <4>1, <5>2
      <4>4. QED
        BY <2>2, <4>2, <4>3
    <3>4. QED
      BY <2>2, <3>2, <3>3
  <2>5. "replay" \notin hurt' => OnceOrLate'
    BY <2>4 DEF OnceOrLate
  <2>6. QED
    BY <2>1, <2>3, <2>5 DEF NoneAgain, Delivers
<1>18. CASE Die
  <2>1. wait'.pc = "off" /\ hurt \subseteq hurt' /\ UNCHANGED <<cursor, got, late>>
    BY <1>18 DEF Die, Off
  <2>2. "replay" \notin hurt' => OnceOrLate' /\ (cursor' > 0 => Returned(cursor)')
    BY <2>1 DEF NoneAgain, OnceOrLate, Returned
  <2>3. QED
    BY <2>1, <2>2 DEF NoneAgain, Delivers
<1>19. CASE EmptyInbox
  BY <1>19, NoneAgainBeside DEF EmptyInbox
<1>20. CASE ClearTruncate
  BY <1>20, NoneAgainBeside DEF ClearTruncate, ResetCursor
<1>21. CASE ClearWrite
  <2>1. FillCursor(clear.ts) /\ clear.ts \in Nat /\ cursor' = clear.ts
    BY <1>21, Numbers DEF ClearWrite, FillCursor
  <2>2. "replay" \notin hurt' =>
          /\ "replay" \notin hurt
          /\ \A n \in 1 .. Len(got) : got[n] <= cursor'
          /\ \A n \in 1 .. Len(wait.unread) : wait.unread[n] <= cursor'
    BY <2>1, Refilled
  <2>3. UNCHANGED <<wait, got, late>>
    BY <1>21 DEF ClearWrite
  <2>4. QED
    BY <2>2, <2>3, NoneAgainBeside
<1>22. CASE UNCHANGED vars
  BY <1>22, NoneAgainBeside DEF vars
<1>23. QED
  BY <1>1, <1>2, <1>3, <1>4, <1>5, <1>6, <1>7, <1>8, <1>9, <1>10, <1>11, <1>12, <1>13, <1>14, <1>15, <1>16,
     <1>17, <1>18, <1>19, <1>20, <1>21, <1>22 DEF Next, Listening, Waiting,
     Looking, Making, Delivering, Clearing

-----------------------------------------------------------------------------
(* The theorems                                                            *)

InboxInv == TypeOK /\ Taken /\ Times /\ NoneLost /\ NoneAgain

LEMMA InboxInit == Init => InboxInv
  BY TypeInit, TimesAtInit, NoneLostInit, NoneAgainInit DEF InboxInv

LEMMA InboxStep ==
  ASSUME InboxInv, [Next]_vars
  PROVE  InboxInv'
<1> USE DEF InboxInv, Times
<1>1. TypeOK' /\ Taken'
  BY TypeStep
<1>2. StampsDiffer'
  BY StampsDifferStep
<1>3. InboxOrdered'
  BY InboxOrderedStep
<1>4. TimesKnown'
  BY TimesKnownStep
<1>5. FirstCursor'
  BY FirstCursorStep
<1>6. UnreadShape'
  BY UnreadShapeStep
<1>7. CursorIs'
  BY CursorIsStep
<1>8. NoneLost'
  BY <1>1, NoneLostStep
<1>9. NoneAgain'
  BY <1>1, NoneAgainStep
<1>10. QED
  BY <1>1, <1>2, <1>3, <1>4, <1>5, <1>6, <1>7, <1>8, <1>9

(* "Never misses a backlog" (cmd_wait, get_unread): a message that came    *)
(* after the last start or clear and that the cursor has passed has been   *)
(* printed, or its handler thread appended it after a later one, or a      *)
(* "wait" died before its print, or a "wait" that had found no cursor file *)
(* made one with a time after its stamp.                                   *)
THEOREM BacklogKept == Spec => []MissedOnlyIfLate
<1>1. InboxInv => MissedOnlyIfLate
  BY DEF InboxInv, NoneLost, Past, Covered, MissedOnlyIfLate, Passed
<1>2. QED
  BY <1>1, InboxInit, InboxStep, PTL DEF Spec

(* What the runs of "wait" print comes in the order of its stamps and only *)
(* once (get_unread moves the cursor to the last of what it returns), but  *)
(* for what follows a message that was appended late, and unless a cursor  *)
(* was read while it was truncated or was taken back.                      *)
THEOREM PrintedOnce == Spec => []RepeatedOnlyIfLate
<1>1. InboxInv => RepeatedOnlyIfLate
  BY DEF InboxInv, NoneAgain, OnceOrLate, RepeatedOnlyIfLate
<1>2. QED
  BY <1>1, InboxInit, InboxStep, PTL DEF Spec
=============================================================================
