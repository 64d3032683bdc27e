--------------------------- MODULE PushBrakeProofs ---------------------------
(***************************************************************************)
(* Proofs about PushBrake, for any number of posting processes and posts:  *)
(* the count of held posts is exact as long as no two processes decide at  *)
(* the same time, although nothing guards the file it is kept in, and the  *)
(* queue stays shallow, although it is looked at before it is added to.    *)
(***************************************************************************)
EXTENDS PushBrake, FiniteSetTheorems, TLAPS

(* A post in progress has a seq.                                           *)
Numbered == \A p \in Posters : post[p].pc # "idle" => post[p].seq \in 1 .. posts

(* Sequences of smaller numbers are sequences of numbers.                  *)
LEMMA SeqOfMore ==
  ASSUME NEW n \in Nat, NEW s \in Seq(1 .. n)
  PROVE  s \in Seq(1 .. n + 1)
<1>1. \A i \in 1 .. Len(s) : s[i] \in 1 .. n + 1
  OBVIOUS
<1>2. s = [i \in 1 .. Len(s) |-> s[i]] /\ Len(s) \in Nat
  OBVIOUS
<1>3. QED
  BY <1>1, <1>2

LEMMA TwoTries == IsFiniteSet(Tries) /\ Cardinality(Tries) = 2
<1>1. IsFiniteSet({"push"}) /\ Cardinality({"push"}) = 1
  BY FS_Singleton
<1>2. {"push"} \cup {"retry"} = Tries /\ "retry" \notin {"push"}
  BY DEF Tries
<1>3. QED
  BY <1>1, <1>2, FS_AddElement

(* Codex's queue holds finitely many pushes.                               *)
LEMMA QueueFinite ==
  ASSUME TypeOK
  PROVE  IsFiniteSet(queue) /\ Cardinality(queue) \in Nat
<1>1. IsFiniteSet(1 .. posts)
  BY FS_Interval, PushBrakeAssumption DEF TypeOK, PushBrakeAssumption
<1>2. IsFiniteSet(Tries)
  BY TwoTries
<1>3. IsFiniteSet((1 .. posts) \X Tries)
  BY <1>1, <1>2, FS_Product
<1>4. IsFiniteSet(queue)
  BY <1>3, FS_Subset DEF TypeOK
<1>5. QED
  BY <1>4, FS_CardinalityType

(* Type correctness: every reachable state of PushBrake has the types of   *)
(* the code's variables, and a post in progress has a seq.                 *)
THEOREM BrakeTypeCorrect == Spec => [](TypeOK /\ Numbered)
<1> USE DEF Numbered, PushBrakeAssumption
<1>1. Init => TypeOK /\ Numbered
  <2> SUFFICES ASSUME Init PROVE TypeOK /\ Numbered
    OBVIOUS
  <2>1. NoPost \in [pc : PostPCs, seq : 0 .. 0, kind : Kinds, state : States]
    BY DEF NoPost, NoState, States, PostPCs, Tries, Kinds
  <2>2. post \in [Posters -> [pc : PostPCs, seq : 0 .. posts, kind : Kinds, state : States]]
    BY <2>1 DEF Init
  <2>3. Numbered
    BY DEF Init, NoPost
  <2>4. file \in States /\ held \in Seq(1 .. posts)
    BY DEF Init, NoState, States
  <2>5. posts \in 0 .. MaxPosts
    BY PushBrakeAssumption DEF Init
  <2>6. /\ hot \cup free \subseteq 1 .. posts /\ queue \subseteq (1 .. posts) \X Tries
        /\ raced \in BOOLEAN /\ misread \in BOOLEAN /\ blind \in BOOLEAN
    BY DEF Init
  <2> HIDE DEF Numbered
  <2>7. QED
    BY <2>2, <2>3, <2>4, <2>5, <2>6 DEF TypeOK
<1>2. TypeOK /\ Numbered /\ [Next]_vars => TypeOK' /\ Numbered'
  <2> SUFFICES ASSUME TypeOK, Numbered, [Next]_vars
               PROVE  TypeOK' /\ Numbered'
    OBVIOUS
  <2> USE PushBrakeAssumption DEF TypeOK, NoPost, NoState, States, PostPCs, Tries, Kinds
  <2>1. ASSUME NEW p \in Posters, NEW kind \in Kinds, Post(p, kind)
        PROVE  TypeOK' /\ Numbered'
    <3>1. posts' = posts + 1 /\ posts' \in 1 .. MaxPosts
      BY <2>1 DEF Post
    <3>2. held' \in Seq(1 .. posts')
      BY <2>1, <3>1, SeqOfMore DEF Post
    <3> DEFINE new == [pc |-> "decide", seq |-> posts', kind |-> kind, state |-> NoState]
    <3>7. new \in [pc : PostPCs, seq : 0 .. posts', kind : Kinds, state : States]
      BY <3>1
    <3>8. post \in [Posters -> [pc : PostPCs, seq : 0 .. posts', kind : Kinds, state : States]]
      BY <3>1
    <3>3. post' \in [Posters -> [pc : PostPCs, seq : 0 .. posts', kind : Kinds, state : States]]
      <4>1. post' = [post EXCEPT ![p] = new]
        BY <2>1 DEF Post
      <4> HIDE DEF new
      <4>2. QED
        BY <3>7, <3>8, <4>1
    <3>4. Numbered'
      BY <2>1, <3>1 DEF Post
    <3>5. hot' \cup free' \subseteq 1 .. posts' /\ queue' \subseteq (1 .. posts') \X Tries
      BY <2>1, <3>1 DEF Post
    <3>6. QED
      BY <2>1, <3>1, <3>2, <3>3, <3>4, <3>5 DEF Post
  <2>2. ASSUME NEW p \in Posters, ReadState(p) PROVE TypeOK' /\ Numbered'
    <3>1. PICK state \in {file, NoState} :
            /\ post' = [post EXCEPT ![p].pc = "brake", ![p].state = state]
            /\ misread' = (misread \/ state # file)
      BY <2>2 DEF ReadState
    <3>2. state \in States /\ misread' \in BOOLEAN
      BY <3>1
    <3>3. post' \in [Posters -> [pc : PostPCs, seq : 0 .. posts, kind : Kinds, state : States]]
      BY <3>1, <3>2
    <3>4. Numbered'
      BY <2>2, <3>1 DEF ReadState
    <3>5. QED
      BY <2>2, <3>2, <3>3, <3>4 DEF ReadState
  <2>3. ASSUME NEW p \in Posters, NEW waiting \in Nat, Hold(p, waiting), blind' \in BOOLEAN
        PROVE  TypeOK' /\ Numbered'
    <3>1. post[p].seq \in 1 .. posts
      BY <2>3 DEF Hold
    <3>2. file' \in States
      BY <2>3, <3>1 DEF Hold
    <3>3. held' \in Seq(1 .. posts)
      BY <2>3, <3>1 DEF Hold
    <3>4. QED
      BY <2>3, <3>2, <3>3 DEF Hold
  <2>4. ASSUME NEW p \in Posters, NEW waiting \in Nat, Go(p, waiting), blind' \in BOOLEAN
        PROVE  TypeOK' /\ Numbered'
    <3>1. post[p].seq \in 1 .. posts
      BY <2>4 DEF Go
    <3>2. file' \in States /\ hot' \subseteq 1 .. posts
      BY <2>4, <3>1 DEF Go
    <3>3. raced' \in BOOLEAN /\ misread' \in BOOLEAN
      BY <2>4 DEF Go
    <3>4. post' \in [Posters -> [pc : PostPCs, seq : 0 .. posts, kind : Kinds, state : States]]
      BY <2>4 DEF Go
    <3>5. Numbered'
      BY <2>4 DEF Go
    <3>6. held' \in Seq(1 .. posts)
      BY <2>4 DEF Go
    <3>7. QED
      BY <2>4, <3>2, <3>3, <3>4, <3>5, <3>6 DEF Go
  <2>5. ASSUME NEW p \in Posters, Decide(p) PROVE TypeOK' /\ Numbered'
    <3>1. Cardinality(queue) \in Nat
      BY QueueFinite
    <3>2. blind' \in BOOLEAN
      BY <2>5 DEF Decide
    <3>3. ASSUME FailOpen(p) PROVE TypeOK' /\ Numbered'
      <4>1. post[p].seq \in 1 .. posts
        BY <3>3 DEF FailOpen
      <4>2. post' \in [Posters -> [pc : PostPCs, seq : 0 .. posts, kind : Kinds, state : States]]
        BY <3>3 DEF FailOpen
      <4>3. Numbered' /\ free' \subseteq 1 .. posts
        BY <3>3, <4>1 DEF FailOpen
      <4>4. QED
        BY <3>2, <3>3, <4>2, <4>3 DEF FailOpen
    <3>4. QED
      BY <2>3, <2>4, <2>5, <3>1, <3>2, <3>3 DEF Decide
  <2>6. ASSUME NEW p \in Posters, Push(p) PROVE TypeOK' /\ Numbered'
    <3>1. post[p].seq \in 1 .. posts
      BY <2>6 DEF Push
    <3>2. queue' \subseteq (1 .. posts) \X Tries
      <4>1. /\ queue \subseteq (1 .. posts) \X Tries /\ post[p].pc \in Tries
            /\ queue' \in {queue, queue \cup {<<post[p].seq, post[p].pc>>}}
        BY <2>6 DEF Push
      <4> HIDE DEF TypeOK, Tries
      <4>2. QED
        BY <3>1, <4>1
    <3>3. post' \in [Posters -> [pc : PostPCs, seq : 0 .. posts, kind : Kinds, state : States]]
      <4>1. \/ post' = [post EXCEPT ![p] = NoPost]
            \/ post' = [post EXCEPT ![p].pc = "retry"]
        BY <2>6 DEF Push
      <4>2. CASE post' = [post EXCEPT ![p] = NoPost]
        <5>1. NoPost \in [pc : PostPCs, seq : 0 .. posts, kind : Kinds, state : States]
          OBVIOUS
        <5> HIDE DEF NoPost, PostPCs, States, Kinds
        <5>2. QED
          BY <4>2, <5>1
      <4>3. CASE post' = [post EXCEPT ![p].pc = "retry"]
        <5>1. "retry" \in PostPCs
          OBVIOUS
        <5> HIDE DEF NoPost, PostPCs, States, Kinds
        <5>2. QED
          BY <4>3, <5>1
      <4>4. QED
        BY <4>1, <4>2, <4>3
    <3>4. Numbered'
      BY <2>6 DEF Push
    <3>5. QED
      BY <2>6, <3>2, <3>3, <3>4 DEF Push
  <2>7. ASSUME NEW p \in Posters, Fail(p) PROVE TypeOK' /\ Numbered'
    BY <2>7 DEF Fail
  <2>8. CASE Cool
    BY <2>8 DEF Cool
  <2>9. CASE Consume
    BY <2>9 DEF Consume
  <2>10. CASE UNCHANGED vars
    BY <2>10 DEF vars
  <2> HIDE DEF TypeOK, Numbered
  <2>11. QED
    BY <2>1, <2>2, <2>5, <2>6, <2>7, <2>8, <2>9, <2>10 DEF Next
<1>3. QED
  BY <1>1, <1>2, PTL DEF Spec

-----------------------------------------------------------------------------
(* While nobody has decided at the same time as another or failed to read, *)
(* the one process that has read the state file has read what it still     *)
(* says.                                                                   *)
ReadIsCurrent ==
  ~raced /\ ~misread =>
    \A p \in Posters : post[p].pc = "brake" =>
      /\ post[p].state = file
      /\ \A q \in Posters : post[q].pc = "brake" => q = p

Counted == ReadIsCurrent /\ HeldAreCounted

LEMMA CountedKept ==
  ASSUME Counted, UNCHANGED <<file, held, raced, misread>>,
         \A q \in Posters : post'[q].pc = "brake" => post'[q] = post[q]
  PROVE  Counted'
BY DEF Counted, ReadIsCurrent, HeldAreCounted

(* The decision of one process.                                            *)
LEMMA HoldCounts ==
  ASSUME TypeOK, Numbered, Counted,
         NEW p \in Posters, NEW waiting \in Nat, Hold(p, waiting)
  PROVE  Counted'
<1>1. /\ post[p].pc = "brake" /\ raced' = raced /\ misread' = misread
      /\ held' = Append(held, post[p].seq)
  BY DEF Hold
<1>2. /\ post[p].seq \in Nat \ {0}
      /\ held \in Seq(1 .. posts) /\ posts \in Nat
  BY <1>1 DEF TypeOK, Numbered
<1>3. \A q \in Posters : post'[q].pc = "brake" => q # p /\ post[q].pc = "brake"
  BY DEF Hold, TypeOK, NoPost
<1>4. ReadIsCurrent'
  BY <1>1, <1>3 DEF Counted, ReadIsCurrent
<1>5. ASSUME ~raced, ~misread PROVE HeldAreCounted'
  <2>1. post[p].state = file
    BY <1>1, <1>5 DEF Counted, ReadIsCurrent
  <2>2. /\ file'.held = file.held + 1
        /\ file'.first = IF file.first = 0 THEN post[p].seq ELSE file.first
    BY <2>1 DEF Hold
  <2>3. /\ file.held = Len(held)
        /\ file.first = IF held = <<>> THEN 0 ELSE Head(held)
    BY <1>5 DEF Counted, HeldAreCounted
  <2>4. /\ Len(held') = Len(held) + 1 /\ held' # <<>>
        /\ Head(held') = IF held = <<>> THEN post[p].seq ELSE Head(held)
    BY <1>1, <1>2
  <2>5. file.first = 0 <=> held = <<>>
    BY <1>2, <2>3
  <2>6. QED
    BY <2>2, <2>3, <2>4, <2>5 DEF HeldAreCounted
<1>6. QED
  BY <1>1, <1>4, <1>5 DEF Counted, HeldAreCounted

LEMMA GoCounts ==
  ASSUME TypeOK, NEW p \in Posters, NEW waiting \in Nat, Go(p, waiting)
  PROVE  Counted'
<1>1. /\ file' = [NoState EXCEPT !.last = post[p].seq]
      /\ held' = <<>>
      /\ raced' = \E q \in Posters \ {p} : post[q].pc = "brake"
  BY DEF Go
<1>2. HeldAreCounted'
  BY <1>1 DEF HeldAreCounted, NoState
<1>3. \A q \in Posters : post'[q].pc = "brake" => q # p /\ post[q].pc = "brake"
  BY DEF Go, TypeOK
<1>4. ReadIsCurrent'
  BY <1>1, <1>3 DEF ReadIsCurrent
<1>5. QED
  BY <1>2, <1>4 DEF Counted

(* HeldAreCounted, for every number of posters and posts: unless two of    *)
(* them decide at the same time or one cannot read it, the push-state file *)
(* says how many posts have been held since a push last reported them, and *)
(* which was the first (_codex_push_decision), whatever push goes out      *)
(* because a decision failed.                                              *)
THEOREM HeldPostsCounted == Spec => []HeldAreCounted
<1>1. Init => Counted
  BY DEF Init, Counted, ReadIsCurrent, HeldAreCounted, NoState, NoPost
<1>2. ASSUME TypeOK, Numbered, Counted, [Next]_vars PROVE Counted'
  <2>1. ASSUME NEW p \in Posters, NEW kind \in Kinds, Post(p, kind) PROVE Counted'
    <3>1. \A q \in Posters : post'[q].pc = "brake" => post'[q] = post[q]
      BY <1>2, <2>1 DEF Post, TypeOK
    <3>2. QED
      BY <1>2, <2>1, <3>1, CountedKept DEF Post
  <2>2. ASSUME NEW p \in Posters, ReadState(p) PROVE Counted'
    <3>1. PICK state :
            /\ post' = [post EXCEPT ![p].pc = "brake", ![p].state = state]
            /\ misread' = (misread \/ state # file)
      BY <2>2 DEF ReadState
    <3>2. /\ raced' = (raced \/ \E q \in Posters : post[q].pc = "brake")
          /\ UNCHANGED <<file, held>>
      BY <2>2 DEF ReadState
    <3>3. HeldAreCounted'
      BY <1>2, <3>1, <3>2 DEF Counted, HeldAreCounted
    <3>4. /\ post'[p].state = state
          /\ \A q \in Posters \ {p} : post'[q] = post[q]
      BY <1>2, <3>1 DEF TypeOK
    <3>5. ReadIsCurrent'
      BY <3>1, <3>2, <3>4 DEF ReadIsCurrent
    <3>6. QED
      BY <3>3, <3>5 DEF Counted
  <2>3. ASSUME NEW p \in Posters, Decide(p) PROVE Counted'
    <3>1. Cardinality(queue) \in Nat
      BY <1>2, QueueFinite
    <3>2. ASSUME FailOpen(p) PROVE Counted'
      <4>1. \A q \in Posters : post'[q].pc = "brake" => post'[q] = post[q]
        BY <1>2, <3>2 DEF FailOpen, TypeOK
      <4>2. QED
        BY <1>2, <3>2, <4>1, CountedKept DEF FailOpen
    <3>3. QED
      BY <1>2, <2>3, <3>1, <3>2, HoldCounts, GoCounts DEF Decide
  <2>4. ASSUME NEW p \in Posters, Push(p) \/ Fail(p) PROVE Counted'
    <3>1. \A q \in Posters : post'[q].pc = "brake" => post'[q] = post[q]
      BY <1>2, <2>4 DEF Push, Fail, TypeOK, NoPost
    <3>2. QED
      BY <1>2, <2>4, <3>1, CountedKept DEF Push, Fail
  <2>5. CASE Cool \/ Consume \/ UNCHANGED vars
    BY <1>2, <2>5, CountedKept DEF Cool, Consume, vars
  <2>6. QED
    BY <1>2, <2>1, <2>2, <2>3, <2>4, <2>5 DEF Next
<1>3. QED
  BY <1>1, <1>2, BrakeTypeCorrect, PTL DEF Spec, Counted

-----------------------------------------------------------------------------
(* The pushes that count: neither a person's nor a [stop] nor one that     *)
(* went out because the decision failed.  On the way are the tries that    *)
(* those who have decided have left.                                       *)
Waiting == {item \in queue : item[1] \notin free}
OnTheWay ==
  {w \in Posters \X Tries : post[w[1]].pc \in {"push", w[2]} /\ post[w[1]].seq \notin free}

UrgentKnown ==
  \A p \in Posters : post[p].pc # "idle" /\ post[p].kind = "urgent" => post[p].seq \in free

(* A process looks at the queue before it is on its way, so that when it   *)
(* sets out few are waiting and no more tries are left than two for each   *)
(* process; and a try only moves one from the way to the queue.            *)
FewSetOut ==
  ~blind => Cardinality(Waiting) + Cardinality(OnTheWay)
              <= QueueMaxMention - 1 + 2 * Cardinality(Posters)

Shallow == UrgentKnown /\ FewSetOut

LEMMA Countable ==
  ASSUME TypeOK
  PROVE  /\ IsFiniteSet(queue) /\ IsFiniteSet(Waiting) /\ IsFiniteSet(OnTheWay)
         /\ Cardinality(queue) \in Nat /\ Cardinality(Waiting) \in Nat
         /\ Cardinality(OnTheWay) \in Nat /\ Cardinality(Posters) \in Nat
         /\ Cardinality(Waiting) <= Cardinality(queue)
<1>1. IsFiniteSet(queue)
  BY QueueFinite
<1>2. IsFiniteSet(Tries) /\ IsFiniteSet(Posters)
  BY PushBrakeAssumption, TwoTries DEF PushBrakeAssumption
<1>3. IsFiniteSet(Posters \X Tries)
  BY <1>2, FS_Product
<1>4. Waiting \subseteq queue /\ OnTheWay \subseteq Posters \X Tries
  BY DEF Waiting, OnTheWay
<1>5. QED
  BY <1>1, <1>2, <1>3, <1>4, FS_Subset, FS_CardinalityType

(* Each process has two tries at most.                                     *)
LEMMA TwoTriesEach ==
  ASSUME NEW W, W \subseteq Posters \X Tries
  PROVE  Cardinality(W) \in Nat /\ Cardinality(W) <= 2 * Cardinality(Posters)
<1>1. IsFiniteSet(Posters) /\ Cardinality(Posters) \in Nat
  BY PushBrakeAssumption, FS_CardinalityType DEF PushBrakeAssumption
<1>2. IsFiniteSet(Tries) /\ Cardinality(Tries) = 2
  BY TwoTries
<1>3. IsFiniteSet(Posters \X Tries) /\ Cardinality(Posters \X Tries) = Cardinality(Posters) * 2
  BY <1>1, <1>2, FS_Product
<1>4. Cardinality(W) <= Cardinality(Posters \X Tries) /\ IsFiniteSet(W)
  BY <1>3, FS_Subset
<1>5. Cardinality(W) \in Nat
  BY <1>4, FS_CardinalityType
<1>6. QED
  BY <1>1, <1>3, <1>4, <1>5

(* Fewer of both.                                                          *)
LEMMA FewerSetOut ==
  ASSUME TypeOK, FewSetOut, Waiting' \subseteq Waiting, OnTheWay' \subseteq OnTheWay,
         blind => blind'
  PROVE  FewSetOut'
<1>1. /\ IsFiniteSet(Waiting) /\ IsFiniteSet(OnTheWay)
      /\ Cardinality(Waiting) \in Nat /\ Cardinality(OnTheWay) \in Nat
      /\ Cardinality(Posters) \in Nat
  BY Countable
<1>2. Cardinality(Waiting') <= Cardinality(Waiting) /\ Cardinality(Waiting') \in Nat
  BY <1>1, FS_Subset, FS_CardinalityType
<1>3. Cardinality(OnTheWay') <= Cardinality(OnTheWay) /\ Cardinality(OnTheWay') \in Nat
  BY <1>1, FS_Subset, FS_CardinalityType
<1>4. QED
  BY <1>1, <1>2, <1>3 DEF FewSetOut, QueueMaxMention

(* One is done or has given up.                                            *)
LEMMA DoneShallow ==
  ASSUME TypeOK, Shallow, NEW p \in Posters, post' = [post EXCEPT ![p] = NoPost],
         UNCHANGED <<queue, free>>, blind => blind'
  PROVE  Shallow'
<1>1. post'[p].pc = "idle" /\ \A q \in Posters \ {p} : post'[q] = post[q]
  BY DEF TypeOK, NoPost
<1>2. UrgentKnown' /\ Waiting' = Waiting
  BY <1>1 DEF Shallow, UrgentKnown, Waiting
<1>3. ASSUME NEW w \in OnTheWay' PROVE w \in OnTheWay
  <2>1. /\ w \in Posters \X Tries /\ post'[w[1]].seq \notin free
        /\ post'[w[1]].pc \in {"push", w[2]}
    BY <1>3 DEF OnTheWay
  <2>2. w[1] # p /\ w[1] \in Posters
    BY <1>1, <2>1 DEF Tries
  <2>3. QED
    BY <1>1, <2>1, <2>2 DEF OnTheWay
<1>4. QED
  BY <1>2, <1>3, FewerSetOut DEF Shallow

(* One sets out, having seen the queue.                                    *)
LEMMA GoShallow ==
  ASSUME TypeOK, TypeOK', Numbered, Shallow, NEW p \in Posters, Go(p, Cardinality(queue)),
         UNCHANGED blind
  PROVE  Shallow'
<1>1. /\ post[p].pc = "brake" /\ ~Holds(p, Cardinality(queue))
      /\ post' = [post EXCEPT ![p].pc = "push"]
      /\ UNCHANGED <<queue, free>>
  BY DEF Go
<1>2. /\ post'[p].pc = "push" /\ post'[p].seq = post[p].seq /\ post'[p].kind = post[p].kind
      /\ \A q \in Posters \ {p} : post'[q] = post[q]
  BY <1>1 DEF TypeOK
<1>3. UrgentKnown'
  BY <1>1, <1>2 DEF Shallow, UrgentKnown
<1>4. Waiting' = Waiting
  BY <1>1 DEF Waiting
<1>5. CASE post[p].kind = "urgent"
  <2>1. post[p].seq \in free
    BY <1>1, <1>5 DEF Shallow, UrgentKnown
  <2>2. OnTheWay' \subseteq OnTheWay
    BY <1>1, <1>2, <2>1 DEF OnTheWay
  <2>3. QED
    BY <1>3, <1>4, <2>2, FewerSetOut DEF Shallow
<1>6. CASE post[p].kind # "urgent"
  <2>1. ~(Cardinality(queue) >= Depth(post[p].kind))
    BY <1>1, <1>6 DEF Holds
  <2>2. Depth(post[p].kind) \in {1, 2}
    BY DEF Depth, QueueMaxMention
  <2>3. Cardinality(queue) \in Nat
    BY Countable
  <2>4. Cardinality(queue) <= 1
    BY <2>1, <2>2, <2>3
  <2>5. Cardinality(Waiting) <= 1 /\ Cardinality(Waiting) \in Nat
    BY <2>3, <2>4, Countable
  <2>6. /\ Cardinality(OnTheWay)' <= 2 * Cardinality(Posters)
        /\ Cardinality(OnTheWay)' \in Nat /\ Cardinality(Posters) \in Nat
    <3>1. OnTheWay' \subseteq Posters \X Tries
      BY DEF OnTheWay
    <3>2. QED
      BY <3>1, TwoTriesEach, Countable
  <2>7. FewSetOut'
    BY <1>4, <2>5, <2>6 DEF FewSetOut, QueueMaxMention
  <2>8. QED
    BY <1>3, <2>7 DEF Shallow
<1>7. QED
  BY <1>5, <1>6

(* A push whose decision failed does not count.                            *)
LEMMA FailOpenShallow ==
  ASSUME TypeOK, Shallow, NEW p \in Posters, FailOpen(p), UNCHANGED blind
  PROVE  Shallow'
<1>1. /\ free' = free \cup {post[p].seq} /\ UNCHANGED queue
      /\ post' = [post EXCEPT ![p].pc = "push"] /\ post[p].pc # "idle"
  BY DEF FailOpen
<1>2. /\ post'[p].pc = "push" /\ post'[p].seq = post[p].seq /\ post'[p].kind = post[p].kind
      /\ \A q \in Posters \ {p} : post'[q] = post[q]
  BY <1>1 DEF TypeOK
<1>3. UrgentKnown'
  BY <1>1, <1>2 DEF Shallow, UrgentKnown
<1>4. Waiting' \subseteq Waiting
  BY <1>1 DEF Waiting
<1>5. ASSUME NEW w \in OnTheWay' PROVE w \in OnTheWay
  <2>1. w \in Posters \X Tries /\ post'[w[1]].seq \notin free' /\ post'[w[1]].pc \in {"push", w[2]}
    BY <1>5 DEF OnTheWay
  <2>2. w[1] # p /\ w[1] \in Posters
    BY <1>1, <1>2, <2>1
  <2>3. QED
    BY <1>1, <1>2, <2>1, <2>2 DEF OnTheWay
<1>6. QED
  BY <1>3, <1>4, <1>5, FewerSetOut DEF Shallow

(* A try: it is no longer on its way.                                      *)
LEMMA PushShallow ==
  ASSUME TypeOK, Shallow, NEW p \in Posters, Push(p)
  PROVE  Shallow'
<1> DEFINE item == <<post[p].seq, post[p].pc>>
           w == <<p, post[p].pc>>
<1>1. /\ post[p].pc \in Tries /\ queue' \in {queue, queue \cup {item}}
      /\ UNCHANGED <<free, blind>>
  BY DEF Push
<1>2. /\ \/ post'[p].pc = "idle"
         \/ /\ post[p].pc = "push" /\ post'[p].pc = "retry"
            /\ post'[p].seq = post[p].seq /\ post'[p].kind = post[p].kind
      /\ \A q \in Posters \ {p} : post'[q] = post[q]
  BY DEF Push, TypeOK, NoPost
<1>3. UrgentKnown'
  BY <1>1, <1>2 DEF Shallow, UrgentKnown, Tries
<1>4. OnTheWay' \subseteq OnTheWay \ {w}
  <2>1. ASSUME NEW v \in OnTheWay' PROVE v \in OnTheWay /\ v # w
    <3>1. /\ v \in Posters \X Tries /\ post'[v[1]].seq \notin free
          /\ post'[v[1]].pc \in {"push", v[2]}
      BY <1>1, <2>1 DEF OnTheWay
    <3>2. CASE v[1] # p
      BY <1>2, <3>1, <3>2 DEF OnTheWay
    <3>3. CASE v[1] = p
      <4>1. post'[p].pc # "idle"
        BY <3>1, <3>3 DEF Tries
      <4>2. post[p].pc = "push" /\ v[2] = "retry" /\ post'[p].seq = post[p].seq
        BY <1>2, <3>1, <3>3, <4>1 DEF Tries
      <4>3. QED
        BY <3>1, <3>3, <4>2 DEF OnTheWay
    <3>4. QED
      BY <3>2, <3>3
  <2>2. QED
    BY <2>1
<1>5. CASE post[p].seq \in free
  <2>1. Waiting' \subseteq Waiting
    BY <1>1, <1>5 DEF Waiting
  <2>2. QED
    BY <1>1, <1>3, <1>4, <2>1, FewerSetOut DEF Shallow
<1>6. CASE post[p].seq \notin free
  <2>1. Waiting' \subseteq Waiting \cup {item}
    BY <1>1 DEF Waiting
  <2>2. w \in OnTheWay
    BY <1>1, <1>6 DEF OnTheWay
  <2> HIDE DEF item, w
  <2>3. /\ IsFiniteSet(Waiting) /\ IsFiniteSet(OnTheWay)
        /\ Cardinality(Waiting) \in Nat /\ Cardinality(OnTheWay) \in Nat
        /\ Cardinality(Posters) \in Nat
    BY Countable
  <2>4. /\ Cardinality(Waiting') \in Nat
        /\ Cardinality(Waiting') <= Cardinality(Waiting) + 1
    <3> DEFINE More == Waiting \cup {item}
    <3>1. /\ IsFiniteSet(More)
          /\ Cardinality(More) = Cardinality(Waiting) \/ Cardinality(More) = Cardinality(Waiting) + 1
      BY <2>3, FS_AddElement
    <3>2. Waiting' \subseteq More
      BY <2>1
    <3> HIDE DEF More
    <3>3. Cardinality(Waiting') <= Cardinality(More) /\ IsFiniteSet(Waiting')
      BY <3>1, <3>2, FS_Subset
    <3>4. Cardinality(Waiting') \in Nat
      BY <3>3, FS_CardinalityType
    <3>5. QED
      BY <2>3, <3>1, <3>3, <3>4
  <2>5. /\ Cardinality(OnTheWay') \in Nat
        /\ Cardinality(OnTheWay') <= Cardinality(OnTheWay) - 1
    <3> DEFINE Less == OnTheWay \ {w}
    <3>1. IsFiniteSet(Less) /\ Cardinality(Less) = Cardinality(OnTheWay) - 1
      BY <2>2, <2>3, FS_RemoveElement
    <3>2. OnTheWay' \subseteq Less
      BY <1>4
    <3> HIDE DEF Less
    <3>3. Cardinality(OnTheWay') <= Cardinality(Less) /\ IsFiniteSet(OnTheWay')
      BY <3>1, <3>2, FS_Subset
    <3>4. Cardinality(OnTheWay') \in Nat
      BY <3>3, FS_CardinalityType
    <3>5. QED
      BY <3>1, <3>3, <3>4
  <2>6. FewSetOut'
    BY <1>1, <2>3, <2>4, <2>5 DEF Shallow, FewSetOut, QueueMaxMention
  <2>7. QED
    BY <1>3, <2>6 DEF Shallow
<1>7. QED
  BY <1>5, <1>6

(* What may be held does not pile up in Codex's queue, for any number of   *)
(* posters and posts: no more of it waits there than CODEX_QUEUE_MAX_      *)
(* MENTION allows and the push of each poster that had looked before, once *)
(* by name and once by pid, as long as the queue can be read and the       *)
(* decision does not fail (_codex_push_decision, which counts the queue    *)
(* and then lets the push go in a later step).                             *)
THEOREM QueueShallow == Spec => []QueueStaysShallow
<1>1. Init => Shallow
  <2> SUFFICES ASSUME Init PROVE Shallow
    OBVIOUS
  <2>1. Waiting = {} /\ OnTheWay = {}
    BY DEF Init, Waiting, OnTheWay, NoPost, Tries
  <2>2. Cardinality(Posters) \in Nat
    BY PushBrakeAssumption, FS_CardinalityType DEF PushBrakeAssumption
  <2>3. FewSetOut
    BY <2>1, <2>2, FS_EmptySet DEF FewSetOut, QueueMaxMention
  <2>4. QED
    BY <2>3 DEF Init, Shallow, UrgentKnown, NoPost
<1>2. ASSUME TypeOK, TypeOK', Numbered, Shallow, [Next]_vars PROVE Shallow'
  <2> USE <1>2
  <2>1. ASSUME NEW p \in Posters, NEW kind \in Kinds, Post(p, kind) PROVE Shallow'
    <3>1. /\ post[p].pc = "idle" /\ posts' = posts + 1
          /\ post' = [post EXCEPT ![p] = [pc |-> "decide", seq |-> posts', kind |-> kind,
                                          state |-> NoState]]
          /\ free' = IF kind = "urgent" THEN free \cup {posts'} ELSE free
          /\ UNCHANGED <<queue, blind>>
      BY <2>1 DEF Post
    <3>2. /\ post'[p].pc = "decide" /\ post'[p].seq = posts' /\ post'[p].kind = kind
          /\ \A q \in Posters \ {p} : post'[q] = post[q]
      BY <3>1 DEF TypeOK
    <3>3. free \subseteq free' /\ (kind = "urgent" => posts' \in free')
      BY <3>1
    <3>4. UrgentKnown'
      BY <3>2, <3>3 DEF Shallow, UrgentKnown
    <3>5. Waiting' \subseteq Waiting /\ OnTheWay' \subseteq OnTheWay
      BY <3>1, <3>2, <3>3 DEF Waiting, OnTheWay, Tries
    <3>6. QED
      BY <3>1, <3>4, <3>5, FewerSetOut DEF Shallow
  <2>2. ASSUME NEW p \in Posters, ReadState(p) PROVE Shallow'
    <3>1. post[p].pc = "decide" /\ UNCHANGED <<queue, free, blind>>
      BY <2>2 DEF ReadState
    <3>2. /\ post'[p].pc = "brake" /\ post'[p].seq = post[p].seq
          /\ post'[p].kind = post[p].kind
          /\ \A q \in Posters \ {p} : post'[q] = post[q]
      <4>1. PICK state : post' = [post EXCEPT ![p].pc = "brake", ![p].state = state]
        BY <2>2 DEF ReadState
      <4>2. QED
        BY <4>1 DEF TypeOK
    <3> HIDE <1>2
    <3>3. UrgentKnown'
      <4>1. UrgentKnown
        BY <1>2 DEF Shallow
      <4>2. ASSUME NEW q \in Posters, post'[q].pc # "idle", post'[q].kind = "urgent"
            PROVE  post'[q].seq \in free
        <5>1. CASE q = p
          BY <3>1, <3>2, <4>1, <4>2, <5>1 DEF UrgentKnown
        <5>2. CASE q # p
          BY <3>2, <4>1, <4>2, <5>2 DEF UrgentKnown
        <5>3. QED
          BY <5>1, <5>2
      <4>3. QED
        BY <3>1, <4>2 DEF UrgentKnown
    <3>4. Waiting' = Waiting
      BY <3>1 DEF Waiting
    <3>5. OnTheWay' \subseteq OnTheWay
      <4>1. ASSUME NEW w \in OnTheWay' PROVE w \in OnTheWay
        <5>1. /\ w \in Posters \X Tries /\ post'[w[1]].seq \notin free
              /\ post'[w[1]].pc \in {"push", w[2]}
          BY <3>1, <4>1 DEF OnTheWay
        <5>2. w[1] # p /\ w[1] \in Posters
          BY <3>2, <5>1 DEF Tries
        <5>3. QED
          BY <3>2, <5>1, <5>2 DEF OnTheWay
      <4>2. QED
        BY <4>1
    <3> USE <1>2
    <3>6. QED
      BY <3>1, <3>3, <3>4, <3>5, FewerSetOut DEF Shallow
  <2>3. ASSUME NEW p \in Posters, Decide(p) PROVE Shallow'
    <3>1. ASSUME NEW waiting \in Nat, Hold(p, waiting), blind => blind' PROVE Shallow'
      BY <3>1, DoneShallow DEF Hold
    <3>2. ASSUME Go(p, 0), blind' = TRUE PROVE Shallow'
      <4>1. post' = [post EXCEPT ![p].pc = "push"] /\ free' = free /\ post[p].pc = "brake"
        BY <3>2 DEF Go
      <4>2. /\ post'[p].seq = post[p].seq /\ post'[p].kind = post[p].kind
            /\ \A q \in Posters \ {p} : post'[q] = post[q]
        BY <4>1 DEF TypeOK
      <4>3. QED
        BY <3>2, <4>1, <4>2 DEF Shallow, UrgentKnown, FewSetOut
    <3>3. Cardinality(queue) \in Nat /\ 0 \in Nat
      BY Countable
    <3>4. CASE (Hold(p, Cardinality(queue)) \/ Go(p, Cardinality(queue))) /\ UNCHANGED blind
      BY <3>1, <3>3, <3>4, GoShallow
    <3>5. CASE (Hold(p, 0) \/ Go(p, 0)) /\ blind' = TRUE
      BY <3>1, <3>2, <3>3, <3>5
    <3>6. CASE FailOpen(p) /\ UNCHANGED blind
      BY <3>6, FailOpenShallow
    <3>7. QED
      BY <2>3, <3>4, <3>5, <3>6 DEF Decide
  <2>4. ASSUME NEW p \in Posters, Push(p) PROVE Shallow'
    BY <2>4, PushShallow
  <2>5. ASSUME NEW p \in Posters, Fail(p) PROVE Shallow'
    BY <2>5, DoneShallow DEF Fail
  <2>6. CASE Cool \/ Consume \/ UNCHANGED vars
    <3>1. UNCHANGED <<post, free, blind>> /\ queue' \subseteq queue
      BY <2>6 DEF Cool, Consume, vars
    <3>2. UrgentKnown' /\ Waiting' \subseteq Waiting /\ OnTheWay' = OnTheWay
      BY <3>1 DEF Shallow, UrgentKnown, Waiting, OnTheWay
    <3>3. QED
      BY <3>1, <3>2, FewerSetOut DEF Shallow
  <2>7. QED
    BY <2>1, <2>2, <2>3, <2>4, <2>5, <2>6 DEF Next
<1>3. TypeOK /\ Shallow => QueueStaysShallow
  BY Countable DEF Shallow, FewSetOut, QueueStaysShallow, Waiting, QueueMaxMention
<1>4. QED
  BY <1>1, <1>2, <1>3, BrakeTypeCorrect, PTL DEF Spec
=============================================================================
