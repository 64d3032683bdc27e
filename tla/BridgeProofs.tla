---------------------------- MODULE BridgeProofs ----------------------------
(***************************************************************************)
(* Theorems of TelegramBridge.                                             *)
(***************************************************************************)
EXTENDS TelegramBridge, Integers, TLAPS

(* What a step of the thread or of the phone adds comes after what is      *)
(* there.                                                                  *)
LEMMA Appended ==
  ASSUME NEW S, NEW s \in Seq(S), NEW x \in S
  PROVE  /\ Append(s, x) \in Seq(S)
         /\ Len(Append(s, x)) = Len(s) + 1
         /\ \A i \in 1 .. Len(s) : Append(s, x)[i] = s[i]
         /\ Append(s, x)[Len(s) + 1] = x
OBVIOUS

(* Set writes a position to memory, and to the file or not.                *)
LEMMA SetSeq ==
  ASSUME TypeOK, NEW v \in Seqs, Set("seq", v)
  PROVE  /\ mem' = [seq |-> v, offset |-> mem.offset]
         /\ disk' \in {mem', disk}
         /\ mem' \in Positions /\ disk' \in Positions /\ deaths' \in Nat
<1>1. mem' = [seq |-> v, offset |-> mem.offset]
  BY DEF TypeOK, FileOK, Set, Positions
<1>2. disk' \in {mem', disk} /\ deaths' \in Nat
  BY DEF TypeOK, FileOK, Set
<1>3. [seq |-> v, offset |-> mem.offset] \in Positions /\ disk \in Positions
  BY DEF TypeOK, FileOK, Positions
<1> QED BY <1>1, <1>2, <1>3

LEMMA SetOffset ==
  ASSUME TypeOK, NEW v \in 1 .. typed + 1, Set("offset", v)
  PROVE  /\ mem' = [seq |-> mem.seq, offset |-> v]
         /\ disk' \in {mem', disk}
         /\ mem' \in Positions /\ disk' \in Positions /\ deaths' \in Nat
<1>1. mem' = [seq |-> mem.seq, offset |-> v]
  BY DEF TypeOK, FileOK, Set, Positions
<1>2. disk' \in {mem', disk} /\ deaths' \in Nat
  BY DEF TypeOK, FileOK, Set
<1>3. [seq |-> mem.seq, offset |-> v] \in Positions /\ disk \in Positions
  BY DEF TypeOK, FileOK, Positions
<1> QED BY <1>1, <1>2, <1>3

(* A worker or the child is set to something of its type.                  *)
LEMMA OutSet ==
  ASSUME LogOK', started' \in 0 .. Len(log'), NEW pc \in OutPCs, NEW cur \in 0 .. Len(log'),
         NEW tries \in 0 .. Retries, out' = [pc |-> pc, cur |-> cur, tries |-> tries]
  PROVE  OutOK'
BY DEF OutOK

LEMMA ChildSet ==
  ASSUME NEW alive \in BOOLEAN, NEW begun \in BOOLEAN, NEW next \in 1 .. Len(log') + 1,
         NEW last \in 0 .. Len(log'),
         child' = [alive |-> alive, begun |-> begun, next |-> next, last |-> last]
  PROVE  ChildOK'
BY DEF ChildOK

LEMMA PollSet ==
  ASSUME NEW pc \in PollPCs, NEW offset \in (1 .. typed' + 1) \cup {None},
         NEW lo \in 1 .. typed' + 1, NEW hi \in 0 .. typed',
         pc \in {"relay", "mark"} => lo <= hi,
         poll' = [pc |-> pc, offset |-> offset, lo |-> lo, hi |-> hi]
  PROVE  PollOK'
BY DEF PollOK

(* What the types say of each field.                                       *)
LEMMA Numbers ==
  ASSUME TypeOK
  PROVE  /\ Len(log) \in Nat /\ typed \in Nat /\ Retries \in Nat
         /\ first \in 1 .. typed + 1 /\ started \in 0 .. Len(log)
         /\ out.cur \in 0 .. Len(log) /\ out.tries \in 0 .. Retries
         /\ child.next \in 1 .. Len(log) + 1 /\ child.last \in 0 .. Len(log)
         /\ poll.lo \in 1 .. typed + 1 /\ poll.hi \in 0 .. typed
         /\ poll.offset \in (1 .. typed + 1) \cup {None}
<1> USE DEF TypeOK
<1>1. Len(log) \in Nat /\ typed \in Nat /\ first \in 1 .. typed + 1
  BY DEF LogOK, PhoneOK
<1>2. started \in 0 .. Len(log) /\ out.cur \in 0 .. Len(log) /\ out.tries \in 0 .. Retries
  BY DEF OutOK
<1>3. Retries \in Nat
  BY BridgeAssumption
<1>4. child.next \in 1 .. Len(log) + 1 /\ child.last \in 0 .. Len(log)
  BY DEF ChildOK
<1>5. /\ poll.lo \in 1 .. typed + 1 /\ poll.hi \in 0 .. typed
      /\ poll.offset \in (1 .. typed + 1) \cup {None}
  BY DEF PollOK
<1> QED BY <1>1, <1>2, <1>3, <1>4, <1>5

LEMMA Shapes ==
  ASSUME TypeOK
  PROVE  /\ out = [pc |-> out.pc, cur |-> out.cur, tries |-> out.tries] /\ out.pc \in OutPCs
         /\ child = [alive |-> child.alive, begun |-> child.begun, next |-> child.next,
                     last |-> child.last]
         /\ child.alive \in BOOLEAN /\ child.begun \in BOOLEAN
         /\ poll = [pc |-> poll.pc, offset |-> poll.offset, lo |-> poll.lo, hi |-> poll.hi]
         /\ poll.pc \in PollPCs
<1>1. out = [pc |-> out.pc, cur |-> out.cur, tries |-> out.tries] /\ out.pc \in OutPCs
  BY DEF TypeOK, OutOK
<1>2. /\ child = [alive |-> child.alive, begun |-> child.begun, next |-> child.next,
                  last |-> child.last]
      /\ child.alive \in BOOLEAN /\ child.begun \in BOOLEAN
  BY DEF TypeOK, ChildOK
<1>3. /\ poll = [pc |-> poll.pc, offset |-> poll.offset, lo |-> poll.lo, hi |-> poll.hi]
      /\ poll.pc \in PollPCs
  BY DEF TypeOK, PollOK
<1> QED BY <1>1, <1>2, <1>3

LEMMA TypeInit == ASSUME Init PROVE TypeOK
<1>1. LogOK /\ PhoneOK /\ FileOK
  BY DEF Init, LogOK, PhoneOK, FileOK, Positions, Seqs
<1>2. OutOK /\ ChildOK /\ PollOK
  BY BridgeAssumption DEF Init, OutOK, ChildOK, PollOK, Off, NoChild, PollOff, OutPCs, PollPCs
<1> QED BY <1>1, <1>2 DEF TypeOK

(* A longer thread and more messages leave every place in them one.        *)
LEMMA Kept ==
  ASSUME TypeOK, LogOK', PhoneOK', Len(log) <= Len(log'), typed <= typed'
  PROVE  /\ UNCHANGED <<mem, disk, deaths>> => FileOK'
         /\ UNCHANGED <<started, out>> => OutOK'
         /\ UNCHANGED child => ChildOK'
         /\ UNCHANGED poll => PollOK'
<1> USE DEF TypeOK, LogOK, PhoneOK
<1>1. ASSUME NEW p \in Positions PROVE p \in Positions'
  BY <1>1 DEF Positions, Seqs
<1>2. UNCHANGED <<mem, disk, deaths>> => FileOK'
  BY <1>1 DEF FileOK
<1>3. UNCHANGED <<started, out>> => OutOK'
  BY DEF OutOK
<1>4. UNCHANGED child => ChildOK'
  BY DEF ChildOK
<1>5. UNCHANGED poll => PollOK'
  BY DEF PollOK
<1> QED BY <1>2, <1>3, <1>4, <1>5

(* A poll that returns something begins with the first update that is kept.*)
LEMMA PollReturns ==
  ASSUME TypeOK, Poll
  PROVE  \E keep \in 1 .. typed :
           /\ keep = (IF poll.offset = None \/ poll.offset < first THEN first ELSE poll.offset)
           /\ poll' = [pc |-> "relay", offset |-> poll.offset, lo |-> keep, hi |-> typed]
           /\ first' = keep /\ UNCHANGED typed
<1>1. PICK keep : keep = (IF poll.offset = None \/ poll.offset < first THEN first ELSE poll.offset)
  OBVIOUS
<1>2. /\ poll' = [poll EXCEPT !.pc = "relay", !.lo = keep, !.hi = typed]
      /\ keep <= typed /\ first' = keep /\ UNCHANGED typed
  BY <1>1 DEF Poll
<1>3. keep \in 1 .. typed
  BY <1>1, <1>2, Numbers
<1>4. poll' = [pc |-> "relay", offset |-> poll.offset, lo |-> keep, hi |-> typed]
  BY <1>2, Shapes
<1> QED BY <1>1, <1>2, <1>3, <1>4

LEMMA TypeStep == ASSUME TypeOK, [Next]_vars PROVE TypeOK'
<1> USE DEF phoneVars, fileVars, childVars, history
<1>0. ASSUME UNCHANGED log, UNCHANGED phoneVars, UNCHANGED posted
      PROVE  LogOK' /\ PhoneOK' /\ Len(log) <= Len(log') /\ typed <= typed'
  BY <1>0 DEF TypeOK, LogOK, PhoneOK
<1>1. CASE Post
  <2>1. LogOK' /\ PhoneOK' /\ Len(log) <= Len(log') /\ typed <= typed'
    BY <1>1, Appended DEF Post, TypeOK, LogOK, PhoneOK
  <2> QED BY <1>1, <2>1, Kept DEF Post, TypeOK
<1>2. CASE Type
  <2>1. LogOK' /\ PhoneOK' /\ Len(log) <= Len(log') /\ typed <= typed'
    BY <1>2, Appended DEF Type, TypeOK, LogOK, PhoneOK
  <2> QED BY <1>2, <2>1, Kept DEF Type, TypeOK
<1>3. CASE Start
  <2>1. OutOK'
    BY <1>3, BridgeAssumption DEF Start, Off, OutPCs, TypeOK, LogOK, OutOK
  <2>2. PollOK'
    <3>1. /\ poll' = [pc |-> IF disk.offset = None THEN "first" ELSE "poll",
                      offset |-> disk.offset, lo |-> 1, hi |-> 0]
          /\ UNCHANGED typed
      BY <1>3 DEF Start, PollOff
    <3>2. disk.offset \in (1 .. typed + 1) \cup {None}
      BY DEF TypeOK, FileOK, Positions
    <3>3. {"first", "poll"} \subseteq PollPCs
      BY DEF PollPCs
    <3> QED BY <3>1, <3>2, <3>3, Numbers, Shapes, PollSet
  <2>3. FileOK'
    BY <1>3 DEF Start, TypeOK, FileOK, Positions, Seqs
  <2> QED BY <1>0, <1>3, <2>1, <2>2, <2>3, Kept DEF Start, TypeOK
<1>4. CASE Stop
  <2>1. OutOK' /\ ChildOK'
    BY <1>4, BridgeAssumption DEF Stop, Off, NoChild, OutPCs, TypeOK, LogOK, OutOK, ChildOK
  <2>2. PollOK'
    BY <1>4 DEF Stop, PollOff, PollPCs, TypeOK, PhoneOK, PollOK
  <2>3. FileOK'
    BY <1>4 DEF Stop, TypeOK, FileOK, Positions, Seqs
  <2> QED BY <1>0, <1>4, <2>1, <2>2, <2>3, Kept DEF Stop, TypeOK
<1>5. CASE ChildDies
  <2>1. ChildOK'
    <3>1. /\ child' = [alive |-> FALSE, begun |-> child.begun, next |-> child.next,
                       last |-> IF child.begun THEN Len(log) ELSE 0]
          /\ UNCHANGED log
      BY <1>5, Shapes DEF ChildDies
    <3>2. (IF child.begun THEN Len(log) ELSE 0) \in 0 .. Len(log)
      BY Numbers
    <3> QED BY <3>1, <3>2, Numbers, Shapes, ChildSet
  <2>2. FileOK'
    BY <1>5 DEF ChildDies, TypeOK, FileOK, Positions, Seqs
  <2> QED BY <1>0, <1>5, <2>1, <2>2, Kept DEF ChildDies, TypeOK
<1>6. CASE ChildBegins
  <2>1. ChildOK'
    <3>1. PICK n \in Nat \ {0} :
            child' = [child EXCEPT !.begun = TRUE,
                                   !.next = IF Len(log) < n THEN 1 ELSE Len(log) + 1 - n]
      <4> DEFINE n == IF mem.seq = None THEN 1 ELSE Replay
      <4>1. n \in Nat \ {0}
        BY BridgeAssumption
      <4>2. child' = [child EXCEPT !.begun = TRUE,
                                   !.next = IF Len(log) < n THEN 1 ELSE Len(log) + 1 - n]
        BY <1>6 DEF ChildBegins
      <4> HIDE DEF n
      <4> QED BY <4>1, <4>2
    <3>2. /\ child' = [alive |-> child.alive, begun |-> TRUE,
                       next |-> IF Len(log) < n THEN 1 ELSE Len(log) + 1 - n, last |-> child.last]
          /\ UNCHANGED log
      BY <1>6, <3>1, Shapes DEF ChildBegins
    <3>3. (IF Len(log) < n THEN 1 ELSE Len(log) + 1 - n) \in 1 .. Len(log) + 1
      BY <3>1, Numbers
    <3> QED BY <3>2, <3>3, Numbers, Shapes, ChildSet
  <2> QED BY <1>0, <1>6, <2>1, Kept DEF ChildBegins, TypeOK
<1>7. CASE SkipStale
  <2>1. OutOK'
    BY <1>7, BridgeAssumption DEF SkipStale, Send, GoOn, OutPCs, TypeOK, LogOK, OutOK
  <2>2. FileOK'
    <3>1. PICK cutoff \in 0 .. started :
            IF mem.seq + 1 .. cutoff = {} THEN UNCHANGED <<fileVars, deaths>>
            ELSE Set("seq", cutoff)
      BY <1>7 DEF SkipStale
    <3>2. mem.seq \in Nat \ {0} /\ started \in 0 .. Len(log) /\ Len(log) \in Nat
      BY <1>7 DEF SkipStale, TypeOK, FileOK, OutOK, LogOK, Positions, Seqs
    <3>3. mem.seq + 1 .. cutoff # {} => cutoff \in Seqs
      BY <3>2 DEF Seqs
    <3>4. UNCHANGED Positions
      BY <1>7 DEF SkipStale, Positions, Seqs
    <3> QED BY <3>1, <3>3, <3>4, SetSeq DEF TypeOK, FileOK
  <2> QED BY <1>0, <1>7, <2>1, <2>2, Kept DEF SkipStale, TypeOK
<1>8. CASE NoBacklog \/ Spawn \/ ChildEnded
  <2>1. OutOK'
    <3>1. PICK pc \in OutPCs : out' = [pc |-> pc, cur |-> out.cur, tries |-> out.tries]
      BY <1>8, Shapes DEF NoBacklog, Spawn, ChildEnded, GoOn, OutPCs
    <3> QED BY <1>0, <1>8, <3>1, Numbers, Shapes, OutSet DEF NoBacklog, Spawn, ChildEnded
  <2>2. ChildOK' \/ UNCHANGED child
    <3>1. \/ UNCHANGED child
          \/ \E alive \in BOOLEAN :
               child' = [alive |-> alive, begun |-> FALSE, next |-> 1, last |-> 0]
      BY <1>8 DEF NoBacklog, Spawn, ChildEnded, NoChild
    <3>2. 1 \in 1 .. Len(log) + 1 /\ 0 \in 0 .. Len(log)
      BY Numbers
    <3> QED BY <1>0, <1>8, <3>1, <3>2, ChildSet DEF NoBacklog, Spawn, ChildEnded
  <2> QED BY <1>0, <1>8, <2>1, <2>2, Kept DEF NoBacklog, Spawn, ChildEnded, TypeOK
<1>9. CASE ReadLine
  <2>1. child.next \in Seqs
    BY <1>9 DEF ReadLine, Printed, TypeOK, LogOK, ChildOK, Seqs
  <2>2. ChildOK'
    <3>1. /\ child' = [alive |-> child.alive, begun |-> child.begun, next |-> child.next + 1,
                       last |-> child.last]
          /\ UNCHANGED log
      BY <1>9, Shapes DEF ReadLine
    <3>2. child.next + 1 \in 1 .. Len(log) + 1
      BY <2>1, Numbers DEF Seqs
    <3> QED BY <3>1, <3>2, Numbers, Shapes, ChildSet
  <2>3. OutOK'
    BY <1>9, BridgeAssumption, <2>1 DEF ReadLine, Send, OutPCs, TypeOK, LogOK, OutOK, Seqs
  <2>4. FileOK'
    <3>1. Set("seq", child.next) \/ UNCHANGED <<fileVars, deaths>>
      BY <1>9 DEF ReadLine
    <3>2. UNCHANGED Positions
      BY <1>9 DEF ReadLine, Positions, Seqs
    <3> QED BY <2>1, <3>1, <3>2, SetSeq DEF TypeOK, FileOK
  <2> QED BY <1>0, <1>9, <2>2, <2>3, <2>4, Kept DEF ReadLine, TypeOK
<1>10. CASE Taken \/ TakenUnheard
  <2>1. LogOK' /\ PhoneOK' /\ Len(log) <= Len(log') /\ typed <= typed'
    <3>1. shown' \in Seq(Nat) /\ Len(shown') = Len(shown)
      <4>1. CASE out.cur = 0
        BY <1>10, <4>1 DEF Taken, TakenUnheard, Appears, TypeOK, LogOK
      <4>2. CASE out.cur # 0
        <5>1. out.cur \in 1 .. Len(shown) /\ shown[out.cur] + 1 \in Nat
          BY <4>2, Numbers DEF TypeOK, LogOK
        <5>2. shown' = [shown EXCEPT ![out.cur] = shown[out.cur] + 1]
          BY <1>10, <4>2 DEF Taken, TakenUnheard, Appears
        <5> QED BY <5>1, <5>2 DEF TypeOK, LogOK
      <4> QED BY <4>1, <4>2
    <3> QED BY <1>10, <3>1 DEF Taken, TakenUnheard, TypeOK, LogOK, PhoneOK
  <2>2. OutOK'
    <3>1. PICK pc \in OutPCs, tries \in 0 .. Retries :
            out' = [pc |-> pc, cur |-> out.cur, tries |-> tries]
      <4>1. CASE Taken
        BY <4>1, Numbers, Shapes DEF Taken, GoOn, OutPCs
      <4>2. CASE TakenUnheard
        <5>1. out' = [pc |-> out.pc, cur |-> out.cur, tries |-> out.tries + 1]
          BY <4>2, Shapes DEF TakenUnheard, Again
        <5>2. out.tries + 1 \in 0 .. Retries
          BY <4>2, Numbers DEF TakenUnheard
        <5> QED BY <5>1, <5>2, Shapes
      <4> QED BY <1>10, <4>1, <4>2
    <3> QED BY <1>10, <2>1, <3>1, Numbers, Shapes, OutSet DEF Taken, TakenUnheard
  <2> QED BY <1>10, <2>1, <2>2, Kept DEF Taken, TakenUnheard, TypeOK
<1>11. CASE TryAgain \/ Refused
  <2>1. OutOK'
    <3>1. PICK pc \in OutPCs, tries \in 0 .. Retries :
            out' = [pc |-> pc, cur |-> out.cur, tries |-> tries]
      <4>1. CASE Refused
        BY <4>1, Numbers, Shapes DEF Refused, GoOn, OutPCs
      <4>2. CASE TryAgain
        <5>1. out' = [pc |-> out.pc, cur |-> out.cur, tries |-> out.tries + 1]
          BY <4>2, Shapes DEF TryAgain, Again
        <5>2. out.tries + 1 \in 0 .. Retries
          BY <4>2, Numbers DEF TryAgain
        <5> QED BY <5>1, <5>2, Shapes
      <4> QED BY <1>11, <4>1, <4>2
    <3> QED BY <1>0, <1>11, <3>1, Numbers, Shapes, OutSet DEF TryAgain, Refused
  <2> QED BY <1>0, <1>11, <2>1, Kept DEF TryAgain, Refused, TypeOK
<1>12. CASE Mark
  <2>1. OutOK'
    BY <1>12 DEF Mark, GoOn, OutPCs, TypeOK, LogOK, OutOK
  <2>2. FileOK'
    <3>1. IF out.cur = 0 THEN UNCHANGED <<fileVars, deaths>> ELSE Set("seq", out.cur)
      BY <1>12 DEF Mark
    <3>2. out.cur # 0 => out.cur \in Seqs
      BY DEF TypeOK, LogOK, OutOK, Seqs
    <3>3. UNCHANGED Positions
      BY <1>12 DEF Mark, Positions, Seqs
    <3> QED BY <3>1, <3>2, <3>3, SetSeq DEF TypeOK, FileOK
  <2> QED BY <1>0, <1>12, <2>1, <2>2, Kept DEF Mark, TypeOK
<1>13. CASE FirstPoll
  <2>1. LogOK' /\ PhoneOK' /\ Len(log) <= Len(log') /\ typed <= typed'
    BY <1>13 DEF FirstPoll, TypeOK, LogOK, PhoneOK
  <2>2. PollOK'
    <3>1. PICK offset \in (1 .. typed + 1) \cup {None} :
            poll' = [pc |-> "poll", offset |-> offset, lo |-> poll.lo, hi |-> poll.hi]
      <4>1. typed + 1 \in 1 .. typed + 1
        BY Numbers
      <4> QED BY <1>13, <4>1, Shapes, Numbers DEF FirstPoll
    <3>2. UNCHANGED typed /\ "poll" \in PollPCs
      BY <1>13 DEF FirstPoll, PollPCs
    <3> QED BY <3>1, <3>2, Numbers, Shapes, PollSet
  <2> QED BY <1>13, <2>1, <2>2, Kept DEF FirstPoll, TypeOK
<1>14. CASE Poll
  <2>0. PICK keep \in 1 .. typed :
          /\ poll' = [pc |-> "relay", offset |-> poll.offset, lo |-> keep, hi |-> typed]
          /\ first' = keep /\ UNCHANGED typed
    BY <1>14, PollReturns
  <2>1. LogOK' /\ PhoneOK' /\ Len(log) <= Len(log') /\ typed <= typed'
    BY <1>14, <2>0 DEF Poll, TypeOK, LogOK, PhoneOK
  <2>2. PollOK'
    BY <2>0, Numbers, Shapes, PollSet DEF PollPCs
  <2> QED BY <1>14, <2>1, <2>2, Kept DEF Poll, TypeOK
<1>15. CASE Relay
  <2>1. LogOK' /\ PhoneOK' /\ Len(log) <= Len(log') /\ typed <= typed'
    <3>1. poll.lo \in 1 .. Len(posted)
      BY <1>15, Numbers DEF Relay, PollAt, TypeOK, PhoneOK, PollOK
    <3>2. posted' \in Seq(Nat) /\ Len(posted') = Len(posted)
      <4>1. posted' = posted \/ posted' = [posted EXCEPT ![poll.lo] = posted[poll.lo] + 1]
        BY <1>15 DEF Relay
      <4>2. posted[poll.lo] + 1 \in Nat
        BY <3>1 DEF TypeOK, PhoneOK
      <4> QED BY <3>1, <4>1, <4>2 DEF TypeOK, PhoneOK
    <3>3. PhoneOK' /\ typed <= typed'
      BY <1>15, <3>2 DEF Relay, TypeOK, PhoneOK
    <3>4. \/ UNCHANGED <<log, shown>>
          \/ log' = Append(log, "bridge") /\ shown' = Append(shown, 0)
      BY <1>15 DEF Relay
    <3>5. LogOK' /\ Len(log) <= Len(log')
      <4>1. CASE UNCHANGED <<log, shown>>
        BY <4>1 DEF TypeOK, LogOK
      <4>2. CASE log' = Append(log, "bridge") /\ shown' = Append(shown, 0)
        <5>1. log' \in Seq({"peer", "bridge"}) /\ Len(log') = Len(log) + 1
          BY <4>2, Appended DEF TypeOK, LogOK
        <5>2. shown' \in Seq(Nat) /\ Len(shown') = Len(shown) + 1
          BY <4>2, Appended DEF TypeOK, LogOK
        <5> QED BY <5>1, <5>2 DEF TypeOK, LogOK
      <4> QED BY <3>4, <4>1, <4>2
    <3> QED BY <3>3, <3>5
  <2>2. PollOK'
    <3>1. /\ poll' = [pc |-> "mark", offset |-> poll.offset, lo |-> poll.lo, hi |-> poll.hi]
          /\ UNCHANGED typed /\ "mark" \in PollPCs
      BY <1>15, Shapes DEF Relay, PollPCs
    <3>2. poll.lo <= poll.hi
      BY <1>15 DEF Relay, PollAt, TypeOK, PollOK
    <3> QED BY <3>1, <3>2, Numbers, Shapes, PollSet
  <2> QED BY <1>15, <2>1, <2>2, Kept DEF Relay, TypeOK
<1>16. CASE MarkUpdate
  <2>1. poll.lo + 1 \in 1 .. typed + 1
    BY <1>16, Numbers DEF MarkUpdate, PollAt, TypeOK, PollOK
  <2>2. PollOK'
    <3>1. /\ poll' = [pc |-> IF poll.lo = poll.hi THEN "poll" ELSE "relay",
                      offset |-> poll.lo + 1, lo |-> poll.lo + 1, hi |-> poll.hi]
          /\ UNCHANGED typed /\ {"poll", "relay"} \subseteq PollPCs
      BY <1>16, Shapes DEF MarkUpdate, PollPCs, phoneVars
    <3>2. poll.lo # poll.hi => poll.lo + 1 <= poll.hi
      BY <1>16, Numbers DEF MarkUpdate, PollAt, TypeOK, PollOK
    <3> QED BY <2>1, <3>1, <3>2, Numbers, Shapes, PollSet
  <2>3. FileOK'
    <3>1. UNCHANGED Positions
      BY <1>16 DEF MarkUpdate, Positions, Seqs
    <3> QED BY <1>16, <2>1, <3>1, SetOffset DEF MarkUpdate, FileOK
  <2> QED BY <1>0, <1>16, <2>2, <2>3, Kept DEF MarkUpdate, TypeOK
<1>17. CASE UNCHANGED vars
  BY <1>0, <1>17, Kept DEF vars, TypeOK
<1> QED
  BY <1>1, <1>2, <1>3, <1>4, <1>5, <1>6, <1>7, <1>8, <1>9, <1>10, <1>11, <1>12, <1>13, <1>14,
     <1>15, <1>16, <1>17 DEF Next, ThreadToTelegram, TelegramToThread

-----------------------------------------------------------------------------
Wider(h, more) == h.records \subseteq more.records /\ h.updates \subseteq more.updates

LEMMA WithMore == ASSUME NEW h, NEW r, NEW u PROVE Wider(h, With(h, r, u))
BY DEF Wider, With

(* Nothing is taken back: the thread, what arrived on either side, and the *)
(* history only grow.                                                      *)
LEMMA Grow ==
  ASSUME TypeOK, [Next]_vars
  PROVE  /\ Len(log) <= Len(log') /\ \A s \in Seqs : s \in Seqs' /\ log'[s] = log[s]
         /\ Shown \subseteq Shown' /\ Posted \subseteq Posted' /\ typed <= typed'
         /\ Wider(named, named') /\ Wider(early, early') /\ Wider(doubt, doubt')
         /\ unsaved => unsaved'
<1> USE DEF phoneVars, fileVars, childVars, history
<1>1. \/ UNCHANGED <<log, shown>>
      \/ \E x \in {"peer", "bridge"} : log' = Append(log, x) /\ shown' = Append(shown, 0)
      \/ UNCHANGED log /\ shown' = [shown EXCEPT ![out.cur] = @ + 1]
  BY DEF Next, ThreadToTelegram, TelegramToThread,
         Post, Type, Start, Stop, ChildDies, ChildBegins, SkipStale, NoBacklog, Spawn, ReadLine,
         ChildEnded, Taken, TakenUnheard, TryAgain, Refused, Mark, FirstPoll, Poll, Relay,
         MarkUpdate, vars, Appears
<1>2. \/ UNCHANGED <<typed, posted>>
      \/ typed' = typed + 1 /\ posted' = Append(posted, 0)
      \/ UNCHANGED typed /\ posted' = [posted EXCEPT ![poll.lo] = @ + 1]
  BY DEF Next, ThreadToTelegram, TelegramToThread,
         Post, Type, Start, Stop, ChildDies, ChildBegins, SkipStale, NoBacklog, Spawn, ReadLine,
         ChildEnded, Taken, TakenUnheard, TryAgain, Refused, Mark, FirstPoll, Poll, Relay,
         MarkUpdate, vars
<1>3. \/ UNCHANGED named
      \/ \E r, u : named' = With(named, r, u)
  BY DEF Next, ThreadToTelegram, TelegramToThread,
         Post, Type, Start, Stop, ChildDies, ChildBegins, SkipStale, NoBacklog, Spawn, ReadLine,
         ChildEnded, Taken, TakenUnheard, TryAgain, Refused, Mark, FirstPoll, Poll, Relay,
         MarkUpdate, vars
<1>4. \/ UNCHANGED early
      \/ \E r, u : early' = With(early, r, u)
  BY DEF Next, ThreadToTelegram, TelegramToThread,
         Post, Type, Start, Stop, ChildDies, ChildBegins, SkipStale, NoBacklog, Spawn, ReadLine,
         ChildEnded, Taken, TakenUnheard, TryAgain, Refused, Mark, FirstPoll, Poll, Relay,
         MarkUpdate, vars
<1>5. \/ UNCHANGED doubt
      \/ \E r, u : doubt' = With(doubt, r, u)
  BY DEF Next, ThreadToTelegram, TelegramToThread,
         Post, Type, Start, Stop, ChildDies, ChildBegins, SkipStale, NoBacklog, Spawn, ReadLine,
         ChildEnded, Taken, TakenUnheard, TryAgain, Refused, Mark, FirstPoll, Poll, Relay,
         MarkUpdate, vars
<1>6. unsaved => unsaved'
  BY DEF Next, ThreadToTelegram, TelegramToThread,
         Post, Type, Start, Stop, ChildDies, ChildBegins, SkipStale, NoBacklog, Spawn, ReadLine,
         ChildEnded, Taken, TakenUnheard, TryAgain, Refused, Mark, FirstPoll, Poll, Relay,
         MarkUpdate, vars
<1>7. Wider(named, named') /\ Wider(early, early') /\ Wider(doubt, doubt')
  BY <1>3, <1>4, <1>5, WithMore DEF Wider
<1>8. Len(log) <= Len(log') /\ \A s \in Seqs : s \in Seqs' /\ log'[s] = log[s]
  BY <1>1, Appended DEF TypeOK, LogOK, Seqs
<1>9. Shown \subseteq Shown'
  BY <1>1, <1>8, Appended DEF TypeOK, LogOK, Seqs, Shown
<1>10. typed <= typed' /\ Posted \subseteq Posted'
  BY <1>2, Appended DEF TypeOK, PhoneOK, Updates, Posted
<1> QED BY <1>6, <1>7, <1>8, <1>9, <1>10

-----------------------------------------------------------------------------
(* The records                                                             *)

Idling == out.pc \in {"off", "stale", "spawn"} \/ (out.pc \in {"send", "mark"} /\ out.cur = 0)
InHand == out.pc \in {"send", "mark"} /\ out.cur # 0

(* Between runs there is no other position than the file's.                *)
OffInv == out.pc = "off" => poll.pc = "off" /\ mem = disk

(* The record being sent is a peer's, the last one read and past the       *)
(* position; no child has begun when none is read from.                    *)
OutInv ==
  /\ Idling => ~child.alive /\ ~child.begun
  /\ InHand => /\ out.cur \in Peers /\ child.begun /\ child.next = out.cur + 1
               /\ (mem.seq = None \/ mem.seq < out.cur)

DealtRecords == Shown \cup named.records \cup early.records
UpTo(n, all, dealt) == \A s \in all : s <= n => s \in dealt
Covered(n) == UpTo(n, Peers, DealtRecords)

(* What is before the position, in memory and on disk, is dealt with.      *)
PlaceInv ==
  /\ mem.seq # None => Covered(mem.seq)
  /\ disk.seq # None => Covered(disk.seq)

(* So is what is before the line being worked on.                          *)
LineInv ==
  /\ InHand => Covered(out.cur - 1)
  /\ InHand /\ out.pc = "mark" => out.cur \in DealtRecords
  /\ out.pc = "read" /\ child.begun /\ mem.seq # None => Covered(child.next - 1)

(* A record on the phone is past, or about to be, or a run was cut.        *)
CutRecord(s) == s \in doubt.records \/ unsaved
ShownInv ==
  /\ \A s \in Shown : CutRecord(s) \/ Relayed(s) \/ (out.pc = "mark" /\ out.cur = s)
  /\ \A s \in Seqs : shown[s] > 1 => CutRecord(s)

LEMMA DealtKept ==
  ASSUME TypeOK, [Next]_vars
  PROVE  /\ Peers \subseteq Peers' /\ DealtRecords \subseteq DealtRecords'
         /\ \A n \in Int : n <= Len(log) /\ Covered(n) => UpTo(n, Peers', DealtRecords')
<1>1. Len(log) <= Len(log') /\ \A s \in Seqs : s \in Seqs' /\ log'[s] = log[s]
  BY Grow
<1>2. DealtRecords \subseteq DealtRecords'
  BY Grow DEF DealtRecords, Wider
<1>3. Peers \subseteq Peers' /\ \A s \in Peers' : s <= Len(log) => s \in Peers
  BY <1>1 DEF Peers, Seqs, TypeOK, LogOK
<1>4. ASSUME NEW n \in Int, n <= Len(log), Covered(n) PROVE UpTo(n, Peers', DealtRecords')
  <2> SUFFICES ASSUME NEW s \in Peers', s <= n PROVE s \in DealtRecords'
    BY DEF Covered, UpTo
  <2>1. s <= Len(log)
    BY <1>4 DEF Peers, Seqs, TypeOK, LogOK
  <2> QED BY <1>2, <1>3, <1>4, <2>1 DEF Covered, UpTo
<1> QED BY <1>2, <1>3, <1>4

(* The positions are places in the thread.                                 *)
LEMMA Places ==
  ASSUME TypeOK
  PROVE  /\ Len(log) \in Nat /\ None \notin Nat /\ out.cur \in 0 .. Len(log)
         /\ mem.seq # None => mem.seq \in 1 .. Len(log)
         /\ disk.seq # None => disk.seq \in 1 .. Len(log)
         /\ child.next \in 1 .. Len(log) + 1
<1>1. /\ mem.seq # None => mem.seq \in 1 .. Len(log)
      /\ disk.seq # None => disk.seq \in 1 .. Len(log)
  BY DEF TypeOK, FileOK, Positions, Seqs
<1> QED BY <1>1, Numbers, BridgeAssumption

(* A step that leaves the position or takes it over from the file or into  *)
(* it, and one that leaves the worker and the child.                       *)
LEMMA PlaceFrame ==
  ASSUME TypeOK, [Next]_vars, PlaceInv, mem'.seq \in {mem.seq, disk.seq},
         disk'.seq \in {mem.seq, disk.seq}
  PROVE  PlaceInv'
<1>1. ASSUME NEW n, n # None, n \in {mem.seq, disk.seq} PROVE UpTo(n, Peers', DealtRecords')
  <2>1. Covered(n) /\ n \in Int /\ n <= Len(log)
    BY <1>1, Places DEF Covered, PlaceInv
  <2> QED BY <2>1, DealtKept
<1> QED BY <1>1 DEF Covered, PlaceInv

LEMMA PlaceMoves ==
  ASSUME TypeOK, PlaceInv, [Next]_vars, NEW v \in Seqs, Set("seq", v), UpTo(v, Peers', DealtRecords')
  PROVE  PlaceInv'
<1>1. mem'.seq = v /\ disk'.seq \in {v, disk.seq}
  BY SetSeq
<1>2. disk.seq # None => UpTo(disk.seq, Peers', DealtRecords')
  BY DealtKept, Places DEF Covered, PlaceInv
<1> QED BY <1>1, <1>2 DEF Covered, PlaceInv

LEMMA LineFrame ==
  ASSUME TypeOK, [Next]_vars, OutInv, LineInv, UNCHANGED out, UNCHANGED child,
         mem'.seq = mem.seq
  PROVE  OutInv' /\ LineInv'
<1>1. OutInv'
  BY DealtKept DEF OutInv, Idling, InHand
<1>2. InHand => UpTo(out.cur - 1, Peers', DealtRecords')
  BY DealtKept, Places DEF Covered, LineInv
<1>3. out.pc = "read" /\ child.begun /\ mem.seq # None => UpTo(child.next - 1, Peers', DealtRecords')
  BY DealtKept, Places DEF Covered, LineInv
<1>4. InHand /\ out.pc = "mark" => out.cur \in DealtRecords'
  BY DealtKept DEF Covered, LineInv
<1> QED BY <1>1, <1>2, <1>3, <1>4 DEF Covered, LineInv, InHand

LEMMA LineIdle ==
  ASSUME \/ out'.pc \in {"off", "stale", "spawn"}
         \/ out'.pc \in {"send", "mark"} /\ out'.cur = 0
         \/ out'.pc = "read" /\ ~child'.begun,
         out'.pc # "read" => ~child'.alive /\ ~child'.begun
  PROVE  OutInv' /\ LineInv'
BY DEF Covered, OutInv, LineInv, Idling, InHand

LEMMA RecordsStep ==
  ASSUME TypeOK, OutInv, PlaceInv, LineInv, [Next]_vars
  PROVE  OutInv' /\ PlaceInv' /\ LineInv'
<1> USE DEF phoneVars, fileVars, childVars, history
<1>1. CASE Post \/ Type \/ FirstPoll \/ Poll \/ Relay \/ UNCHANGED vars
  <2>1. UNCHANGED <<out, child, mem, disk>>
    BY <1>1 DEF Post, Type, FirstPoll, Poll, Relay, vars
  <2> QED BY <2>1, PlaceFrame, LineFrame
<1>2. CASE MarkUpdate
  <2>1. poll.lo + 1 \in 1 .. typed + 1
    BY <1>2, Numbers DEF MarkUpdate, PollAt, TypeOK, PollOK
  <2>2. mem'.seq = mem.seq /\ disk'.seq \in {mem.seq, disk.seq} /\ UNCHANGED <<out, child>>
    BY <1>2, <2>1, SetOffset DEF MarkUpdate
  <2> QED BY <2>2, PlaceFrame, LineFrame
<1>3. CASE Start
  <2>1. out'.pc = "stale" /\ UNCHANGED <<child, disk>> /\ mem' = disk /\ out.pc = "off"
    BY <1>3 DEF Start, On, Off
  <2>2. ~child.alive /\ ~child.begun
    BY <2>1 DEF OutInv, Idling
  <2> QED BY <2>1, <2>2, PlaceFrame, LineIdle
<1>4. CASE Stop
  <2>1. out'.pc = "off" /\ ~child'.alive /\ ~child'.begun /\ mem' = disk /\ disk' = disk
    BY <1>4 DEF Stop, Off, NoChild
  <2> QED BY <2>1, PlaceFrame, LineIdle
<1>5. CASE ChildDies
  <2>1. /\ UNCHANGED <<out, mem, disk>> /\ child'.begun = child.begun /\ child'.next = child.next
        /\ ~child'.alive
    BY <1>5, Shapes DEF ChildDies
  <2>2. OutInv'
    BY <2>1, DealtKept DEF OutInv, Idling, InHand
  <2>3. InHand => UpTo(out.cur - 1, Peers', DealtRecords')
    BY DealtKept, Places DEF Covered, LineInv
  <2>4. out.pc = "read" /\ child.begun /\ mem.seq # None => UpTo(child.next - 1, Peers', DealtRecords')
    BY DealtKept, Places DEF Covered, LineInv
  <2>5. LineInv'
    BY <2>1, <2>3, <2>4, DealtKept DEF Covered, LineInv, InHand
  <2> QED BY <2>1, <2>2, <2>5, PlaceFrame
<1>6. CASE ChildBegins
  <2>1. child.alive /\ ~child.begun /\ UNCHANGED <<out, mem, disk>> /\ child'.begun
    BY <1>6, Shapes DEF ChildBegins
  <2>2. out.pc = "read" /\ ~Idling /\ ~InHand
    BY <2>1, Shapes DEF OutInv, Idling, InHand, OutPCs
  <2>3. mem.seq # None => UpTo(child'.next - 1, Peers', DealtRecords')
    <3> SUFFICES ASSUME mem.seq # None, NEW s \in Peers', s <= child'.next - 1
                 PROVE  s \in DealtRecords'
      BY DEF Covered, UpTo
    <3>1. named' = With(named, (mem.seq + 1 .. child'.next - 1) \ Shown, {})
          /\ UNCHANGED <<log, shown, early>>
      BY <1>6, Shapes DEF ChildBegins
    <3>2. s \in Nat /\ s \in Peers /\ child'.next \in Nat
      BY <1>6, TypeStep, <3>1, Places DEF Peers, Seqs, TypeOK, ChildOK, LogOK
    <3>3. CASE s <= mem.seq
      BY <3>2, <3>3, DealtKept DEF PlaceInv, Covered, UpTo
    <3>4. CASE ~(s <= mem.seq)
      <4>1. s \in mem.seq + 1 .. child'.next - 1
        BY <3>2, <3>4, Places
      <4> QED BY <3>1, <4>1 DEF With, DealtRecords, Shown, Seqs
    <3> QED BY <3>3, <3>4
  <2>4. OutInv' /\ LineInv'
    BY <2>1, <2>2, <2>3 DEF Covered, OutInv, LineInv, Idling, InHand
  <2> QED BY <2>1, <2>4, PlaceFrame
<1>7. CASE SkipStale
  <2>0. PICK cutoff \in 0 .. started :
          /\ named' = With(named, (Peers \cap (mem.seq + 1 .. cutoff)) \ Shown, {})
          /\ IF mem.seq + 1 .. cutoff = {} THEN UNCHANGED <<fileVars, deaths>>
             ELSE Set("seq", cutoff)
          /\ Send(0) \/ GoOn("spawn")
    BY <1>7 DEF SkipStale
  <2>1. out'.pc = "spawn" \/ (out'.pc = "send" /\ out'.cur = 0)
    <3>1. CASE Send(0)
      BY <3>1 DEF Send
    <3>2. CASE GoOn("spawn")
      BY <3>2, Shapes DEF GoOn
    <3> QED BY <2>0, <3>1, <3>2
  <2>2. mem.seq # None /\ out.pc = "stale" /\ UNCHANGED <<log, shown, child, early>>
    BY <1>7 DEF SkipStale, OutAt
  <2>3. OutInv' /\ LineInv'
    <3>1. ~child'.alive /\ ~child'.begun
      BY <2>2 DEF OutInv, Idling
    <3> QED BY <2>1, <3>1, LineIdle
  <2>4. CASE mem.seq + 1 .. cutoff = {}
    BY <2>0, <2>3, <2>4, PlaceFrame
  <2>5. CASE mem.seq + 1 .. cutoff # {}
    <3>1. cutoff \in Seqs
      BY <2>0, <2>2, <2>5, Places, Numbers DEF Seqs
    <3>2. UpTo(cutoff, Peers', DealtRecords')
      <4> SUFFICES ASSUME NEW s \in Peers, s <= cutoff PROVE s \in DealtRecords'
        BY <2>2 DEF Covered, UpTo, Peers, Seqs
      <4>1. CASE s <= mem.seq
        BY <2>2, <4>1, DealtKept DEF PlaceInv, Covered, UpTo
      <4>2. CASE ~(s <= mem.seq)
        <5>1. s \in mem.seq + 1 .. cutoff
          BY <2>2, <3>1, <4>2, Places DEF Peers, Seqs
        <5> QED BY <2>0, <2>2, <5>1 DEF With, DealtRecords, Shown, Seqs
      <4> QED BY <4>1, <4>2
    <3> QED BY <2>0, <2>5, <2>3, <3>1, <3>2, PlaceMoves
  <2> QED BY <2>3, <2>4, <2>5
<1>8. CASE NoBacklog \/ Spawn \/ ChildEnded
  <2>1. /\ UNCHANGED <<mem, disk>>
        /\ \/ out'.pc = "spawn" /\ ~child'.alive /\ ~child'.begun
           \/ out'.pc = "read" /\ ~child'.begun
    <3>1. CASE NoBacklog
      <4>1. out'.pc = "spawn"
        BY <3>1, Shapes DEF NoBacklog, GoOn
      <4>2. UNCHANGED <<mem, disk>> /\ ~child'.alive /\ ~child'.begun
        BY <3>1 DEF NoBacklog, OutAt, OutInv, Idling
      <4> QED BY <4>1, <4>2
    <3>2. CASE Spawn
      BY <3>2, Shapes DEF Spawn, GoOn, NoChild
    <3>3. CASE ChildEnded
      BY <3>3, Shapes DEF ChildEnded, GoOn, NoChild
    <3> QED BY <1>8, <3>1, <3>2, <3>3
  <2> QED BY <2>1, PlaceFrame, LineIdle
<1>9. CASE ReadLine
  <2> DEFINE s == child.next
  <2>1. /\ out.pc = "read" /\ child.begun /\ s \in Seqs /\ UNCHANGED <<log, shown, named>>
        /\ child'.next = s + 1 /\ child'.begun
    <3>1. out.pc = "read" /\ child.begun /\ s \in Seqs /\ UNCHANGED <<log, shown, named>>
      BY <1>9, Numbers DEF ReadLine, OutAt, Printed, Seqs
    <3>2. child'.next = s + 1 /\ child'.begun = child.begun
      BY <1>9, Shapes DEF ReadLine
    <3> QED BY <3>1, <3>2
  <2>2. UpTo(s - 1, Peers', DealtRecords')
    <3>1. CASE mem.seq # None
      BY <2>1, <3>1, DealtKept, Places DEF Covered, LineInv
    <3>2. CASE mem.seq = None
      <4>1. 1 .. s - 1 \subseteq early'.records
        BY <1>9, <3>2, <2>1 DEF ReadLine, With, Seqs
      <4> QED BY <2>1, <4>1, Places DEF Covered, UpTo, DealtRecords, Peers, Seqs
    <3> QED BY <3>1, <3>2
  <2>3. ASSUME s \in DealtRecords' PROVE UpTo(s, Peers', DealtRecords')
    BY <2>1, <2>2, <2>3, Places DEF Covered, UpTo, Peers, Seqs
  <2>4. CASE Relayed(s) /\ UNCHANGED <<out, fileVars, deaths>>
    <3>1. mem.seq # None /\ Covered(s)
      BY <2>1, <2>4, Places DEF Relayed, PlaceInv, Covered, UpTo, Peers, Seqs
    <3>2. UpTo(s, Peers', DealtRecords')
      BY <2>1, <3>1, DealtKept, Places DEF Seqs
    <3>3. child'.next - 1 = s
      BY <2>1, Places
    <3>4. OutInv' /\ LineInv'
      BY <2>1, <2>4, <3>2, <3>3 DEF Covered, OutInv, LineInv, Idling, InHand
    <3> QED BY <2>4, <3>4, PlaceFrame
  <2>5. CASE Set("seq", s) /\ UNCHANGED out /\ (BeforeFirstRun(s) \/ ~Relays(s))
    <3>1. UpTo(s, Peers', DealtRecords')
      <4>1. CASE BeforeFirstRun(s)
        <5>1. 1 .. s \subseteq early'.records
          BY <1>9, <4>1, <2>1 DEF ReadLine, With, Seqs, BeforeFirstRun
        <5> QED BY <2>1, <5>1, Places DEF Covered, UpTo, DealtRecords, Peers, Seqs
      <4>2. CASE ~Relays(s)
        BY <2>1, <2>2, <4>2, Places DEF Relays, Covered, UpTo, Peers, Seqs
      <4> QED BY <2>5, <4>1, <4>2
    <3>2. PlaceInv'
      BY <2>1, <2>5, <3>1, PlaceMoves
    <3>3. child'.next - 1 = s
      BY <2>1, Places
    <3>4. OutInv' /\ LineInv'
      BY <2>1, <2>5, <3>1, <3>3 DEF Covered, OutInv, LineInv, Idling, InHand
    <3> QED BY <3>2, <3>4
  <2>6. CASE ~Relayed(s) /\ Relays(s) /\ Send(s) /\ UNCHANGED <<fileVars, deaths>>
    <3>1. out'.pc = "send" /\ out'.cur = s /\ s \in Peers' /\ s # 0
      BY <2>1, <2>6, Places DEF Send, Relays, Peers, Seqs
    <3>2. mem.seq = None \/ mem.seq < s
      BY <2>6, <2>1, Places DEF Relayed, Seqs
    <3>3. OutInv' /\ LineInv'
      BY <2>1, <2>2, <2>6, <3>1, <3>2 DEF Covered, OutInv, LineInv, Idling, InHand
    <3> QED BY <2>6, <3>3, PlaceFrame
  <2> QED BY <1>9, <2>4, <2>5, <2>6 DEF ReadLine
<1>10. CASE Taken \/ TakenUnheard \/ TryAgain \/ Refused
  <2>1. /\ out.pc = "send" /\ out'.pc \in {"send", "mark"} /\ out'.cur = out.cur
        /\ UNCHANGED <<log, child, mem, disk>>
    BY <1>10, Shapes DEF Taken, TakenUnheard, TryAgain, Refused, OutAt, GoOn, Again
  <2>2. out'.pc = "mark" /\ out.cur # 0 => out.cur \in DealtRecords'
    <3>1. CASE Taken /\ out.cur # 0
      <4>1. out.cur \in Seqs /\ out.cur \in 1 .. Len(shown)
        BY <3>1, Places DEF Seqs, TypeOK, LogOK
      <4>2. shown' = [shown EXCEPT ![out.cur] = @ + 1] /\ shown[out.cur] \in Nat
        BY <3>1, <4>1 DEF Taken, Appears, TypeOK, LogOK
      <4>3. shown'[out.cur] > 0
        BY <4>1, <4>2 DEF TypeOK, LogOK
      <4> QED BY <2>1, <4>1, <4>3 DEF DealtRecords, Shown, Seqs
    <3>2. CASE Refused
      BY <2>1, <3>2 DEF Refused, With, DealtRecords, Shown, Seqs
    <3>3. CASE TakenUnheard \/ TryAgain
      BY <2>1, <3>3, Shapes DEF TakenUnheard, TryAgain, Again
    <3> QED BY <1>10, <3>1, <3>2, <3>3
  <2>3. out.cur # 0 => UpTo(out.cur - 1, Peers', DealtRecords')
    BY <2>1, DealtKept, Places DEF Covered, LineInv, InHand
  <2>4. OutInv'
    BY <2>1, DealtKept DEF OutInv, Idling, InHand
  <2>5. LineInv'
    BY <2>1, <2>2, <2>3 DEF Covered, LineInv, InHand
  <2> QED BY <2>1, <2>4, <2>5, PlaceFrame
<1>11. CASE Mark
  <2>1. out.pc = "mark" /\ UNCHANGED child
    BY <1>11 DEF Mark, OutAt
  <2>2. CASE out.cur = 0
    <3>1. out'.pc = "spawn" /\ UNCHANGED <<mem, disk>>
      BY <1>11, <2>2, Shapes DEF Mark, GoOn
    <3>2. ~child'.alive /\ ~child'.begun
      BY <2>1, <2>2 DEF OutInv, Idling
    <3> QED BY <3>1, <3>2, PlaceFrame, LineIdle
  <2>3. CASE out.cur # 0
    <3>1. out'.pc = "read" /\ Set("seq", out.cur)
      BY <1>11, <2>3, Shapes DEF Mark, GoOn
    <3>2. InHand /\ out.cur \in Seqs /\ child.next = out.cur + 1 /\ UNCHANGED log
      BY <1>11, <2>1, <2>3 DEF OutInv, InHand, Peers, Mark
    <3>3. UpTo(out.cur - 1, Peers', DealtRecords') /\ out.cur \in DealtRecords'
      BY <2>1, <3>2, DealtKept, Places DEF Covered, LineInv
    <3>4. UpTo(out.cur, Peers', DealtRecords')
      BY <3>2, <3>3, Places DEF Covered, UpTo, Peers, Seqs
    <3>5. child'.next - 1 = out.cur
      BY <2>1, <3>2, Places
    <3>6. OutInv' /\ LineInv'
      BY <3>1, <3>4, <3>5 DEF Covered, OutInv, LineInv, Idling, InHand
    <3> QED BY <3>1, <3>2, <3>4, <3>6, PlaceMoves
  <2> QED BY <2>2, <2>3
<1> QED
  BY <1>1, <1>2, <1>3, <1>4, <1>5, <1>6, <1>7, <1>8, <1>9, <1>10, <1>11
     DEF Next, ThreadToTelegram, TelegramToThread

LEMMA OffStep ==
  ASSUME TypeOK, OffInv, [Next]_vars
  PROVE  OffInv'
<1> USE DEF phoneVars, fileVars, childVars, history
<1>1. CASE Post \/ Type \/ ChildBegins \/ ChildDies \/ UNCHANGED vars
  BY <1>1 DEF Post, Type, ChildBegins, ChildDies, vars, OffInv
<1>2. CASE Start
  BY <1>2 DEF Start, Off, OffInv
<1>3. CASE Stop
  BY <1>3 DEF Stop, Off, PollOff, OffInv
<1>4. CASE SkipStale \/ NoBacklog \/ Spawn \/ ChildEnded
  <2>1. Send(0) \/ GoOn("spawn") \/ GoOn("read")
    BY <1>4 DEF SkipStale, NoBacklog, Spawn, ChildEnded
  <2>2. out'.pc # "off"
    BY <2>1, Shapes DEF Send, GoOn
  <2> QED BY <2>2 DEF OffInv
<1>5. CASE ReadLine
  BY <1>5, Shapes DEF ReadLine, OutAt, Send, OffInv
<1>6. CASE Taken \/ TakenUnheard \/ TryAgain \/ Refused \/ Mark
  BY <1>6, Shapes DEF Taken, TakenUnheard, TryAgain, Refused, Mark, OutAt, Again, GoOn, OffInv
<1>7. CASE TelegramToThread
  <2>1. out.pc # "off" /\ UNCHANGED out
    BY <1>7 DEF TelegramToThread, FirstPoll, Poll, Relay, MarkUpdate, PollAt, OffInv
  <2> QED BY <2>1 DEF OffInv
<1> QED
  BY <1>1, <1>2, <1>3, <1>4, <1>5, <1>6, <1>7 DEF Next, ThreadToTelegram

(* A step after which no record is on the phone that was not.              *)
LEMMA ShownFrame ==
  ASSUME TypeOK, [Next]_vars, ShownInv, UNCHANGED shown \/ shown' = Append(shown, 0),
         \A s \in Shown : Relayed(s) => Relayed(s)' \/ CutRecord(s)',
         out.pc = "mark" /\ out.cur \in Shown =>
           \/ out'.pc = "mark" /\ out'.cur = out.cur
           \/ \A s : s = out.cur => Relayed(s)' \/ CutRecord(s)'
  PROVE  ShownInv'
<1>1. \A s : CutRecord(s) => CutRecord(s)'
  BY Grow DEF CutRecord, Wider
<1>2. \A s \in Seqs' : /\ shown'[s] > 0 => s \in Seqs
                       /\ s \in Seqs => shown'[s] = shown[s]
  <2>1. CASE UNCHANGED shown
    <3>1. Len(log') = Len(shown') /\ Len(log) = Len(shown)
      BY TypeStep DEF TypeOK, LogOK
    <3> QED BY <2>1, <3>1 DEF Seqs
  <2>2. CASE shown' = Append(shown, 0)
    <3>1. Len(log') = Len(shown') /\ Len(log) = Len(shown) /\ shown \in Seq(Nat)
      BY TypeStep DEF TypeOK, LogOK
    <3>2. /\ Len(shown') = Len(shown) + 1 /\ shown'[Len(shown) + 1] = 0
          /\ \A i \in 1 .. Len(shown) : shown'[i] = shown[i]
      BY <2>2, <3>1, Appended
    <3> QED BY <3>1, <3>2 DEF Seqs
  <2> QED BY <2>1, <2>2
<1>3. ASSUME NEW s \in Shown'
      PROVE  CutRecord(s)' \/ Relayed(s)' \/ (out'.pc = "mark" /\ out'.cur = s)
  <2>1. s \in Shown
    BY <1>2, <1>3 DEF Shown
  <2> QED BY <1>1, <2>1 DEF ShownInv
<1>4. ASSUME NEW s \in Seqs', shown'[s] > 1 PROVE CutRecord(s)'
  <2>1. s \in Seqs /\ shown[s] > 1
    <3>1. shown'[s] \in Nat
      BY <1>4, TypeStep DEF TypeOK, LogOK, Seqs
    <3> QED BY <1>2, <1>4, <3>1
  <2> QED BY <1>1, <2>1 DEF ShownInv
<1> QED BY <1>3, <1>4 DEF ShownInv

LEMMA ShownStep ==
  ASSUME TypeOK, OutInv, OffInv, ShownInv, [Next]_vars
  PROVE  ShownInv'
<1> USE DEF phoneVars, fileVars, childVars, history
<1>1. CASE Post \/ Type \/ FirstPoll \/ Poll \/ Relay \/ ChildDies \/ ChildBegins \/ UNCHANGED vars
  <2>1. UNCHANGED <<out, mem>> /\ (UNCHANGED shown \/ shown' = Append(shown, 0))
    BY <1>1 DEF Post, Type, FirstPoll, Poll, Relay, ChildDies, ChildBegins, vars
  <2> QED BY <2>1, ShownFrame DEF Relayed
<1>2. CASE MarkUpdate
  <2>1. poll.lo + 1 \in 1 .. typed + 1
    BY <1>2, Numbers DEF MarkUpdate, PollAt, TypeOK, PollOK
  <2>2. mem'.seq = mem.seq /\ UNCHANGED <<out, shown>>
    BY <1>2, <2>1, SetOffset DEF MarkUpdate
  <2> QED BY <2>2, ShownFrame DEF Relayed
<1>3. CASE Start
  <2>1. out.pc = "off" /\ UNCHANGED <<mem, shown>>
    BY <1>3 DEF Start, On, OffInv
  <2> QED BY <2>1, ShownFrame DEF Relayed
<1>4. CASE Stop
  <2>1. mem' = disk /\ UNCHANGED shown /\ unsaved' = (unsaved \/ mem # disk)
    BY <1>4 DEF Stop
  <2>2. \A s \in Shown : Relayed(s) => Relayed(s)' \/ CutRecord(s)'
    BY <2>1 DEF Relayed, CutRecord
  <2>3. out.pc = "mark" /\ out.cur \in Shown => out.cur \in doubt'.records
    BY <1>4 DEF Stop, With
  <2> QED BY <2>1, <2>2, <2>3, ShownFrame DEF CutRecord
<1>5. CASE SkipStale
  <2>1. PICK cutoff \in 0 .. started :
          IF mem.seq + 1 .. cutoff = {} THEN UNCHANGED <<fileVars, deaths>>
          ELSE Set("seq", cutoff)
    BY <1>5 DEF SkipStale
  <2>2. mem.seq # None /\ out.pc = "stale" /\ UNCHANGED shown
    BY <1>5 DEF SkipStale, OutAt
  <2>3. mem'.seq = mem.seq \/ (mem'.seq \in Nat /\ mem.seq < mem'.seq)
    <3>1. CASE mem.seq + 1 .. cutoff = {}
      BY <2>1, <3>1
    <3>2. CASE mem.seq + 1 .. cutoff # {}
      <4>1. cutoff \in Seqs /\ mem.seq < cutoff
        BY <2>1, <2>2, <3>2, Places, Numbers DEF Seqs
      <4> QED BY <2>1, <3>2, <4>1, SetSeq DEF Seqs
    <3> QED BY <3>1, <3>2
  <2>4. \A s \in Shown : Relayed(s) => Relayed(s)'
    BY <2>2, <2>3, Places DEF Relayed, Shown, Seqs
  <2> QED BY <2>2, <2>4, ShownFrame
<1>6. CASE NoBacklog \/ Spawn \/ ChildEnded
  <2>1. out.pc # "mark" /\ UNCHANGED <<mem, shown>>
    BY <1>6 DEF NoBacklog, Spawn, ChildEnded, OutAt
  <2> QED BY <2>1, ShownFrame DEF Relayed
<1>7. CASE ReadLine
  <2>1. out.pc = "read" /\ child.next \in Seqs /\ UNCHANGED shown
    BY <1>7, Numbers DEF ReadLine, OutAt, Printed, Seqs
  <2>2. \/ UNCHANGED mem
        \/ Set("seq", child.next) /\ ~Relayed(child.next)
    BY <1>7 DEF ReadLine, BeforeFirstRun, Relayed
  <2>3. mem'.seq = mem.seq \/ (mem'.seq \in Nat /\ (mem.seq = None \/ mem.seq < mem'.seq))
    BY <2>1, <2>2, SetSeq, Places DEF Relayed, Seqs
  <2>4. \A s \in Shown : Relayed(s) => Relayed(s)'
    BY <2>3, Places DEF Relayed, Shown, Seqs
  <2> QED BY <2>1, <2>4, ShownFrame
<1>8. CASE TryAgain \/ Refused
  <2>1. out.pc = "send" /\ UNCHANGED <<mem, shown>>
    BY <1>8 DEF TryAgain, Refused, OutAt
  <2> QED BY <2>1, ShownFrame DEF Relayed
<1>9. CASE Taken \/ TakenUnheard
  <2>1. out.pc = "send" /\ UNCHANGED <<mem, log>>
    BY <1>9 DEF Taken, TakenUnheard, OutAt
  <2>2. CASE out.cur = 0
    <3>1. UNCHANGED shown
      BY <1>9, <2>2 DEF Taken, TakenUnheard, Appears
    <3> QED BY <2>1, <3>1, ShownFrame DEF Relayed
  <2>3. CASE out.cur # 0
    <3>1. /\ out.cur \in 1 .. Len(shown) /\ Len(shown) = Len(log) /\ shown \in Seq(Nat)
          /\ shown' = [shown EXCEPT ![out.cur] = @ + 1]
      BY <1>9, <2>3, Places DEF Taken, TakenUnheard, Appears, TypeOK, LogOK
    <3>2. ~Relayed(out.cur)
      BY <2>1, <2>3, Places DEF OutInv, InHand, Relayed
    <3>3. out.cur \in Shown => CutRecord(out.cur)
      BY <2>1, <3>2 DEF ShownInv
    <3>4. \A s : CutRecord(s) => CutRecord(s)'
      BY Grow DEF CutRecord, Wider
    <3>5. \/ out'.pc = "mark" /\ out'.cur = out.cur
          \/ \A s : s = out.cur => CutRecord(s)'
      <4>1. CASE Taken
        BY <4>1, Shapes DEF Taken, GoOn
      <4>2. CASE TakenUnheard
        BY <4>2 DEF TakenUnheard, With, CutRecord
      <4> QED BY <1>9, <4>1, <4>2
    <3>6. \A s \in Seqs' : s # out.cur => s \in Seqs /\ shown'[s] = shown[s]
      BY <2>1, <3>1 DEF Seqs
    <3>7. shown'[out.cur] = shown[out.cur] + 1 /\ shown[out.cur] \in Nat /\ out.cur \in Seqs
      BY <3>1 DEF Seqs
    <3>8. ASSUME NEW s \in Shown'
          PROVE  CutRecord(s)' \/ Relayed(s)' \/ (out'.pc = "mark" /\ out'.cur = s)
      <4>1. CASE s = out.cur
        BY <3>5, <4>1
      <4>2. CASE s # out.cur
        <5>1. s \in Shown
          BY <3>6, <3>8, <4>2 DEF Shown
        <5> QED BY <2>1, <3>4, <5>1 DEF ShownInv, Relayed
      <4> QED BY <4>1, <4>2
    <3>9. ASSUME NEW s \in Seqs', shown'[s] > 1 PROVE CutRecord(s)'
      <4>1. CASE s = out.cur
        <5>1. out.cur \in Shown
          BY <3>7, <3>9, <4>1 DEF Shown
        <5> QED BY <3>3, <3>4, <4>1, <5>1
      <4>2. CASE s # out.cur
        BY <3>4, <3>6, <3>9, <4>2 DEF ShownInv
      <4> QED BY <4>1, <4>2
    <3> QED BY <3>8, <3>9 DEF ShownInv
  <2> QED BY <2>2, <2>3
<1>10. CASE Mark
  <2>1. out.pc = "mark" /\ UNCHANGED shown
    BY <1>10 DEF Mark, OutAt
  <2>2. CASE out.cur = 0
    <3>1. UNCHANGED mem /\ out.cur \notin Shown
      BY <1>10, <2>2 DEF Mark, Shown, Seqs
    <3> QED BY <2>1, <3>1, ShownFrame DEF Relayed
  <2>3. CASE out.cur # 0
    <3>1. Set("seq", out.cur) /\ out.cur \in Seqs /\ (mem.seq = None \/ mem.seq < out.cur)
      BY <1>10, <2>1, <2>3 DEF Mark, OutInv, InHand, Peers
    <3>2. mem'.seq = out.cur
      BY <3>1, SetSeq
    <3>3. \A s \in Shown : Relayed(s) => Relayed(s)'
      BY <3>1, <3>2, Places, BridgeAssumption DEF Relayed, Shown, Seqs
    <3>4. \A s : s = out.cur => Relayed(s)'
      BY <3>1, <3>2, Places DEF Relayed, Seqs
    <3> QED BY <2>1, <3>3, <3>4, ShownFrame
  <2> QED BY <2>2, <2>3
<1> QED
  BY <1>1, <1>2, <1>3, <1>4, <1>5, <1>6, <1>7, <1>8, <1>9, <1>10
     DEF Next, ThreadToTelegram, TelegramToThread

-----------------------------------------------------------------------------
(* The messages                                                            *)

Taking == poll.pc \in {"relay", "mark"}

(* The offset in memory is behind the one of the poll, and behind its batch.*)
PollInv ==
  /\ poll.pc # "off" /\ mem.offset # None => poll.offset # None /\ mem.offset <= poll.offset
  /\ Taking /\ mem.offset # None => mem.offset <= poll.lo

DealtUpdates == Posted \cup named.updates \cup early.updates
Before(n, all, dealt) == \A u \in all : u < n => u \in dealt
CoveredUpdates(n) == Before(n, Updates, DealtUpdates)

(* What is before each offset, and before the one being relayed, is dealt  *)
(* with.                                                                   *)
CoverUpdatesInv ==
  /\ CoveredUpdates(first)
  /\ mem.offset # None => CoveredUpdates(mem.offset)
  /\ disk.offset # None => CoveredUpdates(disk.offset)
  /\ poll.offset # None => CoveredUpdates(poll.offset)
  /\ Taking => CoveredUpdates(poll.lo)
  /\ poll.pc = "mark" => poll.lo \in DealtUpdates

(* A message in the thread is past, or about to be, or a run was cut.      *)
CutUpdate(u) == u \in doubt.updates \/ unsaved
Confirmed(u) == mem.offset # None /\ u < mem.offset
PostedInv ==
  /\ \A u \in Posted : CutUpdate(u) \/ Confirmed(u) \/ (poll.pc = "mark" /\ poll.lo = u)
  /\ \A u \in Updates : posted[u] > 1 => CutUpdate(u)

LEMMA DealtUpdatesKept ==
  ASSUME TypeOK, [Next]_vars
  PROVE  /\ DealtUpdates \subseteq DealtUpdates'
         /\ \A n \in Int : /\ n <= typed + 1 /\ CoveredUpdates(n)
                           => Before(n, Updates', DealtUpdates')
<1>1. DealtUpdates \subseteq DealtUpdates'
  BY Grow DEF DealtUpdates, Wider
<1>2. typed \in Nat /\ typed' \in Nat /\ typed <= typed'
  BY Grow, TypeStep DEF TypeOK, PhoneOK
<1> QED BY <1>1, <1>2 DEF CoveredUpdates, Before, Updates

(* The offsets are the first update or later ones, or the next to come.    *)
LEMMA Offsets ==
  ASSUME TypeOK
  PROVE  /\ typed \in Nat /\ None \notin Nat
         /\ mem.offset # None => mem.offset \in 1 .. typed + 1
         /\ disk.offset # None => disk.offset \in 1 .. typed + 1
         /\ poll.offset # None => poll.offset \in 1 .. typed + 1
         /\ first \in 1 .. typed + 1 /\ poll.lo \in 1 .. typed + 1 /\ poll.hi \in 0 .. typed
<1>1. /\ mem.offset # None => mem.offset \in 1 .. typed + 1
      /\ disk.offset # None => disk.offset \in 1 .. typed + 1
  BY DEF TypeOK, FileOK, Positions
<1> QED BY <1>1, Numbers, BridgeAssumption

(* What was covered by an offset is so after any step.                     *)
LEMMA OffsetsKept ==
  ASSUME TypeOK, CoverUpdatesInv, [Next]_vars
  PROVE  /\ Before(first, Updates', DealtUpdates')
         /\ mem.offset # None => Before(mem.offset, Updates', DealtUpdates')
         /\ disk.offset # None => Before(disk.offset, Updates', DealtUpdates')
         /\ poll.offset # None => Before(poll.offset, Updates', DealtUpdates')
         /\ Taking => Before(poll.lo, Updates', DealtUpdates')
         /\ poll.pc = "mark" => poll.lo \in DealtUpdates'
<1>1. ASSUME NEW n \in 1 .. typed + 1, CoveredUpdates(n) PROVE Before(n, Updates', DealtUpdates')
  BY <1>1, DealtUpdatesKept, Offsets
<1>2. poll.pc = "mark" => poll.lo \in DealtUpdates'
  BY DealtUpdatesKept DEF CoverUpdatesInv
<1> QED BY <1>1, <1>2, Offsets DEF CoverUpdatesInv

(* The steps of the other thread and of the world.                         *)
LEMMA UpdatesFrame ==
  ASSUME TypeOK, PollInv, CoverUpdatesInv, PostedInv, [Next]_vars,
         UNCHANGED <<poll, first>>, UNCHANGED posted \/ posted' = Append(posted, 0),
         mem'.offset = mem.offset, disk'.offset \in {mem.offset, disk.offset}
  PROVE  PollInv' /\ CoverUpdatesInv' /\ PostedInv'
<1>1. PollInv'
  BY DEF PollInv, Taking
<1>2. CoverUpdatesInv'
  BY OffsetsKept DEF CoverUpdatesInv, CoveredUpdates, Taking
<1>3. \A u \in Updates' : /\ posted'[u] > 0 => u \in Updates
                          /\ u \in Updates => posted'[u] = posted[u]
  <2>1. Len(posted') = typed' /\ Len(posted) = typed /\ posted \in Seq(Nat)
    BY TypeStep DEF TypeOK, PhoneOK
  <2>2. CASE UNCHANGED posted
    BY <2>1, <2>2 DEF Updates
  <2>3. CASE posted' = Append(posted, 0)
    <3>1. /\ Len(posted') = Len(posted) + 1 /\ posted'[Len(posted) + 1] = 0
          /\ \A i \in 1 .. Len(posted) : posted'[i] = posted[i]
      BY <2>1, <2>3, Appended
    <3> QED BY <2>1, <3>1 DEF Updates
  <2> QED BY <2>2, <2>3
<1>4. \A u : CutUpdate(u) => CutUpdate(u)'
  BY Grow DEF CutUpdate, Wider
<1>5. ASSUME NEW u \in Posted'
      PROVE  CutUpdate(u)' \/ Confirmed(u)' \/ (poll'.pc = "mark" /\ poll'.lo = u)
  <2>1. u \in Posted
    BY <1>3, <1>5 DEF Posted
  <2> QED BY <1>4, <2>1 DEF PostedInv, Confirmed
<1>6. ASSUME NEW u \in Updates', posted'[u] > 1 PROVE CutUpdate(u)'
  <2>1. posted'[u] \in Nat
    BY <1>6, TypeStep DEF TypeOK, PhoneOK, Updates
  <2>2. u \in Updates /\ posted[u] > 1
    BY <1>3, <1>6, <2>1
  <2> QED BY <1>4, <2>2 DEF PostedInv
<1> QED BY <1>1, <1>2, <1>5, <1>6 DEF PostedInv

LEMMA UpdatesStep ==
  ASSUME TypeOK, OffInv, PollInv, CoverUpdatesInv, PostedInv, [Next]_vars
  PROVE  PollInv' /\ CoverUpdatesInv' /\ PostedInv'
<1> USE DEF phoneVars, fileVars, childVars, history
<1>0. \A u : CutUpdate(u) => CutUpdate(u)'
  BY Grow DEF CutUpdate, Wider
<1>1. CASE Post \/ Type \/ ChildDies \/ ChildBegins \/ NoBacklog \/ Spawn \/ ChildEnded \/ Taken
           \/ TakenUnheard \/ TryAgain \/ Refused \/ UNCHANGED vars
  <2>1. UNCHANGED <<poll, first, mem, disk>> /\ (UNCHANGED posted \/ posted' = Append(posted, 0))
    BY <1>1 DEF Post, Type, ChildDies, ChildBegins, NoBacklog, Spawn, ChildEnded, Taken,
                TakenUnheard, TryAgain, Refused, vars
  <2> QED BY <2>1, UpdatesFrame
<1>2. CASE SkipStale \/ ReadLine \/ Mark
  <2>1. UNCHANGED <<poll, first, posted>>
    BY <1>2 DEF SkipStale, ReadLine, Mark
  <2>2. UNCHANGED <<mem, disk>> \/ \E v \in Seqs : Set("seq", v)
    <3>1. CASE SkipStale
      <4>1. PICK cutoff \in 0 .. started :
              IF mem.seq + 1 .. cutoff = {} THEN UNCHANGED <<fileVars, deaths>>
              ELSE Set("seq", cutoff)
        BY <3>1 DEF SkipStale
      <4>2. mem.seq # None
        BY <3>1 DEF SkipStale
      <4>3. mem.seq + 1 .. cutoff # {} => cutoff \in Seqs
        BY <4>1, <4>2, Places, Numbers DEF Seqs
      <4> QED BY <4>1, <4>3
    <3>2. CASE ReadLine
      <4>1. child.next \in Seqs
        BY <3>2, Numbers DEF ReadLine, Printed, Seqs
      <4> QED BY <3>2, <4>1 DEF ReadLine
    <3>3. CASE Mark
      <4>1. out.cur # 0 => out.cur \in Seqs
        BY Numbers DEF Seqs
      <4> QED BY <3>3, <4>1 DEF Mark
    <3> QED BY <1>2, <3>1, <3>2, <3>3
  <2>3. mem'.offset = mem.offset /\ disk'.offset \in {mem.offset, disk.offset}
    BY <2>2, SetSeq
  <2> QED BY <2>1, <2>3, UpdatesFrame
<1>3. CASE Start
  <2>1. /\ poll'.pc \in {"first", "poll"} /\ poll'.offset = disk.offset /\ poll'.lo = 1
        /\ mem' = disk /\ disk' = disk /\ mem = disk /\ UNCHANGED <<first, posted, typed>>
        /\ poll.pc # "mark"
    BY <1>3 DEF Start, PollOff, On, OffInv
  <2>2. PollInv'
    BY <2>1, Offsets DEF PollInv, Taking
  <2>3. CoverUpdatesInv'
    BY <2>1, OffsetsKept DEF CoverUpdatesInv, CoveredUpdates, Taking
  <2>4. PostedInv'
    BY <1>0, <2>1 DEF PostedInv, Posted, Updates, Confirmed
  <2> QED BY <2>2, <2>3, <2>4
<1>4. CASE Stop
  <2>1. /\ poll'.pc = "off" /\ poll'.offset = None
        /\ mem' = disk /\ disk' = disk /\ UNCHANGED <<first, posted, typed>>
        /\ unsaved' = (unsaved \/ mem # disk)
    BY <1>4 DEF Stop, PollOff
  <2>2. poll.pc = "mark" /\ poll.lo \in Posted => poll.lo \in doubt'.updates
    BY <1>4 DEF Stop, With
  <2>3. PollInv'
    BY <2>1 DEF PollInv, Taking
  <2>4. CoverUpdatesInv'
    BY <2>1, OffsetsKept DEF CoverUpdatesInv, CoveredUpdates, Taking
  <2>5. PostedInv'
    BY <1>0, <2>1, <2>2 DEF PostedInv, Posted, Updates, Confirmed, CutUpdate
  <2> QED BY <2>3, <2>4, <2>5
<1>5. CASE FirstPoll
  <2>1. UNCHANGED <<mem, disk, posted, typed>> /\ poll.pc = "first" /\ poll'.pc = "poll"
    BY <1>5, Shapes DEF FirstPoll, PollAt
  <2>2. \/ poll'.offset = poll.offset /\ UNCHANGED first
        \/ first' = typed /\ poll'.offset = typed + 1 /\ first .. typed \subseteq early'.updates
    <3>1. \/ poll' = [poll EXCEPT !.pc = "poll"] /\ UNCHANGED first
          \/ /\ poll' = [poll EXCEPT !.pc = "poll", !.offset = typed + 1]
             /\ first' = typed /\ early' = With(early, {}, first .. typed)
      BY <1>5 DEF FirstPoll
    <3>2. poll' = [poll EXCEPT !.pc = "poll"] => poll'.offset = poll.offset
      BY Shapes
    <3>3. poll' = [poll EXCEPT !.pc = "poll", !.offset = typed + 1] => poll'.offset = typed + 1
      BY Shapes
    <3>4. early' = With(early, {}, first .. typed) => first .. typed \subseteq early'.updates
      BY DEF With
    <3> QED BY <3>1, <3>2, <3>3, <3>4
  <2>3. PollInv'
    BY <2>1, <2>2, Offsets DEF PollInv, Taking
  <2>4. first .. typed \subseteq early'.updates =>
          Before(typed, Updates', DealtUpdates') /\ Before(typed + 1, Updates', DealtUpdates')
    BY <2>1, OffsetsKept, Offsets DEF Before, Updates, DealtUpdates
  <2>5. CoverUpdatesInv'
    BY <2>1, <2>2, <2>4, OffsetsKept DEF CoverUpdatesInv, CoveredUpdates, Taking
  <2>6. PostedInv'
    BY <1>0, <2>1 DEF PostedInv, Posted, Updates, Confirmed
  <2> QED BY <2>3, <2>5, <2>6
<1>6. CASE Poll
  <2>1. PICK keep \in 1 .. typed :
          /\ keep = (IF poll.offset = None \/ poll.offset < first THEN first ELSE poll.offset)
          /\ poll' = [pc |-> "relay", offset |-> poll.offset, lo |-> keep, hi |-> typed]
          /\ first' = keep /\ UNCHANGED typed
    BY <1>6, PollReturns
  <2>2. UNCHANGED <<mem, disk, posted>> /\ poll.pc = "poll"
    BY <1>6 DEF Poll, PollAt
  <2>3. Before(keep, Updates', DealtUpdates')
    BY <2>1, OffsetsKept
  <2>4. PollInv'
    BY <2>1, <2>2, Offsets DEF PollInv, Taking
  <2>5. CoverUpdatesInv'
    BY <2>1, <2>2, <2>3, OffsetsKept DEF CoverUpdatesInv, CoveredUpdates, Taking
  <2>6. PostedInv'
    BY <1>0, <2>1, <2>2 DEF PostedInv, Posted, Updates, Confirmed
  <2> QED BY <2>4, <2>5, <2>6
<1>7. CASE Relay
  <2>1. /\ poll.pc = "relay" /\ poll' = [poll EXCEPT !.pc = "mark"]
        /\ UNCHANGED <<mem, disk, typed, first>>
    BY <1>7 DEF Relay, PollAt
  <2>2. poll'.pc = "mark" /\ poll'.lo = poll.lo /\ poll'.offset = poll.offset
    BY <2>1, Shapes
  <2>3. poll.lo \in Updates /\ Len(posted) = typed /\ posted \in Seq(Nat)
    BY <2>1, Offsets DEF TypeOK, PhoneOK, PollOK, Updates
  <2>4. UNCHANGED posted \/ posted' = [posted EXCEPT ![poll.lo] = @ + 1]
    BY <1>7 DEF Relay
  <2>5. poll.lo \in DealtUpdates'
    <3>1. CASE posted' = [posted EXCEPT ![poll.lo] = @ + 1]
      <4>1. posted'[poll.lo] = posted[poll.lo] + 1 /\ posted[poll.lo] \in Nat
        BY <2>3, <3>1 DEF Updates
      <4>2. posted'[poll.lo] > 0
        BY <4>1
      <4> QED BY <2>1, <2>3, <4>2 DEF DealtUpdates, Posted, Updates
    <3>2. CASE named' = With(named, {}, {poll.lo} \ Posted) /\ UNCHANGED posted
      BY <2>1, <3>2 DEF With, DealtUpdates, Posted, Updates
    <3> QED BY <1>7, <3>1, <3>2 DEF Relay
  <2>6. PollInv'
    BY <2>1, <2>2 DEF PollInv, Taking
  <2>7. CoverUpdatesInv'
    BY <2>1, <2>2, <2>5, OffsetsKept DEF CoverUpdatesInv, CoveredUpdates, Taking
  <2>8. poll.lo \in Posted => CutUpdate(poll.lo)
    BY <2>1, Offsets DEF PostedInv, PollInv, Taking, Confirmed
  <2>9. \A u \in Updates : u # poll.lo => posted'[u] = posted[u]
    BY <2>3, <2>4 DEF Updates
  <2>10. posted'[poll.lo] > 1 => poll.lo \in Posted
    <3>1. posted[poll.lo] \in Nat /\ posted'[poll.lo] \in {posted[poll.lo], posted[poll.lo] + 1}
      BY <2>3, <2>4 DEF Updates
    <3> QED BY <2>3, <3>1 DEF Posted
  <2>11. ASSUME NEW u \in Posted'
         PROVE  CutUpdate(u)' \/ Confirmed(u)' \/ (poll'.pc = "mark" /\ poll'.lo = u)
    <3>1. CASE u = poll.lo
      BY <2>2, <3>1
    <3>2. CASE u # poll.lo
      <4>1. u \in Posted
        BY <2>1, <2>9, <2>11, <3>2 DEF Posted, Updates
      <4> QED BY <1>0, <2>1, <4>1 DEF PostedInv, Confirmed
    <3> QED BY <3>1, <3>2
  <2>12. ASSUME NEW u \in Updates', posted'[u] > 1 PROVE CutUpdate(u)'
    <3>1. CASE u = poll.lo
      BY <1>0, <2>8, <2>10, <2>12, <3>1
    <3>2. CASE u # poll.lo
      BY <1>0, <2>1, <2>9, <2>12, <3>2 DEF PostedInv, Updates
    <3> QED BY <3>1, <3>2
  <2> QED BY <2>6, <2>7, <2>11, <2>12 DEF PostedInv
<1>8. CASE MarkUpdate
  <2>1. poll.lo + 1 \in 1 .. typed + 1 /\ poll.pc = "mark"
    BY <1>8, Numbers DEF MarkUpdate, PollAt, TypeOK, PollOK
  <2>2. mem'.offset = poll.lo + 1 /\ disk'.offset \in {mem'.offset, disk.offset}
    BY <1>8, <2>1, SetOffset DEF MarkUpdate
  <2>3. /\ poll'.pc \in {"poll", "relay"} /\ poll'.lo = poll.lo + 1 /\ poll'.offset = poll.lo + 1
        /\ UNCHANGED <<posted, typed, first>>
    BY <1>8, Shapes DEF MarkUpdate
  <2>4. Before(poll.lo + 1, Updates', DealtUpdates')
    BY <2>1, <2>3, OffsetsKept, Offsets DEF Before, Updates, Taking
  <2>5. PollInv'
    BY <2>1, <2>2, <2>3 DEF PollInv, Taking
  <2>6. CoverUpdatesInv'
    BY <2>2, <2>3, <2>4, OffsetsKept DEF CoverUpdatesInv, CoveredUpdates, Taking
  <2>7. \A u \in Posted : Confirmed(u) \/ u = poll.lo => Confirmed(u)'
    BY <2>1, <2>2, Offsets DEF Confirmed, Posted, Updates, PollInv, Taking
  <2>8. PostedInv'
    BY <1>0, <2>3, <2>7 DEF PostedInv, Posted, Updates
  <2> QED BY <2>5, <2>6, <2>8
<1> QED
  BY <1>1, <1>2, <1>3, <1>4, <1>5, <1>6, <1>7, <1>8
     DEF Next, ThreadToTelegram, TelegramToThread

-----------------------------------------------------------------------------
(* How often                                                               *)

(* What the runs before this one may have put on the phone of one record.  *)
Earlier == Retries * (runs - 1)

(* A record that this run has neither relayed nor in hand appeared in      *)
(* earlier runs alone, and the one in hand once more per attempt.          *)
CountInv ==
  /\ runs \in Nat /\ (out.pc # "off" => runs # 0)
  /\ \A s \in Seqs : shown[s] <= Retries * runs
  /\ out.pc # "off" =>
       \A s \in Seqs : Relayed(s) \/ (InHand /\ s = out.cur) \/ shown[s] <= Earlier
  /\ out.pc = "send" /\ out.cur # 0 => shown[out.cur] <= Earlier + out.tries

LEMMA Product ==
  ASSUME NEW r \in Nat, NEW n \in Nat
  PROVE  r * n \in Nat /\ r * n <= r * (n + 1) /\ r * (n + 1) = r * n + r
BY SMT

LEMMA Budget ==
  ASSUME runs \in Nat, runs # 0
  PROVE  Earlier \in Nat /\ Retries * runs = Earlier + Retries
<1>1. Retries \in Nat /\ runs - 1 \in Nat /\ runs = (runs - 1) + 1
  BY BridgeAssumption
<1> QED BY <1>1, Product DEF Earlier

(* A step after which no record is on the phone more often, nor one more   *)
(* that this run has not passed.                                           *)
LEMMA CountFrame ==
  ASSUME TypeOK, [Next]_vars, CountInv, UNCHANGED runs,
         UNCHANGED shown \/ shown' = Append(shown, 0),
         out'.pc # "off" => out.pc # "off",
         \A s \in Seqs : Relayed(s) \/ (InHand /\ s = out.cur)
                         => Relayed(s)' \/ (InHand' /\ s = out'.cur),
         out'.pc = "send" /\ out'.cur # 0
           => out'.cur \in Seqs /\ shown[out'.cur] <= Earlier + out'.tries
  PROVE  CountInv'
<1>1. UNCHANGED Earlier
  BY DEF Earlier
<1>2. \A s \in Seqs' : shown'[s] = 0 \/ (s \in Seqs /\ shown'[s] = shown[s])
  <2>1. Len(log') = Len(shown') /\ Len(log) = Len(shown) /\ shown \in Seq(Nat)
    BY TypeStep DEF TypeOK, LogOK
  <2>2. CASE UNCHANGED shown
    BY <2>1, <2>2 DEF Seqs
  <2>3. CASE shown' = Append(shown, 0)
    <3>1. /\ Len(shown') = Len(shown) + 1 /\ shown'[Len(shown) + 1] = 0
          /\ \A i \in 1 .. Len(shown) : shown'[i] = shown[i]
      BY <2>1, <2>3, Appended
    <3> QED BY <2>1, <3>1 DEF Seqs
  <2> QED BY <2>2, <2>3
<1>3. \A s \in Seqs : s \in Seqs' /\ shown'[s] = shown[s]
  <2>1. Len(log') = Len(shown') /\ Len(log) = Len(shown) /\ shown \in Seq(Nat)
    BY TypeStep DEF TypeOK, LogOK
  <2>2. CASE UNCHANGED shown
    BY <2>1, <2>2 DEF Seqs
  <2>3. CASE shown' = Append(shown, 0)
    <3>1. /\ Len(shown') = Len(shown) + 1 /\ shown'[Len(shown) + 1] = 0
          /\ \A i \in 1 .. Len(shown) : shown'[i] = shown[i]
      BY <2>1, <2>3, Appended
    <3> QED BY <2>1, <3>1 DEF Seqs
  <2> QED BY <2>2, <2>3
<1>4. runs \in Nat /\ 0 <= Retries * runs
  <2>1. Retries \in Nat /\ runs \in Nat
    BY BridgeAssumption DEF CountInv
  <2> QED BY <2>1, Product
<1>5. out'.pc # "off" => runs # 0 /\ 0 <= Earlier
  BY Budget DEF CountInv
<1>6. \A s \in Seqs' : shown'[s] <= Retries * runs'
  BY <1>2, <1>4 DEF CountInv
<1>7. ASSUME out'.pc # "off", NEW s \in Seqs'
      PROVE  Relayed(s)' \/ (InHand' /\ s = out'.cur) \/ shown'[s] <= Earlier'
  <2>1. CASE shown'[s] = 0
    BY <1>1, <1>5, <1>7, <2>1
  <2>2. CASE s \in Seqs /\ shown'[s] = shown[s]
    BY <1>1, <1>7, <2>2 DEF CountInv
  <2> QED BY <1>2, <2>1, <2>2
<1>8. out'.pc = "send" /\ out'.cur # 0 => shown'[out'.cur] <= Earlier' + out'.tries
  BY <1>1, <1>3
<1> QED BY <1>4, <1>5, <1>6, <1>7, <1>8 DEF CountInv

(* The position of a run moves on.                                         *)
LEMMA MovesOn ==
  ASSUME TypeOK, mem'.seq = mem.seq \/ (mem'.seq \in Nat /\ (mem.seq = None \/ mem.seq < mem'.seq))
  PROVE  \A s \in Seqs : Relayed(s) => Relayed(s)'
BY Places, BridgeAssumption DEF Relayed, Seqs

LEMMA CountStep ==
  ASSUME TypeOK, OutInv, OffInv, CountInv, [Next]_vars
  PROVE  CountInv'
<1> USE DEF phoneVars, fileVars, childVars, history
<1>1. CASE \/ Post \/ Type \/ FirstPoll \/ Poll \/ Relay \/ ChildDies \/ ChildBegins
           \/ UNCHANGED vars
  <2>1. UNCHANGED <<out, mem, runs>> /\ (UNCHANGED shown \/ shown' = Append(shown, 0))
    BY <1>1 DEF Post, Type, FirstPoll, Poll, Relay, ChildDies, ChildBegins, vars
  <2>2. out.cur # 0 => out.cur \in Seqs
    BY Places DEF Seqs
  <2> QED BY <2>1, <2>2, CountFrame DEF Relayed, InHand, CountInv
<1>2. CASE MarkUpdate
  <2>1. poll.lo + 1 \in 1 .. typed + 1
    BY <1>2, Numbers DEF MarkUpdate, PollAt, TypeOK, PollOK
  <2>2. mem'.seq = mem.seq /\ UNCHANGED <<out, shown, runs>>
    BY <1>2, <2>1, SetOffset DEF MarkUpdate
  <2>3. out.cur # 0 => out.cur \in Seqs
    BY Places DEF Seqs
  <2> QED BY <2>2, <2>3, CountFrame DEF Relayed, InHand, CountInv
<1>3. CASE Start
  <2>1. runs' = runs + 1 /\ out'.pc = "stale" /\ UNCHANGED <<log, shown>>
    BY <1>3 DEF Start, Off
  <2>2. Seqs' = Seqs /\ Earlier' = Retries * runs /\ runs \in Nat
    BY <2>1 DEF Seqs, Earlier, CountInv
  <2>3. Retries * runs \in Nat /\ Retries * runs' = Retries * runs + Retries /\ Retries \in Nat
    BY <2>1, <2>2, Product, BridgeAssumption
  <2>4. \A s \in Seqs' : shown'[s] <= Earlier' /\ shown'[s] \in Nat
    BY <2>1, <2>2 DEF CountInv, TypeOK, LogOK, Seqs
  <2>5. \A s \in Seqs' : shown'[s] <= Retries * runs'
    BY <2>2, <2>3, <2>4
  <2> QED BY <2>1, <2>2, <2>4, <2>5 DEF CountInv
<1>4. CASE Stop
  <2>1. out'.pc = "off" /\ UNCHANGED <<log, shown, runs>>
    BY <1>4 DEF Stop, Off
  <2> QED BY <2>1 DEF CountInv, Seqs
<1>5. CASE SkipStale
  <2>1. PICK cutoff \in 0 .. started :
          IF mem.seq + 1 .. cutoff = {} THEN UNCHANGED <<fileVars, deaths>>
          ELSE Set("seq", cutoff)
    BY <1>5 DEF SkipStale
  <2>2. mem.seq # None /\ out.pc = "stale" /\ UNCHANGED <<shown, runs>>
    BY <1>5 DEF SkipStale, OutAt
  <2>3. mem'.seq = mem.seq \/ (mem'.seq \in Nat /\ mem.seq < mem'.seq)
    <3>1. CASE mem.seq + 1 .. cutoff = {}
      BY <2>1, <3>1
    <3>2. CASE mem.seq + 1 .. cutoff # {}
      <4>1. cutoff \in Seqs /\ mem.seq < cutoff
        BY <2>1, <2>2, <3>2, Places, Numbers DEF Seqs
      <4> QED BY <2>1, <3>2, <4>1, SetSeq DEF Seqs
    <3> QED BY <3>1, <3>2
  <2>4. out'.pc = "spawn" \/ (out'.pc = "send" /\ out'.cur = 0)
    BY <1>5, Shapes DEF SkipStale, GoOn, Send
  <2> QED BY <2>2, <2>3, <2>4, MovesOn, CountFrame DEF InHand
<1>6. CASE NoBacklog \/ Spawn \/ ChildEnded
  <2>1. out.pc \in {"stale", "spawn", "read"} /\ UNCHANGED <<mem, shown, runs>>
    BY <1>6 DEF NoBacklog, Spawn, ChildEnded, OutAt
  <2>2. out'.pc \in {"spawn", "read"}
    BY <1>6, Shapes DEF NoBacklog, Spawn, ChildEnded, GoOn
  <2> QED BY <2>1, <2>2, CountFrame DEF Relayed, InHand
<1>7. CASE ReadLine
  <2>1. out.pc = "read" /\ child.next \in Seqs /\ UNCHANGED <<shown, runs>>
    BY <1>7, Numbers DEF ReadLine, OutAt, Printed, Seqs
  <2>2. UNCHANGED mem \/ (Set("seq", child.next) /\ ~Relayed(child.next))
    BY <1>7 DEF ReadLine, BeforeFirstRun, Relayed
  <2>3. mem'.seq = mem.seq \/ (mem'.seq \in Nat /\ (mem.seq = None \/ mem.seq < mem'.seq))
    BY <2>1, <2>2, SetSeq, Places DEF Relayed, Seqs
  <2>4. UNCHANGED out \/ (Send(child.next) /\ ~Relayed(child.next))
    BY <1>7 DEF ReadLine
  <2>5. ~InHand /\ out'.pc # "off"
    BY <2>1, <2>4 DEF InHand, Send
  <2>6. out'.pc = "send" => out'.cur = child.next /\ out'.tries = 0 /\ ~Relayed(child.next)
    BY <2>1, <2>4 DEF Send
  <2>7. ~Relayed(child.next) => shown[child.next] <= Earlier
    BY <2>1, <2>5 DEF CountInv
  <2>8. Earlier + 0 = Earlier
    BY <2>1, Budget DEF CountInv
  <2> QED BY <2>1, <2>3, <2>5, <2>6, <2>7, <2>8, MovesOn, CountFrame
<1>8. CASE TryAgain \/ Refused
  <2>1. out.pc = "send" /\ UNCHANGED <<mem, shown, runs>>
    BY <1>8 DEF TryAgain, Refused, OutAt
  <2>2. out'.cur = out.cur /\ (out'.pc = "mark" \/ (out'.pc = "send" /\ out'.tries = out.tries + 1))
    BY <1>8, <2>1, Shapes DEF TryAgain, Refused, GoOn, Again
  <2>3. out.cur # 0 => out.cur \in Seqs /\ shown[out.cur] <= Earlier + out.tries
    BY <2>1, Places DEF CountInv, Seqs
  <2>4. out.cur # 0 => shown[out.cur] <= Earlier + (out.tries + 1)
    <3>1. Earlier \in Nat /\ out.tries \in Nat
      BY <2>1, Budget, Numbers DEF CountInv
    <3>2. out.cur # 0 => shown[out.cur] \in Nat
      BY <2>3 DEF TypeOK, LogOK, Seqs
    <3> QED BY <2>3, <3>1, <3>2
  <2> QED BY <2>1, <2>2, <2>3, <2>4, CountFrame DEF Relayed, InHand
<1>9. CASE Taken \/ TakenUnheard
  <2>1. out.pc = "send" /\ out.tries < Retries /\ UNCHANGED <<mem, log, runs>>
    BY <1>9 DEF Taken, TakenUnheard, OutAt
  <2>2. out'.cur = out.cur /\ (out'.pc = "mark" \/ (out'.pc = "send" /\ out'.tries = out.tries + 1))
    BY <1>9, <2>1, Shapes DEF Taken, TakenUnheard, GoOn, Again
  <2>3. CASE out.cur = 0
    <3>1. UNCHANGED shown
      BY <1>9, <2>3 DEF Taken, TakenUnheard, Appears
    <3> QED BY <2>1, <2>2, <2>3, <3>1, CountFrame DEF Relayed, InHand
  <2>4. CASE out.cur # 0
    <3>1. /\ out.cur \in Seqs /\ Seqs' = Seqs /\ shown[out.cur] \in Nat
          /\ shown' = [shown EXCEPT ![out.cur] = @ + 1] /\ DOMAIN shown = Seqs
      BY <1>9, <2>1, <2>4, Places DEF Taken, TakenUnheard, Appears, TypeOK, LogOK, Seqs
    <3>2. shown'[out.cur] = shown[out.cur] + 1 /\ \A s \in Seqs : s # out.cur => shown'[s] = shown[s]
      BY <3>1
    <3>3. /\ runs \in Nat /\ runs # 0 /\ Earlier' = Earlier
          /\ Earlier \in Nat /\ Retries * runs = Earlier + Retries
          /\ Retries \in Nat /\ out.tries \in Nat
      BY <2>1, Budget, Numbers DEF CountInv, Earlier
    <3>4. shown'[out.cur] <= Earlier + (out.tries + 1) /\ shown'[out.cur] <= Retries * runs
      <4>1. shown[out.cur] <= Earlier + out.tries
        BY <2>1, <2>4 DEF CountInv
      <4> QED BY <2>1, <3>1, <3>2, <3>3, <4>1
    <3>5. \A s \in Seqs : shown'[s] <= Retries * runs
      BY <3>2, <3>4 DEF CountInv
    <3>6. \A s \in Seqs : Relayed(s)' \/ s = out.cur \/ shown'[s] <= Earlier
      BY <2>1, <3>2 DEF CountInv, Relayed
    <3>7. InHand'
      BY <2>2, <2>4 DEF InHand
    <3>8. out'.pc = "send" => shown'[out'.cur] <= Earlier' + out'.tries
      BY <2>2, <3>3, <3>4
    <3> QED BY <2>1, <2>2, <3>1, <3>3, <3>5, <3>6, <3>7, <3>8 DEF CountInv
  <2> QED BY <2>3, <2>4
<1>10. CASE Mark
  <2>1. out.pc = "mark" /\ UNCHANGED <<shown, runs>>
    BY <1>10 DEF Mark, OutAt
  <2>2. out'.pc \in {"spawn", "read"}
    BY <1>10, Shapes DEF Mark, GoOn
  <2>3. CASE out.cur = 0
    <3>1. UNCHANGED mem
      BY <1>10, <2>3 DEF Mark
    <3> QED BY <2>1, <2>2, <2>3, <3>1, CountFrame DEF Relayed, InHand
  <2>4. CASE out.cur # 0
    <3>1. Set("seq", out.cur) /\ out.cur \in Seqs /\ (mem.seq = None \/ mem.seq < out.cur)
      BY <1>10, <2>1, <2>4 DEF Mark, OutInv, InHand, Peers
    <3>2. mem'.seq = out.cur /\ out.cur \in Nat
      BY <3>1, SetSeq DEF Seqs
    <3>3. \A s \in Seqs : Relayed(s) => Relayed(s)'
      BY <3>1, <3>2, MovesOn
    <3>4. \A s : s = out.cur => Relayed(s)'
      BY <3>1, <3>2, Places DEF Relayed, Seqs
    <3> QED BY <2>1, <2>2, <3>3, <3>4, CountFrame
  <2> QED BY <2>3, <2>4
<1> QED
  BY <1>1, <1>2, <1>3, <1>4, <1>5, <1>6, <1>7, <1>8, <1>9, <1>10
     DEF Next, ThreadToTelegram, TelegramToThread

(* A message this run has taken from Telegram and posted, or not.          *)
Passed(u) ==
  \/ Taking /\ u < poll.lo
  \/ poll.pc = "mark" /\ u = poll.lo
  \/ poll.pc = "poll" /\ poll.offset # None /\ u < poll.offset

TurnInv ==
  /\ \A u \in Updates : posted[u] <= runs
  /\ poll.pc # "off" => \A u \in Updates : Passed(u) \/ posted[u] <= runs - 1

(* A step that posts nothing from the phone and passes no message by.      *)
LEMMA TurnFrame ==
  ASSUME TypeOK, OffInv, CountInv, TurnInv, [Next]_vars, UNCHANGED runs,
         UNCHANGED posted \/ posted' = Append(posted, 0),
         poll'.pc # "off" => poll.pc # "off",
         \A u \in Updates : Passed(u) => Passed(u)'
  PROVE  TurnInv'
<1>1. \A u \in Updates' : posted'[u] = 0 \/ (u \in Updates /\ posted'[u] = posted[u])
  <2>1. Len(posted') = typed' /\ Len(posted) = typed /\ posted \in Seq(Nat)
    BY TypeStep DEF TypeOK, PhoneOK
  <2>2. CASE UNCHANGED posted
    BY <2>1, <2>2 DEF Updates
  <2>3. CASE posted' = Append(posted, 0)
    <3>1. /\ Len(posted') = Len(posted) + 1 /\ posted'[Len(posted) + 1] = 0
          /\ \A i \in 1 .. Len(posted) : posted'[i] = posted[i]
      BY <2>1, <2>3, Appended
    <3> QED BY <2>1, <3>1 DEF Updates
  <2> QED BY <2>2, <2>3
<1>2. runs \in Nat /\ (poll.pc # "off" => runs # 0)
  BY DEF CountInv, OffInv
<1>3. \A u \in Updates' : posted'[u] <= runs'
  BY <1>1, <1>2 DEF TurnInv
<1>4. ASSUME poll'.pc # "off", NEW u \in Updates' PROVE Passed(u)' \/ posted'[u] <= runs' - 1
  <2>1. CASE posted'[u] = 0
    BY <1>2, <1>4, <2>1
  <2>2. CASE u \in Updates /\ posted'[u] = posted[u]
    BY <1>4, <2>2 DEF TurnInv
  <2> QED BY <1>1, <2>1, <2>2
<1> QED BY <1>3, <1>4 DEF TurnInv

LEMMA TurnStep ==
  ASSUME TypeOK, OffInv, CountInv, TurnInv, [Next]_vars
  PROVE  TurnInv'
<1> USE DEF phoneVars, fileVars, childVars, history
<1>1. CASE \/ Post \/ Type \/ ChildDies \/ ChildBegins \/ NoBacklog \/ Spawn \/ ChildEnded \/ Taken
           \/ TakenUnheard \/ TryAgain \/ Refused \/ SkipStale \/ ReadLine \/ Mark \/ UNCHANGED vars
  <2>1. UNCHANGED <<poll, runs>> /\ (UNCHANGED posted \/ posted' = Append(posted, 0))
    BY <1>1 DEF Post, Type, ChildDies, ChildBegins, NoBacklog, Spawn, ChildEnded, Taken,
                TakenUnheard, TryAgain, Refused, SkipStale, ReadLine, Mark, vars
  <2> QED BY <2>1, TurnFrame DEF Passed, Taking
<1>2. CASE Start
  <2>1. runs' = runs + 1 /\ UNCHANGED <<typed, posted>>
    BY <1>2 DEF Start
  <2>2. runs \in Nat /\ \A u \in Updates : posted[u] \in Nat /\ posted[u] <= runs
    BY DEF CountInv, TurnInv, TypeOK, PhoneOK, Updates
  <2>3. \A u \in Updates' : posted'[u] <= runs' - 1 /\ posted'[u] <= runs'
    BY <2>1, <2>2 DEF Updates
  <2> QED BY <2>3 DEF TurnInv
<1>3. CASE Stop
  <2>1. poll'.pc = "off" /\ UNCHANGED <<typed, posted, runs>>
    BY <1>3 DEF Stop, PollOff
  <2> QED BY <2>1 DEF TurnInv, Updates
<1>4. CASE FirstPoll
  <2>1. poll.pc = "first" /\ UNCHANGED <<posted, runs>>
    BY <1>4 DEF FirstPoll, PollAt
  <2> QED BY <2>1, TurnFrame DEF Passed, Taking
<1>5. CASE Poll
  <2>1. PICK keep \in 1 .. typed :
          /\ keep = (IF poll.offset = None \/ poll.offset < first THEN first ELSE poll.offset)
          /\ poll' = [pc |-> "relay", offset |-> poll.offset, lo |-> keep, hi |-> typed]
    BY <1>5, PollReturns
  <2>2. poll.pc = "poll" /\ UNCHANGED <<posted, runs>>
    BY <1>5 DEF Poll, PollAt
  <2>3. poll.offset # None => poll.offset <= keep
    BY <2>1, Offsets
  <2>4. \A u \in Updates : Passed(u) => Passed(u)'
    BY <2>1, <2>2, <2>3, Offsets DEF Passed, Taking, Updates
  <2> QED BY <2>2, <2>4, TurnFrame
<1>6. CASE Relay
  <2>1. poll.pc = "relay" /\ poll' = [poll EXCEPT !.pc = "mark"] /\ UNCHANGED <<typed, runs>>
    BY <1>6 DEF Relay, PollAt
  <2>2. poll'.pc = "mark" /\ poll'.lo = poll.lo
    BY <2>1, Shapes
  <2>3. poll.lo \in Updates /\ DOMAIN posted = Updates /\ posted \in Seq(Nat) /\ Updates' = Updates
    BY <2>1, Offsets DEF TypeOK, PhoneOK, PollOK, Updates
  <2>4. UNCHANGED posted \/ posted' = [posted EXCEPT ![poll.lo] = @ + 1]
    BY <1>6 DEF Relay
  <2>5. runs \in Nat /\ \A u \in Updates : posted[u] \in Nat
    BY <2>3 DEF CountInv, TypeOK, PhoneOK, Updates
  <2>6. ~Passed(poll.lo)
    BY <2>1, Offsets DEF Passed, Taking
  <2>7. posted[poll.lo] <= runs - 1
    BY <2>1, <2>3, <2>6 DEF TurnInv
  <2>8. posted'[poll.lo] \in {posted[poll.lo], posted[poll.lo] + 1}
    BY <2>3, <2>4
  <2>9. \A u \in Updates : u # poll.lo => posted'[u] = posted[u]
    BY <2>3, <2>4
  <2>10. posted'[poll.lo] <= runs
    BY <2>3, <2>5, <2>7, <2>8
  <2>11. \A u \in Updates' : posted'[u] <= runs'
    BY <2>1, <2>3, <2>9, <2>10 DEF TurnInv
  <2>12. ASSUME NEW u \in Updates' PROVE Passed(u)' \/ posted'[u] <= runs' - 1
    <3>1. CASE u = poll.lo
      BY <2>2, <3>1 DEF Passed
    <3>2. CASE u # poll.lo
      <4>1. Passed(u) => Passed(u)'
        BY <2>1, <2>2 DEF Passed, Taking
      <4> QED BY <2>1, <2>3, <2>9, <2>12, <3>2, <4>1 DEF TurnInv
    <3> QED BY <3>1, <3>2
  <2> QED BY <2>11, <2>12 DEF TurnInv
<1>7. CASE MarkUpdate
  <2>1. poll.pc = "mark" /\ UNCHANGED <<posted, runs>>
    BY <1>7 DEF MarkUpdate, PollAt
  <2>2. poll'.pc \in {"poll", "relay"} /\ poll'.lo = poll.lo + 1 /\ poll'.offset = poll.lo + 1
    BY <1>7, Shapes DEF MarkUpdate
  <2>3. poll.lo \in Nat /\ poll.lo + 1 # None
    BY Offsets, BridgeAssumption
  <2>4. \A u \in Updates : Passed(u) => Passed(u)'
    BY <2>1, <2>2, <2>3 DEF Passed, Taking, Updates
  <2> QED BY <2>1, <2>4, TurnFrame
<1> QED
  BY <1>1, <1>2, <1>3, <1>4, <1>5, <1>6, <1>7 DEF Next, ThreadToTelegram, TelegramToThread

-----------------------------------------------------------------------------
(* The theorems                                                            *)

BridgeInv ==
  /\ TypeOK
  /\ OffInv /\ OutInv /\ PlaceInv /\ LineInv
  /\ ShownInv /\ CountInv /\ TurnInv
  /\ PollInv /\ CoverUpdatesInv /\ PostedInv

LEMMA BridgeInit == ASSUME Init PROVE BridgeInv
<1>1. TypeOK
  BY TypeInit
<1>2. Seqs = {} /\ Updates = {} /\ out.pc = "off" /\ poll.pc = "off" /\ mem = disk
  BY DEF Init, Seqs, Updates, Off, PollOff
<1>3. mem.seq = None /\ mem.offset = None /\ poll.offset = None
  BY DEF Init, PollOff
<1>4. OffInv /\ OutInv /\ PlaceInv /\ LineInv
  <2>1. ~child.alive /\ ~child.begun
    BY DEF Init, NoChild
  <2> QED BY <1>2, <1>3, <2>1 DEF OffInv, OutInv, PlaceInv, LineInv, InHand
<1>5. ShownInv /\ CountInv /\ TurnInv
  BY <1>2 DEF Init, ShownInv, Shown, CountInv, TurnInv
<1>6. PollInv /\ CoverUpdatesInv /\ PostedInv
  BY <1>2, <1>3 DEF PollInv, CoverUpdatesInv, CoveredUpdates, Before, PostedInv, Posted, Taking
<1> QED BY <1>1, <1>4, <1>5, <1>6 DEF BridgeInv

LEMMA BridgeStep == ASSUME BridgeInv, [Next]_vars PROVE BridgeInv'
<1> USE DEF BridgeInv
<1>1. TypeOK'
  BY TypeStep
<1>2. OffInv' /\ OutInv' /\ PlaceInv' /\ LineInv'
  BY OffStep, RecordsStep
<1>3. ShownInv' /\ CountInv' /\ TurnInv'
  BY ShownStep, CountStep, TurnStep
<1>4. PollInv' /\ CoverUpdatesInv' /\ PostedInv'
  BY UpdatesStep
<1> QED BY <1>1, <1>2, <1>3, <1>4

LEMMA BridgeInvariant == Spec => []BridgeInv
<1>1. Init => BridgeInv
  BY BridgeInit
<1>2. BridgeInv /\ [Next]_vars => BridgeInv'
  BY BridgeStep
<1> QED BY <1>1, <1>2, PTL DEF Spec

(* The state of the bridge is of its types for every number of records,    *)
(* messages, runs and deaths: the positions in memory and in the file are  *)
(* places in the thread and in the updates (_State, both workers).         *)
THEOREM BridgeTypeCorrect == Spec => []TypeOK
<1>1. BridgeInv => TypeOK
  BY DEF BridgeInv
<1> QED BY <1>1, BridgeInvariant, PTL

(* In each run a record appears on the phone at most once per attempt, and *)
(* there are MAX_RETRIES of them, and a message from the phone is posted   *)
(* to the thread at most once: a child that prints the same lines again, a *)
(* lost answer and a file that cannot be written add nothing to that       *)
(* (thread_to_telegram, _send_one, telegram_to_thread, _State.set).        *)
THEOREM OncePerRunEver == Spec => []OncePerRun
<1>1. BridgeInv => OncePerRun
  BY DEF BridgeInv, CountInv, TurnInv, OncePerRun
<1> QED BY <1>1, BridgeInvariant, PTL

(* Neither position passes a record or a message that was not dealt with,  *)
(* for any number of restarts, deaths of the child and failing writes of   *)
(* the file, and any length of a batch and of the child's replay           *)
(* (thread_to_telegram, telegram_to_thread, _State.set).                   *)
THEOREM NothingSkippedEver == Spec => []NothingSkipped
<1>1. ASSUME BridgeInv PROVE NothingSkipped
  <2>1. ASSUME mem.seq # None, NEW s \in Peers, s <= mem.seq, shown[s] = 0
        PROVE  s \in named.records \cup early.records
    <3>1. s \in DealtRecords
      BY <1>1, <2>1 DEF BridgeInv, PlaceInv, Covered, UpTo
    <3>2. s \notin Shown
      BY <2>1 DEF Shown
    <3> QED BY <3>1, <3>2 DEF DealtRecords
  <2>2. ASSUME mem.offset # None, NEW u \in Updates, u < mem.offset, posted[u] = 0
        PROVE  u \in named.updates \cup early.updates
    <3>1. u \in DealtUpdates
      BY <1>1, <2>2 DEF BridgeInv, CoverUpdatesInv, CoveredUpdates, Before
    <3>2. u \notin Posted
      BY <2>2 DEF Posted
    <3> QED BY <3>1, <3>2 DEF DealtUpdates
  <2> QED BY <2>1, <2>2 DEF NothingSkipped
<1> QED BY <1>1, BridgeInvariant, PTL

(* A record is on the phone twice, or a message in the thread twice, only  *)
(* after a lost answer, a run that ended between sending and saving, or a  *)
(* run that ended with a position the file did not have                    *)
(* (thread_to_telegram, telegram_to_thread, _State.set).                   *)
THEOREM RepeatedOnlyIfCutEver == Spec => []RepeatedOnlyIfCut
<1>1. BridgeInv => RepeatedOnlyIfCut
  BY DEF BridgeInv, ShownInv, PostedInv, CutRecord, CutUpdate, RepeatedOnlyIfCut
<1> QED BY <1>1, BridgeInvariant, PTL
=============================================================================
