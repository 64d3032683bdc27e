-------------------------- MODULE DeliveryProofs --------------------------
(***************************************************************************)
(* Proofs about Delivery and the Registry under it, for any number of      *)
(* runs, helpers, senders and keys and any bound on kills.                 *)
(*                                                                         *)
(* The invariant has three layers.  Ground: which sections and jobs there  *)
(* are, whose, and in what order listeners registered.  What follows from  *)
(* that for sockets, names and unread messages, and, unless a section ran  *)
(* without the lock, for the files (Files).  What each message has met on  *)
(* its way (Handing, Addressed, Finding).                                  *)
(*                                                                         *)
(* First comes what each action does to the state, then, for each part of  *)
(* the invariant, that every step keeps it.                                *)
(***************************************************************************)
EXTENDS Delivery, Integers, FiniteSetTheorems, WellFoundedInduction, TLAPS

-----------------------------------------------------------------------------
(* The invariant                                                           *)

(* One section at a time.                                                  *)
Exclusive == \A t \in Threads : Inside(t) => holder = t

(* A pid is one running listener's.                                        *)
PidsDiffer ==
  /\ \A l \in Listeners : life[l] = "new" <=> pid[l] = None
  /\ \A l, m \in Listeners : m < l /\ life[l] # "new" => life[m] # "new"
  /\ \A l, m \in Listeners : l < m /\ Running(l) /\ life[m] # "new" => pid[m] # pid[l]

Begun(l) == began[l] > 0

(* The sections of a listener's own threads ...                            *)
MainSection(l) ==
  LET s == sec[Main(l)] IN
  /\ life[l] \in {"register", "remove"} => s.pc # "out"
  /\ s.pc # "out" =>
       /\ s.op = life[l] /\ s.who = l /\ s.todo \subseteq Copies(l)
       /\ s.pc = "write" => s.todo # {}
       /\ s.pc = "wait" => s.todo = Copies(l)

HandlerSection(l) ==
  LET s == sec[Handler(l)] IN
  s.pc # "out" =>
    /\ s.op = "update" /\ s.who = l /\ s.status = "new-msg"
    /\ s.todo \subseteq Copies(l) /\ Begun(l) /\ life[l] # "register"
    /\ s.pc = "write" => s.todo # {}
    /\ s.pc = "wait" => s.todo = Copies(l)

(* ... and of a helper.                                                    *)
HelperSection(h) ==
  LET s == sec[Main(h)] IN
  /\ sec[Handler(h)].pc = "out"
  /\ s.pc # "out" =>
       /\ s.who \in Listeners /\ Begun(s.who) /\ s.todo \subseteq Copies(s.who)
       /\ s.pc = "write" => s.todo # {}
       /\ \/ s.op = "remove" /\ job[h].pc = "prune" /\ s.who = job[h].cur
          \/ s.op = "update" /\ job[h].pc = "reset" /\ s.status = "idle"

MainSections == \A l \in Listeners : MainSection(l)
HandlerSections == \A l \in Listeners : HandlerSection(l)
HelperSections == \A h \in Helpers : HelperSection(h)

(* A listener begins to register once, and what begins later has a greater *)
(* number.                                                                 *)
InTurn(l) ==
  /\ life[l] \in {"new", "look", "bind"} => ~Begun(l)
  /\ life[l] = "register" => (Begun(l) <=> Inside(Main(l)))
  /\ Up(l) => Begun(l)
  /\ life[l] \in {"bind", "register", "up"} => name[l] # None
  /\ life[l] \in {"new", "look"} => name[l] = None

BeganOnce ==
  /\ \A l \in Listeners : began[l] <= Cardinality({m \in Listeners : Begun(m)})
  /\ \A l, m \in Listeners : Begun(l) /\ began[l] = began[m] => l = m
  /\ \A l \in Listeners : InTurn(l)

(* The one that is registering now began last.                             *)
Latest ==
  \A l, m \in Listeners : life[l] = "register" /\ Inside(Main(l)) => began[m] <= began[l]

EntriesOwn ==
  \A l \in Listeners, path \in Paths :
    json[path].owner = l \/ key[path] = l => path \in Copies(l) /\ Begun(l)

EntriesWritten ==
  \A l \in Listeners, path \in Paths :
    json[path].owner = l /\ life[l] = "register" =>
      Inside(Main(l)) /\ path \notin sec[Main(l)].todo

(* A key without a json file is the one of a registration that is under    *)
(* way, or was cut short and is yet to be removed.                         *)
KeyOwned ==
  \A l \in Listeners, path \in Paths :
    key[path] = l /\ json[path].owner = None =>
      \/ life[l] \in {"closing", "unlink", "dead"}
      \/ life[l] = "register" /\ sec[Main(l)].pc = "write" /\ path = Copy(Main(l))
      \/ life[l] = "remove" /\ path \in sec[Main(l)].todo

Checked ==
  \A t \in Threads :
    sec[t].pc = "write" =>
      /\ sec[t].op = "register" => key[Copy(t)] = sec[t].who
      /\ sec[t].op = "update" => json[Copy(t)].owner = sec[t].who
      /\ sec[t].op = "remove" => json[Copy(t)].owner \in {sec[t].who, None}

Removed ==
  \A l \in Listeners, path \in Paths :
    json[path].owner = l =>
      /\ life[l] # "gone"
      /\ life[l] = "remove" => path \in sec[Main(l)].todo

Present ==
  \A l \in Listeners :
    ~Superseded(l) =>
      \A path \in Copies(l) :
        Up(l) \/ (life[l] = "register" /\ Inside(Main(l)) /\ path \notin sec[Main(l)].todo)
          => json[path].owner = l /\ key[path] = l

Sockets ==
  /\ \A n \in Pids, l \in Listeners :
       sock[n] = l => n = pid[l] /\ life[l] \in {"register", "up", "closing", "unlink", "dead"}
  /\ \A l \in Listeners :
       life[l] \in {"register", "up"} /\ ~late =>
         /\ sock[pid[l]] = l
         /\ (\A m \in Listeners \ {l} : name[m] # name[l]) => link[name[l]] = pid[l]

(* What prune takes for dead is over.                                      *)
Over(l) == life[l] \in {"gone", "dead"}
PruneRight(h) ==
  /\ \A l \in job[h].dead : Over(l) /\ Begun(l)
  /\ job[h].pc \in {"prune", "verify", "unlink"} =>
       job[h].cur \in Listeners /\ Over(job[h].cur) /\ Begun(job[h].cur)
  /\ \A l \in Listeners :
       /\ job[h].copies[l] \subseteq Copies(l)
       /\ job[h].copies[l] # {} => Begun(l)

PrunesTheDead == \A h \in Helpers : PruneRight(h)

NamesKept ==
  \A l, m \in Listeners :
    l \in met[m] =>
      /\ Begun(l) /\ life[l] # "register" /\ l # m
      /\ life[m] \in {"bind", "register", "up"}
      /\ ~unlocked /\ ~Superseded(l) => name[l] # name[m] /\ name[l] # None

WaitRight(h) ==
  /\ job[h].pc \in {"print", "reset"} => \A l \in unread : name[l] # job[h].cur
  /\ sec[Main(h)].pc # "out" /\ sec[Main(h)].op = "update" =>
       name[sec[Main(h)].who] = job[h].cur

UnreadKnown ==
  /\ \A l \in unread : Begun(l) /\ life[l] # "register" /\ name[l] # None
  /\ ~crossed => \A h \in Helpers : WaitRight(h)

StatusKept ==
  \A l \in unread :
    Up(l) /\ ~crossed /\ ~Superseded(l) =>
      \/ json[Own(l)].status = "new-msg"
      \/ sec[Handler(l)].pc # "out" /\ Own(l) \in sec[Handler(l)].todo

(* What holds whether or not a section ran without the lock, what holds    *)
(* unless one did, and the whole of it.                                    *)
Ground ==
  /\ RegTypeOK /\ PidsDiffer /\ MainSections /\ HandlerSections /\ HelperSections
  /\ BeganOnce

Files ==
  /\ Exclusive /\ Latest /\ EntriesWritten /\ KeyOwned /\ Checked /\ Removed /\ Present
  /\ StatusKept

RegInv ==
  /\ Ground /\ EntriesOwn /\ Sockets /\ PrunesTheDead /\ NamesKept /\ UnreadKnown
  /\ ~unlocked => Files

(* A door took it and answered late, or failed late.                       *)
Excused(s) == late2nd[s] \/ unlogged[s]

(* What came of a message so far, by how far it is: as long as it may go   *)
(* out again, it was not handed over, or there is an excuse.               *)
Handing(s) ==
  LET m == mail[s] IN
  /\ m.pc \notin {"audit", "told"} \/ m.conn # None => handed[s] = 0 \/ Excused(s)
  /\ handed[s] > 1 => Excused(s)
  /\ m.pc = "audit" => handed[s] > 0
  /\ m.conn # None => m.pc = "told"

(* The session it is for has registered, under the path it was found at.   *)
Known(l) == l \in Listeners /\ Begun(l)
Addressed(s) ==
  LET m == mail[s] IN
  /\ m.pc \in {"token", "native", "connect"} => Known(m.who)
  /\ m.pc = "told" /\ handed[s] = 0 => Known(m.who)
  /\ m.conn # None => Known(m.who)
  /\ m.pc = "token" => m.path \in Copies(m.who)

(* The token read there is that session's, and so is the socket, or else   *)
(* the session has ended or was taken over.                                *)
Ended(l) == life[l] \notin {"register", "up"} \/ Superseded(l)
Finding(s) ==
  LET m == mail[s] IN
  /\ m.pc = "token" /\ life[m.who] = "register" =>
       Inside(Main(m.who)) /\ m.path \notin sec[Main(m.who)].todo
  /\ m.pc \in {"native", "connect"} => m.token = m.who \/ Ended(m.who)
  /\ m.conn # None => (m.conn = m.who /\ m.token = m.who) \/ Ended(m.who)
  /\ m.pc = "told" /\ handed[s] = 0 /\ m.conn = None => Ended(m.who) \/ dropped[s]

DelInv ==
  /\ RegInv /\ TypeOK
  /\ \A s \in Senders : Handing(s) /\ Addressed(s)
  /\ ~unlocked => \A s \in Senders : Finding(s)

-----------------------------------------------------------------------------
(* Threads and sections                                                    *)

(* A thread is one process's main or handler thread, and one of the two.   *)
LEMMA ThreadFacts ==
  /\ None \notin Threads /\ None \notin Listeners
  /\ \A p \in Procs : Main(p) \in Threads /\ Handler(p) \in Threads
  /\ \A p, q \in Procs : /\ Main(p) # Handler(q)
                         /\ Main(p) = Main(q) => p = q
                         /\ Handler(p) = Handler(q) => p = q
  /\ \A p \in Procs : Main(p)[1] = p /\ Handler(p)[1] = p
  /\ \A t \in Threads : t[1] \in Procs /\ (t = Main(t[1]) \/ t = Handler(t[1]))
  /\ Listeners \subseteq Procs /\ Helpers \subseteq Procs
  /\ \A l \in Listeners : l \notin Helpers
<1>1. \A t \in Threads : t[1] \in Procs /\ (t = Main(t[1]) \/ t = Handler(t[1]))
  BY DEF Threads, Main, Handler
<1>2. None \notin Listeners /\ None \notin Threads
  BY RegistryAssumption DEF RegistryAssumption, Listeners, Threads, Procs
<1>3. QED
  BY <1>1, <1>2, RegistryAssumption
     DEF RegistryAssumption, Threads, Procs, Main, Handler

(* What a step leaves alone of the sections.                               *)
OthersStay(t) == \A u \in Threads : u # t => sec'[u] = sec[u]

(* The section goes on, or stays: the same call, and nothing is added.     *)
GoesOn(t, pcs) ==
  /\ sec'[t].pc \in pcs
  /\ sec'[t].op = sec[t].op /\ sec'[t].who = sec[t].who
  /\ sec'[t].status = sec[t].status
  /\ OthersStay(t)

(* How a section moves: to another place in it, ...                        *)
LEMMA PcMoves ==
  ASSUME RegTypeOK, NEW t \in Threads, NEW pc \in SecPCs,
         sec' = [sec EXCEPT ![t].pc = pc]
  PROVE  GoesOn(t, {pc}) /\ sec'[t].todo = sec[t].todo /\ sec'[t].pc = pc
         /\ sec' \in [Threads -> Sections]
BY DEF RegTypeOK, Sections, GoesOn, OthersStay

(* ... to its next copy, ...                                               *)
LEMMA NextCopyMoves ==
  ASSUME RegTypeOK, NEW t \in Threads, NextCopy(t)
  PROVE  GoesOn(t, {"copy"}) /\ sec'[t].todo = sec[t].todo \ {Copy(t)}
         /\ sec'[t].pc = "copy" /\ sec' \in [Threads -> Sections]
<1>1. sec' = [sec EXCEPT ![t] = [sec[t] EXCEPT !.pc = "copy", !.todo = @ \ {Copy(t)}]]
  BY DEF NextCopy, RegTypeOK, Sections
<1> DEFINE s == [sec[t] EXCEPT !.pc = "copy", !.todo = @ \ {Copy(t)}]
<1>2. /\ s \in Sections
      /\ s.pc = "copy" /\ s.op = sec[t].op /\ s.who = sec[t].who
      /\ s.status = sec[t].status /\ s.todo = sec[t].todo \ {Copy(t)}
  BY DEF RegTypeOK, Sections, SecPCs
<1>3. sec' = [sec EXCEPT ![t] = s]
  BY <1>1
<1> HIDE DEF s
<1>4. QED
  BY <1>2, <1>3 DEF RegTypeOK, GoesOn, OthersStay

(* ... from outside into it, ...                                           *)
LEMMA BeginMoves ==
  ASSUME RegTypeOK, NEW t \in Threads, NEW op \in {"register", "update", "remove"},
         NEW l \in Listeners, NEW paths \in SUBSET Paths, NEW status \in Statuses,
         Begin(t, op, l, paths, status)
  PROVE  /\ sec'[t] = Section(op, l, paths, status)
         /\ sec'[t].pc = "wait" /\ sec'[t].op = op /\ sec'[t].who = l
         /\ sec'[t].todo = paths /\ sec'[t].status = status
         /\ OthersStay(t) /\ sec' \in [Threads -> Sections]
<1>1. Section(op, l, paths, status) \in Sections
  BY DEF Section, Sections, SecPCs
<1>2. QED
  BY <1>1 DEF Begin, RegTypeOK, OthersStay, Section

(* ... and out of it.                                                      *)
LEMMA OutMoves ==
  ASSUME RegTypeOK, NEW t \in Threads, sec' = [sec EXCEPT ![t] = Out]
  PROVE  sec'[t] = Out /\ sec'[t].pc = "out" /\ OthersStay(t)
         /\ sec' \in [Threads -> Sections]
<1>1. Out \in Sections /\ Out.pc = "out"
  BY DEF Out, Sections, SecPCs, Statuses
<1>2. QED
  BY <1>1 DEF RegTypeOK, OthersStay

(* The entry of a listener that has a pid is at paths of the registry.     *)
LEMMA CopiesArePaths ==
  ASSUME RegTypeOK, NEW l \in Listeners, life[l] # "new", PidsDiffer
  PROVE  /\ pid[l] \in Pids /\ Copies(l) \subseteq Paths
         /\ Own(l) \in Copies(l) /\ Own(l) \in Paths /\ Claude(l) \in Paths
<1>1. pid[l] \in Pids
  BY DEF RegTypeOK, PidsDiffer
<1>2. setup[l].key \in Keys \cup {None}
  BY RegistryAssumption DEF RegistryAssumption, RegTypeOK
<1>3. QED
  BY <1>1, <1>2 DEF Copies, Own, Claude, Paths, Pids

(* The copy a section is at is one of those it has left.                   *)
LEMMA CopyIsLeft ==
  ASSUME NEW t \in Threads, sec[t].todo \subseteq Copies(sec[t].who), sec[t].todo # {}
  PROVE  Copy(t) \in sec[t].todo
BY DEF Copy, Copies

-----------------------------------------------------------------------------
(* What each action does to the state                                      *)

(* What no step inside a section changes.                                  *)
Inner(t) ==
  WriteKey(t) \/ WriteJson(t) \/ CheckCopy(t) \/ WriteStatus(t) \/ UnlinkCopy(t)

LEMMA InnerEffect ==
  ASSUME RegTypeOK, NEW t \in Threads, Inner(t)
  PROVE  /\ Inside(t) /\ sec[t].todo # {}
         /\ GoesOn(t, {"copy", "write"}) /\ sec' \in [Threads -> Sections]
         /\ sec'[t].todo \subseteq sec[t].todo
         /\ sec'[t].pc = "write" => sec'[t].todo = sec[t].todo
         /\ UNCHANGED <<sock, link, setup, life, pid, name, halt, met, began, holder,
                        job, unlocked, late, unread, crossed>>
<1>1. Inside(t) /\ sec[t].todo # {}
  BY DEF Inner, WriteKey, WriteJson, CheckCopy, WriteStatus, UnlinkCopy, AtCopy, Inside
<1>2. UNCHANGED <<sock, link, setup, life, pid, name, halt, met, began, holder,
                  job, unlocked, late, unread, crossed>>
  BY DEF Inner, WriteKey, WriteJson, CheckCopy, WriteStatus, UnlinkCopy,
         fileVars, lifeVars, waitVars
<1>3. NextCopy(t) \/ sec' = [sec EXCEPT ![t].pc = "write"]
  BY DEF Inner, WriteKey, WriteJson, CheckCopy, WriteStatus, UnlinkCopy
<1>4. CASE NextCopy(t)
  BY <1>1, <1>2, <1>4, NextCopyMoves DEF GoesOn
<1>5. CASE sec' = [sec EXCEPT ![t].pc = "write"]
  <2>1. "write" \in SecPCs
    BY DEF SecPCs
  <2>2. GoesOn(t, {"write"}) /\ sec'[t].todo = sec[t].todo /\ sec' \in [Threads -> Sections]
    BY <1>5, <2>1, PcMoves
  <2>3. QED
    BY <1>1, <1>2, <2>2 DEF GoesOn
<1>6. QED
  BY <1>3, <1>4, <1>5

Enter(t) == EnterLocked(t) \/ EnterUnlocked(t)

LEMMA EnterEffect ==
  ASSUME RegTypeOK, NEW t \in Threads, Enter(t)
  PROVE  /\ sec[t].pc = "wait" /\ sec'[t].pc = "copy" /\ GoesOn(t, {"copy"})
         /\ sec'[t].todo = sec[t].todo /\ sec' \in [Threads -> Sections]
         /\ \A u \in Threads : u[1] = t[1] => ~Inside(u)
         /\ sec[t].op # "register" => began' = began
         /\ sec[t].op = "register" =>
              began' = [began EXCEPT ![sec[t].who] = 1 + Cardinality({m \in Listeners : Begun(m)})]
         /\ UNCHANGED <<json, key, sock, link, setup, life, pid, name, halt, met,
                        job, late, unread, crossed>>
         /\ \/ holder = None /\ holder' = t /\ unlocked' = unlocked
            \/ unlocked' /\ holder' = holder
<1>1. MayEnter(t)
  BY DEF Enter, EnterLocked, EnterUnlocked
<1>2. "copy" \in SecPCs
  BY DEF SecPCs
<1>3. /\ sec[t].pc = "wait" /\ sec' = [sec EXCEPT ![t].pc = "copy"]
      /\ \A u \in Threads : u[1] = t[1] => ~Inside(u)
  BY <1>1 DEF MayEnter
<1>4. /\ sec'[t].pc = "copy" /\ GoesOn(t, {"copy"})
      /\ sec'[t].todo = sec[t].todo /\ sec' \in [Threads -> Sections]
  BY <1>2, <1>3, PcMoves
<1>5. /\ sec[t].op # "register" => began' = began
      /\ sec[t].op = "register" =>
           began' = [began EXCEPT ![sec[t].who] = 1 + Cardinality({m \in Listeners : Begun(m)})]
  BY <1>1 DEF MayEnter, Begun
<1>6. UNCHANGED <<json, key, sock, link, setup, life, pid, name, halt, met,
                  job, late, unread, crossed>>
  BY <1>1 DEF MayEnter, fileVars, waitVars
<1>7. \/ holder = None /\ holder' = t /\ unlocked' = unlocked
      \/ unlocked' /\ holder' = holder
  BY DEF Enter, EnterLocked, EnterUnlocked
<1>8. QED
  BY <1>3, <1>4, <1>5, <1>6, <1>7

LEMMA LeaveEffect ==
  ASSUME RegTypeOK, NEW t \in Threads, Leave(t)
  PROVE  /\ sec[t].pc = "copy" /\ sec[t].todo = {}
         /\ sec'[t] = Out /\ sec'[t].pc = "out" /\ OthersStay(t)
         /\ sec' \in [Threads -> Sections]
         /\ holder' = IF holder = t THEN None ELSE holder
         /\ \/ t[1] \in Listeners /\ job' = job
            \/ t[1] \in Helpers /\ life' = life
         /\ \/ life' = life /\ (t[1] \in Listeners => sec[t].op \notin {"register", "remove"})
            \/ t[1] \in Listeners /\ sec[t].op = "register" /\ life' = [life EXCEPT ![t[1]] = "up"]
            \/ t[1] \in Listeners /\ sec[t].op = "remove" /\ life' = [life EXCEPT ![t[1]] = "gone"]
         /\ \/ job' = job
            \/ /\ t[1] \in Helpers /\ sec[t].op = "remove"
               /\ job' = [job EXCEPT ![t[1]] = [@ EXCEPT !.pc = "verify"]]
            \/ t[1] \in Helpers /\ sec[t].op # "remove" /\ job' = [job EXCEPT ![t[1]] = Finished]
         /\ UNCHANGED <<json, key, sock, link, setup, pid, name, halt, met, began,
                        unlocked, late, unread, crossed>>
<1>1. sec' = [sec EXCEPT ![t] = Out]
  BY DEF Leave
<1>2. sec'[t] = Out /\ sec'[t].pc = "out" /\ OthersStay(t) /\ sec' \in [Threads -> Sections]
  BY <1>1, OutMoves
<1>3. /\ sec[t].pc = "copy" /\ sec[t].todo = {}
      /\ holder' = IF holder = t THEN None ELSE holder
  BY DEF Leave
<1>4. UNCHANGED <<json, key, sock, link, setup, pid, name, halt, met, began,
                  unlocked, late, unread, crossed>>
  BY DEF Leave, fileVars, waitVars
<1>5. /\ \/ t[1] \in Listeners /\ job' = job
         \/ t[1] \in Helpers /\ life' = life
      /\ \/ life' = life /\ (t[1] \in Listeners => sec[t].op \notin {"register", "remove"})
         \/ t[1] \in Listeners /\ sec[t].op = "register" /\ life' = [life EXCEPT ![t[1]] = "up"]
         \/ t[1] \in Listeners /\ sec[t].op = "remove" /\ life' = [life EXCEPT ![t[1]] = "gone"]
      /\ \/ job' = job
         \/ /\ t[1] \in Helpers /\ sec[t].op = "remove"
            /\ job' = [job EXCEPT ![t[1]] = [@ EXCEPT !.pc = "verify"]]
         \/ t[1] \in Helpers /\ sec[t].op # "remove" /\ job' = [job EXCEPT ![t[1]] = Finished]
  <2>1. CASE t[1] \in Listeners
    <3>1. t[1] \notin Helpers
      BY <2>1, ThreadFacts
    <3>2. /\ job' = job
          /\ life' = CASE sec[t].op = "register" -> [life EXCEPT ![t[1]] = "up"]
                       [] sec[t].op = "remove" -> [life EXCEPT ![t[1]] = "gone"]
                       [] OTHER -> life
      BY <3>1 DEF Leave
    <3>3. \/ life' = life /\ (t[1] \in Listeners => sec[t].op \notin {"register", "remove"})
          \/ t[1] \in Listeners /\ sec[t].op = "register" /\ life' = [life EXCEPT ![t[1]] = "up"]
          \/ t[1] \in Listeners /\ sec[t].op = "remove" /\ life' = [life EXCEPT ![t[1]] = "gone"]
      BY <2>1, <3>2
    <3>4. QED
      BY <2>1, <3>2, <3>3
  <2>2. CASE t[1] \notin Listeners
    <3>1. /\ t[1] \in Helpers /\ life' = life
          /\ job' = [job EXCEPT ![t[1]] =
                       IF sec[t].op = "remove" THEN [@ EXCEPT !.pc = "verify"] ELSE Finished]
      BY <2>2 DEF Leave
    <3>2. CASE sec[t].op = "remove"
      BY <2>2, <3>1, <3>2
    <3>3. CASE sec[t].op # "remove"
      BY <2>2, <3>1, <3>3
    <3>4. QED
      BY <3>2, <3>3
  <2>3. QED
    BY <2>1, <2>2
<1>6. QED
  BY <1>2, <1>3, <1>4, <1>5

OthersLive(l) == \A m \in Listeners : m # l => life'[m] = life[m]

LEMMA LifeMoves ==
  ASSUME RegTypeOK, NEW l \in Listeners, NEW to \in LifePCs,
         life' = [life EXCEPT ![l] = to]
  PROVE  life'[l] = to /\ OthersLive(l) /\ life' \in [Listeners -> LifePCs]
BY DEF RegTypeOK, OthersLive

LEMMA StartEffect ==
  ASSUME RegTypeOK, NEW l \in Listeners, Start(l)
  PROVE  /\ life[l] = "new" /\ life'[l] = "look" /\ OthersLive(l)
         /\ life' \in [Listeners -> LifePCs]
         /\ \A m \in Listeners : m < l => life[m] # "new"
         /\ \E n \in {l} \cup {pid[m] : m \in 1 .. l - 1} :
              ~PidAlive(n) /\ pid' = [pid EXCEPT ![l] = n]
         /\ UNCHANGED <<json, key, sock, link, setup, holder, name, sec, halt, job,
                        met, began, unlocked, late, unread, crossed>>
<1>1. life[l] = "new" /\ life' = [life EXCEPT ![l] = "look"]
  BY DEF Start, At
<1>2. life'[l] = "look" /\ OthersLive(l) /\ life' \in [Listeners -> LifePCs]
  BY <1>1, LifeMoves DEF LifePCs
<1>3. QED
  BY <1>1, <1>2 DEF Start, fileVars, waitVars

LEMMA LookEffect ==
  ASSUME RegTypeOK, NEW l \in Listeners, Look(l)
  PROVE  /\ life[l] = "look" /\ life'[l] = "bind" /\ OthersLive(l)
         /\ life' \in [Listeners -> LifePCs]
         /\ name' = [name EXCEPT ![l] = FreeName(l)]
         /\ met' = [met EXCEPT ![l] = UpNow]
         /\ UNCHANGED <<json, key, sock, link, setup, holder, pid, sec, halt, job,
                        began, unlocked, late, unread, crossed>>
<1>1. life[l] = "look" /\ life' = [life EXCEPT ![l] = "bind"]
  BY DEF Look, At
<1>2. life'[l] = "bind" /\ OthersLive(l) /\ life' \in [Listeners -> LifePCs]
  BY <1>1, LifeMoves DEF LifePCs
<1>3. QED
  BY <1>1, <1>2 DEF Look, fileVars, waitVars

LEMMA RefuseEffect ==
  ASSUME RegTypeOK, NEW l \in Listeners, Refuse(l)
  PROVE  /\ life[l] = "look" /\ life'[l] = "closing" /\ OthersLive(l)
         /\ life' \in [Listeners -> LifePCs]
         /\ UNCHANGED <<json, key, sock, link, setup, holder, pid, name, sec, halt, job,
                        met, began, unlocked, late, unread, crossed>>
<1>1. life[l] = "look" /\ life' = [life EXCEPT ![l] = "closing"]
  BY DEF Refuse, At
<1>2. life'[l] = "closing" /\ OthersLive(l) /\ life' \in [Listeners -> LifePCs]
  BY <1>1, LifeMoves DEF LifePCs
<1>3. QED
  BY <1>1, <1>2 DEF Refuse, fileVars, waitVars

LEMMA BindEffect ==
  ASSUME RegTypeOK, PidsDiffer, NEW l \in Listeners, Bind(l)
  PROVE  /\ life[l] = "bind" /\ life'[l] = "register" /\ OthersLive(l)
         /\ life' \in [Listeners -> LifePCs]
         /\ sock' = [sock EXCEPT ![pid[l]] = l]
         /\ link' = [link EXCEPT ![name[l]] = pid[l]]
         /\ sec'[Main(l)].pc = "wait" /\ sec'[Main(l)].op = "register"
         /\ sec'[Main(l)].who = l /\ sec'[Main(l)].todo = Copies(l)
         /\ OthersStay(Main(l)) /\ sec' \in [Threads -> Sections]
         /\ UNCHANGED <<json, key, setup, holder, pid, name, halt, job,
                        met, began, unlocked, late, unread, crossed>>
<1>1. life[l] = "bind" /\ life' = [life EXCEPT ![l] = "register"]
  BY DEF Bind, At
<1>2. life'[l] = "register" /\ OthersLive(l) /\ life' \in [Listeners -> LifePCs]
  BY <1>1, LifeMoves DEF LifePCs
<1>3. Copies(l) \in SUBSET Paths /\ Main(l) \in Threads /\ "idle" \in Statuses
  BY <1>1, CopiesArePaths, ThreadFacts DEF Statuses
<1>4. Begin(Main(l), "register", l, Copies(l), "idle")
  BY DEF Bind
<1>5. /\ sec'[Main(l)].pc = "wait" /\ sec'[Main(l)].op = "register"
      /\ sec'[Main(l)].who = l /\ sec'[Main(l)].todo = Copies(l)
      /\ OthersStay(Main(l)) /\ sec' \in [Threads -> Sections]
  BY <1>3, <1>4, BeginMoves
<1>6. QED
  BY <1>1, <1>2, <1>5 DEF Bind, waitVars

LEMMA NoticeEffect ==
  ASSUME RegTypeOK, PidsDiffer, NEW l \in Listeners, Notice(l)
  PROVE  /\ life[l] = "up" /\ sec[Handler(l)].pc = "out"
         /\ sec'[Handler(l)].pc = "wait" /\ sec'[Handler(l)].op = "update"
         /\ sec'[Handler(l)].who = l /\ sec'[Handler(l)].todo = Copies(l)
         /\ sec'[Handler(l)].status = "new-msg"
         /\ OthersStay(Handler(l)) /\ sec' \in [Threads -> Sections]
         /\ unread' = unread \cup {l}
         /\ crossed' = (crossed \/ \E h \in Helpers : job[h].pc \in {"print", "reset"})
         /\ UNCHANGED <<json, key, sock, link, setup, life, pid, name, halt, met, began,
                        holder, job, unlocked, late>>
<1>1. life[l] = "up"
  BY DEF Notice, Up
<1>3. Copies(l) \in SUBSET Paths /\ Handler(l) \in Threads /\ "new-msg" \in Statuses
  BY <1>1, CopiesArePaths, ThreadFacts DEF Statuses
<1>4. Begin(Handler(l), "update", l, Copies(l), "new-msg")
  BY DEF Notice
<1>5. /\ sec'[Handler(l)].pc = "wait" /\ sec'[Handler(l)].op = "update"
      /\ sec'[Handler(l)].who = l /\ sec'[Handler(l)].todo = Copies(l)
      /\ sec'[Handler(l)].status = "new-msg"
      /\ OthersStay(Handler(l)) /\ sec' \in [Threads -> Sections]
  BY <1>3, <1>4, BeginMoves
<1>6. QED
  BY <1>1, <1>5 DEF Notice, fileVars, lifeVars

LEMMA StopEffect ==
  ASSUME RegTypeOK, NEW l \in Listeners, Stop(l)
  PROVE  /\ life[l] \in Starting \cup {"up"} /\ life'[l] = "closing" /\ OthersLive(l)
         /\ life' \in [Listeners -> LifePCs]
         /\ sec'[Main(l)] = Out /\ sec'[Main(l)].pc = "out" /\ OthersStay(Main(l))
         /\ sec' \in [Threads -> Sections]
         /\ met' = [met EXCEPT ![l] = {}]
         /\ halt' = [halt EXCEPT ![l].nested = (sec[Main(l)].pc # "out")]
         /\ UNCHANGED <<json, key, sock, link, setup, holder, pid, name, job,
                        began, unlocked, late, unread, crossed>>
<1>1. life[l] \in Starting \cup {"up"} /\ life' = [life EXCEPT ![l] = "closing"]
  BY DEF Stop
<1>2. life'[l] = "closing" /\ OthersLive(l) /\ life' \in [Listeners -> LifePCs]
  BY <1>1, LifeMoves DEF LifePCs
<1>3. Main(l) \in Threads /\ sec' = [sec EXCEPT ![Main(l)] = Out]
  BY ThreadFacts DEF Stop
<1>4. /\ sec'[Main(l)] = Out /\ sec'[Main(l)].pc = "out" /\ OthersStay(Main(l))
      /\ sec' \in [Threads -> Sections]
  BY <1>3, OutMoves
<1>5. QED
  BY <1>1, <1>2, <1>4 DEF Stop, fileVars, waitVars

LEMMA ReadLinkEffect ==
  ASSUME RegTypeOK, NEW l \in Listeners, ReadLink(l)
  PROVE  /\ life[l] = "closing" /\ life'[l] = "unlink" /\ OthersLive(l)
         /\ life' \in [Listeners -> LifePCs]
         /\ halt' = [halt EXCEPT ![l].ours = (link[Called(l)] = pid[l])]
         /\ UNCHANGED <<json, key, sock, link, setup, holder, pid, name, sec, job,
                        met, began, unlocked, late, unread, crossed>>
<1>1. life[l] = "closing" /\ life' = [life EXCEPT ![l] = "unlink"]
  BY DEF ReadLink, At
<1>2. life'[l] = "unlink" /\ OthersLive(l) /\ life' \in [Listeners -> LifePCs]
  BY <1>1, LifeMoves DEF LifePCs
<1>3. QED
  BY <1>1, <1>2 DEF ReadLink, fileVars, waitVars

LEMMA UnlinkSocketEffect ==
  ASSUME RegTypeOK, PidsDiffer, NEW l \in Listeners, UnlinkSocket(l)
  PROVE  /\ life[l] = "unlink" /\ life'[l] = "remove" /\ OthersLive(l)
         /\ life' \in [Listeners -> LifePCs]
         /\ sock' = [sock EXCEPT ![pid[l]] = None]
         /\ link' = IF halt[l].ours THEN [link EXCEPT ![Called(l)] = None] ELSE link
         /\ late' = (late \/ (halt[l].ours /\ link[Called(l)] \notin {pid[l], None}))
         /\ sec'[Main(l)].pc = IF halt[l].nested THEN "copy" ELSE "wait"
         /\ sec'[Main(l)].op = "remove"
         /\ sec'[Main(l)].who = l /\ sec'[Main(l)].todo = Copies(l)
         /\ OthersStay(Main(l)) /\ sec' \in [Threads -> Sections]
         /\ unlocked' = (unlocked \/ (halt[l].nested /\ holder # Main(l)))
         /\ halt' = [halt EXCEPT ![l] = Whole]
         /\ UNCHANGED <<json, key, setup, holder, pid, name, job,
                        met, began, unread, crossed>>
<1>1. life[l] = "unlink" /\ life' = [life EXCEPT ![l] = "remove"]
  BY DEF UnlinkSocket, At
<1>2. life'[l] = "remove" /\ OthersLive(l) /\ life' \in [Listeners -> LifePCs]
  BY <1>1, LifeMoves DEF LifePCs
<1>3. Copies(l) \in SUBSET Paths /\ Main(l) \in Threads /\ "idle" \in Statuses
  BY <1>1, CopiesArePaths, ThreadFacts DEF Statuses
<1> DEFINE pc == IF halt[l].nested THEN "copy" ELSE "wait"
           s == [Section("remove", l, Copies(l), "idle") EXCEPT !.pc = pc]
<1>4. s \in Sections /\ s.pc = pc /\ s.op = "remove" /\ s.who = l /\ s.todo = Copies(l)
  BY <1>3 DEF Section, Sections, SecPCs
<1>5. sec' = [sec EXCEPT ![Main(l)] = s]
  BY DEF UnlinkSocket
<1>6. /\ sec'[Main(l)] = s /\ OthersStay(Main(l)) /\ sec' \in [Threads -> Sections]
  <2> HIDE DEF s
  <2>1. QED
    BY <1>3, <1>4, <1>5 DEF RegTypeOK, OthersStay
<1>7. /\ sec'[Main(l)].pc = pc /\ sec'[Main(l)].op = "remove"
      /\ sec'[Main(l)].who = l /\ sec'[Main(l)].todo = Copies(l)
  <2> HIDE DEF s
  <2>1. QED
    BY <1>4, <1>6
<1>8. /\ sock' = [sock EXCEPT ![pid[l]] = None]
      /\ link' = IF halt[l].ours THEN [link EXCEPT ![Called(l)] = None] ELSE link
      /\ late' = (late \/ (halt[l].ours /\ link[Called(l)] \notin {pid[l], None}))
      /\ unlocked' = (unlocked \/ (halt[l].nested /\ holder # Main(l)))
      /\ halt' = [halt EXCEPT ![l] = Whole]
      /\ UNCHANGED <<json, key, setup, holder, pid, name, job,
                     met, began, unread, crossed>>
  BY DEF UnlinkSocket, Unlinked, waitVars
<1>9. QED
  BY <1>1, <1>2, <1>6, <1>7, <1>8

LEMMA CrashEffect ==
  ASSUME RegTypeOK, NEW l \in Listeners, Crash(l)
  PROVE  /\ Running(l) /\ life'[l] = "dead" /\ OthersLive(l)
         /\ life' \in [Listeners -> LifePCs]
         /\ sec'[Main(l)].pc = "out" /\ sec'[Handler(l)].pc = "out"
         /\ \A u \in Threads : u \notin {Main(l), Handler(l)} => sec'[u] = sec[u]
         /\ sec' \in [Threads -> Sections]
         /\ holder' = Released(l)
         /\ met' = [met EXCEPT ![l] = {}]
         /\ halt' = [halt EXCEPT ![l] = Whole]
         /\ UNCHANGED <<json, key, sock, link, setup, pid, name, job,
                        began, unlocked, late, unread, crossed>>
<1>1. Running(l) /\ life' = [life EXCEPT ![l] = "dead"]
  BY DEF Crash
<1>2. life'[l] = "dead" /\ OthersLive(l) /\ life' \in [Listeners -> LifePCs]
  BY <1>1, LifeMoves DEF LifePCs
<1>3. Main(l) \in Threads /\ Handler(l) \in Threads /\ Main(l) # Handler(l)
  BY ThreadFacts
<1>4. Out \in Sections /\ Out.pc = "out"
  BY DEF Out, Sections, SecPCs, Statuses
<1>5. sec' = [sec EXCEPT ![Main(l)] = Out, ![Handler(l)] = Out]
  BY DEF Crash
<1>6. /\ sec'[Main(l)].pc = "out" /\ sec'[Handler(l)].pc = "out"
      /\ \A u \in Threads : u \notin {Main(l), Handler(l)} => sec'[u] = sec[u]
      /\ sec' \in [Threads -> Sections]
  BY <1>3, <1>4, <1>5 DEF RegTypeOK
<1>7. QED
  BY <1>1, <1>2, <1>6 DEF Crash, fileVars, waitVars

OthersWork(h) == \A g \in Helpers : g # h => job'[g] = job[g]

(* A helper's job before it begins and after it ends.                      *)
LEMMA NoJobs ==
  /\ NoJob \in Jobs /\ NoJob.pc = "idle" /\ NoJob.dead = {} /\ NoJob.cur = None
  /\ NoJob.copies = [l \in Listeners |-> {}]
  /\ Finished \in Jobs /\ Finished.pc = "done" /\ Finished.dead = {} /\ Finished.cur = None
  /\ Finished.copies = [l \in Listeners |-> {}]
BY DEF NoJob, Finished, Jobs, JobPCs

LEMMA JobMoves ==
  ASSUME RegTypeOK, NEW h \in Helpers, NEW j \in Jobs, job' = [job EXCEPT ![h] = j]
  PROVE  job'[h] = j /\ OthersWork(h) /\ job' \in [Helpers -> Jobs]
BY DEF RegTypeOK, OthersWork

LEMMA PruneLookEffect ==
  ASSUME RegTypeOK, NEW h \in Helpers, PruneLook(h)
  PROVE  /\ job[h].pc = "idle" /\ job'[h].pc = "judge"
         /\ job'[h].dead = Sessions \ LiveSessions
         /\ job'[h].copies = [l \in Listeners |-> Listed(l)]
         /\ OthersWork(h) /\ job' \in [Helpers -> Jobs]
         /\ UNCHANGED <<json, key, sock, link, setup, life, pid, name, halt, met, began,
                        holder, sec, unlocked, late, unread, crossed>>
<1> DEFINE j == [NoJob EXCEPT !.pc = "judge", !.dead = Sessions \ LiveSessions,
                              !.copies = [l \in Listeners |-> Listed(l)]]
<1>1. /\ j.pc = "judge" /\ j.dead = Sessions \ LiveSessions
      /\ j.copies = [l \in Listeners |-> Listed(l)]
  BY DEF NoJob
<1>2. (Sessions \ LiveSessions) \in SUBSET Listeners
  BY DEF Sessions
<1>3. [l \in Listeners |-> Listed(l)] \in [Listeners -> SUBSET Paths]
  BY DEF Listed
<1>4. j \in Jobs
  BY <1>2, <1>3 DEF NoJob, Jobs, JobPCs
<1>5. job[h].pc = "idle" /\ job' = [job EXCEPT ![h] = j]
  BY DEF PruneLook, JobAt
<1>6. job'[h] = j /\ OthersWork(h) /\ job' \in [Helpers -> Jobs]
  <2> HIDE DEF j
  <2>1. QED
    BY <1>4, <1>5, JobMoves
<1>7. UNCHANGED <<json, key, sock, link, setup, life, pid, name, halt, met, began,
                  holder, sec, unlocked, late, unread, crossed>>
  BY DEF PruneLook, fileVars, lifeVars, waitVars
<1>8. QED
  BY <1>1, <1>5, <1>6, <1>7

LEMMA PruneJudgeEffect ==
  ASSUME RegTypeOK, NEW h \in Helpers, PruneJudge(h)
  PROVE  \E l \in job[h].dead :
         /\ job[h].pc = "judge" /\ job'[h].pc = "prune" /\ job'[h].cur = l
         /\ job'[h].dead = job[h].dead \ {l} /\ job'[h].copies = job[h].copies
         /\ OthersWork(h) /\ job' \in [Helpers -> Jobs]
         /\ sec'[Main(h)].pc = "wait" /\ sec'[Main(h)].op = "remove"
         /\ sec'[Main(h)].who = l /\ sec'[Main(h)].todo = job[h].copies[l]
         /\ OthersStay(Main(h)) /\ sec' \in [Threads -> Sections]
         /\ UNCHANGED <<json, key, sock, link, setup, life, pid, name, halt, met, began,
                        holder, unlocked, late, unread, crossed>>
<1>1. PICK l \in job[h].dead :
        /\ JobAt(h, "judge",
             [job[h] EXCEPT !.pc = "prune", !.cur = l, !.dead = @ \ {l},
                !.taken = \E path \in job[h].copies[l] : json[path].owner \notin {l, None}])
        /\ Begin(Main(h), "remove", l, job[h].copies[l], "idle")
        /\ UNCHANGED <<fileVars, lifeVars, holder, unlocked, late, waitVars>>
  BY DEF PruneJudge
<1> DEFINE taken == \E path \in job[h].copies[l] : json[path].owner \notin {l, None}
           j == [job[h] EXCEPT !.pc = "prune", !.cur = l, !.dead = @ \ {l}, !.taken = taken]
<1>2. l \in Listeners /\ job[h] \in Jobs /\ job[h].copies[l] \in SUBSET Paths
  BY DEF RegTypeOK, Jobs
<1>3. taken \in BOOLEAN
  BY Zenon
<1>4. /\ j \in Jobs /\ j.pc = "prune" /\ j.cur = l /\ j.dead = job[h].dead \ {l}
      /\ j.copies = job[h].copies
  <2> HIDE DEF taken
  <2>1. QED
    BY <1>2, <1>3 DEF Jobs, JobPCs
<1>5. job[h].pc = "judge" /\ job' = [job EXCEPT ![h] = j]
  BY <1>1 DEF JobAt
<1>6. job'[h] = j /\ OthersWork(h) /\ job' \in [Helpers -> Jobs]
  <2> HIDE DEF j
  <2>1. QED
    BY <1>4, <1>5, JobMoves
<1>7. Main(h) \in Threads /\ "idle" \in Statuses
  BY ThreadFacts DEF Statuses
<1>8. /\ sec'[Main(h)].pc = "wait" /\ sec'[Main(h)].op = "remove"
      /\ sec'[Main(h)].who = l /\ sec'[Main(h)].todo = job[h].copies[l]
      /\ OthersStay(Main(h)) /\ sec' \in [Threads -> Sections]
  BY <1>1, <1>2, <1>7, BeginMoves
<1>9. UNCHANGED <<json, key, sock, link, setup, life, pid, name, halt, met, began,
                  holder, unlocked, late, unread, crossed>>
  BY <1>1 DEF fileVars, lifeVars, waitVars
<1> HIDE DEF j
<1>10. QED
  BY <1>4, <1>5, <1>6, <1>8, <1>9

(* After one session prune goes on with the rest, or is done.              *)
LEMMA PruneGoesOn ==
  ASSUME RegTypeOK, NEW h \in Helpers
  PROVE  /\ PruneNext(h) \in Jobs /\ PruneNext(h).pc \in {"done", "judge"}
         /\ PruneNext(h).dead \subseteq job[h].dead
         /\ \/ PruneNext(h).copies = job[h].copies
            \/ PruneNext(h).copies = [l \in Listeners |-> {}]
<1>1. job[h] \in Jobs
  BY DEF RegTypeOK
<1>2. CASE job[h].dead = {}
  BY <1>2, NoJobs DEF PruneNext
<1>3. CASE job[h].dead # {}
  BY <1>1, <1>3 DEF PruneNext, Jobs, JobPCs
<1>4. QED
  BY <1>2, <1>3

LEMMA PruneVerifyEffect ==
  ASSUME RegTypeOK, NEW h \in Helpers, PruneVerify(h)
  PROVE  /\ job[h].pc = "verify"
         /\ \/ job'[h] = PruneNext(h)
            \/ /\ job'[h].pc = "unlink" /\ job'[h].cur = job[h].cur
               /\ job'[h].dead = job[h].dead /\ job'[h].copies = job[h].copies
         /\ OthersWork(h) /\ job' \in [Helpers -> Jobs]
         /\ UNCHANGED <<json, key, sock, link, setup, life, pid, name, halt, met, began,
                        holder, sec, unlocked, late, unread, crossed>>
<1> DEFINE l == job[h].cur
           ours == (link[name[l]] = pid[l])
           stops == job[h].taken \/ PidAlive(pid[l])
           j == [job[h] EXCEPT !.pc = "unlink", !.ours = ours]
<1>1. job[h] \in Jobs /\ PruneNext(h) \in Jobs
  BY PruneGoesOn DEF RegTypeOK
<1>2. ours \in BOOLEAN
  BY Zenon
<1>3. /\ j \in Jobs /\ j.pc = "unlink" /\ j.cur = l
      /\ j.dead = job[h].dead /\ j.copies = job[h].copies
  <2> HIDE DEF ours
  <2>1. QED
    BY <1>1, <1>2 DEF Jobs, JobPCs
<1>4. job[h].pc = "verify" /\ job' = [job EXCEPT ![h] = IF stops THEN PruneNext(h) ELSE j]
  BY DEF PruneVerify, JobAt
<1>5. PICK next \in {PruneNext(h), j} : job' = [job EXCEPT ![h] = next]
  <2> HIDE DEF stops, j
  <2>1. QED
    BY <1>4
<1>6. job'[h] = next /\ OthersWork(h) /\ job' \in [Helpers -> Jobs]
  <2> HIDE DEF j
  <2>1. QED
    BY <1>1, <1>3, <1>5, JobMoves
<1>7. UNCHANGED <<json, key, sock, link, setup, life, pid, name, halt, met, began,
                  holder, sec, unlocked, late, unread, crossed>>
  BY DEF PruneVerify, fileVars, lifeVars, waitVars
<1> HIDE DEF j
<1>8. QED
  BY <1>3, <1>4, <1>5, <1>6, <1>7

LEMMA PruneUnlinkEffect ==
  ASSUME RegTypeOK, NEW h \in Helpers, PruneUnlink(h)
  PROVE  /\ job[h].pc = "unlink" /\ job'[h] = PruneNext(h)
         /\ OthersWork(h) /\ job' \in [Helpers -> Jobs]
         /\ sock' = [sock EXCEPT ![pid[job[h].cur]] = None]
         /\ link' = IF job[h].ours THEN [link EXCEPT ![name[job[h].cur]] = None] ELSE link
         /\ late' = (late \/ sock[pid[job[h].cur]] \notin {job[h].cur, None}
                          \/ (job[h].ours /\ link[name[job[h].cur]] \notin {pid[job[h].cur], None}))
         /\ UNCHANGED <<json, key, setup, life, pid, name, halt, met, began,
                        holder, sec, unlocked, unread, crossed>>
<1>1. job[h].pc = "unlink" /\ job' = [job EXCEPT ![h] = PruneNext(h)]
  BY DEF PruneUnlink, JobAt
<1>2. PruneNext(h) \in Jobs
  BY PruneGoesOn
<1>3. job'[h] = PruneNext(h) /\ OthersWork(h) /\ job' \in [Helpers -> Jobs]
  BY <1>1, <1>2, JobMoves
<1>4. QED
  BY <1>1, <1>3 DEF PruneUnlink, Unlinked, lifeVars, waitVars

LEMMA WaitReturnsEffect ==
  ASSUME RegTypeOK, NEW h \in Helpers, NEW n \in Names, WaitReturns(h, n)
  PROVE  /\ job[h].pc = "idle" /\ job'[h].pc = "print" /\ job'[h].cur = n
         /\ job'[h].dead = {} /\ job'[h].copies = [l \in Listeners |-> {}]
         /\ OthersWork(h) /\ job' \in [Helpers -> Jobs]
         /\ unread' = {l \in unread : name[l] # n}
         /\ UNCHANGED <<json, key, sock, link, setup, life, pid, name, halt, met, began,
                        holder, sec, unlocked, late, crossed>>
<1> DEFINE j == [NoJob EXCEPT !.pc = "print", !.cur = n]
<1>1. /\ j \in Jobs /\ j.pc = "print" /\ j.cur = n
      /\ j.dead = {} /\ j.copies = [l \in Listeners |-> {}]
  BY DEF NoJob, Jobs, JobPCs, Names
<1>2. job[h].pc = "idle" /\ job' = [job EXCEPT ![h] = j]
  BY DEF WaitReturns, JobAt
<1>3. job'[h] = j /\ OthersWork(h) /\ job' \in [Helpers -> Jobs]
  <2> HIDE DEF j
  <2>1. QED
    BY <1>1, <1>2, JobMoves
<1>4. /\ unread' = {l \in unread : name[l] # n}
      /\ UNCHANGED <<json, key, sock, link, setup, life, pid, name, halt, met, began,
                     holder, sec, unlocked, late, crossed>>
  BY DEF WaitReturns, fileVars, lifeVars
<1> HIDE DEF j
<1>5. QED
  BY <1>1, <1>2, <1>3, <1>4

(* Either the name leads to a session, or the wait is over.                *)
LEMMA ResetEffect ==
  ASSUME RegTypeOK, NEW h \in Helpers, Reset(h)
  PROVE  /\ job[h].pc = "print"
         /\ OthersWork(h) /\ job' \in [Helpers -> Jobs]
         /\ UNCHANGED <<json, key, sock, link, setup, life, pid, name, halt, met, began,
                        holder, unlocked, late, unread>>
         /\ \/ job'[h] = Finished /\ sec' = sec /\ crossed' = crossed
            \/ \E l \in LiveSessions :
                 /\ job'[h].pc = "reset" /\ job'[h].cur = job[h].cur
                 /\ job'[h].dead = job[h].dead /\ job'[h].copies = job[h].copies
                 /\ sec'[Main(h)].pc = "wait" /\ sec'[Main(h)].op = "update"
                 /\ sec'[Main(h)].who = l /\ sec'[Main(h)].todo = Listed(l)
                 /\ sec'[Main(h)].status = "idle"
                 /\ OthersStay(Main(h)) /\ sec' \in [Threads -> Sections]
                 /\ crossed' = (crossed \/ name[l] # job[h].cur)
<1>1. CASE \E l \in LiveSessions :
             /\ LeadsTo(job[h].cur, l)
             /\ JobAt(h, "print", [job[h] EXCEPT !.pc = "reset"])
             /\ Begin(Main(h), "update", l, Listed(l), "idle")
             /\ crossed' = (crossed \/ name[l] # job[h].cur)
             /\ UNCHANGED <<fileVars, lifeVars, holder, unlocked, late, unread>>
  <2>1. PICK l \in LiveSessions :
             /\ JobAt(h, "print", [job[h] EXCEPT !.pc = "reset"])
             /\ Begin(Main(h), "update", l, Listed(l), "idle")
             /\ crossed' = (crossed \/ name[l] # job[h].cur)
             /\ UNCHANGED <<fileVars, lifeVars, holder, unlocked, late, unread>>
    BY <1>1
  <2> DEFINE j == [job[h] EXCEPT !.pc = "reset"]
  <2>2. /\ j \in Jobs /\ j.pc = "reset" /\ j.cur = job[h].cur
        /\ j.dead = job[h].dead /\ j.copies = job[h].copies
    BY DEF RegTypeOK, Jobs, JobPCs
  <2>3. job[h].pc = "print" /\ job' = [job EXCEPT ![h] = j]
    BY <2>1 DEF JobAt
  <2>4. job'[h] = j /\ OthersWork(h) /\ job' \in [Helpers -> Jobs]
    <3> HIDE DEF j
    <3>1. QED
      BY <2>2, <2>3, JobMoves
  <2>5. /\ l \in Listeners /\ Listed(l) \in SUBSET Paths /\ Main(h) \in Threads
        /\ "idle" \in Statuses
    BY ThreadFacts DEF LiveSessions, Sessions, Listed, Statuses
  <2>6. /\ sec'[Main(h)].pc = "wait" /\ sec'[Main(h)].op = "update"
        /\ sec'[Main(h)].who = l /\ sec'[Main(h)].todo = Listed(l)
        /\ sec'[Main(h)].status = "idle"
        /\ OthersStay(Main(h)) /\ sec' \in [Threads -> Sections]
    <3>1. Begin(Main(h), "update", l, Listed(l), "idle")
      BY <2>1
    <3>2. QED
      BY <2>5, <3>1, BeginMoves
  <2>7. UNCHANGED <<json, key, sock, link, setup, life, pid, name, halt, met, began,
                    holder, unlocked, late, unread>>
    BY <2>1 DEF fileVars, lifeVars
  <2> HIDE DEF j
  <2>8. QED
    BY <2>1, <2>2, <2>3, <2>4, <2>6, <2>7
<1>2. CASE /\ JobAt(h, "print", Finished)
           /\ UNCHANGED <<fileVars, lifeVars, holder, sec, unlocked, late, waitVars>>
  <2>1. job[h].pc = "print" /\ job' = [job EXCEPT ![h] = Finished]
    BY <1>2 DEF JobAt
  <2>2. job'[h] = Finished /\ OthersWork(h) /\ job' \in [Helpers -> Jobs]
    BY <2>1, NoJobs, JobMoves
  <2>3. UNCHANGED <<json, key, sock, link, setup, life, pid, name, halt, met, began,
                    holder, sec, unlocked, late, unread, crossed>>
    BY <1>2 DEF fileVars, lifeVars, waitVars
  <2>4. QED
    BY <2>1, <2>2, <2>3
<1>3. QED
  BY <1>1, <1>2 DEF Reset

LEMMA HelperCrashEffect ==
  ASSUME RegTypeOK, NEW h \in Helpers, HelperCrash(h)
  PROVE  /\ job[h].pc \notin {"idle", "done"} /\ job'[h] = Finished
         /\ OthersWork(h) /\ job' \in [Helpers -> Jobs]
         /\ sec'[Main(h)].pc = "out" /\ OthersStay(Main(h)) /\ sec' \in [Threads -> Sections]
         /\ holder' = Released(h)
         /\ UNCHANGED <<json, key, sock, link, setup, life, pid, name, halt, met, began,
                        unlocked, late, unread, crossed>>
<1>1. job[h].pc \notin {"idle", "done"} /\ job' = [job EXCEPT ![h] = Finished]
  BY DEF HelperCrash
<1>2. job'[h] = Finished /\ OthersWork(h) /\ job' \in [Helpers -> Jobs]
  BY <1>1, NoJobs, JobMoves
<1>3. Main(h) \in Threads /\ sec' = [sec EXCEPT ![Main(h)] = Out]
  BY ThreadFacts DEF HelperCrash
<1>4. sec'[Main(h)].pc = "out" /\ OthersStay(Main(h)) /\ sec' \in [Threads -> Sections]
  BY <1>3, OutMoves
<1>5. QED
  BY <1>1, <1>2, <1>4 DEF HelperCrash, fileVars, lifeVars, waitVars

-----------------------------------------------------------------------------
(* Whose sections there are                                                *)

(* Whose section it is, on which thread, and where its owner is.           *)
LEMMA SectionsOwner ==
  ASSUME Ground, NEW t \in Threads, sec[t].pc # "out"
  PROVE  /\ sec[t].who \in Listeners /\ life[sec[t].who] # "new"
         /\ sec[t].todo \subseteq Copies(sec[t].who)
         /\ sec[t].pc = "write" => sec[t].todo # {}
         /\ sec[t].op = "register" => t = Main(sec[t].who) /\ life[sec[t].who] = "register"
         /\ sec[t].op = "remove" =>
              \/ t = Main(sec[t].who) /\ life[sec[t].who] = "remove"
              \/ \E h \in Helpers : t = Main(h) /\ job[h].pc = "prune" /\ sec[t].who = job[h].cur
         /\ sec[t].op = "update" =>
              /\ Begun(sec[t].who)
              /\ \/ t = Handler(sec[t].who) /\ sec[t].status = "new-msg"
                    /\ life[sec[t].who] # "register"
                 \/ \E h \in Helpers : t = Main(h) /\ job[h].pc = "reset" /\ sec[t].status = "idle"
         /\ t[1] \in Listeners => sec[t].who = t[1]
<1>1. t[1] \in Procs /\ (t = Main(t[1]) \/ t = Handler(t[1]))
  BY ThreadFacts
<1>2. CASE t[1] \in Listeners /\ t = Main(t[1])
  <2>1. /\ sec[t].op = life[t[1]] /\ sec[t].who = t[1] /\ sec[t].todo \subseteq Copies(t[1])
        /\ sec[t].pc = "write" => sec[t].todo # {}
    BY <1>2 DEF Ground, MainSections, MainSection
  <2>2. sec[t].op \in {"register", "update", "remove"}
    BY DEF Ground, RegTypeOK, Sections
  <2>3. life[t[1]] \in LifePCs
    BY <1>2 DEF Ground, RegTypeOK
  <2>4. sec[t].op \in {"register", "remove"}
    BY <2>1, <2>2, <2>3 DEF LifePCs
  <2>5. QED
    BY <1>2, <2>1, <2>4
<1>3. CASE t[1] \in Listeners /\ t = Handler(t[1])
  <2>1. /\ sec[t].op = "update" /\ sec[t].who = t[1] /\ sec[t].status = "new-msg"
        /\ sec[t].todo \subseteq Copies(t[1]) /\ Begun(t[1]) /\ life[t[1]] # "register"
        /\ sec[t].pc = "write" => sec[t].todo # {}
    BY <1>3 DEF Ground, HandlerSections, HandlerSection
  <2>2. life[t[1]] # "new"
    BY <1>3, <2>1 DEF Ground, BeganOnce, InTurn
  <2>3. QED
    BY <1>3, <2>1, <2>2
<1>4. CASE t[1] \in Helpers
  <2>1. t = Main(t[1])
    BY <1>1, <1>4 DEF Ground, HelperSections, HelperSection
  <2>2. /\ sec[t].who \in Listeners /\ Begun(sec[t].who)
        /\ sec[t].todo \subseteq Copies(sec[t].who)
        /\ sec[t].pc = "write" => sec[t].todo # {}
        /\ \/ sec[t].op = "remove" /\ job[t[1]].pc = "prune" /\ sec[t].who = job[t[1]].cur
           \/ sec[t].op = "update" /\ job[t[1]].pc = "reset" /\ sec[t].status = "idle"
    BY <1>4, <2>1 DEF Ground, HelperSections, HelperSection
  <2>3. life[sec[t].who] # "new"
    BY <2>2 DEF Ground, BeganOnce, InTurn
  <2>4. t[1] \notin Listeners
    BY <1>4, ThreadFacts
  <2>5. QED
    BY <1>4, <2>1, <2>2, <2>3, <2>4
<1>5. QED
  BY <1>1, <1>2, <1>3, <1>4 DEF Procs

(* The copy a section is at is one of its owner's.                         *)
LEMMA CopyIsOwners ==
  ASSUME Ground, NEW t \in Threads, sec[t].pc # "out", sec[t].todo # {}
  PROVE  Copy(t) \in sec[t].todo /\ Copy(t) \in Copies(sec[t].who) /\ Copy(t) \in Paths
<1>1. sec[t].todo \subseteq Copies(sec[t].who) /\ life[sec[t].who] # "new" /\ sec[t].who \in Listeners
  BY SectionsOwner
<1>2. Copy(t) \in sec[t].todo
  BY <1>1, CopyIsLeft
<1>3. Copies(sec[t].who) \subseteq Paths
  BY <1>1, CopiesArePaths DEF Ground
<1>4. QED
  BY <1>1, <1>2, <1>3

-----------------------------------------------------------------------------
(* What no step takes back                                                 *)

Starts(l) == life[l] = "new" /\ life'[l] = "look"
Looks(l) == life[l] = "look" /\ life'[l] = "bind"
Binds(l) == life[l] = "bind" /\ life'[l] = "register"
Rises(l) == life[l] = "register" /\ life'[l] = "up"
Stops(l) == life[l] \in Starting \cup {"up"} /\ life'[l] = "closing"
Reads(l) == life[l] = "closing" /\ life'[l] = "unlink"
Unlinks(l) == life[l] = "unlink" /\ life'[l] = "remove"
Goes(l) == life[l] = "remove" /\ life'[l] = "gone"
Dies(l) == Running(l) /\ life'[l] = "dead"

(* How a listener's life goes on.                                          *)
Turns(l) ==
  \/ Starts(l)
  \/ Looks(l)
  \/ Binds(l)
  \/ Rises(l)
  \/ Stops(l)
  \/ Reads(l)
  \/ Unlinks(l)
  \/ Goes(l)
  \/ Dies(l)

Forward ==
  /\ setup' = setup
  /\ \A l \in Listeners :
       /\ life'[l] = life[l] \/ Turns(l)
       /\ life[l] # "new" => pid'[l] = pid[l]
       /\ name'[l] = name[l] \/ Looks(l)
       /\ Begun(l) => began'[l] = began[l]
  /\ (unlocked => unlocked') /\ (late => late') /\ (crossed => crossed')

StepOf == RegNext \/ UNCHANGED regVars

(* The steps, by who takes them.                                           *)
LEMMA Steps ==
  ASSUME StepOf
  PROVE  \/ \E t \in Threads : Enter(t) \/ Inner(t) \/ Leave(t)
         \/ \E l \in Listeners :
              \/ Start(l) \/ Look(l) \/ Refuse(l) \/ Bind(l) \/ Notice(l)
              \/ Stop(l) \/ ReadLink(l) \/ UnlinkSocket(l) \/ Crash(l)
         \/ \E h \in Helpers :
              \/ PruneLook(h) \/ PruneJudge(h) \/ PruneVerify(h) \/ PruneUnlink(h)
              \/ (\E n \in Names : WaitReturns(h, n)) \/ Reset(h) \/ HelperCrash(h)
         \/ UNCHANGED <<json, key, sock, link, setup, life, pid, name, halt, met, began,
                        holder, sec, job, unlocked, late, unread, crossed>>
<1>1. CASE \E t \in Threads : SectionStep(t)
  BY <1>1 DEF SectionStep, Enter, Inner
<1>2. CASE \E l \in Listeners : ListenerStep(l) \/ Notice(l)
  BY <1>2 DEF ListenerStep
<1>3. CASE \E h \in Helpers : HelperStep(h)
  BY <1>3 DEF HelperStep
<1>4. CASE UNCHANGED regVars
  BY <1>4 DEF regVars, fileVars, lifeVars, waitVars
<1>5. QED
  BY <1>1, <1>2, <1>3, <1>4 DEF StepOf, RegNext

(* Who waits to register has not begun to.                                 *)
LEMMA RegisterOnce ==
  ASSUME Ground, NEW t \in Threads, sec[t].pc = "wait", sec[t].op = "register"
  PROVE  /\ sec[t].who \in Listeners /\ t = Main(sec[t].who)
         /\ life[sec[t].who] = "register" /\ ~Begun(sec[t].who)
<1>1. sec[t].who \in Listeners /\ t = Main(sec[t].who) /\ life[sec[t].who] = "register"
  BY SectionsOwner
<1>2. ~Inside(t)
  BY DEF Inside
<1>3. QED
  BY <1>1, <1>2 DEF Ground, BeganOnce, InTurn

(* Every step goes forward.                                                *)
LEMMA AllGoForward ==
  ASSUME Ground, StepOf
  PROVE  Forward
<1> USE DEF Ground
<1>1. ASSUME NEW t \in Threads, Enter(t)
      PROVE  Forward
  <2>1. \A l \in Listeners : Begun(l) => began'[l] = began[l]
    <3>1. CASE sec[t].op = "register"
      BY <1>1, <3>1, EnterEffect, RegisterOnce DEF RegTypeOK
    <3>2. QED
      BY <1>1, <3>1, EnterEffect
  <2>2. UNCHANGED <<setup, life, pid, name, late, crossed>> /\ (unlocked => unlocked')
    BY <1>1, EnterEffect
  <2>3. QED
    BY <2>1, <2>2 DEF Forward
<1>2. ASSUME NEW t \in Threads, Inner(t)
      PROVE  Forward
  BY <1>2, InnerEffect DEF Forward
<1>3. ASSUME NEW t \in Threads, Leave(t)
      PROVE  Forward
  <2>1. UNCHANGED <<setup, pid, name, began, unlocked, late, crossed>>
    BY <1>3, LeaveEffect
  <2>2. \/ life' = life
        \/ t[1] \in Listeners /\ sec[t].op = "register" /\ life' = [life EXCEPT ![t[1]] = "up"]
        \/ t[1] \in Listeners /\ sec[t].op = "remove" /\ life' = [life EXCEPT ![t[1]] = "gone"]
    BY <1>3, LeaveEffect
  <2>3. sec[t].pc # "out"
    BY <1>3, LeaveEffect
  <2>4. t[1] \in Listeners /\ sec[t].op \in {"register", "remove"} => sec[t].op = life[t[1]]
    <3>1. ASSUME t[1] \in Listeners, sec[t].op \in {"register", "remove"}
          PROVE  sec[t].op = life[t[1]]
      <4>1. sec[t].who = t[1]
        BY <2>3, <3>1, SectionsOwner
      <4>2. t = Main(t[1]) \/ \E h \in Helpers : t = Main(h)
        BY <2>3, <3>1, <4>1, SectionsOwner
      <4>3. t[1] \notin Helpers
        BY <3>1, ThreadFacts
      <4>4. t = Main(t[1])
        BY <4>2, <4>3, ThreadFacts
      <4>5. QED
        BY <2>3, <3>1, <4>4 DEF MainSections, MainSection
    <3>2. QED
      BY <3>1
  <2>5. \A l \in Listeners : life'[l] = life[l] \/ Turns(l)
    BY <2>2, <2>4 DEF RegTypeOK, Turns, Rises, Goes
  <2>6. QED
    BY <2>1, <2>5 DEF Forward
<1>4. ASSUME NEW l \in Listeners, Start(l)
      PROVE  Forward
  BY <1>4, StartEffect DEF Forward, OthersLive, Turns, Starts, RegTypeOK
<1>5. ASSUME NEW l \in Listeners, Look(l)
      PROVE  Forward
  BY <1>5, LookEffect DEF Forward, OthersLive, Turns, Looks, RegTypeOK
<1>6. ASSUME NEW l \in Listeners, Refuse(l)
      PROVE  Forward
  BY <1>6, RefuseEffect DEF Forward, OthersLive, Turns, Stops, Starting
<1>7. ASSUME NEW l \in Listeners, Bind(l)
      PROVE  Forward
  BY <1>7, BindEffect DEF Forward, OthersLive, Turns, Binds
<1>8. ASSUME NEW l \in Listeners, Notice(l)
      PROVE  Forward
  BY <1>8, NoticeEffect DEF Forward
<1>9. ASSUME NEW l \in Listeners, Stop(l)
      PROVE  Forward
  BY <1>9, StopEffect DEF Forward, OthersLive, Turns, Stops
<1>10. ASSUME NEW l \in Listeners, ReadLink(l)
       PROVE  Forward
  BY <1>10, ReadLinkEffect DEF Forward, OthersLive, Turns, Reads
<1>11. ASSUME NEW l \in Listeners, UnlinkSocket(l)
       PROVE  Forward
  BY <1>11, UnlinkSocketEffect DEF Forward, OthersLive, Turns, Unlinks
<1>12. ASSUME NEW l \in Listeners, Crash(l)
       PROVE  Forward
  BY <1>12, CrashEffect DEF Forward, OthersLive, Turns, Dies
<1>13. ASSUME NEW h \in Helpers, PruneLook(h)
       PROVE  Forward
  BY <1>13, PruneLookEffect DEF Forward
<1>14. ASSUME NEW h \in Helpers, PruneJudge(h)
       PROVE  Forward
  BY <1>14, PruneJudgeEffect DEF Forward
<1>15. ASSUME NEW h \in Helpers, PruneVerify(h)
       PROVE  Forward
  BY <1>15, PruneVerifyEffect DEF Forward
<1>16. ASSUME NEW h \in Helpers, PruneUnlink(h)
       PROVE  Forward
  BY <1>16, PruneUnlinkEffect DEF Forward
<1>17. ASSUME NEW h \in Helpers, NEW n \in Names, WaitReturns(h, n)
       PROVE  Forward
  BY <1>17, WaitReturnsEffect DEF Forward
<1>18. ASSUME NEW h \in Helpers, Reset(h)
       PROVE  Forward
  BY <1>18, ResetEffect DEF Forward
<1>19. ASSUME NEW h \in Helpers, HelperCrash(h)
       PROVE  Forward
  BY <1>19, HelperCrashEffect DEF Forward
<1>20. CASE UNCHANGED <<json, key, sock, link, setup, life, pid, name, halt, met, began,
                        holder, sec, job, unlocked, late, unread, crossed>>
  BY <1>20 DEF Forward
<1>21. QED
  BY <1>1, <1>2, <1>3, <1>4, <1>5, <1>6, <1>7, <1>8, <1>9, <1>10, <1>11, <1>12,
     <1>13, <1>14, <1>15, <1>16, <1>17, <1>18, <1>19, <1>20, Steps

(* What a listener has registered under, and that another one has taken it *)
(* over, are for good.                                                     *)
LEMMA PathsStay ==
  ASSUME Forward, NEW l \in Listeners, life[l] # "new"
  PROVE  Copies(l)' = Copies(l) /\ Own(l)' = Own(l) /\ Claude(l)' = Claude(l)
BY DEF Forward, Copies, Own, Claude

(* A listener that has begun to register keeps its place in the order.     *)
LEMMA StaysBegun ==
  ASSUME Forward, NEW l \in Listeners, Begun(l)
  PROVE  Begun(l)' /\ began'[l] = began[l]
BY DEF Forward, Begun

LEMMA StaysSuperseded ==
  ASSUME Ground, Forward, NEW l \in Listeners, Begun(l), Superseded(l)
  PROVE  Superseded(l)'
<1>1. PICK m \in Listeners : began[m] > began[l] /\ Copies(m) \cap Copies(l) # {}
  BY DEF Superseded
<1>2. began[m] \in Nat /\ began[l] \in Nat
  BY RegistryAssumption DEF Ground, RegTypeOK, RegistryAssumption
<1>3. Begun(m)
  BY <1>1, <1>2 DEF Begun
<1>4. life[m] # "new" /\ life[l] # "new"
  BY <1>3 DEF Ground, BeganOnce, InTurn
<1>5. /\ Copies(m)' = Copies(m) /\ Copies(l)' = Copies(l)
      /\ began'[m] = began[m] /\ began'[l] = began[l]
  BY <1>3, <1>4, PathsStay, StaysBegun
<1>6. QED
  BY <1>1, <1>5 DEF Superseded

-----------------------------------------------------------------------------
(* Pids and sections, step by step                                         *)

(* Only Start takes a pid.                                                 *)
LEMMA PidsTaken ==
  ASSUME Ground, StepOf
  PROVE  \/ \E l \in Listeners : Start(l)
         \/ pid' = pid /\ \A l \in Listeners : life[l] = "new" => life'[l] = "new"
<1> DEFINE Same == pid' = pid /\ \A l \in Listeners : life[l] = "new" => life'[l] = "new"
<1> USE DEF Ground
<1>1. ASSUME NEW t \in Threads, Enter(t) \/ Inner(t)
      PROVE  Same
  BY <1>1, EnterEffect, InnerEffect
<1>2. ASSUME NEW t \in Threads, Leave(t)
      PROVE  Same
  <2>1. pid' = pid /\ sec[t].pc = "copy"
    BY <1>2, LeaveEffect
  <2>2. t[1] \in Listeners => life[t[1]] # "new"
    BY <2>1, SectionsOwner
  <2>3. life' = life \/ \E x \in LifePCs : t[1] \in Listeners /\ life' = [life EXCEPT ![t[1]] = x]
    BY <1>2, LeaveEffect DEF LifePCs
  <2>4. QED
    BY <2>1, <2>2, <2>3 DEF RegTypeOK
<1>3. ASSUME NEW l \in Listeners,
             Look(l) \/ Refuse(l) \/ Bind(l) \/ Notice(l) \/ Stop(l)
      PROVE  Same
  BY <1>3, LookEffect, RefuseEffect, BindEffect, NoticeEffect, StopEffect
     DEF OthersLive, Starting
<1>4. ASSUME NEW l \in Listeners,
             ReadLink(l) \/ UnlinkSocket(l) \/ Crash(l)
      PROVE  Same
  BY <1>4, ReadLinkEffect, UnlinkSocketEffect, CrashEffect DEF OthersLive, Running
<1>5. ASSUME NEW h \in Helpers,
             PruneLook(h) \/ PruneJudge(h) \/ PruneVerify(h) \/ PruneUnlink(h)
      PROVE  Same
  BY <1>5, PruneLookEffect, PruneJudgeEffect, PruneVerifyEffect, PruneUnlinkEffect
<1>6. ASSUME NEW h \in Helpers,
             (\E n \in Names : WaitReturns(h, n)) \/ Reset(h) \/ HelperCrash(h)
      PROVE  Same
  BY <1>6, WaitReturnsEffect, ResetEffect, HelperCrashEffect
<1>7. ASSUME UNCHANGED <<json, key, sock, link, setup, life, pid, name, halt, met, began,
                         holder, sec, job, unlocked, late, unread, crossed>>
      PROVE  Same
  BY <1>7
<1> HIDE DEF Same
<1>8. Same \/ \E l \in Listeners : Start(l)
  <2>1. CASE \E t \in Threads : Enter(t) \/ Inner(t) \/ Leave(t)
    BY <1>1, <1>2, <2>1
  <2>2. CASE \E l \in Listeners :
               \/ Start(l) \/ Look(l) \/ Refuse(l) \/ Bind(l) \/ Notice(l)
               \/ Stop(l) \/ ReadLink(l) \/ UnlinkSocket(l) \/ Crash(l)
    BY <1>3, <1>4, <2>2
  <2>3. CASE \E h \in Helpers :
               \/ PruneLook(h) \/ PruneJudge(h) \/ PruneVerify(h) \/ PruneUnlink(h)
               \/ (\E n \in Names : WaitReturns(h, n)) \/ Reset(h) \/ HelperCrash(h)
    BY <1>5, <1>6, <2>3
  <2>4. QED
    BY <1>7, <2>1, <2>2, <2>3, Steps
<1>9. QED
  BY <1>8 DEF Same

(* No step gives a listener the pid of one that runs.                      *)
LEMMA PidsDifferStep ==
  ASSUME Ground, StepOf
  PROVE  PidsDiffer'
<1> USE DEF Ground
<1>1. Forward
  BY AllGoForward
<1>2. CASE pid' = pid /\ \A l \in Listeners : life[l] = "new" => life'[l] = "new"
  <2>1. \A l \in Listeners : life'[l] = "new" <=> life[l] = "new"
    BY <1>1, <1>2 DEF Forward, Turns, Starts, Looks, Binds, Rises, Stops, Reads, Unlinks,
                     Goes, Dies
  <2>2. \A l \in Listeners : Running(l)' => Running(l)
    BY <1>1, <2>1 DEF Forward, Turns, Starts, Looks, Binds, Rises, Stops, Reads, Unlinks,
                     Goes, Dies, Running, Starting
  <2>3. QED
    BY <1>2, <2>1, <2>2 DEF PidsDiffer
<1>3. ASSUME NEW l \in Listeners, Start(l)
      PROVE  PidsDiffer'
  <2>1. /\ life[l] = "new" /\ life'[l] = "look" /\ OthersLive(l)
        /\ \A m \in Listeners : m < l => life[m] # "new"
    BY <1>3, StartEffect
  <2>2. PICK n \in {l} \cup {pid[m] : m \in 1 .. l - 1} :
          ~PidAlive(n) /\ pid' = [pid EXCEPT ![l] = n]
    BY <1>3, StartEffect
  <2>3. l \in Nat /\ Listeners \subseteq Nat /\ 1 .. l - 1 \subseteq Listeners
        /\ \A m \in 1 .. l - 1 : m < l
    BY RegistryAssumption DEF RegistryAssumption, Listeners
  <2>4. n \in Listeners
    BY <2>1, <2>3 DEF RegTypeOK, PidsDiffer, Pids
  <2>5. n # None
    BY <2>4, ThreadFacts
  <2>6. pid'[l] = n /\ \A m \in Listeners : m # l => pid'[m] = pid[m] /\ life'[m] = life[m]
    BY <2>1, <2>2 DEF RegTypeOK, OthersLive
  <2>7. \A m \in Listeners : life'[m] = "new" <=> pid'[m] = None
    BY <2>1, <2>5, <2>6 DEF PidsDiffer
  <2>8. \A m, k \in Listeners : k < m /\ life'[m] # "new" => life'[k] # "new"
    BY <2>1, <2>3, <2>6 DEF PidsDiffer
  <2>9. ASSUME NEW k \in Listeners, NEW m \in Listeners,
               k < m, Running(k)', life'[m] # "new"
        PROVE  pid'[m] # pid'[k]
    <3>1. CASE m = l
      <4>1. k # l /\ Running(k)
        BY <2>3, <2>6, <2>9, <3>1 DEF Running
      <4>2. pid[k] # n
        BY <2>2, <4>1 DEF PidAlive
      <4>3. QED
        BY <2>6, <3>1, <4>1, <4>2
    <3>2. CASE k = l
      <4>1. m # l /\ life[m] # "new"
        BY <2>3, <2>6, <2>9, <3>2
      <4>2. QED
        BY <2>1, <2>9, <3>2, <4>1 DEF PidsDiffer
    <3>3. CASE k # l /\ m # l
      BY <2>6, <2>9, <3>3 DEF PidsDiffer, Running
    <3>4. QED
      BY <3>1, <3>2, <3>3
  <2>10. QED
    BY <2>7, <2>8, <2>9 DEF PidsDiffer
<1>4. QED
  BY <1>2, <1>3, PidsTaken

(* The section of a listener's main thread is right after a step that      *)
(* leaves it alone or takes it out.                                        *)
LEMMA MainStays ==
  ASSUME Ground, Forward, NEW l \in Listeners,
         \/ sec'[Main(l)] = sec[Main(l)] /\ life'[l] = life[l]
         \/ sec'[Main(l)].pc = "out" /\ life'[l] \notin {"register", "remove"}
  PROVE  MainSection(l)'
<1>1. CASE sec'[Main(l)].pc = "out" /\ life'[l] \notin {"register", "remove"}
  BY <1>1 DEF MainSection
<1>2. CASE sec'[Main(l)] = sec[Main(l)] /\ life'[l] = life[l]
  <2>1. MainSection(l)
    BY DEF Ground, MainSections
  <2>2. CASE sec[Main(l)].pc = "out"
    BY <1>2, <2>1, <2>2 DEF MainSection
  <2>3. CASE sec[Main(l)].pc # "out"
    <3>1. Main(l) \in Threads
      BY ThreadFacts
    <3>2. sec[Main(l)].op \in {"register", "update", "remove"}
      BY <3>1 DEF Ground, RegTypeOK, Sections
    <3>3. life[l] # "new"
      BY <2>1, <2>3, <3>2 DEF MainSection
    <3>4. Copies(l)' = Copies(l)
      BY <3>3, PathsStay
    <3>5. QED
      BY <1>2, <2>1, <3>4 DEF MainSection
  <2>4. QED
    BY <2>2, <2>3
<1>3. QED
  BY <1>1, <1>2

(* A section of l's that goes on as l does.                                *)
LEMMA MainGoesOn ==
  ASSUME Ground, Forward, NEW l \in Listeners,
         Enter(Main(l)) \/ Inner(Main(l))
  PROVE  MainSection(l)'
<1>1. Main(l) \in Threads
  BY ThreadFacts
<1>2. CASE Enter(Main(l))
  <2>1. /\ sec[Main(l)].pc = "wait" /\ sec'[Main(l)].pc = "copy" /\ GoesOn(Main(l), {"copy"})
        /\ sec'[Main(l)].todo = sec[Main(l)].todo /\ life' = life
    BY <1>1, <1>2, EnterEffect DEF Ground
  <2>2. life[l] # "new"
    BY <1>1, <2>1, SectionsOwner, ThreadFacts
  <2>3. Copies(l)' = Copies(l)
    BY <2>2, PathsStay
  <2>4. MainSection(l)
    BY DEF Ground, MainSections
  <2>5. QED
    BY <2>1, <2>3, <2>4 DEF MainSection, GoesOn
<1>3. CASE Inner(Main(l))
  <2>1. /\ Inside(Main(l)) /\ sec[Main(l)].todo # {}
        /\ GoesOn(Main(l), {"copy", "write"}) /\ life' = life
        /\ sec'[Main(l)].todo \subseteq sec[Main(l)].todo
        /\ sec'[Main(l)].pc = "write" => sec'[Main(l)].todo = sec[Main(l)].todo
    BY <1>1, <1>3, InnerEffect DEF Ground
  <2>2. life[l] # "new"
    BY <1>1, <2>1, SectionsOwner, ThreadFacts DEF Inside
  <2>3. Copies(l)' = Copies(l)
    BY <2>2, PathsStay
  <2>4. MainSection(l)
    BY DEF Ground, MainSections
  <2>5. QED
    BY <2>1, <2>3, <2>4 DEF MainSection, GoesOn, Inside
<1>4. QED
  BY <1>2, <1>3

(* The sections of the other listeners, and where those are.               *)
Apart(l) ==
  \A m \in Listeners : m # l => sec'[Main(m)] = sec[Main(m)] /\ life'[m] = life[m]

LEMMA MainApart ==
  ASSUME Ground, Forward, NEW l \in Listeners, Apart(l), MainSection(l)'
  PROVE  MainSections'
<1>1. \A m \in Listeners : MainSection(m)'
  BY MainStays DEF Apart
<1>2. QED
  BY <1>1 DEF MainSections

LEMMA MainUnmoved ==
  ASSUME Ground, Forward, life' = life,
         \A l \in Listeners : sec'[Main(l)] = sec[Main(l)]
  PROVE  MainSections'
<1>1. \A m \in Listeners : MainSection(m)'
  BY MainStays
<1>2. QED
  BY <1>1 DEF MainSections

LEMMA NoMainSection ==
  ASSUME Ground, NEW l \in Listeners, life[l] \notin {"register", "remove"}
  PROVE  sec[Main(l)].pc = "out"
<1>1. Main(l) \in Threads
  BY ThreadFacts
<1>2. life[l] \in LifePCs /\ sec[Main(l)].op \in {"register", "update", "remove"}
  BY <1>1 DEF Ground, RegTypeOK, Sections
<1>3. QED
  BY <1>2 DEF Ground, MainSections, MainSection, LifePCs

(* Every step keeps the sections of main threads right.                    *)
LEMMA MainSectionsStep ==
  ASSUME Ground, StepOf
  PROVE  MainSections'
<1>0. Forward
  BY AllGoForward
<1>1. ASSUME NEW t \in Threads, Enter(t) \/ Inner(t)
      PROVE  MainSections'
  <2>1. life' = life /\ OthersStay(t)
    BY <1>1, EnterEffect, InnerEffect DEF GoesOn, Ground
  <2>2. CASE \E l \in Listeners : t = Main(l)
    <3>1. PICK l \in Listeners : t = Main(l)
      BY <2>2
    <3>2. MainSection(l)'
      BY <1>0, <1>1, <3>1, MainGoesOn
    <3>3. Apart(l)
      BY <2>1, <3>1, ThreadFacts DEF Apart, OthersStay
    <3>4. QED
      BY <1>0, <3>2, <3>3, MainApart
  <2>3. CASE \A l \in Listeners : t # Main(l)
    <3>1. \A l \in Listeners : sec'[Main(l)] = sec[Main(l)]
      BY <2>1, <2>3, ThreadFacts DEF OthersStay
    <3>2. QED
      BY <1>0, <2>1, <3>1, MainUnmoved
  <2>4. QED
    BY <2>2, <2>3
<1>2. ASSUME NEW t \in Threads, Leave(t)
      PROVE  MainSections'
  <2>1. /\ sec[t].pc = "copy" /\ sec'[t].pc = "out" /\ OthersStay(t)
        /\ \/ life' = life /\ (t[1] \in Listeners => sec[t].op \notin {"register", "remove"})
           \/ t[1] \in Listeners /\ sec[t].op = "register" /\ life' = [life EXCEPT ![t[1]] = "up"]
           \/ t[1] \in Listeners /\ sec[t].op = "remove" /\ life' = [life EXCEPT ![t[1]] = "gone"]
    BY <1>2, LeaveEffect DEF Ground
  <2>2. CASE \E l \in Listeners : t = Main(l)
    <3>1. PICK l \in Listeners : t = Main(l)
      BY <2>2
    <3>2. t[1] = l
      BY <3>1, ThreadFacts
    <3>3. sec[t].op = life[l]
      BY <2>1, <3>1 DEF Ground, MainSections, MainSection
    <3>4. sec[t].op \in {"register", "remove"}
      BY <2>1, <3>1, <3>3, NoMainSection
    <3>5. /\ life'[l] \in {"up", "gone"}
          /\ \A m \in Listeners : m # l => life'[m] = life[m]
      BY <2>1, <3>2, <3>4 DEF Ground, RegTypeOK
    <3>6. MainSection(l)'
      BY <2>1, <3>1, <3>5 DEF MainSection
    <3>7. Apart(l)
      BY <2>1, <3>1, <3>5, ThreadFacts DEF Apart, OthersStay
    <3>8. QED
      BY <1>0, <3>6, <3>7, MainApart
  <2>3. CASE \A l \in Listeners : t # Main(l)
    <3>1. \A l \in Listeners : sec'[Main(l)] = sec[Main(l)]
      BY <2>1, <2>3, ThreadFacts DEF OthersStay
    <3>2. ASSUME t[1] \in Listeners
          PROVE  sec[t].op \notin {"register", "remove"}
      <4>1. t = Handler(t[1])
        BY <2>3, <3>2, ThreadFacts
      <4>2. QED
        BY <2>1, <3>2, <4>1 DEF Ground, HandlerSections, HandlerSection
    <3>3. life' = life
      BY <2>1, <3>2
    <3>4. QED
      BY <1>0, <3>1, <3>3, MainUnmoved
  <2>4. QED
    BY <2>2, <2>3
<1>3. ASSUME NEW l \in Listeners, Start(l) \/ Look(l) \/ Refuse(l) \/ ReadLink(l)
      PROVE  MainSections'
  <2>1. /\ life[l] \in {"new", "look", "closing"} /\ life'[l] \notin {"register", "remove"}
        /\ OthersLive(l) /\ sec' = sec
    BY <1>3, StartEffect, LookEffect, RefuseEffect, ReadLinkEffect DEF Ground
  <2>2. sec[Main(l)].pc = "out"
    BY <2>1, NoMainSection
  <2>3. MainSection(l)'
    BY <2>1, <2>2 DEF MainSection
  <2>4. Apart(l)
    BY <2>1 DEF Apart, OthersLive
  <2>5. QED
    BY <1>0, <2>3, <2>4, MainApart
<1>4. ASSUME NEW l \in Listeners, Bind(l) \/ UnlinkSocket(l)
      PROVE  MainSections'
  <2>1. /\ life[l] \in {"bind", "unlink"} /\ OthersLive(l) /\ OthersStay(Main(l))
        /\ sec'[Main(l)].pc \in {"wait", "copy"} /\ sec'[Main(l)].op = life'[l]
        /\ sec'[Main(l)].who = l /\ sec'[Main(l)].todo = Copies(l)
    <3>1. CASE Bind(l)
      BY <3>1, BindEffect DEF Ground
    <3>2. CASE UnlinkSocket(l)
      BY <3>2, UnlinkSocketEffect DEF Ground
    <3>3. QED
      BY <1>4, <3>1, <3>2
  <2>2. Copies(l)' = Copies(l)
    BY <1>0, <2>1, PathsStay
  <2>3. MainSection(l)'
    BY <2>1, <2>2 DEF MainSection
  <2>4. Apart(l)
    BY <2>1, ThreadFacts DEF Apart, OthersLive, OthersStay
  <2>5. QED
    BY <1>0, <2>3, <2>4, MainApart
<1>5. ASSUME NEW l \in Listeners, Notice(l)
      PROVE  MainSections'
  <2>1. life' = life /\ OthersStay(Handler(l))
    BY <1>5, NoticeEffect DEF Ground
  <2>2. \A m \in Listeners : sec'[Main(m)] = sec[Main(m)]
    BY <2>1, ThreadFacts DEF OthersStay
  <2>3. QED
    BY <1>0, <2>1, <2>2, MainUnmoved
<1>6. ASSUME NEW l \in Listeners, Stop(l) \/ Crash(l)
      PROVE  MainSections'
  <2>1. /\ life'[l] \in {"closing", "dead"} /\ OthersLive(l) /\ sec'[Main(l)].pc = "out"
        /\ \A u \in Threads : u \notin {Main(l), Handler(l)} => sec'[u] = sec[u]
    BY <1>6, StopEffect, CrashEffect DEF Ground, OthersStay
  <2>2. MainSection(l)'
    BY <2>1 DEF MainSection
  <2>3. Apart(l)
    BY <2>1, ThreadFacts DEF Apart, OthersLive
  <2>4. QED
    BY <1>0, <2>2, <2>3, MainApart
<1>7. ASSUME NEW h \in Helpers,
             \/ PruneLook(h) \/ PruneVerify(h) \/ PruneUnlink(h)
             \/ (\E n \in Names : WaitReturns(h, n))
      PROVE  MainSections'
  <2>1. life' = life /\ sec' = sec
    BY <1>7, PruneLookEffect, PruneVerifyEffect, PruneUnlinkEffect, WaitReturnsEffect DEF Ground
  <2>2. QED
    BY <1>0, <2>1, MainUnmoved
<1>8. ASSUME NEW h \in Helpers, PruneJudge(h) \/ Reset(h) \/ HelperCrash(h)
      PROVE  MainSections'
  <2>1. life' = life /\ (sec' = sec \/ OthersStay(Main(h)))
    BY <1>8, PruneJudgeEffect, ResetEffect, HelperCrashEffect DEF Ground
  <2>2. \A l \in Listeners : Main(l) # Main(h) /\ Main(l) \in Threads
    BY ThreadFacts
  <2>3. \A l \in Listeners : sec'[Main(l)] = sec[Main(l)]
    BY <2>1, <2>2 DEF OthersStay
  <2>4. QED
    BY <1>0, <2>1, <2>3, MainUnmoved
<1>9. ASSUME UNCHANGED <<json, key, sock, link, setup, life, pid, name, halt, met, began,
                         holder, sec, job, unlocked, late, unread, crossed>>
      PROVE  MainSections'
  BY <1>0, <1>9, MainUnmoved
<1>10. QED
  BY <1>1, <1>2, <1>3, <1>4, <1>5, <1>6, <1>7, <1>8, <1>9, Steps

(* The same of a listener's handler thread ...                             *)
LEMMA HandlerStays ==
  ASSUME Ground, Forward, NEW l \in Listeners,
         sec'[Handler(l)] = sec[Handler(l)] \/ sec'[Handler(l)].pc = "out"
  PROVE  HandlerSection(l)'
<1>1. CASE sec'[Handler(l)].pc = "out"
  BY <1>1 DEF HandlerSection
<1>2. CASE sec'[Handler(l)] = sec[Handler(l)] /\ sec[Handler(l)].pc # "out"
  <2>1. HandlerSection(l)
    BY DEF Ground, HandlerSections
  <2>2. Begun(l) /\ life[l] # "register"
    BY <1>2, <2>1 DEF HandlerSection
  <2>3. life[l] \notin {"new", "bind"}
    BY <2>2 DEF Ground, BeganOnce, InTurn
  <2>4. Copies(l)' = Copies(l) /\ Begun(l)'
    BY <2>2, <2>3, PathsStay, StaysBegun
  <2>5. life'[l] # "register"
    BY <2>2, <2>3 DEF Forward, Turns, Starts, Looks, Binds, Rises, Stops, Reads, Unlinks,
                     Goes, Dies
  <2>6. QED
    BY <1>2, <2>1, <2>4, <2>5 DEF HandlerSection
<1>3. QED
  BY <1>1, <1>2

LEMMA HandlerGoesOn ==
  ASSUME Ground, Forward, NEW l \in Listeners, Enter(Handler(l)) \/ Inner(Handler(l))
  PROVE  HandlerSection(l)'
<1>1. Handler(l) \in Threads
  BY ThreadFacts
<1>2. /\ sec[Handler(l)].pc # "out" /\ life' = life
      /\ GoesOn(Handler(l), {"copy", "write"})
      /\ sec'[Handler(l)].todo \subseteq sec[Handler(l)].todo
      /\ sec'[Handler(l)].pc = "write" => sec'[Handler(l)].todo # {}
  <2>1. CASE Enter(Handler(l))
    BY <1>1, <2>1, EnterEffect DEF Ground, GoesOn
  <2>2. CASE Inner(Handler(l))
    BY <1>1, <2>2, InnerEffect DEF Ground, Inside
  <2>3. QED
    BY <2>1, <2>2
<1>3. HandlerSection(l)
  BY DEF Ground, HandlerSections
<1>4. Begun(l) /\ life[l] # "register"
  BY <1>2, <1>3 DEF HandlerSection
<1>5. life[l] # "new"
  BY <1>4 DEF Ground, BeganOnce, InTurn
<1>6. Copies(l)' = Copies(l) /\ Begun(l)'
  BY <1>4, <1>5, PathsStay, StaysBegun
<1>7. QED
  BY <1>2, <1>3, <1>4, <1>6 DEF HandlerSection, GoesOn

LEMMA HandlersKept ==
  ASSUME Ground, Forward,
         \A l \in Listeners :
           sec'[Handler(l)] = sec[Handler(l)] \/ sec'[Handler(l)].pc = "out"
  PROVE  HandlerSections'
<1>1. \A l \in Listeners : HandlerSection(l)'
  BY HandlerStays
<1>2. QED
  BY <1>1 DEF HandlerSections

(* Every step keeps the sections of handler threads right.                 *)
LEMMA HandlerSectionsStep ==
  ASSUME Ground, StepOf
  PROVE  HandlerSections'
<1>0. Forward
  BY AllGoForward
<1>1. ASSUME NEW t \in Threads, Enter(t) \/ Inner(t)
      PROVE  HandlerSections'
  <2>1. OthersStay(t)
    BY <1>1, EnterEffect, InnerEffect DEF GoesOn, Ground
  <2>2. ASSUME NEW l \in Listeners
        PROVE  HandlerSection(l)'
    <3>1. CASE t = Handler(l)
      BY <1>0, <1>1, <3>1, HandlerGoesOn
    <3>2. CASE t # Handler(l)
      BY <1>0, <2>1, <3>2, ThreadFacts, HandlerStays DEF OthersStay
    <3>3. QED
      BY <3>1, <3>2
  <2>3. QED
    BY <2>2 DEF HandlerSections
<1>2. ASSUME NEW t \in Threads, Leave(t)
      PROVE  HandlerSections'
  <2>1. sec'[t].pc = "out" /\ OthersStay(t)
    BY <1>2, LeaveEffect DEF Ground
  <2>2. \A l \in Listeners :
          sec'[Handler(l)] = sec[Handler(l)] \/ sec'[Handler(l)].pc = "out"
    BY <2>1, ThreadFacts DEF OthersStay
  <2>3. QED
    BY <1>0, <2>2, HandlersKept
<1>3. ASSUME NEW l \in Listeners, Start(l) \/ Look(l) \/ Refuse(l) \/ ReadLink(l)
      PROVE  HandlerSections'
  <2>1. sec' = sec
    BY <1>3, StartEffect, LookEffect, RefuseEffect, ReadLinkEffect DEF Ground
  <2>2. QED
    BY <1>0, <2>1, HandlersKept
<1>4. ASSUME NEW l \in Listeners, Bind(l) \/ UnlinkSocket(l) \/ Stop(l)
      PROVE  HandlerSections'
  <2>1. OthersStay(Main(l))
    BY <1>4, BindEffect, UnlinkSocketEffect, StopEffect DEF Ground
  <2>2. \A m \in Listeners : sec'[Handler(m)] = sec[Handler(m)]
    BY <2>1, ThreadFacts DEF OthersStay
  <2>3. QED
    BY <1>0, <2>2, HandlersKept
<1>5. ASSUME NEW l \in Listeners, Notice(l)
      PROVE  HandlerSections'
  <2>1. /\ life[l] = "up" /\ life' = life /\ OthersStay(Handler(l))
        /\ sec'[Handler(l)].pc = "wait" /\ sec'[Handler(l)].op = "update"
        /\ sec'[Handler(l)].who = l /\ sec'[Handler(l)].todo = Copies(l)
        /\ sec'[Handler(l)].status = "new-msg"
    BY <1>5, NoticeEffect DEF Ground
  <2>2. Copies(l)' = Copies(l)
    BY <1>0, <2>1, PathsStay
  <2>3. Begun(l)
    BY <2>1 DEF Ground, BeganOnce, InTurn, Up
  <2>4. Begun(l)'
    BY <1>0, <2>3, StaysBegun
  <2>5. HandlerSection(l)'
    BY <2>1, <2>2, <2>4 DEF HandlerSection
  <2>6. \A m \in Listeners : m # l => sec'[Handler(m)] = sec[Handler(m)]
    BY <2>1, ThreadFacts DEF OthersStay
  <2>7. \A m \in Listeners : m # l => HandlerSection(m)'
    BY <1>0, <2>6, HandlerStays
  <2>8. QED
    BY <2>5, <2>7 DEF HandlerSections
<1>6. ASSUME NEW l \in Listeners, Crash(l)
      PROVE  HandlerSections'
  <2>1. /\ sec'[Main(l)].pc = "out" /\ sec'[Handler(l)].pc = "out"
        /\ \A u \in Threads : u \notin {Main(l), Handler(l)} => sec'[u] = sec[u]
    BY <1>6, CrashEffect DEF Ground
  <2>2. \A m \in Listeners :
          sec'[Handler(m)] = sec[Handler(m)] \/ sec'[Handler(m)].pc = "out"
    BY <2>1, ThreadFacts
  <2>3. QED
    BY <1>0, <2>2, HandlersKept
<1>7. ASSUME NEW h \in Helpers,
             \/ PruneLook(h) \/ PruneVerify(h) \/ PruneUnlink(h)
             \/ (\E n \in Names : WaitReturns(h, n))
      PROVE  HandlerSections'
  <2>1. sec' = sec
    BY <1>7, PruneLookEffect, PruneVerifyEffect, PruneUnlinkEffect, WaitReturnsEffect DEF Ground
  <2>2. QED
    BY <1>0, <2>1, HandlersKept
<1>8. ASSUME NEW h \in Helpers, PruneJudge(h) \/ Reset(h) \/ HelperCrash(h)
      PROVE  HandlerSections'
  <2>1. sec' = sec \/ OthersStay(Main(h))
    BY <1>8, PruneJudgeEffect, ResetEffect, HelperCrashEffect DEF Ground
  <2>2. \A l \in Listeners : Handler(l) # Main(h) /\ Handler(l) \in Threads
    BY ThreadFacts
  <2>3. \A l \in Listeners : sec'[Handler(l)] = sec[Handler(l)]
    BY <2>1, <2>2 DEF OthersStay
  <2>4. QED
    BY <1>0, <2>3, HandlersKept
<1>9. ASSUME UNCHANGED <<json, key, sock, link, setup, life, pid, name, halt, met, began,
                         holder, sec, job, unlocked, late, unread, crossed>>
      PROVE  HandlerSections'
  BY <1>0, <1>9, HandlersKept
<1>10. QED
  BY <1>1, <1>2, <1>3, <1>4, <1>5, <1>6, <1>7, <1>8, <1>9, Steps

-----------------------------------------------------------------------------

(* ... and of a helper.                                                    *)
LEMMA HelperStays ==
  ASSUME Ground, Forward, NEW h \in Helpers,
         sec'[Handler(h)] = sec[Handler(h)],
         \/ sec'[Main(h)].pc = "out"
         \/ sec'[Main(h)] = sec[Main(h)] /\ (job'[h] = job[h] \/ sec[Main(h)].pc = "out")
  PROVE  HelperSection(h)'
<1>1. HelperSection(h)
  BY DEF Ground, HelperSections
<1>2. CASE sec'[Main(h)].pc = "out"
  BY <1>1, <1>2 DEF HelperSection
<1>3. CASE sec'[Main(h)] = sec[Main(h)] /\ sec[Main(h)].pc # "out"
  <2>1. sec[Main(h)].who \in Listeners /\ Begun(sec[Main(h)].who)
    BY <1>1, <1>3 DEF HelperSection
  <2>2. life[sec[Main(h)].who] # "new"
    BY <2>1 DEF Ground, BeganOnce, InTurn
  <2>3. /\ Copies(sec[Main(h)].who)' = Copies(sec[Main(h)].who)
        /\ Begun(sec[Main(h)].who)'
    <3>1. PICK l \in Listeners : l = sec[Main(h)].who
      BY <2>1
    <3>2. Copies(l)' = Copies(l) /\ Begun(l)'
      BY <2>1, <2>2, <3>1, PathsStay, StaysBegun
    <3>3. sec'[Main(h)].who = l
      BY <1>3, <3>1
    <3>4. QED
      BY <3>1, <3>2, <3>3 DEF Copies, Begun, Own, Claude
  <2>4. QED
    BY <1>1, <1>3, <2>1, <2>3 DEF HelperSection
<1>4. QED
  BY <1>2, <1>3

LEMMA HelperGoesOn ==
  ASSUME Ground, Forward, NEW h \in Helpers, Enter(Main(h)) \/ Inner(Main(h))
  PROVE  HelperSection(h)'
<1>1. Main(h) \in Threads /\ Handler(h) \in Threads /\ Main(h) # Handler(h)
  BY ThreadFacts
<1>2. /\ sec[Main(h)].pc # "out" /\ job' = job
      /\ GoesOn(Main(h), {"copy", "write"})
      /\ sec'[Main(h)].todo \subseteq sec[Main(h)].todo
      /\ sec'[Main(h)].pc = "write" => sec'[Main(h)].todo # {}
  <2>1. CASE Enter(Main(h))
    BY <1>1, <2>1, EnterEffect DEF Ground, GoesOn
  <2>2. CASE Inner(Main(h))
    BY <1>1, <2>2, InnerEffect DEF Ground, Inside
  <2>3. QED
    BY <2>1, <2>2
<1>3. HelperSection(h)
  BY DEF Ground, HelperSections
<1>4. PICK l \in Listeners : l = sec[Main(h)].who /\ Begun(l)
  BY <1>2, <1>3 DEF HelperSection
<1>5. life[l] # "new"
  BY <1>4 DEF Ground, BeganOnce, InTurn
<1>6. Copies(l)' = Copies(l) /\ Begun(l)'
  BY <1>4, <1>5, PathsStay, StaysBegun
<1>7. sec'[Main(h)].who = l /\ sec'[Main(h)].op = sec[Main(h)].op
      /\ sec'[Main(h)].status = sec[Main(h)].status
      /\ sec'[Handler(h)] = sec[Handler(h)]
  BY <1>1, <1>2, <1>4 DEF GoesOn, OthersStay
<1>8. /\ sec[Main(h)].todo \subseteq Copies(l)
      /\ \/ sec[Main(h)].op = "remove" /\ job[h].pc = "prune" /\ l = job[h].cur
         \/ sec[Main(h)].op = "update" /\ job[h].pc = "reset" /\ sec[Main(h)].status = "idle"
      /\ sec[Handler(h)].pc = "out"
  BY <1>2, <1>3, <1>4 DEF HelperSection
<1>9. Begun(sec[Main(h)].who)' /\ Copies(sec[Main(h)].who)' = Copies(l)
  BY <1>6, <1>7 DEF Copies, Begun, Own, Claude
<1>10. QED
  BY <1>2, <1>7, <1>8, <1>9 DEF HelperSection

LEMMA HelpersKept ==
  ASSUME Ground, Forward,
         \A h \in Helpers :
           /\ sec'[Handler(h)] = sec[Handler(h)]
           /\ \/ sec'[Main(h)].pc = "out"
              \/ sec'[Main(h)] = sec[Main(h)] /\ (job'[h] = job[h] \/ sec[Main(h)].pc = "out")
  PROVE  HelperSections'
<1>1. \A h \in Helpers : HelperSection(h)'
  BY HelperStays
<1>2. QED
  BY <1>1 DEF HelperSections

(* The other helpers, and theirs.                                          *)
HelpersApart(h) ==
  \A g \in Helpers :
    g # h => /\ sec'[Handler(g)] = sec[Handler(g)] /\ sec'[Main(g)] = sec[Main(g)]
             /\ job'[g] = job[g]

LEMMA HelperApart ==
  ASSUME Ground, Forward, NEW h \in Helpers, HelpersApart(h), HelperSection(h)'
  PROVE  HelperSections'
<1>1. \A g \in Helpers : HelperSection(g)'
  BY HelperStays DEF HelpersApart
<1>2. QED
  BY <1>1 DEF HelperSections

LEMMA NoHelperSection ==
  ASSUME Ground, NEW h \in Helpers, job[h].pc \notin {"prune", "reset"}
  PROVE  sec[Main(h)].pc = "out"
BY DEF Ground, HelperSections, HelperSection

(* Every step keeps the sections of helpers right.                         *)
LEMMA HelperSectionsStep ==
  ASSUME Ground, EntriesOwn, PrunesTheDead, StepOf
  PROVE  HelperSections'
<1>0. Forward
  BY AllGoForward
<1>1. ASSUME NEW t \in Threads, Enter(t) \/ Inner(t)
      PROVE  HelperSections'
  <2>1. OthersStay(t) /\ job' = job
    BY <1>1, EnterEffect, InnerEffect DEF GoesOn, Ground
  <2>2. sec[t].pc # "out"
    BY <1>1, EnterEffect, InnerEffect DEF Ground, Inside
  <2>3. ASSUME NEW h \in Helpers
        PROVE  HelperSection(h)'
    <3>1. CASE t = Main(h)
      BY <1>0, <1>1, <3>1, HelperGoesOn
    <3>2. CASE t # Main(h)
      <4>1. t # Handler(h)
        BY <2>2 DEF Ground, HelperSections, HelperSection
      <4>2. sec'[Main(h)] = sec[Main(h)] /\ sec'[Handler(h)] = sec[Handler(h)]
        BY <2>1, <3>2, <4>1, ThreadFacts DEF OthersStay
      <4>3. QED
        BY <1>0, <2>1, <4>2, HelperStays
    <3>3. QED
      BY <3>1, <3>2
  <2>4. QED
    BY <2>3 DEF HelperSections
<1>2. ASSUME NEW t \in Threads, Leave(t)
      PROVE  HelperSections'
  <2>1. /\ sec[t].pc = "copy" /\ sec'[t].pc = "out" /\ OthersStay(t)
        /\ \/ job' = job
           \/ \E j : t[1] \in Helpers /\ job' = [job EXCEPT ![t[1]] = j]
    BY <1>2, LeaveEffect DEF Ground
  <2>2. ASSUME NEW h \in Helpers
        PROVE  HelperSection(h)'
    <3>1. t # Handler(h)
      BY <2>1 DEF Ground, HelperSections, HelperSection
    <3>2. sec'[Handler(h)] = sec[Handler(h)]
      BY <2>1, <3>1, ThreadFacts DEF OthersStay
    <3>3. CASE t = Main(h)
      BY <1>0, <2>1, <3>2, <3>3, HelperStays
    <3>4. CASE t # Main(h)
      <4>1. t[1] # h
        BY <3>1, <3>4, ThreadFacts
      <4>2. job'[h] = job[h] /\ sec'[Main(h)] = sec[Main(h)]
        BY <2>1, <3>4, <4>1, ThreadFacts DEF Ground, RegTypeOK, OthersStay
      <4>3. QED
        BY <1>0, <3>2, <4>2, HelperStays
    <3>5. QED
      BY <3>3, <3>4
  <2>3. QED
    BY <2>2 DEF HelperSections
<1>3. ASSUME NEW l \in Listeners, Start(l) \/ Look(l) \/ Refuse(l) \/ ReadLink(l)
      PROVE  HelperSections'
  <2>1. sec' = sec /\ job' = job
    BY <1>3, StartEffect, LookEffect, RefuseEffect, ReadLinkEffect DEF Ground
  <2>2. QED
    BY <1>0, <2>1, HelpersKept
<1>4. ASSUME NEW l \in Listeners,
             Bind(l) \/ UnlinkSocket(l) \/ Stop(l) \/ Notice(l) \/ Crash(l)
      PROVE  HelperSections'
  <2>1. /\ \A u \in Threads : u \notin {Main(l), Handler(l)} => sec'[u] = sec[u]
        /\ job' = job
    BY <1>4, BindEffect, UnlinkSocketEffect, StopEffect, NoticeEffect, CrashEffect
       DEF Ground, OthersStay
  <2>2. \A h \in Helpers : h # l /\ h \in Procs /\ l \in Procs
    BY ThreadFacts
  <2>3. \A h \in Helpers : sec'[Main(h)] = sec[Main(h)] /\ sec'[Handler(h)] = sec[Handler(h)]
    BY <2>1, <2>2, ThreadFacts
  <2>4. QED
    BY <1>0, <2>1, <2>3, HelpersKept
<1>5. ASSUME NEW h \in Helpers,
             \/ PruneLook(h) \/ PruneVerify(h) \/ PruneUnlink(h)
             \/ (\E n \in Names : WaitReturns(h, n))
      PROVE  HelperSections'
  <2>1. job[h].pc \in {"idle", "verify", "unlink"} /\ sec' = sec /\ OthersWork(h)
    BY <1>5, PruneLookEffect, PruneVerifyEffect, PruneUnlinkEffect, WaitReturnsEffect DEF Ground
  <2>2. sec[Main(h)].pc = "out"
    BY <2>1, NoHelperSection
  <2>3. QED
    BY <1>0, <2>1, <2>2, HelpersKept DEF OthersWork
<1>6. ASSUME NEW h \in Helpers, HelperCrash(h)
      PROVE  HelperSections'
  <2>1. sec'[Main(h)].pc = "out" /\ OthersStay(Main(h)) /\ OthersWork(h)
    BY <1>6, HelperCrashEffect DEF Ground
  <2>2. \A g \in Helpers :
          /\ sec'[Handler(g)] = sec[Handler(g)]
          /\ g # h => sec'[Main(g)] = sec[Main(g)]
    BY <2>1, ThreadFacts DEF OthersStay
  <2>3. QED
    BY <1>0, <2>1, <2>2, HelpersKept DEF OthersWork
<1>7. ASSUME NEW h \in Helpers, PruneJudge(h)
      PROVE  HelperSections'
  <2>1. PICK l \in job[h].dead :
          /\ job[h].pc = "judge" /\ job'[h].pc = "prune" /\ job'[h].cur = l /\ OthersWork(h)
          /\ sec'[Main(h)].pc = "wait" /\ sec'[Main(h)].op = "remove"
          /\ sec'[Main(h)].who = l /\ sec'[Main(h)].todo = job[h].copies[l]
          /\ OthersStay(Main(h))
    BY <1>7, PruneJudgeEffect DEF Ground
  <2>2. l \in Listeners /\ Begun(l) /\ job[h].copies[l] \subseteq Copies(l)
    BY DEF Ground, RegTypeOK, Jobs, PrunesTheDead, PruneRight
  <2>3. life[l] # "new"
    BY <2>2 DEF Ground, BeganOnce, InTurn
  <2>4. Copies(l)' = Copies(l) /\ Begun(l)'
    BY <1>0, <2>2, <2>3, PathsStay, StaysBegun
  <2>5. \A g \in Helpers :
          /\ sec'[Handler(g)] = sec[Handler(g)]
          /\ g # h => sec'[Main(g)] = sec[Main(g)]
    BY <2>1, ThreadFacts DEF OthersStay
  <2>6. sec'[Handler(h)].pc = "out"
    BY <2>5 DEF Ground, HelperSections, HelperSection
  <2>7. Begun(sec[Main(h)].who)' /\ Copies(sec[Main(h)].who)' = Copies(l)
    BY <2>1, <2>4 DEF Copies, Begun, Own, Claude
  <2>8. HelperSection(h)'
    BY <2>1, <2>2, <2>6, <2>7 DEF HelperSection
  <2>9. QED
    BY <1>0, <2>1, <2>5, <2>8, HelperApart DEF HelpersApart, OthersWork
<1>8. ASSUME NEW h \in Helpers, Reset(h)
      PROVE  HelperSections'
  <2>1. job[h].pc = "print" /\ OthersWork(h)
    BY <1>8, ResetEffect DEF Ground
  <2>2. sec[Main(h)].pc = "out"
    BY <2>1, NoHelperSection
  <2>3. CASE sec' = sec
    BY <1>0, <2>1, <2>2, <2>3, HelpersKept DEF OthersWork
  <2>4. CASE \E l \in LiveSessions :
               /\ job'[h].pc = "reset"
               /\ sec'[Main(h)].pc = "wait" /\ sec'[Main(h)].op = "update"
               /\ sec'[Main(h)].who = l /\ sec'[Main(h)].todo = Listed(l)
               /\ sec'[Main(h)].status = "idle" /\ OthersStay(Main(h))
    <3>1. PICK l \in LiveSessions :
               /\ job'[h].pc = "reset"
               /\ sec'[Main(h)].pc = "wait" /\ sec'[Main(h)].op = "update"
               /\ sec'[Main(h)].who = l /\ sec'[Main(h)].todo = Listed(l)
               /\ sec'[Main(h)].status = "idle" /\ OthersStay(Main(h))
      BY <2>4
    <3>2. l \in Listeners /\ Listed(l) # {}
      BY DEF LiveSessions, Sessions
    <3>3. Begun(l) /\ Listed(l) \subseteq Copies(l)
      BY <3>2 DEF EntriesOwn, Listed
    <3>4. life[l] # "new"
      BY <3>2, <3>3 DEF Ground, BeganOnce, InTurn
    <3>5. Copies(l)' = Copies(l) /\ Begun(l)'
      BY <1>0, <3>2, <3>3, <3>4, PathsStay, StaysBegun
    <3>6. \A g \in Helpers :
            /\ sec'[Handler(g)] = sec[Handler(g)]
            /\ g # h => sec'[Main(g)] = sec[Main(g)]
      BY <3>1, ThreadFacts DEF OthersStay
    <3>7. sec'[Handler(h)].pc = "out"
      BY <3>6 DEF Ground, HelperSections, HelperSection
    <3>8. Begun(sec[Main(h)].who)' /\ Copies(sec[Main(h)].who)' = Copies(l)
      BY <3>1, <3>5 DEF Copies, Begun, Own, Claude
    <3>9. HelperSection(h)'
      BY <3>1, <3>2, <3>3, <3>7, <3>8 DEF HelperSection
    <3>10. QED
      BY <1>0, <2>1, <3>6, <3>9, HelperApart DEF HelpersApart, OthersWork
  <2>5. QED
    BY <1>8, <2>3, <2>4, ResetEffect DEF Ground
<1>9. ASSUME UNCHANGED <<json, key, sock, link, setup, life, pid, name, halt, met, began,
                         holder, sec, job, unlocked, late, unread, crossed>>
      PROVE  HelperSections'
  BY <1>0, <1>9, HelpersKept
<1>10. QED
  BY <1>1, <1>2, <1>3, <1>4, <1>5, <1>6, <1>7, <1>8, <1>9, Steps

-----------------------------------------------------------------------------
(* Names and turns                                                         *)

(* Every set of numbers that is not empty has a least one.                 *)
LEMMA Least ==
  ASSUME NEW S, S \subseteq Nat, S # {}
  PROVE  \E x \in S : \A y \in S : x <= y
<1> DEFINE Order == StrictSubsetOrdering(Nat)
           Below == {0 .. x - 1 : x \in S}
<1>1. IsWellFoundedOn(Order, FiniteSubsetsOf(Nat))
  BY FS_StrictSubsetOrderingWellFounded
<1>2. Below \subseteq FiniteSubsetsOf(Nat) /\ Below # {}
  <2>1. \A x \in S : 0 .. x - 1 \in SUBSET Nat /\ IsFiniteSet(0 .. x - 1)
    BY FS_Interval
  <2>2. QED
    BY <2>1 DEF FiniteSubsetsOf
<1>3. PICK b \in Below : \A c \in Below : <<c, b>> \notin Order
  <2> HIDE DEF Order, Below
  <2>1. QED
    BY <1>1, <1>2, WFMin, Zenon
<1>4. PICK x \in S : b = 0 .. x - 1
  BY <1>3
<1>5. ASSUME NEW y \in S, ~(x <= y) PROVE FALSE
  <2>1. 0 .. y - 1 \subseteq 0 .. x - 1 /\ y \in 0 .. x - 1 /\ y \notin 0 .. y - 1
    BY <1>5
  <2>2. <<0 .. y - 1, 0 .. x - 1>> \in Order
    BY <2>1 DEF StrictSubsetOrdering
  <2>3. QED
    BY <1>3, <1>4, <2>2
<1>6. QED
  BY <1>5

(* There are finitely many listeners.                                      *)
LEMMA ListenersFinite ==
  /\ MaxRuns \in Nat /\ Listeners \subseteq Nat
  /\ IsFiniteSet(Listeners) /\ Cardinality(Listeners) = MaxRuns
<1>1. MaxRuns \in Nat
  BY RegistryAssumption DEF RegistryAssumption
<1>2. IsFiniteSet(1 .. MaxRuns) /\ Cardinality(1 .. MaxRuns) = MaxRuns
  BY <1>1, FS_Interval
<1>3. QED
  BY <1>1, <1>2 DEF Listeners

(* With as many names as listeners one is free for each of them.           *)
LEMMA AName ==
  ASSUME NEW l \in Listeners
  PROVE  \E n \in Names : \A m \in OtherSessions(l) : name[m] # n
<1>1. SUFFICES ASSUME \A n \in Names : \E m \in OtherSessions(l) : name[m] = n
               PROVE  FALSE
  OBVIOUS
<1> DEFINE Rest == Listeners \ {l}
           f == [n \in Names |-> CHOOSE m \in Rest : name[m] = n]
<1>2. OtherSessions(l) \subseteq Rest
  BY DEF OtherSessions, LiveSessions, Sessions
<1>3. \A n \in Names : f[n] \in Rest /\ name[f[n]] = n
  BY <1>1, <1>2
<1>4. f \in [Names -> Rest]
  BY <1>3
<1>5. /\ IsFiniteSet(Rest) /\ IsFiniteSet(Names) /\ Cardinality(Rest) < Cardinality(Names)
  BY ListenersFinite, FS_RemoveElement DEF Names
<1> HIDE DEF f, Rest
<1>6. \E x, y \in Names : x # y /\ f[x] = f[y]
  BY <1>4, <1>5, FS_PigeonHole
<1>7. QED
  BY <1>3, <1>6

(* The name that is looked for is no other live session's.                 *)
LEMMA FreeNameIsFree ==
  ASSUME NEW l \in Listeners
  PROVE  FreeName(l) \in Names /\ \A m \in OtherSessions(l) : name[m] # FreeName(l)
<1> DEFINE Free == {n \in Names : \A m \in OtherSessions(l) : name[m] # n}
<1>1. Free # {} /\ Free \subseteq Nat
  BY AName, ListenersFinite DEF Names
<1>2. PICK n \in Free : \A k \in Free : n <= k
  <2> HIDE DEF Free
  <2>1. QED
    BY <1>1, Least
<1>3. n \in Names /\ \A m \in OtherSessions(l) : name[m] # n
  OBVIOUS
<1>4. \A k \in 1 .. n - 1 : k \in Names /\ k \in Nat /\ ~(n <= k)
  BY <1>3, ListenersFinite DEF Names, Listeners
<1>5. \A k \in 1 .. n - 1 : \E m \in OtherSessions(l) : name[m] = k
  BY <1>2, <1>4
<1>6. QED
  BY <1>3, <1>5 DEF FreeName

BegunOnes == {m \in Listeners : Begun(m)}

(* Those that have begun to register are finitely many.                    *)
LEMMA BegunFinite ==
  /\ IsFiniteSet(BegunOnes) /\ Cardinality(BegunOnes) \in Nat
  /\ Cardinality(BegunOnes) <= MaxRuns
<1>1. BegunOnes \in SUBSET Listeners
  BY DEF BegunOnes
<1>2. QED
  BY <1>1, ListenersFinite, FS_Subset, FS_CardinalityType

(* The one that enters its registration gets the next number.              *)
LEMMA NextBegins ==
  ASSUME Ground, NEW t \in Threads, Enter(t), sec[t].op = "register"
  PROVE  \E l \in Listeners :
           /\ l = sec[t].who /\ t = Main(l) /\ life[l] = "register" /\ ~Begun(l)
           /\ began'[l] = 1 + Cardinality(BegunOnes)
           /\ \A m \in Listeners : m # l => began'[m] = began[m]
           /\ BegunOnes' = BegunOnes \cup {l}
           /\ Cardinality(BegunOnes') = 1 + Cardinality(BegunOnes)
           /\ 1 + Cardinality(BegunOnes) <= MaxRuns
           /\ began' \in [Listeners -> 0 .. MaxRuns]
<1>1. /\ sec[t].pc = "wait"
      /\ began' = [began EXCEPT ![sec[t].who] = 1 + Cardinality(BegunOnes)]
  BY EnterEffect DEF Ground, BegunOnes
<1>2. PICK l \in Listeners : l = sec[t].who /\ t = Main(l) /\ life[l] = "register" /\ ~Begun(l)
  BY <1>1, RegisterOnce
<1>3. /\ began'[l] = 1 + Cardinality(BegunOnes)
      /\ \A m \in Listeners : m # l => began'[m] = began[m]
  BY <1>1, <1>2 DEF Ground, RegTypeOK
<1>4. BegunOnes' = BegunOnes \cup {l}
  BY <1>3, BegunFinite DEF BegunOnes, Begun
<1>5. l \notin BegunOnes
  BY <1>2 DEF BegunOnes
<1>6. Cardinality(BegunOnes \cup {l}) = 1 + Cardinality(BegunOnes)
  <2>1. Cardinality(BegunOnes \cup {l}) =
          IF l \in BegunOnes THEN Cardinality(BegunOnes) ELSE Cardinality(BegunOnes) + 1
    <3>1. IsFiniteSet(BegunOnes)
      BY BegunFinite
    <3>2. QED
      BY <3>1, FS_AddElement, Zenon
  <2>2. QED
    BY <1>5, <2>1, BegunFinite
<1>7. 1 + Cardinality(BegunOnes) <= MaxRuns
  <2>1. BegunOnes \cup {l} \in SUBSET Listeners
    BY DEF BegunOnes
  <2>2. Cardinality(BegunOnes \cup {l}) <= MaxRuns
    BY <2>1, ListenersFinite, FS_Subset
  <2>3. QED
    BY <1>6, <2>2
<1>8. began' \in [Listeners -> 0 .. MaxRuns]
  <2>1. 1 + Cardinality(BegunOnes) \in 0 .. MaxRuns
    BY <1>7, BegunFinite, ListenersFinite
  <2>2. QED
    BY <1>1, <2>1 DEF Ground, RegTypeOK
<1>9. QED
  BY <1>2, <1>3, <1>4, <1>6, <1>7, <1>8

(* A listener is in turn after a step that leaves its place in the order   *)
(* alone.                                                                  *)
LEMMA InTurnStays ==
  ASSUME Ground, Forward, NEW l \in Listeners,
         began'[l] = began[l],
         life'[l] = "register" =>
           \/ life[l] = "register" /\ (Inside(Main(l))' <=> Inside(Main(l)))
           \/ life[l] = "bind" /\ ~Inside(Main(l))',
         Rises(l) => Inside(Main(l)),
         Looks(l) => name'[l] # None
  PROVE  InTurn(l)'
<1>1. InTurn(l) /\ (Begun(l)' <=> Begun(l))
  BY DEF Ground, BeganOnce, Begun
<1>2. name'[l] = name[l] \/ Looks(l)
  BY DEF Forward
<1>3. life'[l] = life[l] \/ Turns(l)
  BY DEF Forward
<1>4. CASE life'[l] = life[l]
  BY <1>1, <1>2, <1>4 DEF InTurn, Looks, Up
<1>5. CASE Starts(l) \/ Looks(l) \/ Binds(l) \/ Rises(l)
  BY <1>1, <1>2, <1>5 DEF InTurn, Starts, Looks, Binds, Rises, Up
<1>6. CASE Stops(l) \/ Reads(l) \/ Unlinks(l) \/ Goes(l) \/ Dies(l)
  BY <1>6 DEF InTurn, Stops, Reads, Unlinks, Goes, Dies, Up
<1>7. QED
  BY <1>3, <1>4, <1>5, <1>6 DEF Turns

LEMMA BeganStays ==
  ASSUME Ground, began' = began, \A l \in Listeners : InTurn(l)'
  PROVE  BeganOnce'
<1>1. {m \in Listeners : Begun(m)}' = {m \in Listeners : Begun(m)}
  BY DEF Begun
<1>2. QED
  BY <1>1 DEF Ground, BeganOnce, Begun

LEMMA InTurnUnmoved ==
  ASSUME Ground, Forward, UNCHANGED <<began, life>>,
         \A l \in Listeners : sec'[Main(l)] = sec[Main(l)]
  PROVE  BeganOnce'
<1>1. \A l \in Listeners : InTurn(l)'
  BY InTurnStays DEF Inside, Rises, Looks
<1>2. QED
  BY <1>1, BeganStays

(* Every step keeps the order in which listeners registered one of them    *)
(* by one.                                                                 *)
LEMMA BeganOnceStep ==
  ASSUME Ground, StepOf
  PROVE  BeganOnce'
<1>0. Forward
  BY AllGoForward
<1>1. ASSUME NEW t \in Threads, Enter(t), sec[t].op = "register"
      PROVE  BeganOnce'
  <2>1. PICK l \in Listeners :
           /\ l = sec[t].who /\ t = Main(l) /\ life[l] = "register" /\ ~Begun(l)
           /\ began'[l] = 1 + Cardinality(BegunOnes)
           /\ \A m \in Listeners : m # l => began'[m] = began[m]
           /\ BegunOnes' = BegunOnes \cup {l}
           /\ Cardinality(BegunOnes') = 1 + Cardinality(BegunOnes)
    BY <1>1, NextBegins
  <2>2. UNCHANGED <<life, name>> /\ sec'[t].pc = "copy" /\ OthersStay(t)
    BY <1>1, EnterEffect DEF Ground, GoesOn
  <2>3. Cardinality(BegunOnes) \in Nat /\ \A m \in Listeners : began[m] \in Nat
    BY BegunFinite, ListenersFinite DEF Ground, RegTypeOK
  <2>4. \A m \in Listeners : began[m] <= Cardinality(BegunOnes)
    BY DEF Ground, BeganOnce, BegunOnes
  <2>5. \A m \in Listeners : began'[m] <= Cardinality(BegunOnes')
    BY <2>1, <2>3, <2>4
  <2>6. \A k, m \in Listeners : Begun(k)' /\ began'[k] = began'[m] => k = m
    BY <2>1, <2>3, <2>4 DEF Ground, BeganOnce, Begun
  <2>7. InTurn(l)'
    <3>1. InTurn(l) /\ Begun(l)'
      BY <2>1, <2>3 DEF Ground, BeganOnce, Begun
    <3>2. QED
      BY <2>1, <2>2, <3>1 DEF InTurn, Inside, Up
  <2>8. \A m \in Listeners : m # l => InTurn(m)'
    <3>1. \A m \in Listeners : m # l => sec'[Main(m)] = sec[Main(m)]
      BY <2>1, <2>2, ThreadFacts DEF OthersStay
    <3>2. QED
      BY <1>0, <2>1, <2>2, <3>1, InTurnStays DEF Inside, Rises, Looks
  <2>9. QED
    BY <2>5, <2>6, <2>7, <2>8 DEF BeganOnce, BegunOnes
<1>2. ASSUME NEW t \in Threads, Enter(t), sec[t].op # "register"
      PROVE  BeganOnce'
  <2>1. UNCHANGED <<life, began>> /\ OthersStay(t) /\ sec[t].pc = "wait"
    BY <1>2, EnterEffect DEF Ground, GoesOn
  <2>2. ASSUME NEW l \in Listeners
        PROVE  InTurn(l)'
    <3>1. life[l] = "register" => t # Main(l)
      BY <1>2, <2>1 DEF Ground, MainSections, MainSection
    <3>2. life[l] = "register" => sec'[Main(l)] = sec[Main(l)]
      BY <2>1, <3>1, ThreadFacts DEF OthersStay
    <3>3. QED
      BY <1>0, <2>1, <3>2, InTurnStays DEF Inside, Rises, Looks
  <2>3. QED
    BY <2>1, <2>2, BeganStays
<1>3. ASSUME NEW t \in Threads, Inner(t)
      PROVE  BeganOnce'
  <2>1. /\ UNCHANGED <<life, began>> /\ OthersStay(t) /\ Inside(t)
        /\ sec'[t].pc \in {"copy", "write"}
    BY <1>3, InnerEffect DEF Ground, GoesOn
  <2>2. \A l \in Listeners : Inside(Main(l))' <=> Inside(Main(l))
    BY <2>1, ThreadFacts DEF OthersStay, Inside
  <2>3. \A l \in Listeners : InTurn(l)'
    BY <1>0, <2>1, <2>2, InTurnStays DEF Rises, Looks
  <2>4. QED
    BY <2>1, <2>3, BeganStays
<1>4. ASSUME NEW t \in Threads, Leave(t)
      PROVE  BeganOnce'
  <2>1. /\ began' = began /\ OthersStay(t) /\ sec[t].pc = "copy" /\ name' = name
        /\ \/ life' = life /\ (t[1] \in Listeners => sec[t].op \notin {"register", "remove"})
           \/ t[1] \in Listeners /\ sec[t].op = "register" /\ life' = [life EXCEPT ![t[1]] = "up"]
           \/ t[1] \in Listeners /\ sec[t].op = "remove" /\ life' = [life EXCEPT ![t[1]] = "gone"]
    BY <1>4, LeaveEffect DEF Ground
  <2>2. ASSUME NEW l \in Listeners
        PROVE  InTurn(l)'
    <3>1. CASE life[l] = "register"
      <4>1. CASE t = Main(l)
        <5>1. sec[t].op = "register" /\ t[1] = l
          BY <2>1, <3>1, <4>1, ThreadFacts DEF Ground, MainSections, MainSection
        <5>2. life'[l] = "up"
          BY <2>1, <5>1 DEF Ground, RegTypeOK
        <5>3. QED
          BY <1>0, <2>1, <4>1, <5>2, InTurnStays DEF Inside, Looks
      <4>2. CASE t # Main(l)
        <5>1. sec'[Main(l)] = sec[Main(l)]
          BY <2>1, <4>2, ThreadFacts DEF OthersStay
        <5>2. ~(t[1] = l /\ sec[t].op = "register")
          <6>1. ASSUME t[1] = l, sec[t].op = "register"
                PROVE  FALSE
            <7>1. t = Handler(l)
              BY <4>2, <6>1, ThreadFacts
            <7>2. QED
              BY <2>1, <6>1, <7>1 DEF Ground, HandlerSections, HandlerSection
          <6>2. QED
            BY <6>1
        <5>3. ~Rises(l)
          BY <2>1, <5>2 DEF Ground, RegTypeOK, Rises
        <5>4. QED
          BY <1>0, <2>1, <3>1, <5>1, <5>3, InTurnStays DEF Inside, Looks
      <4>3. QED
        BY <4>1, <4>2
    <3>2. CASE life[l] # "register"
      <4>1. life'[l] # "register"
        BY <2>1, <3>2 DEF Ground, RegTypeOK
      <4>2. life'[l] # "bind" \/ life[l] = "bind"
        BY <2>1 DEF Ground, RegTypeOK
      <4>3. QED
        BY <1>0, <2>1, <3>2, <4>1, <4>2, InTurnStays DEF Rises, Looks
    <3>3. QED
      BY <3>1, <3>2
  <2>3. QED
    BY <2>1, <2>2, BeganStays
<1>5. ASSUME NEW l \in Listeners, Start(l) \/ Refuse(l) \/ ReadLink(l)
      PROVE  BeganOnce'
  <2>1. /\ sec' = sec /\ began' = began /\ OthersLive(l)
        /\ life[l] \in {"new", "look", "closing"} /\ life'[l] \in {"look", "closing", "unlink"}
    BY <1>5, StartEffect, RefuseEffect, ReadLinkEffect DEF Ground
  <2>2. \A m \in Listeners : InTurn(m)'
    BY <1>0, <2>1, InTurnStays DEF OthersLive, Inside, Rises, Looks
  <2>3. QED
    BY <2>1, <2>2, BeganStays
<1>6. ASSUME NEW l \in Listeners, Look(l)
      PROVE  BeganOnce'
  <2>1. /\ sec' = sec /\ began' = began /\ OthersLive(l) /\ name' = [name EXCEPT ![l] = FreeName(l)]
        /\ life[l] = "look" /\ life'[l] = "bind"
    BY <1>6, LookEffect DEF Ground
  <2>2. name'[l] # None
    BY <2>1, FreeNameIsFree, ThreadFacts DEF Ground, RegTypeOK, Names
  <2>3. \A m \in Listeners : InTurn(m)'
    BY <1>0, <2>1, <2>2, InTurnStays DEF OthersLive, Inside, Rises, Looks
  <2>4. QED
    BY <2>1, <2>3, BeganStays
<1>7. ASSUME NEW l \in Listeners, Bind(l)
      PROVE  BeganOnce'
  <2>1. /\ began' = began /\ OthersLive(l) /\ OthersStay(Main(l)) /\ sec'[Main(l)].pc = "wait"
        /\ life[l] = "bind" /\ life'[l] = "register"
    BY <1>7, BindEffect DEF Ground
  <2>2. InTurn(l)'
    BY <1>0, <2>1, InTurnStays DEF Inside, Rises, Looks
  <2>3. \A m \in Listeners : m # l => sec'[Main(m)] = sec[Main(m)]
    BY <2>1, ThreadFacts DEF OthersStay
  <2>4. \A m \in Listeners : m # l => InTurn(m)'
    BY <1>0, <2>1, <2>3, InTurnStays DEF OthersLive, Inside, Rises, Looks
  <2>5. QED
    BY <2>1, <2>2, <2>4, BeganStays
<1>8. ASSUME NEW l \in Listeners, Stop(l) \/ UnlinkSocket(l) \/ Crash(l)
      PROVE  BeganOnce'
  <2>1. /\ began' = began /\ OthersLive(l) /\ life'[l] \in {"closing", "remove", "dead"}
        /\ \A u \in Threads : u \notin {Main(l), Handler(l)} => sec'[u] = sec[u]
    BY <1>8, StopEffect, UnlinkSocketEffect, CrashEffect DEF Ground, OthersStay
  <2>2. InTurn(l)'
    BY <1>0, <2>1, InTurnStays DEF Rises, Looks
  <2>3. \A m \in Listeners : m # l => sec'[Main(m)] = sec[Main(m)]
    BY <2>1, ThreadFacts
  <2>4. \A m \in Listeners : m # l => InTurn(m)'
    BY <1>0, <2>1, <2>3, InTurnStays DEF OthersLive, Inside, Rises, Looks
  <2>5. QED
    BY <2>1, <2>2, <2>4, BeganStays
<1>9. ASSUME NEW l \in Listeners, Notice(l)
      PROVE  BeganOnce'
  <2>1. UNCHANGED <<began, life>> /\ OthersStay(Handler(l))
    BY <1>9, NoticeEffect DEF Ground
  <2>2. \A m \in Listeners : sec'[Main(m)] = sec[Main(m)]
    BY <2>1, ThreadFacts DEF OthersStay
  <2>3. QED
    BY <1>0, <2>1, <2>2, InTurnUnmoved
<1>10. ASSUME NEW h \in Helpers,
              \/ PruneLook(h) \/ PruneVerify(h) \/ PruneUnlink(h)
              \/ (\E n \in Names : WaitReturns(h, n))
       PROVE  BeganOnce'
  <2>1. UNCHANGED <<began, life, sec>>
    BY <1>10, PruneLookEffect, PruneVerifyEffect, PruneUnlinkEffect, WaitReturnsEffect DEF Ground
  <2>2. QED
    BY <1>0, <2>1, InTurnUnmoved
<1>11. ASSUME NEW h \in Helpers, PruneJudge(h) \/ Reset(h) \/ HelperCrash(h)
       PROVE  BeganOnce'
  <2>1. UNCHANGED <<began, life>> /\ (sec' = sec \/ OthersStay(Main(h)))
    BY <1>11, PruneJudgeEffect, ResetEffect, HelperCrashEffect DEF Ground
  <2>2. \A l \in Listeners : Main(l) # Main(h) /\ Main(l) \in Threads
    BY ThreadFacts
  <2>3. \A l \in Listeners : sec'[Main(l)] = sec[Main(l)]
    BY <2>1, <2>2 DEF OthersStay
  <2>4. QED
    BY <1>0, <2>1, <2>3, InTurnUnmoved
<1>12. ASSUME UNCHANGED <<json, key, sock, link, setup, life, pid, name, halt, met, began,
                          holder, sec, job, unlocked, late, unread, crossed>>
       PROVE  BeganOnce'
  BY <1>0, <1>12, InTurnUnmoved
<1>13. QED
  <2>1. \A t \in Threads : Enter(t) => BeganOnce'
    BY <1>1, <1>2
  <2>2. QED
    BY <2>1, <1>3, <1>4, <1>5, <1>6, <1>7, <1>8, <1>9, <1>10, <1>11, <1>12, Steps

-----------------------------------------------------------------------------
(* What is written                                                         *)

SameElsewhere(t) ==
  \A path \in Paths : path # Copy(t) => json'[path] = json[path] /\ key'[path] = key[path]

Stays(t) == sec'[t].pc = "write" /\ sec'[t].todo = sec[t].todo
MovesOn(t) == sec'[t].pc = "copy" /\ sec'[t].todo = sec[t].todo \ {Copy(t)}

KeyPut(t) ==
  /\ sec[t].pc = "copy" /\ sec[t].op = "register" /\ Stays(t)
  /\ json' = json /\ key'[Copy(t)] = sec[t].who

JsonPut(t) ==
  /\ sec[t].pc = "write" /\ sec[t].op = "register" /\ MovesOn(t)
  /\ key' = key /\ json'[Copy(t)] = [owner |-> sec[t].who, status |-> "idle"]

Skipped(t) ==
  /\ sec[t].pc = "copy" /\ sec[t].op # "register" /\ NotTheirs(t) /\ MovesOn(t)
  /\ UNCHANGED <<json, key>>

Passed(t) ==
  /\ sec[t].pc = "copy" /\ sec[t].op # "register" /\ ~NotTheirs(t) /\ Stays(t)
  /\ UNCHANGED <<json, key>>

StatusPut(t) ==
  /\ sec[t].pc = "write" /\ sec[t].op = "update" /\ MovesOn(t)
  /\ key' = key /\ json'[Copy(t)] = [owner |-> sec[t].who, status |-> sec[t].status]

TakenAway(t) ==
  /\ sec[t].pc = "write" /\ sec[t].op = "remove" /\ MovesOn(t)
  /\ json'[Copy(t)] = NoEntry /\ key'[Copy(t)] = None

(* What a step inside a section writes, and that it writes nothing         *)
(* elsewhere.                                                              *)
LEMMA InnerWrites ==
  ASSUME Ground, NEW t \in Threads, Inner(t)
  PROVE  /\ SameElsewhere(t)
         /\ KeyPut(t) \/ JsonPut(t) \/ Skipped(t) \/ Passed(t) \/ StatusPut(t) \/ TakenAway(t)
         /\ json' \in [Paths -> Entries] /\ key' \in [Paths -> Listeners \cup {None}]
<1> USE DEF Ground
<1>1. sec[t].pc # "out" /\ sec[t].todo # {}
  BY InnerEffect DEF Inside
<1>2. Copy(t) \in Paths /\ sec[t].who \in Listeners
  BY <1>1, CopyIsOwners, SectionsOwner
<1>3. sec[t].status \in Statuses
  BY DEF RegTypeOK, Sections
<1>4. /\ NoEntry \in Entries
      /\ [owner |-> sec[t].who, status |-> "idle"] \in Entries
      /\ [owner |-> sec[t].who, status |-> sec[t].status] \in Entries
  BY <1>2, <1>3 DEF NoEntry, Entries, Statuses
<1>5. "write" \in SecPCs
  BY DEF SecPCs
<1>6. CASE WriteKey(t)
  <2>1. /\ sec[t].pc = "copy" /\ sec[t].op = "register"
        /\ json' = json /\ key' = [key EXCEPT ![Copy(t)] = sec[t].who]
        /\ sec' = [sec EXCEPT ![t].pc = "write"]
    BY <1>6 DEF WriteKey, AtCopy
  <2>2. Stays(t)
    BY <1>5, <2>1, PcMoves DEF Stays
  <2>3. QED
    BY <1>2, <2>1, <2>2 DEF RegTypeOK, KeyPut, SameElsewhere
<1>7. CASE WriteJson(t)
  <2>1. /\ sec[t].pc = "write" /\ sec[t].op = "register" /\ NextCopy(t) /\ key' = key
        /\ json' = [json EXCEPT ![Copy(t)] = [owner |-> sec[t].who, status |-> "idle"]]
    BY <1>7 DEF WriteJson, AtCopy
  <2>2. MovesOn(t)
    BY <2>1, NextCopyMoves DEF MovesOn
  <2>3. QED
    BY <1>2, <1>4, <2>1, <2>2 DEF RegTypeOK, JsonPut, SameElsewhere
<1>8. CASE CheckCopy(t)
  <2>1. /\ sec[t].pc = "copy" /\ sec[t].op # "register" /\ UNCHANGED <<json, key>>
        /\ IF NotTheirs(t) THEN NextCopy(t) ELSE sec' = [sec EXCEPT ![t].pc = "write"]
    BY <1>8 DEF CheckCopy, AtCopy, fileVars
  <2>2. CASE NotTheirs(t)
    <3>1. MovesOn(t)
      BY <2>1, <2>2, NextCopyMoves DEF MovesOn
    <3>2. QED
      BY <2>1, <2>2, <3>1 DEF RegTypeOK, Skipped, SameElsewhere
  <2>3. CASE ~NotTheirs(t)
    <3>1. Stays(t)
      BY <1>5, <2>1, <2>3, PcMoves DEF Stays
    <3>2. QED
      BY <2>1, <2>3, <3>1 DEF RegTypeOK, Passed, SameElsewhere
  <2>4. QED
    BY <2>2, <2>3
<1>9. CASE WriteStatus(t)
  <2>1. /\ sec[t].pc = "write" /\ sec[t].op = "update" /\ NextCopy(t) /\ key' = key
        /\ json' = [json EXCEPT ![Copy(t)] = [owner |-> sec[t].who, status |-> sec[t].status]]
    BY <1>9 DEF WriteStatus, AtCopy
  <2>2. MovesOn(t)
    BY <2>1, NextCopyMoves DEF MovesOn
  <2>3. QED
    BY <1>2, <1>4, <2>1, <2>2 DEF RegTypeOK, StatusPut, SameElsewhere
<1>10. CASE UnlinkCopy(t)
  <2>1. /\ sec[t].pc = "write" /\ sec[t].op = "remove" /\ NextCopy(t)
        /\ json' = [json EXCEPT ![Copy(t)] = NoEntry]
        /\ key' = [key EXCEPT ![Copy(t)] = None]
    BY <1>10 DEF UnlinkCopy, AtCopy
  <2>2. MovesOn(t)
    BY <2>1, NextCopyMoves DEF MovesOn
  <2>3. QED
    BY <1>2, <1>4, <2>1, <2>2 DEF RegTypeOK, TakenAway, SameElsewhere
<1>11. QED
  BY <1>6, <1>7, <1>8, <1>9, <1>10 DEF Inner

(* The files are written in sections only.                                 *)
LEMMA OnlyInside ==
  ASSUME Ground, StepOf
  PROVE  (\E t \in Threads : Inner(t)) \/ UNCHANGED <<json, key>>
<1>1. ASSUME NEW t \in Threads, Enter(t) \/ Leave(t)
      PROVE  UNCHANGED <<json, key>>
  BY <1>1, EnterEffect, LeaveEffect DEF Ground
<1>2. ASSUME NEW l \in Listeners,
             Start(l) \/ Look(l) \/ Refuse(l) \/ Bind(l) \/ Notice(l)
      PROVE  UNCHANGED <<json, key>>
  BY <1>2, StartEffect, LookEffect, RefuseEffect, BindEffect, NoticeEffect DEF Ground
<1>3. ASSUME NEW l \in Listeners,
             Stop(l) \/ ReadLink(l) \/ UnlinkSocket(l) \/ Crash(l)
      PROVE  UNCHANGED <<json, key>>
  BY <1>3, StopEffect, ReadLinkEffect, UnlinkSocketEffect, CrashEffect DEF Ground
<1>4. ASSUME NEW h \in Helpers,
             PruneLook(h) \/ PruneJudge(h) \/ PruneVerify(h) \/ PruneUnlink(h)
      PROVE  UNCHANGED <<json, key>>
  BY <1>4, PruneLookEffect, PruneJudgeEffect, PruneVerifyEffect, PruneUnlinkEffect DEF Ground
<1>5. ASSUME NEW h \in Helpers,
             (\E n \in Names : WaitReturns(h, n)) \/ Reset(h) \/ HelperCrash(h)
      PROVE  UNCHANGED <<json, key>>
  BY <1>5, WaitReturnsEffect, ResetEffect, HelperCrashEffect DEF Ground
<1>6. QED
  BY <1>1, <1>2, <1>3, <1>4, <1>5, Steps

(* Every step keeps entries at their owners' paths.                        *)
LEMMA EntriesOwnStep ==
  ASSUME Ground, EntriesOwn, StepOf
  PROVE  EntriesOwn'
<1>1. Forward
  BY AllGoForward
<1>2. \A l \in Listeners : Begun(l) => life[l] # "new"
  BY DEF Ground, BeganOnce, InTurn
<1>3. \A l \in Listeners : Begun(l) => Copies(l)' = Copies(l) /\ Begun(l)'
  BY <1>1, <1>2, PathsStay, StaysBegun
<1>4. CASE UNCHANGED <<json, key>>
  BY <1>3, <1>4 DEF EntriesOwn
<1>5. ASSUME NEW t \in Threads, Inner(t)
      PROVE  EntriesOwn'
  <2>1. Inside(t) /\ sec[t].todo # {}
    BY <1>5, InnerEffect DEF Ground
  <2>2. /\ sec[t].who \in Listeners /\ Copy(t) \in Copies(sec[t].who)
        /\ sec[t].op = "register" => t = Main(sec[t].who) /\ life[sec[t].who] = "register"
        /\ sec[t].op = "update" => Begun(sec[t].who)
    BY <2>1, SectionsOwner, CopyIsOwners DEF Inside
  <2>3. sec[t].op \in {"register", "update"} => Begun(sec[t].who)
    BY <2>1, <2>2 DEF Ground, BeganOnce, InTurn
  <2>4. ASSUME NEW l \in Listeners, NEW path \in Paths, json'[path].owner = l \/ key'[path] = l
        PROVE  path \in Copies(l) /\ Begun(l)
    <3>1. CASE path # Copy(t)
      BY <1>5, <2>4, <3>1, InnerWrites DEF SameElsewhere, EntriesOwn
    <3>2. CASE path = Copy(t)
      <4>1. CASE KeyPut(t) \/ JsonPut(t) \/ StatusPut(t)
        <5>1. l = sec[t].who \/ json[path].owner = l \/ key[path] = l
          BY <2>4, <3>2, <4>1 DEF KeyPut, JsonPut, StatusPut
        <5>2. Begun(sec[t].who)
          BY <2>3, <4>1 DEF KeyPut, JsonPut, StatusPut
        <5>3. QED
          BY <2>2, <3>2, <5>1, <5>2 DEF EntriesOwn
      <4>2. CASE Skipped(t) \/ Passed(t)
        BY <2>4, <4>2 DEF Skipped, Passed, EntriesOwn
      <4>3. CASE TakenAway(t)
        <5>1. l # None
          BY ThreadFacts
        <5>2. QED
          BY <2>4, <3>2, <4>3, <5>1 DEF TakenAway, NoEntry
      <4>4. QED
        BY <1>5, <4>1, <4>2, <4>3, InnerWrites
    <3>3. QED
      BY <3>1, <3>2
  <2>5. QED
    BY <1>3, <2>4 DEF EntriesOwn
<1>6. QED
  BY <1>4, <1>5, OnlyInside

-----------------------------------------------------------------------------
(* What the helpers know                                                   *)

(* A listener that is over stays so.                                       *)
LEMMA StaysOver ==
  ASSUME Forward, NEW l \in Listeners, Over(l)
  PROVE  Over(l)'
<1>1. life[l] \in {"gone", "dead"}
  BY DEF Over
<1>2. life'[l] = life[l]
  BY <1>1 DEF Forward, Turns, Starts, Looks, Binds, Rises, Stops, Reads, Unlinks, Goes,
              Dies, Running, Starting
<1>3. QED
  BY <1>1, <1>2 DEF Over

LEMMA PruneStays ==
  ASSUME Ground, Forward, NEW h \in Helpers,
         \A l \in job'[h].dead : l \in Listeners /\ Over(l) /\ Begun(l),
         job'[h].pc \in {"prune", "verify", "unlink"} =>
           job'[h].cur \in Listeners /\ Over(job'[h].cur) /\ Begun(job'[h].cur),
         \A l \in Listeners : /\ job'[h].copies[l] \subseteq Copies(l)
                              /\ job'[h].copies[l] # {} => Begun(l)
  PROVE  PruneRight(h)'
<1>1. \A l \in Listeners : Begun(l) => life[l] # "new"
  BY DEF Ground, BeganOnce, InTurn
<1>2. \A l \in Listeners : Begun(l) => Copies(l)' = Copies(l) /\ Begun(l)'
  BY <1>1, PathsStay, StaysBegun
<1>3. \A l \in job'[h].dead : Over(l)' /\ Begun(l)'
  BY <1>2, StaysOver
<1>4. job'[h].pc \in {"prune", "verify", "unlink"} =>
        job'[h].cur \in Listeners /\ Over(job[h].cur)' /\ Begun(job[h].cur)'
  <2>1. ASSUME job'[h].pc \in {"prune", "verify", "unlink"}
        PROVE  job'[h].cur \in Listeners /\ Over(job[h].cur)' /\ Begun(job[h].cur)'
    <3>1. PICK l \in Listeners : l = job'[h].cur /\ Over(l) /\ Begun(l)
      BY <2>1
    <3>2. Over(l)' /\ Begun(l)'
      BY <1>2, <3>1, StaysOver
    <3>3. QED
      BY <3>1, <3>2 DEF Over, Begun
  <2>2. QED
    BY <2>1
<1>5. \A l \in Listeners :
        /\ job'[h].copies[l] \subseteq Copies(l)'
        /\ job'[h].copies[l] # {} => Begun(l)'
  BY <1>2
<1>6. QED
  BY <1>3, <1>4, <1>5 DEF PruneRight

LEMMA PruneUnmoved ==
  ASSUME Ground, PrunesTheDead, Forward, NEW h \in Helpers, job'[h] = job[h]
  PROVE  PruneRight(h)'
<1>1. PruneRight(h) /\ job[h].dead \subseteq Listeners
  BY DEF PrunesTheDead, Ground, RegTypeOK, Jobs
<1>2. QED
  BY <1>1, PruneStays DEF PruneRight

(* A helper that goes on with less than it had.                            *)
LEMMA PruneLess ==
  ASSUME Ground, PrunesTheDead, Forward, NEW h \in Helpers,
         job'[h].dead \subseteq job[h].dead,
         job'[h].copies = job[h].copies \/ job'[h].copies = [l \in Listeners |-> {}],
         job'[h].pc \notin {"prune", "verify", "unlink"}
  PROVE  PruneRight(h)'
<1>1. PruneRight(h) /\ job[h].dead \subseteq Listeners
  BY DEF PrunesTheDead, Ground, RegTypeOK, Jobs
<1>2. \A l \in Listeners : /\ job'[h].copies[l] \subseteq Copies(l)
                           /\ job'[h].copies[l] # {} => Begun(l)
  BY <1>1 DEF PruneRight
<1>3. QED
  BY <1>1, <1>2, PruneStays DEF PruneRight

(* What prune takes for dead has registered and is over.                   *)
LEMMA DeadIsOver ==
  ASSUME Ground, EntriesOwn, NEW l \in Sessions \ LiveSessions
  PROVE  l \in Listeners /\ Over(l) /\ Begun(l)
<1>1. l \in Listeners /\ Listed(l) # {} /\ ~PidAlive(pid[l])
  BY DEF LiveSessions, Sessions
<1>2. Begun(l)
  BY <1>1 DEF Listed, EntriesOwn
<1>3. ~Running(l)
  BY <1>1 DEF PidAlive
<1>4. QED
  BY <1>1, <1>2, <1>3 DEF Running, Over, Ground, BeganOnce, InTurn

(* Every step keeps prune at sessions that are over.                       *)
LEMMA PrunesTheDeadStep ==
  ASSUME Ground, EntriesOwn, PrunesTheDead, StepOf
  PROVE  PrunesTheDead'
<1>0. Forward
  BY AllGoForward
<1>1. ASSUME job' = job
      PROVE  PrunesTheDead'
  BY <1>0, <1>1, PruneUnmoved DEF PrunesTheDead
<1>2. ASSUME NEW h \in Helpers, OthersWork(h), PruneRight(h)'
      PROVE  PrunesTheDead'
  BY <1>0, <1>2, PruneUnmoved DEF PrunesTheDead, OthersWork
<1>3. ASSUME NEW t \in Threads, Leave(t)
      PROVE  PrunesTheDead'
  <2>1. /\ sec[t].pc = "copy"
        /\ \/ job' = job
           \/ /\ t[1] \in Helpers /\ sec[t].op = "remove"
              /\ job' = [job EXCEPT ![t[1]] = [@ EXCEPT !.pc = "verify"]]
           \/ t[1] \in Helpers /\ sec[t].op # "remove" /\ job' = [job EXCEPT ![t[1]] = Finished]
    BY <1>3, LeaveEffect DEF Ground
  <2>2. CASE /\ t[1] \in Helpers /\ sec[t].op = "remove"
             /\ job' = [job EXCEPT ![t[1]] = [@ EXCEPT !.pc = "verify"]]
    <3>1. PICK h \in Helpers : h = t[1]
      BY <2>2
    <3>2. /\ job'[h].pc = "verify" /\ job'[h].cur = job[h].cur /\ job'[h].dead = job[h].dead
          /\ job'[h].copies = job[h].copies /\ OthersWork(h)
      BY <2>2, <3>1 DEF Ground, RegTypeOK, Jobs, OthersWork
    <3>3. t = Main(h)
      <4>1. t # Handler(h)
        BY <2>1 DEF Ground, HelperSections, HelperSection
      <4>2. QED
        BY <3>1, <4>1, ThreadFacts
    <3>4. job[h].pc = "prune"
      BY <2>1, <2>2, <3>3 DEF Ground, HelperSections, HelperSection
    <3>5. PruneRight(h) /\ job[h].dead \subseteq Listeners
      BY DEF PrunesTheDead, Ground, RegTypeOK, Jobs
    <3>6. PruneRight(h)'
      BY <1>0, <3>2, <3>4, <3>5, PruneStays DEF PruneRight
    <3>7. QED
      BY <1>2, <3>2, <3>6
  <2>3. CASE t[1] \in Helpers /\ job' = [job EXCEPT ![t[1]] = Finished]
    <3>1. PICK h \in Helpers : h = t[1]
      BY <2>3
    <3>2. job'[h] = Finished /\ OthersWork(h)
      BY <2>3, <3>1 DEF Ground, RegTypeOK, OthersWork
    <3>3. PruneRight(h)'
      BY <1>0, <3>2, NoJobs, PruneLess
    <3>4. QED
      BY <1>2, <3>2, <3>3
  <2>4. QED
    BY <1>1, <2>1, <2>2, <2>3
<1>4. ASSUME NEW h \in Helpers, PruneLook(h)
      PROVE  PrunesTheDead'
  <2>1. /\ job'[h].pc = "judge" /\ job'[h].dead = Sessions \ LiveSessions
        /\ job'[h].copies = [l \in Listeners |-> Listed(l)] /\ OthersWork(h)
    BY <1>4, PruneLookEffect DEF Ground
  <2>2. \A l \in job'[h].dead : l \in Listeners /\ Over(l) /\ Begun(l)
    BY <2>1, DeadIsOver
  <2>3. \A l \in Listeners : /\ job'[h].copies[l] \subseteq Copies(l)
                             /\ job'[h].copies[l] # {} => Begun(l)
    BY <2>1 DEF Listed, EntriesOwn
  <2>4. PruneRight(h)'
    BY <1>0, <2>1, <2>2, <2>3, PruneStays
  <2>5. QED
    BY <1>2, <2>1, <2>4
<1>5. ASSUME NEW h \in Helpers, PruneJudge(h)
      PROVE  PrunesTheDead'
  <2>1. PICK l \in job[h].dead :
          /\ job'[h].pc = "prune" /\ job'[h].cur = l /\ job'[h].dead = job[h].dead \ {l}
          /\ job'[h].copies = job[h].copies /\ OthersWork(h)
    BY <1>5, PruneJudgeEffect DEF Ground
  <2>2. PruneRight(h) /\ job[h].dead \subseteq Listeners
    BY DEF PrunesTheDead, Ground, RegTypeOK, Jobs
  <2>3. PruneRight(h)'
    BY <1>0, <2>1, <2>2, PruneStays DEF PruneRight
  <2>4. QED
    BY <1>2, <2>1, <2>3
<1>6. ASSUME NEW h \in Helpers, PruneVerify(h)
      PROVE  PrunesTheDead'
  <2>1. /\ job[h].pc = "verify"
        /\ \/ job'[h] = PruneNext(h)
           \/ /\ job'[h].pc = "unlink" /\ job'[h].cur = job[h].cur
              /\ job'[h].dead = job[h].dead /\ job'[h].copies = job[h].copies
        /\ OthersWork(h)
    BY <1>6, PruneVerifyEffect DEF Ground
  <2>2. CASE job'[h] = PruneNext(h)
    <3>1. PruneRight(h)'
      BY <1>0, <2>2, PruneGoesOn, PruneLess DEF Ground
    <3>2. QED
      BY <1>2, <2>1, <3>1
  <2>3. CASE /\ job'[h].pc = "unlink" /\ job'[h].cur = job[h].cur
             /\ job'[h].dead = job[h].dead /\ job'[h].copies = job[h].copies
    <3>1. PruneRight(h) /\ job[h].dead \subseteq Listeners
      BY DEF PrunesTheDead, Ground, RegTypeOK, Jobs
    <3>2. PruneRight(h)'
      BY <1>0, <2>1, <2>3, <3>1, PruneStays DEF PruneRight
    <3>3. QED
      BY <1>2, <2>1, <3>2
  <2>4. QED
    BY <2>1, <2>2, <2>3
<1>7. ASSUME NEW h \in Helpers, PruneUnlink(h)
      PROVE  PrunesTheDead'
  <2>1. job'[h] = PruneNext(h) /\ OthersWork(h)
    BY <1>7, PruneUnlinkEffect DEF Ground
  <2>2. PruneRight(h)'
    BY <1>0, <2>1, PruneGoesOn, PruneLess DEF Ground
  <2>3. QED
    BY <1>2, <2>1, <2>2
<1>8. ASSUME NEW h \in Helpers, NEW n \in Names, WaitReturns(h, n)
      PROVE  PrunesTheDead'
  <2>1. /\ job'[h].pc = "print" /\ job'[h].dead = {}
        /\ job'[h].copies = [l \in Listeners |-> {}] /\ OthersWork(h)
    BY <1>8, WaitReturnsEffect DEF Ground
  <2>2. PruneRight(h)'
    BY <1>0, <2>1, PruneLess
  <2>3. QED
    BY <1>2, <2>1, <2>2
<1>9. ASSUME NEW h \in Helpers, Reset(h)
      PROVE  PrunesTheDead'
  <2>1. /\ OthersWork(h)
        /\ \/ job'[h] = Finished
           \/ /\ job'[h].pc = "reset" /\ job'[h].dead = job[h].dead
              /\ job'[h].copies = job[h].copies
    BY <1>9, ResetEffect DEF Ground
  <2>2. PruneRight(h)'
    BY <1>0, <2>1, NoJobs, PruneLess
  <2>3. QED
    BY <1>2, <2>1, <2>2
<1>10. ASSUME NEW h \in Helpers, HelperCrash(h)
       PROVE  PrunesTheDead'
  <2>1. job'[h] = Finished /\ OthersWork(h)
    BY <1>10, HelperCrashEffect DEF Ground
  <2>2. PruneRight(h)'
    BY <1>0, <2>1, NoJobs, PruneLess
  <2>3. QED
    BY <1>2, <2>1, <2>2
<1>11. ASSUME NEW t \in Threads, Enter(t) \/ Inner(t)
       PROVE  PrunesTheDead'
  BY <1>1, <1>11, EnterEffect, InnerEffect DEF Ground
<1>12. ASSUME NEW l \in Listeners,
              Start(l) \/ Look(l) \/ Refuse(l) \/ Bind(l) \/ Notice(l)
       PROVE  PrunesTheDead'
  BY <1>1, <1>12, StartEffect, LookEffect, RefuseEffect, BindEffect, NoticeEffect DEF Ground
<1>13. ASSUME NEW l \in Listeners,
              Stop(l) \/ ReadLink(l) \/ UnlinkSocket(l) \/ Crash(l)
       PROVE  PrunesTheDead'
  BY <1>1, <1>13, StopEffect, ReadLinkEffect, UnlinkSocketEffect, CrashEffect DEF Ground
<1>14. QED
  BY <1>1, <1>3, <1>4, <1>5, <1>6, <1>7, <1>8, <1>9, <1>10, <1>11, <1>12, <1>13, Steps

-----------------------------------------------------------------------------
(* Types                                                                   *)

(* Every step keeps the types of the registry's variables.                 *)
LEMMA RegTypeOKStep ==
  ASSUME Ground, StepOf
  PROVE  RegTypeOK'
<1>0. RegTypeOK
  BY DEF Ground
<1>1. ASSUME NEW t \in Threads, Enter(t)
      PROVE  RegTypeOK'
  <2>1. began' \in [Listeners -> 0 .. MaxRuns]
    <3>1. CASE sec[t].op = "register"
      BY <1>1, <3>1, NextBegins
    <3>2. CASE sec[t].op # "register"
      BY <1>0, <1>1, <3>2, EnterEffect DEF RegTypeOK
    <3>3. QED
      BY <3>1, <3>2
  <2>2. /\ sec' \in [Threads -> Sections]
        /\ UNCHANGED <<json, key, sock, link, setup, life, pid, name, halt, met,
                       job, late, unread, crossed>>
        /\ \/ holder = None /\ holder' = t /\ unlocked' = unlocked
           \/ unlocked' /\ holder' = holder
    BY <1>0, <1>1, EnterEffect
  <2>3. unlocked' \in BOOLEAN
    <3>1. CASE EnterLocked(t)
      BY <1>0, <3>1 DEF EnterLocked, RegTypeOK
    <3>2. CASE EnterUnlocked(t)
      BY <3>2 DEF EnterUnlocked
    <3>3. QED
      BY <1>1, <3>1, <3>2 DEF Enter
  <2>4. holder' \in Threads \cup {None}
    BY <1>0, <2>2 DEF RegTypeOK
  <2>5. QED
    BY <1>0, <2>1, <2>2, <2>3, <2>4 DEF RegTypeOK
<1>2. ASSUME NEW t \in Threads, Inner(t)
      PROVE  RegTypeOK'
  BY <1>0, <1>2, InnerEffect, InnerWrites DEF RegTypeOK
<1>3. ASSUME NEW t \in Threads, Leave(t)
      PROVE  RegTypeOK'
  <2>1. /\ sec' \in [Threads -> Sections]
        /\ holder' = IF holder = t THEN None ELSE holder
        /\ \/ life' = life
           \/ t[1] \in Listeners /\ life' = [life EXCEPT ![t[1]] = "up"]
           \/ t[1] \in Listeners /\ life' = [life EXCEPT ![t[1]] = "gone"]
        /\ \/ job' = job
           \/ t[1] \in Helpers /\ job' = [job EXCEPT ![t[1]] = [@ EXCEPT !.pc = "verify"]]
           \/ t[1] \in Helpers /\ job' = [job EXCEPT ![t[1]] = Finished]
        /\ UNCHANGED <<json, key, sock, link, setup, pid, name, halt, met, began,
                       unlocked, late, unread, crossed>>
    BY <1>0, <1>3, LeaveEffect
  <2>2. job' \in [Helpers -> Jobs]
    <3>1. \A h \in Helpers : [job[h] EXCEPT !.pc = "verify"] \in Jobs
      BY <1>0 DEF RegTypeOK, Jobs, JobPCs
    <3>2. QED
      BY <1>0, <2>1, <3>1, NoJobs DEF RegTypeOK
  <2>3. life' \in [Listeners -> LifePCs]
    BY <1>0, <2>1 DEF RegTypeOK, LifePCs
  <2>4. holder' \in Threads \cup {None}
    BY <1>0, <2>1 DEF RegTypeOK
  <2>5. QED
    BY <1>0, <2>1, <2>2, <2>3, <2>4 DEF RegTypeOK
<1>4. ASSUME NEW l \in Listeners, Start(l)
      PROVE  RegTypeOK'
  <2>1. /\ life' \in [Listeners -> LifePCs]
        /\ \E n \in {l} \cup {pid[m] : m \in 1 .. l - 1} : pid' = [pid EXCEPT ![l] = n]
        /\ UNCHANGED <<json, key, sock, link, setup, holder, name, sec, halt, job,
                       met, began, unlocked, late, unread, crossed>>
    BY <1>0, <1>4, StartEffect
  <2>2. 1 .. l - 1 \subseteq Listeners
    BY ListenersFinite DEF Listeners
  <2>3. pid' \in [Listeners -> Pids \cup {None}]
    BY <1>0, <2>1, <2>2 DEF RegTypeOK, Pids
  <2>4. QED
    BY <1>0, <2>1, <2>3 DEF RegTypeOK
<1>5. ASSUME NEW l \in Listeners, Look(l)
      PROVE  RegTypeOK'
  <2>1. UpNow \in SUBSET Listeners /\ FreeName(l) \in Names
    BY FreeNameIsFree DEF UpNow
  <2>2. /\ life' \in [Listeners -> LifePCs]
        /\ name' = [name EXCEPT ![l] = FreeName(l)]
        /\ met' = [met EXCEPT ![l] = UpNow]
        /\ UNCHANGED <<json, key, sock, link, setup, holder, pid, sec, halt, job,
                       began, unlocked, late, unread, crossed>>
    BY <1>0, <1>5, LookEffect
  <2>3. /\ name' \in [Listeners -> Names \cup {None}]
        /\ met' \in [Listeners -> SUBSET Listeners]
    BY <1>0, <2>1, <2>2 DEF RegTypeOK
  <2>4. QED
    BY <1>0, <2>2, <2>3 DEF RegTypeOK
<1>6. ASSUME NEW l \in Listeners, Refuse(l)
      PROVE  RegTypeOK'
  BY <1>0, <1>6, RefuseEffect DEF RegTypeOK
<1>7. ASSUME NEW l \in Listeners, Bind(l)
      PROVE  RegTypeOK'
  <2>1. /\ life[l] = "bind" /\ life' \in [Listeners -> LifePCs]
        /\ sock' = [sock EXCEPT ![pid[l]] = l]
        /\ link' = [link EXCEPT ![name[l]] = pid[l]]
        /\ sec' \in [Threads -> Sections]
        /\ UNCHANGED <<json, key, setup, holder, pid, name, halt, job,
                       met, began, unlocked, late, unread, crossed>>
    BY <1>7, BindEffect DEF Ground
  <2>2. pid[l] \in Pids
    BY <2>1, CopiesArePaths DEF Ground
  <2>3. /\ sock' \in [Pids -> Listeners \cup {None}]
        /\ link' \in [Names -> Pids \cup {None}]
    BY <1>0, <2>1, <2>2 DEF RegTypeOK
  <2>4. QED
    BY <1>0, <2>1, <2>3 DEF RegTypeOK
<1>8. ASSUME NEW l \in Listeners, Notice(l)
      PROVE  RegTypeOK'
  <2>1. /\ sec' \in [Threads -> Sections] /\ unread' = unread \cup {l}
        /\ crossed' = (crossed \/ \E h \in Helpers : job[h].pc \in {"print", "reset"})
        /\ UNCHANGED <<json, key, sock, link, setup, life, pid, name, halt, met, began,
                       holder, job, unlocked, late>>
    BY <1>8, NoticeEffect DEF Ground
  <2>2. crossed' \in BOOLEAN
    BY <2>1, Zenon
  <2>3. QED
    BY <1>0, <2>1, <2>2 DEF RegTypeOK
<1>9. ASSUME NEW l \in Listeners, Stop(l)
      PROVE  RegTypeOK'
  <2>1. /\ life' \in [Listeners -> LifePCs] /\ sec' \in [Threads -> Sections]
        /\ met' = [met EXCEPT ![l] = {}]
        /\ halt' = [halt EXCEPT ![l].nested = (sec[Main(l)].pc # "out")]
        /\ UNCHANGED <<json, key, sock, link, setup, holder, pid, name, job,
                       began, unlocked, late, unread, crossed>>
    BY <1>0, <1>9, StopEffect
  <2>2. (sec[Main(l)].pc # "out") \in BOOLEAN
    BY Zenon
  <2>3. halt' \in [Listeners -> [nested : BOOLEAN, ours : BOOLEAN]]
    BY <1>0, <2>1, <2>2 DEF RegTypeOK
  <2>4. met' \in [Listeners -> SUBSET Listeners]
    BY <1>0, <2>1 DEF RegTypeOK
  <2>5. QED
    BY <1>0, <2>1, <2>3, <2>4 DEF RegTypeOK
<1>10. ASSUME NEW l \in Listeners, ReadLink(l)
       PROVE  RegTypeOK'
  <2>1. /\ life' \in [Listeners -> LifePCs]
        /\ halt' = [halt EXCEPT ![l].ours = (link[Called(l)] = pid[l])]
        /\ UNCHANGED <<json, key, sock, link, setup, holder, pid, name, sec, job,
                       met, began, unlocked, late, unread, crossed>>
    BY <1>0, <1>10, ReadLinkEffect
  <2> DEFINE ours == (link[Called(l)] = pid[l])
  <2>2. ours \in BOOLEAN /\ halt' = [halt EXCEPT ![l].ours = ours]
    BY <2>1, Zenon
  <2> HIDE DEF ours
  <2>3. halt' \in [Listeners -> [nested : BOOLEAN, ours : BOOLEAN]]
    BY <1>0, <2>2 DEF RegTypeOK
  <2>4. QED
    BY <1>0, <2>1, <2>3 DEF RegTypeOK
<1>11. ASSUME NEW l \in Listeners, UnlinkSocket(l)
       PROVE  RegTypeOK'
  <2>1. /\ life' \in [Listeners -> LifePCs] /\ sec' \in [Threads -> Sections]
        /\ sock' = [sock EXCEPT ![pid[l]] = None]
        /\ link' = IF halt[l].ours THEN [link EXCEPT ![Called(l)] = None] ELSE link
        /\ late' = (late \/ (halt[l].ours /\ link[Called(l)] \notin {pid[l], None}))
        /\ unlocked' = (unlocked \/ (halt[l].nested /\ holder # Main(l)))
        /\ halt' = [halt EXCEPT ![l] = Whole]
        /\ UNCHANGED <<json, key, setup, holder, pid, name, job,
                       met, began, unread, crossed>>
    BY <1>11, UnlinkSocketEffect DEF Ground
  <2>2. late' \in BOOLEAN
    BY <2>1, Zenon
  <2>3. unlocked' \in BOOLEAN
    BY <2>1, Zenon
  <2>4. /\ sock' \in [Pids -> Listeners \cup {None}]
        /\ link' \in [Names -> Pids \cup {None}]
    BY <1>0, <2>1 DEF RegTypeOK
  <2>5. halt' \in [Listeners -> [nested : BOOLEAN, ours : BOOLEAN]]
    BY <1>0, <2>1 DEF RegTypeOK, Whole
  <2>6. QED
    BY <1>0, <2>1, <2>2, <2>3, <2>4, <2>5 DEF RegTypeOK
<1>12. ASSUME NEW l \in Listeners, Crash(l)
       PROVE  RegTypeOK'
  <2>1. /\ life' \in [Listeners -> LifePCs] /\ sec' \in [Threads -> Sections]
        /\ holder' = Released(l)
        /\ met' = [met EXCEPT ![l] = {}]
        /\ halt' = [halt EXCEPT ![l] = Whole]
        /\ UNCHANGED <<json, key, sock, link, setup, pid, name, job,
                       began, unlocked, late, unread, crossed>>
    BY <1>0, <1>12, CrashEffect
  <2>2. holder' \in Threads \cup {None}
    BY <1>0, <2>1 DEF RegTypeOK, Released
  <2>3. /\ met' \in [Listeners -> SUBSET Listeners]
        /\ halt' \in [Listeners -> [nested : BOOLEAN, ours : BOOLEAN]]
    BY <1>0, <2>1 DEF RegTypeOK, Whole
  <2>4. QED
    BY <1>0, <2>1, <2>2, <2>3 DEF RegTypeOK
<1>13. ASSUME NEW h \in Helpers, PruneLook(h)
       PROVE  RegTypeOK'
  BY <1>0, <1>13, PruneLookEffect DEF RegTypeOK
<1>14. ASSUME NEW h \in Helpers, PruneJudge(h)
       PROVE  RegTypeOK'
  <2>1. /\ job' \in [Helpers -> Jobs] /\ sec' \in [Threads -> Sections]
        /\ UNCHANGED <<json, key, sock, link, setup, life, pid, name, halt, met, began,
                       holder, unlocked, late, unread, crossed>>
    BY <1>0, <1>14, PruneJudgeEffect
  <2>2. QED
    BY <1>0, <2>1 DEF RegTypeOK
<1>15. ASSUME NEW h \in Helpers, PruneVerify(h)
       PROVE  RegTypeOK'
  BY <1>0, <1>15, PruneVerifyEffect DEF RegTypeOK
<1>16. ASSUME NEW h \in Helpers, PruneUnlink(h)
       PROVE  RegTypeOK'
  <2>1. /\ job' \in [Helpers -> Jobs]
        /\ sock' = [sock EXCEPT ![pid[job[h].cur]] = None]
        /\ link' = IF job[h].ours THEN [link EXCEPT ![name[job[h].cur]] = None] ELSE link
        /\ late' = (late \/ sock[pid[job[h].cur]] \notin {job[h].cur, None}
                         \/ (job[h].ours /\ link[name[job[h].cur]] \notin {pid[job[h].cur], None}))
        /\ UNCHANGED <<json, key, setup, life, pid, name, halt, met, began,
                       holder, sec, unlocked, unread, crossed>>
    BY <1>0, <1>16, PruneUnlinkEffect
  <2>2. late' \in BOOLEAN
    BY <2>1, Zenon
  <2>3. /\ sock' \in [Pids -> Listeners \cup {None}]
        /\ link' \in [Names -> Pids \cup {None}]
    BY <1>0, <2>1 DEF RegTypeOK
  <2>4. QED
    BY <1>0, <2>1, <2>2, <2>3 DEF RegTypeOK
<1>17. ASSUME NEW h \in Helpers, NEW n \in Names, WaitReturns(h, n)
       PROVE  RegTypeOK'
  <2>1. /\ job' \in [Helpers -> Jobs] /\ unread' \subseteq unread
        /\ UNCHANGED <<json, key, sock, link, setup, life, pid, name, halt, met, began,
                       holder, sec, unlocked, late, crossed>>
    BY <1>0, <1>17, WaitReturnsEffect
  <2>2. QED
    BY <1>0, <2>1 DEF RegTypeOK
<1>18. ASSUME NEW h \in Helpers, Reset(h)
       PROVE  RegTypeOK'
  <2>1. /\ job' \in [Helpers -> Jobs]
        /\ UNCHANGED <<json, key, sock, link, setup, life, pid, name, halt, met, began,
                       holder, unlocked, late, unread>>
        /\ \/ sec' = sec /\ crossed' = crossed
           \/ \E l \in LiveSessions : /\ sec' \in [Threads -> Sections]
                                      /\ crossed' = (crossed \/ name[l] # job[h].cur)
    BY <1>0, <1>18, ResetEffect
  <2>2. crossed' \in BOOLEAN
    <3>1. CASE crossed' = crossed
      BY <1>0, <3>1 DEF RegTypeOK
    <3>2. CASE \E l \in LiveSessions : crossed' = (crossed \/ name[l] # job[h].cur)
      BY <3>2, Zenon
    <3>3. QED
      BY <2>1, <3>1, <3>2
  <2>3. sec' \in [Threads -> Sections]
    BY <1>0, <2>1 DEF RegTypeOK
  <2>4. QED
    BY <1>0, <2>1, <2>2, <2>3 DEF RegTypeOK
<1>19. ASSUME NEW h \in Helpers, HelperCrash(h)
       PROVE  RegTypeOK'
  <2>1. /\ job' \in [Helpers -> Jobs] /\ sec' \in [Threads -> Sections]
        /\ holder' = Released(h)
        /\ UNCHANGED <<json, key, sock, link, setup, life, pid, name, halt, met, began,
                       unlocked, late, unread, crossed>>
    BY <1>0, <1>19, HelperCrashEffect
  <2>2. holder' \in Threads \cup {None}
    BY <1>0, <2>1 DEF RegTypeOK, Released
  <2>3. QED
    BY <1>0, <2>1, <2>2 DEF RegTypeOK
<1>20. ASSUME UNCHANGED <<json, key, sock, link, setup, life, pid, name, halt, met, began,
                          holder, sec, job, unlocked, late, unread, crossed>>
       PROVE  RegTypeOK'
  BY <1>0, <1>20 DEF RegTypeOK
<1>21. QED
  BY <1>1, <1>2, <1>3, <1>4, <1>5, <1>6, <1>7, <1>8, <1>9, <1>10, <1>11, <1>12,
     <1>13, <1>14, <1>15, <1>16, <1>17, <1>18, <1>19, <1>20, Steps

-----------------------------------------------------------------------------
(* Unread messages                                                         *)

(* A session that is registered keeps its name.                            *)
LEMMA KnownStays ==
  ASSUME Ground, Forward, NEW l \in Listeners, Begun(l), life[l] # "register", name[l] # None
  PROVE  Begun(l)' /\ life'[l] # "register" /\ name'[l] = name[l]
<1>1. life[l] \notin {"new", "look", "bind"}
  BY DEF Ground, BeganOnce, InTurn
<1>2. life'[l] # "register" /\ name'[l] = name[l]
  BY <1>1 DEF Forward, Turns, Starts, Looks, Binds, Rises, Stops, Reads, Unlinks, Goes, Dies
<1>3. QED
  BY <1>2, StaysBegun

LEMMA WaitStays ==
  ASSUME Ground, Forward, UnreadKnown, ~crossed', unread' \subseteq unread,
         NEW h \in Helpers,
         job'[h].pc \in {"print", "reset"} => job[h].pc \in {"print", "reset"},
         job'[h].cur = job[h].cur,
         sec'[Main(h)].pc # "out" =>
           /\ sec[Main(h)].pc # "out"
           /\ sec'[Main(h)].op = sec[Main(h)].op /\ sec'[Main(h)].who = sec[Main(h)].who
  PROVE  WaitRight(h)'
<1>1. WaitRight(h)
  BY DEF UnreadKnown, Forward
<1>2. \A l \in unread : name'[l] = name[l]
  <2>1. unread \subseteq Listeners
    BY DEF Ground, RegTypeOK
  <2>2. QED
    BY <2>1, KnownStays DEF UnreadKnown
<1>3. job'[h].pc \in {"print", "reset"} => \A l \in unread' : name'[l] # job'[h].cur
  BY <1>1, <1>2 DEF WaitRight
<1>4. ASSUME sec'[Main(h)].pc # "out", sec'[Main(h)].op = "update"
      PROVE  name'[sec'[Main(h)].who] = job'[h].cur
  <2>1. /\ sec[Main(h)].who \in Listeners /\ Begun(sec[Main(h)].who)
        /\ name[sec[Main(h)].who] = job[h].cur
    BY <1>1, <1>4 DEF WaitRight, Ground, HelperSections, HelperSection
  <2>2. PICK l \in Listeners : l = sec[Main(h)].who /\ Begun(l) /\ name[l] = job[h].cur
    BY <2>1
  <2>3. life[l] \notin {"new", "look", "bind"}
    BY <2>2 DEF Ground, BeganOnce, InTurn
  <2>4. name'[l] = name[l]
    BY <2>3 DEF Forward, Looks
  <2>5. QED
    BY <1>4, <2>2, <2>4
<1>5. QED
  BY <1>3, <1>4 DEF WaitRight

LEMMA UnreadStays ==
  ASSUME Ground, Forward, UnreadKnown, unread' \subseteq unread,
         ~crossed' => \A h \in Helpers : WaitRight(h)'
  PROVE  UnreadKnown'
<1>1. unread \subseteq Listeners
  BY DEF Ground, RegTypeOK
<1>2. \A l \in unread' : Begun(l)' /\ life'[l] # "register" /\ name'[l] # None
  BY <1>1, KnownStays DEF UnreadKnown
<1>3. QED
  BY <1>2 DEF UnreadKnown

LEMMA UnreadUnmoved ==
  ASSUME Ground, Forward, UnreadKnown, UNCHANGED <<unread, job>>,
         \A h \in Helpers : sec'[Main(h)] = sec[Main(h)]
  PROVE  UnreadKnown'
<1>1. ~crossed' => \A h \in Helpers : WaitRight(h)'
  BY WaitStays
<1>2. QED
  BY <1>1, UnreadStays

(* Every step keeps what waits and helpers know of unread messages.        *)
LEMMA UnreadKnownStep ==
  ASSUME Ground, UnreadKnown, StepOf
  PROVE  UnreadKnown'
<1>0. Forward
  BY AllGoForward
<1>1. ASSUME NEW t \in Threads, Enter(t) \/ Inner(t)
      PROVE  UnreadKnown'
  <2>1. UNCHANGED <<unread, job>> /\ GoesOn(t, {"copy", "write"}) /\ sec[t].pc # "out"
    <3>1. CASE Enter(t)
      BY <3>1, EnterEffect DEF Ground, GoesOn
    <3>2. CASE Inner(t)
      BY <3>2, InnerEffect DEF Ground, Inside
    <3>3. QED
      BY <1>1, <3>1, <3>2
  <2>2. \A h \in Helpers :
          sec'[Main(h)].pc # "out" =>
            /\ sec[Main(h)].pc # "out"
            /\ sec'[Main(h)].op = sec[Main(h)].op /\ sec'[Main(h)].who = sec[Main(h)].who
    BY <2>1, ThreadFacts DEF GoesOn, OthersStay
  <2>3. ~crossed' => \A h \in Helpers : WaitRight(h)'
    BY <1>0, <2>1, <2>2, WaitStays
  <2>4. QED
    BY <1>0, <2>1, <2>3, UnreadStays
<1>2. ASSUME NEW t \in Threads, Leave(t)
      PROVE  UnreadKnown'
  <2>1. /\ unread' = unread /\ sec'[t].pc = "out" /\ OthersStay(t) /\ sec[t].pc = "copy"
        /\ \/ job' = job
           \/ t[1] \in Helpers /\ job' = [job EXCEPT ![t[1]] = [@ EXCEPT !.pc = "verify"]]
           \/ t[1] \in Helpers /\ job' = [job EXCEPT ![t[1]] = Finished]
    BY <1>2, LeaveEffect DEF Ground
  <2>2. ASSUME ~crossed', NEW h \in Helpers
        PROVE  WaitRight(h)'
    <3>1. CASE t = Main(h)
      <4>1. t[1] = h
        BY <3>1, ThreadFacts
      <4>2. job'[h] = job[h] \/ job'[h].pc \in {"verify", "done"}
        BY <2>1, <4>1, NoJobs DEF Ground, RegTypeOK, Jobs
      <4>3. CASE job'[h] = job[h]
        BY <1>0, <2>1, <2>2, <3>1, <4>3, WaitStays
      <4>4. CASE job'[h].pc \in {"verify", "done"}
        BY <2>1, <3>1, <4>4 DEF WaitRight
      <4>5. QED
        BY <4>2, <4>3, <4>4
    <3>2. CASE t # Main(h)
      <4>1. t # Handler(h)
        BY <2>1 DEF Ground, HelperSections, HelperSection
      <4>2. t[1] # h
        BY <3>2, <4>1, ThreadFacts
      <4>3. job'[h] = job[h] /\ sec'[Main(h)] = sec[Main(h)]
        BY <2>1, <3>2, <4>2, ThreadFacts DEF Ground, RegTypeOK, OthersStay
      <4>4. QED
        BY <1>0, <2>1, <2>2, <4>3, WaitStays
    <3>3. QED
      BY <3>1, <3>2
  <2>3. QED
    BY <1>0, <2>1, <2>2, UnreadStays
<1>3. ASSUME NEW l \in Listeners, Start(l) \/ Look(l) \/ Refuse(l) \/ ReadLink(l)
      PROVE  UnreadKnown'
  <2>1. UNCHANGED <<unread, job, sec>>
    BY <1>3, StartEffect, LookEffect, RefuseEffect, ReadLinkEffect DEF Ground
  <2>2. QED
    BY <1>0, <2>1, UnreadUnmoved
<1>4. ASSUME NEW l \in Listeners, Bind(l) \/ UnlinkSocket(l) \/ Stop(l) \/ Crash(l)
      PROVE  UnreadKnown'
  <2>1. /\ \A u \in Threads : u \notin {Main(l), Handler(l)} => sec'[u] = sec[u]
        /\ UNCHANGED <<unread, job>>
    BY <1>4, BindEffect, UnlinkSocketEffect, StopEffect, CrashEffect
       DEF Ground, OthersStay
  <2>2. \A h \in Helpers : h # l /\ h \in Procs /\ l \in Procs
    BY ThreadFacts
  <2>3. \A h \in Helpers : sec'[Main(h)] = sec[Main(h)]
    BY <2>1, <2>2, ThreadFacts
  <2>4. QED
    BY <1>0, <2>1, <2>3, UnreadUnmoved
<1>5. ASSUME NEW l \in Listeners, Notice(l)
      PROVE  UnreadKnown'
  <2>1. /\ life[l] = "up" /\ OthersStay(Handler(l)) /\ job' = job
        /\ unread' = unread \cup {l}
        /\ crossed' = (crossed \/ \E h \in Helpers : job[h].pc \in {"print", "reset"})
    BY <1>5, NoticeEffect DEF Ground
  <2>2. Begun(l) /\ name[l] # None
    BY <2>1 DEF Ground, BeganOnce, InTurn, Up
  <2>3. unread \subseteq Listeners
    BY DEF Ground, RegTypeOK
  <2>4. \A m \in unread' : Begun(m)' /\ life'[m] # "register" /\ name'[m] # None
    BY <1>0, <2>1, <2>2, <2>3, KnownStays DEF UnreadKnown
  <2>5. ASSUME ~crossed', NEW h \in Helpers
        PROVE  WaitRight(h)'
    <3>1. job[h].pc \notin {"print", "reset"}
      BY <2>1, <2>5
    <3>2. sec'[Main(h)] = sec[Main(h)]
      BY <2>1, ThreadFacts DEF OthersStay
    <3>3. sec[Main(h)].pc # "out" => sec[Main(h)].op # "update"
      BY <3>1 DEF Ground, HelperSections, HelperSection
    <3>4. QED
      BY <2>1, <3>1, <3>2, <3>3 DEF WaitRight
  <2>6. QED
    BY <2>4, <2>5 DEF UnreadKnown
<1>6. ASSUME NEW h \in Helpers,
             PruneLook(h) \/ PruneVerify(h) \/ PruneUnlink(h)
      PROVE  UnreadKnown'
  <2>1. /\ job[h].pc \in {"idle", "verify", "unlink"} /\ UNCHANGED <<sec, unread>>
        /\ OthersWork(h) /\ job'[h].pc \in {"judge", "done", "unlink"}
    BY <1>6, PruneLookEffect, PruneVerifyEffect, PruneUnlinkEffect, PruneGoesOn DEF Ground
  <2>2. sec[Main(h)].pc = "out"
    BY <2>1, NoHelperSection
  <2>3. WaitRight(h)'
    BY <2>1, <2>2 DEF WaitRight
  <2>4. ~crossed' => \A g \in Helpers : g # h => WaitRight(g)'
    BY <1>0, <2>1, WaitStays DEF OthersWork
  <2>5. QED
    BY <1>0, <2>1, <2>3, <2>4, UnreadStays
<1>7. ASSUME NEW h \in Helpers, PruneJudge(h)
      PROVE  UnreadKnown'
  <2>1. /\ job'[h].pc = "prune" /\ sec'[Main(h)].op = "remove" /\ unread' = unread
        /\ OthersWork(h) /\ OthersStay(Main(h))
    BY <1>7, PruneJudgeEffect DEF Ground
  <2>2. WaitRight(h)'
    BY <2>1 DEF WaitRight
  <2>3. \A g \in Helpers : g # h => sec'[Main(g)] = sec[Main(g)]
    BY <2>1, ThreadFacts DEF OthersStay
  <2>4. ~crossed' => \A g \in Helpers : g # h => WaitRight(g)'
    BY <1>0, <2>1, <2>3, WaitStays DEF OthersWork
  <2>5. QED
    BY <1>0, <2>1, <2>2, <2>4, UnreadStays
<1>8. ASSUME NEW h \in Helpers, NEW n \in Names, WaitReturns(h, n)
      PROVE  UnreadKnown'
  <2>1. /\ job[h].pc = "idle" /\ job'[h].pc = "print" /\ job'[h].cur = n
        /\ unread' = {l \in unread : name[l] # n}
        /\ UNCHANGED <<sec, name>> /\ OthersWork(h)
    BY <1>8, WaitReturnsEffect DEF Ground
  <2>2. sec[Main(h)].pc = "out"
    BY <2>1, NoHelperSection
  <2>3. WaitRight(h)'
    BY <2>1, <2>2 DEF WaitRight
  <2>4. ~crossed' => \A g \in Helpers : g # h => WaitRight(g)'
    BY <1>0, <2>1, WaitStays DEF OthersWork
  <2>5. QED
    BY <1>0, <2>1, <2>3, <2>4, UnreadStays
<1>9. ASSUME NEW h \in Helpers, Reset(h)
      PROVE  UnreadKnown'
  <2>1. /\ job[h].pc = "print" /\ UNCHANGED <<unread, name>> /\ OthersWork(h)
    BY <1>9, ResetEffect DEF Ground
  <2>2. sec[Main(h)].pc = "out"
    BY <2>1, NoHelperSection
  <2>3. \/ job'[h] = Finished /\ sec' = sec
        \/ \E l \in LiveSessions :
             /\ job'[h].pc = "reset" /\ job'[h].cur = job[h].cur
             /\ sec'[Main(h)].who = l /\ OthersStay(Main(h))
             /\ crossed' = (crossed \/ name[l] # job[h].cur)
    BY <1>9, ResetEffect DEF Ground
  <2>4. ~crossed' => WaitRight(h)'
    <3>1. CASE job'[h] = Finished /\ sec' = sec
      BY <2>2, <3>1, NoJobs DEF WaitRight
    <3>2. ASSUME ~crossed', NEW l \in LiveSessions,
                 job'[h].pc = "reset", job'[h].cur = job[h].cur,
                 sec'[Main(h)].who = l,
                 crossed' = (crossed \/ name[l] # job[h].cur)
          PROVE  WaitRight(h)'
      <4>1. name[l] = job[h].cur /\ ~crossed
        BY <3>2
      <4>2. \A m \in unread : name[m] # job[h].cur
        BY <2>1, <4>1 DEF UnreadKnown, WaitRight
      <4>3. QED
        BY <2>1, <3>2, <4>1, <4>2 DEF WaitRight
    <3>3. QED
      BY <2>3, <3>1, <3>2
  <2>5. \A g \in Helpers : g # h => sec'[Main(g)] = sec[Main(g)]
    BY <2>3, ThreadFacts DEF OthersStay
  <2>6. ~crossed' => \A g \in Helpers : g # h => WaitRight(g)'
    BY <1>0, <2>1, <2>5, WaitStays DEF OthersWork
  <2>7. QED
    BY <1>0, <2>1, <2>4, <2>6, UnreadStays
<1>10. ASSUME NEW h \in Helpers, HelperCrash(h)
       PROVE  UnreadKnown'
  <2>1. /\ job'[h] = Finished /\ sec'[Main(h)].pc = "out" /\ unread' = unread
        /\ OthersWork(h) /\ OthersStay(Main(h))
    BY <1>10, HelperCrashEffect DEF Ground
  <2>2. WaitRight(h)'
    BY <2>1, NoJobs DEF WaitRight
  <2>3. \A g \in Helpers : g # h => sec'[Main(g)] = sec[Main(g)]
    BY <2>1, ThreadFacts DEF OthersStay
  <2>4. ~crossed' => \A g \in Helpers : g # h => WaitRight(g)'
    BY <1>0, <2>1, <2>3, WaitStays DEF OthersWork
  <2>5. QED
    BY <1>0, <2>1, <2>2, <2>4, UnreadStays
<1>11. ASSUME UNCHANGED <<json, key, sock, link, setup, life, pid, name, halt, met, began,
                          holder, sec, job, unlocked, late, unread, crossed>>
       PROVE  UnreadKnown'
  BY <1>0, <1>11, UnreadUnmoved
<1>12. QED
  BY <1>1, <1>2, <1>3, <1>4, <1>5, <1>6, <1>7, <1>8, <1>9, <1>10, <1>11, Steps

-----------------------------------------------------------------------------
(* Sockets and links                                                       *)

(* Who changes them, and when.                                             *)
LEMMA SocketsWritten ==
  ASSUME Ground, StepOf
  PROVE  \/ \E l \in Listeners : Bind(l) \/ UnlinkSocket(l)
         \/ \E h \in Helpers : PruneUnlink(h)
         \/ /\ UNCHANGED <<sock, link, late>>
            /\ \A l \in Listeners : ~Binds(l) /\ ~Unlinks(l)
<1> DEFINE Kept == /\ UNCHANGED <<sock, link, late>>
                   /\ \A l \in Listeners : ~Binds(l) /\ ~Unlinks(l)
<1> USE DEF Ground
<1>1. ASSUME NEW t \in Threads, Enter(t) \/ Inner(t)
      PROVE  Kept
  BY <1>1, EnterEffect, InnerEffect DEF Binds, Unlinks
<1>2. ASSUME NEW t \in Threads, Leave(t)
      PROVE  Kept
  <2>1. /\ UNCHANGED <<sock, link, late>>
        /\ \/ life' = life
           \/ life' = [life EXCEPT ![t[1]] = "up"]
           \/ life' = [life EXCEPT ![t[1]] = "gone"]
    BY <1>2, LeaveEffect
  <2>2. QED
    BY <2>1 DEF RegTypeOK, Binds, Unlinks
<1>3. ASSUME NEW l \in Listeners, Start(l) \/ Look(l) \/ Refuse(l) \/ Notice(l)
      PROVE  Kept
  BY <1>3, StartEffect, LookEffect, RefuseEffect, NoticeEffect DEF OthersLive, Binds, Unlinks
<1>4. ASSUME NEW l \in Listeners, Stop(l) \/ ReadLink(l) \/ Crash(l)
      PROVE  Kept
  BY <1>4, StopEffect, ReadLinkEffect, CrashEffect DEF OthersLive, Binds, Unlinks
<1>5. ASSUME NEW h \in Helpers, PruneLook(h) \/ PruneJudge(h) \/ PruneVerify(h)
      PROVE  Kept
  BY <1>5, PruneLookEffect, PruneJudgeEffect, PruneVerifyEffect DEF Binds, Unlinks
<1>6. ASSUME NEW h \in Helpers,
             (\E n \in Names : WaitReturns(h, n)) \/ Reset(h) \/ HelperCrash(h)
      PROVE  Kept
  BY <1>6, WaitReturnsEffect, ResetEffect, HelperCrashEffect DEF Binds, Unlinks
<1>7. ASSUME UNCHANGED <<json, key, sock, link, setup, life, pid, name, halt, met, began,
                         holder, sec, job, unlocked, late, unread, crossed>>
      PROVE  Kept
  BY <1>7 DEF Binds, Unlinks
<1> HIDE DEF Kept
<1>8. \/ \E l \in Listeners : Bind(l) \/ UnlinkSocket(l)
      \/ \E h \in Helpers : PruneUnlink(h)
      \/ Kept
  BY <1>1, <1>2, <1>3, <1>4, <1>5, <1>6, <1>7, Steps
<1>9. QED
  BY <1>8 DEF Kept

(* Two processes that run have two pids.                                   *)
LEMMA RunningApart ==
  ASSUME Ground, NEW l \in Listeners, NEW m \in Listeners, l # m, Running(l), Running(m)
  PROVE  pid[l] # pid[m]
<1>1. l \in Nat /\ m \in Nat
  BY ListenersFinite
<1>2. l < m \/ m < l
  BY <1>1
<1>3. life[l] # "new" /\ life[m] # "new"
  BY DEF Running
<1>4. QED
  BY <1>2, <1>3 DEF Ground, PidsDiffer

OnlyIts(l) == \A m \in Listeners \ {l} : name[m] # name[l]

(* A name that only l has now was nobody else's before.                    *)
LEMMA WasOnlyIts ==
  ASSUME Ground, Forward, NEW l \in Listeners, life[l] \in {"register", "up"}, OnlyIts(l)'
  PROVE  OnlyIts(l) /\ name'[l] = name[l] /\ name[l] \in Names
<1>1. name[l] # None /\ name[l] \in Names
  BY DEF Ground, RegTypeOK, BeganOnce, InTurn
<1>2. name'[l] = name[l]
  BY DEF Forward, Looks
<1>3. ASSUME NEW m \in Listeners \ {l}
      PROVE  name[m] # name[l]
  <2>1. CASE name'[m] = name[m]
    BY <1>2, <2>1 DEF OnlyIts
  <2>2. CASE Looks(m)
    BY <1>1, <2>2 DEF Looks, Ground, BeganOnce, InTurn
  <2>3. QED
    BY <2>1, <2>2 DEF Forward
<1>4. QED
  BY <1>1, <1>2, <1>3 DEF OnlyIts

(* Every step keeps the socket and the link of a listener that is up, but  *)
(* for one that removes a file it did not look at.                         *)
LEMMA SocketsStep ==
  ASSUME Ground, PrunesTheDead, Sockets, StepOf
  PROVE  Sockets'
<1> USE DEF Ground
<1>0. Forward
  BY AllGoForward
<1> DEFINE Binding == {"register", "up", "closing", "unlink", "dead"}
<1>1. ASSUME \A n \in Pids, l \in Listeners :
               sock'[n] = l => n = pid'[l] /\ life'[l] \in Binding,
             \A l \in Listeners :
               life'[l] \in {"register", "up"} /\ ~late' =>
                 /\ sock'[pid'[l]] = l
                 /\ OnlyIts(l)' => link'[name'[l]] = pid'[l]
      PROVE  Sockets'
  BY <1>1 DEF Sockets, OnlyIts
<1>2. ASSUME UNCHANGED <<sock, link, late>>,
             \A l \in Listeners : ~Binds(l) /\ ~Unlinks(l)
      PROVE  Sockets'
  <2>1. ASSUME NEW n \in Pids, NEW l \in Listeners, sock'[n] = l
        PROVE  n = pid'[l] /\ life'[l] \in Binding
    <3>1. n = pid[l] /\ life[l] \in Binding
      BY <1>2, <2>1 DEF Sockets
    <3>2. life'[l] \in Binding
      BY <1>0, <1>2, <3>1 DEF Forward, Turns, Starts, Looks, Rises, Stops, Reads, Goes, Dies
    <3>3. QED
      BY <1>0, <3>1, <3>2 DEF Forward
  <2>2. ASSUME NEW l \in Listeners, life'[l] \in {"register", "up"}, ~late'
        PROVE  /\ sock'[pid'[l]] = l
               /\ OnlyIts(l)' => link'[name'[l]] = pid'[l]
    <3>1. life[l] \in {"register", "up"}
      BY <1>0, <1>2, <2>2 DEF Forward, Turns, Starts, Looks, Rises, Stops, Reads, Goes, Dies
    <3>2. pid'[l] = pid[l] /\ ~late
      BY <1>0, <1>2, <2>2, <3>1 DEF Forward
    <3>3. sock[pid[l]] = l /\ (OnlyIts(l) => link[name[l]] = pid[l])
      BY <3>1, <3>2 DEF Sockets, OnlyIts
    <3>4. OnlyIts(l)' => OnlyIts(l) /\ name'[l] = name[l]
      BY <1>0, <3>1, WasOnlyIts
    <3>5. QED
      BY <1>2, <3>2, <3>3, <3>4
  <2>3. QED
    BY <1>1, <2>1, <2>2
<1>3. ASSUME NEW k \in Listeners, Bind(k)
      PROVE  Sockets'
  <2>1. /\ life[k] = "bind" /\ life'[k] = "register" /\ OthersLive(k)
        /\ sock' = [sock EXCEPT ![pid[k]] = k]
        /\ link' = [link EXCEPT ![name[k]] = pid[k]]
        /\ UNCHANGED <<pid, name, late>>
    BY <1>3, BindEffect
  <2>2. pid[k] \in Pids /\ name[k] \in Names
    BY <2>1, CopiesArePaths DEF BeganOnce, InTurn, RegTypeOK
  <2>3. /\ sock'[pid[k]] = k /\ \A n \in Pids : n # pid[k] => sock'[n] = sock[n]
        /\ link'[name[k]] = pid[k] /\ \A n \in Names : n # name[k] => link'[n] = link[n]
    BY <2>1, <2>2 DEF RegTypeOK
  <2>4. ASSUME NEW n \in Pids, NEW l \in Listeners, sock'[n] = l
        PROVE  n = pid'[l] /\ life'[l] \in Binding
    <3>1. CASE n = pid[k]
      BY <2>1, <2>3, <2>4, <3>1
    <3>2. CASE n # pid[k]
      <4>1. n = pid[l] /\ life[l] \in Binding
        BY <2>3, <2>4, <3>2 DEF Sockets
      <4>2. QED
        BY <2>1, <3>2, <4>1 DEF OthersLive
    <3>3. QED
      BY <3>1, <3>2
  <2>5. ASSUME NEW l \in Listeners, life'[l] \in {"register", "up"}, ~late'
        PROVE  /\ sock'[pid'[l]] = l
               /\ OnlyIts(l)' => link'[name'[l]] = pid'[l]
    <3>1. CASE l = k
      BY <2>1, <2>3, <3>1
    <3>2. CASE l # k
      <4>1. life[l] \in {"register", "up"}
        BY <2>1, <2>5, <3>2 DEF OthersLive
      <4>2. pid[l] # pid[k] /\ pid[l] \in Pids
        BY <2>1, <3>2, <4>1, RunningApart, CopiesArePaths DEF Running
      <4>3. sock[pid[l]] = l /\ (OnlyIts(l) => link[name[l]] = pid[l])
        BY <2>1, <2>5, <4>1 DEF Sockets, OnlyIts
      <4>4. OnlyIts(l)' => OnlyIts(l) /\ name[l] \in Names /\ name[l] # name[k]
        BY <1>0, <2>1, <3>2, <4>1, WasOnlyIts DEF OnlyIts
      <4>5. QED
        BY <2>1, <2>3, <4>2, <4>3, <4>4
    <3>3. QED
      BY <3>1, <3>2
  <2>6. QED
    BY <1>1, <2>4, <2>5
<1>4. ASSUME NEW k \in Listeners, UnlinkSocket(k)
      PROVE  Sockets'
  <2>1. /\ life[k] = "unlink" /\ life'[k] = "remove" /\ OthersLive(k)
        /\ sock' = [sock EXCEPT ![pid[k]] = None]
        /\ link' = IF halt[k].ours THEN [link EXCEPT ![Called(k)] = None] ELSE link
        /\ late' = (late \/ (halt[k].ours /\ link[Called(k)] \notin {pid[k], None}))
        /\ UNCHANGED <<pid, name>>
    BY <1>4, UnlinkSocketEffect
  <2>2. pid[k] \in Pids /\ \A l \in Listeners : l # None
    BY <2>1, CopiesArePaths, ThreadFacts
  <2>3. sock'[pid[k]] = None /\ \A n \in Pids : n # pid[k] => sock'[n] = sock[n]
    BY <2>1, <2>2 DEF RegTypeOK
  <2>4. ASSUME NEW n \in Pids, NEW l \in Listeners, sock'[n] = l
        PROVE  n = pid'[l] /\ life'[l] \in Binding
    <3>1. n # pid[k] /\ sock[n] = l
      BY <2>2, <2>3, <2>4
    <3>2. n = pid[l] /\ life[l] \in Binding
      BY <3>1 DEF Sockets
    <3>3. QED
      BY <2>1, <3>1, <3>2 DEF OthersLive
  <2>5. ASSUME NEW l \in Listeners, life'[l] \in {"register", "up"}, ~late'
        PROVE  /\ sock'[pid'[l]] = l
               /\ OnlyIts(l)' => link'[name'[l]] = pid'[l]
    <3>1. l # k /\ life[l] \in {"register", "up"}
      BY <2>1, <2>5 DEF OthersLive
    <3>2. pid[l] # pid[k] /\ pid[l] \in Pids
      BY <2>1, <3>1, RunningApart, CopiesArePaths DEF Running
    <3>3. ~late /\ ~(halt[k].ours /\ link[Called(k)] \notin {pid[k], None})
      BY <2>1, <2>5
    <3>4. sock[pid[l]] = l /\ (OnlyIts(l) => link[name[l]] = pid[l])
      BY <3>1, <3>3 DEF Sockets, OnlyIts
    <3>5. pid[l] # None
      BY <2>2, <3>2 DEF Pids
    <3>6. ASSUME OnlyIts(l)'
          PROVE  link'[name[l]] = pid[l]
      <4>1. link[name[l]] = pid[l] /\ name[l] \in Names
        BY <1>0, <3>1, <3>4, <3>6, WasOnlyIts
      <4>2. halt[k].ours => Called(k) # name[l]
        BY <3>2, <3>3, <3>5, <4>1
      <4>3. QED
        BY <2>1, <4>1, <4>2 DEF RegTypeOK
    <3>7. QED
      BY <2>1, <2>3, <3>2, <3>4, <3>6
  <2>6. QED
    BY <1>1, <2>4, <2>5
<1>5. ASSUME NEW h \in Helpers, PruneUnlink(h)
      PROVE  Sockets'
  <2> DEFINE c == job[h].cur
  <2>1. /\ job[h].pc = "unlink"
        /\ sock' = [sock EXCEPT ![pid[c]] = None]
        /\ link' = IF job[h].ours THEN [link EXCEPT ![name[c]] = None] ELSE link
        /\ late' = (late \/ sock[pid[c]] \notin {c, None}
                         \/ (job[h].ours /\ link[name[c]] \notin {pid[c], None}))
        /\ UNCHANGED <<pid, name, life>>
    BY <1>5, PruneUnlinkEffect
  <2>2. c \in Listeners /\ Over(c) /\ Begun(c)
    BY <2>1 DEF PrunesTheDead, PruneRight
  <2> HIDE DEF c
  <2>3. pid[c] \in Pids /\ \A l \in Listeners : l # None
    BY <2>2, CopiesArePaths, ThreadFacts DEF Over
  <2>4. sock'[pid[c]] = None /\ \A n \in Pids : n # pid[c] => sock'[n] = sock[n]
    BY <2>1, <2>3 DEF RegTypeOK
  <2>5. ASSUME NEW n \in Pids, NEW l \in Listeners, sock'[n] = l
        PROVE  n = pid'[l] /\ life'[l] \in Binding
    <3>1. sock[n] = l
      BY <2>3, <2>4, <2>5
    <3>2. QED
      BY <2>1, <3>1 DEF Sockets
  <2>6. ASSUME NEW l \in Listeners, life'[l] \in {"register", "up"}, ~late'
        PROVE  /\ sock'[pid'[l]] = l
               /\ OnlyIts(l)' => link'[name'[l]] = pid'[l]
    <3>1. life[l] \in {"register", "up"} /\ l # c
      BY <2>1, <2>2, <2>6 DEF Over
    <3>2. ~late /\ sock[pid[c]] \in {c, None}
      BY <2>1, <2>6
    <3>3. sock[pid[l]] = l /\ (OnlyIts(l) => link[name[l]] = pid[l])
      BY <3>1, <3>2 DEF Sockets, OnlyIts
    <3>4. pid[l] # pid[c] /\ pid[l] \in Pids
      BY <2>3, <3>1, <3>2, <3>3, CopiesArePaths
    <3>5. ASSUME OnlyIts(l)'
          PROVE  link'[name[l]] = pid[l]
      <4>1. OnlyIts(l) /\ name[l] \in Names
        BY <1>0, <3>1, <3>5, WasOnlyIts
      <4>2. name[c] # name[l]
        BY <2>2, <3>1, <4>1 DEF OnlyIts
      <4>3. QED
        BY <2>1, <3>3, <4>1, <4>2 DEF RegTypeOK
    <3>6. QED
      BY <2>1, <2>4, <3>3, <3>4, <3>5
  <2>7. QED
    BY <1>1, <2>5, <2>6
<1>6. QED
  BY <1>2, <1>3, <1>4, <1>5, SocketsWritten

-----------------------------------------------------------------------------
(* How sections go on, and by what step a life does                        *)

(* What may happen to a thread's section.                                  *)
SectionTurns(t) ==
  \/ sec'[t] = sec[t]
  \/ Enter(t) \/ Inner(t) \/ Leave(t)
  \/ /\ sec'[t].pc = "out"
     /\ \A l \in Listeners : t = Main(l) => life'[l] \in {"closing", "dead"}
     /\ \A l \in Listeners : t = Handler(l) => life'[l] = "dead"
  \/ sec[t].pc = "out" /\ sec'[t].pc = "wait"
  \/ \E l \in Listeners : t = Main(l) /\ UnlinkSocket(l)

(* Every step takes each section one place on at most.                     *)
LEMMA SectionsTurn ==
  ASSUME Ground, StepOf
  PROVE  \A t \in Threads : SectionTurns(t)
<1> USE DEF Ground
<1>1. ASSUME NEW t \in Threads, Enter(t) \/ Inner(t) \/ Leave(t)
      PROVE  \A u \in Threads : SectionTurns(u)
  <2>1. OthersStay(t)
    BY <1>1, EnterEffect, InnerEffect, LeaveEffect DEF GoesOn
  <2>2. QED
    BY <1>1, <2>1 DEF OthersStay, SectionTurns
<1>2. ASSUME NEW l \in Listeners, Start(l) \/ Look(l) \/ Refuse(l) \/ ReadLink(l)
      PROVE  \A u \in Threads : SectionTurns(u)
  BY <1>2, StartEffect, LookEffect, RefuseEffect, ReadLinkEffect DEF SectionTurns
<1>3. ASSUME NEW l \in Listeners, Bind(l)
      PROVE  \A u \in Threads : SectionTurns(u)
  <2>1. life[l] = "bind" /\ sec'[Main(l)].pc = "wait" /\ OthersStay(Main(l))
    BY <1>3, BindEffect
  <2>2. sec[Main(l)].pc = "out"
    BY <2>1, NoMainSection
  <2>3. QED
    BY <2>1, <2>2 DEF OthersStay, SectionTurns
<1>4. ASSUME NEW l \in Listeners, Notice(l)
      PROVE  \A u \in Threads : SectionTurns(u)
  <2>1. /\ sec[Handler(l)].pc = "out" /\ sec'[Handler(l)].pc = "wait"
        /\ OthersStay(Handler(l))
    BY <1>4, NoticeEffect
  <2>2. QED
    BY <2>1 DEF OthersStay, SectionTurns
<1>5. ASSUME NEW l \in Listeners, Stop(l) \/ Crash(l)
      PROVE  \A u \in Threads : SectionTurns(u)
  <2>1. CASE Stop(l)
    <3>1. life'[l] = "closing" /\ sec'[Main(l)].pc = "out" /\ OthersStay(Main(l))
      BY <2>1, StopEffect
    <3>2. QED
      BY <3>1, ThreadFacts DEF OthersStay, SectionTurns
  <2>2. CASE Crash(l)
    <3>1. /\ life'[l] = "dead" /\ sec'[Main(l)].pc = "out" /\ sec'[Handler(l)].pc = "out"
          /\ \A u \in Threads : u \notin {Main(l), Handler(l)} => sec'[u] = sec[u]
      BY <2>2, CrashEffect
    <3>2. QED
      BY <3>1, ThreadFacts DEF SectionTurns
  <2>3. QED
    BY <1>5, <2>1, <2>2
<1>6. ASSUME NEW l \in Listeners, UnlinkSocket(l)
      PROVE  \A u \in Threads : SectionTurns(u)
  <2>1. OthersStay(Main(l))
    BY <1>6, UnlinkSocketEffect
  <2>2. QED
    BY <1>6, <2>1 DEF OthersStay, SectionTurns
<1>7. ASSUME NEW h \in Helpers, PruneLook(h) \/ PruneVerify(h) \/ PruneUnlink(h)
      PROVE  \A u \in Threads : SectionTurns(u)
  BY <1>7, PruneLookEffect, PruneVerifyEffect, PruneUnlinkEffect DEF SectionTurns
<1>8. ASSUME NEW h \in Helpers, \E n \in Names : WaitReturns(h, n)
      PROVE  \A u \in Threads : SectionTurns(u)
  BY <1>8, WaitReturnsEffect DEF SectionTurns
<1>9. ASSUME NEW h \in Helpers, PruneJudge(h) \/ Reset(h)
      PROVE  \A u \in Threads : SectionTurns(u)
  <2>1. job[h].pc \in {"judge", "print"}
    BY <1>9, PruneJudgeEffect, ResetEffect
  <2>2. sec[Main(h)].pc = "out"
    BY <2>1, NoHelperSection
  <2>3. sec' = sec \/ (sec'[Main(h)].pc = "wait" /\ OthersStay(Main(h)))
    BY <1>9, PruneJudgeEffect, ResetEffect
  <2>4. QED
    BY <2>2, <2>3 DEF OthersStay, SectionTurns
<1>10. ASSUME NEW h \in Helpers, HelperCrash(h)
       PROVE  \A u \in Threads : SectionTurns(u)
  <2>1. sec'[Main(h)].pc = "out" /\ OthersStay(Main(h))
    BY <1>10, HelperCrashEffect
  <2>2. QED
    BY <2>1, ThreadFacts DEF OthersStay, SectionTurns
<1>11. ASSUME UNCHANGED <<json, key, sock, link, setup, life, pid, name, halt, met, began,
                          holder, sec, job, unlocked, late, unread, crossed>>
       PROVE  \A u \in Threads : SectionTurns(u)
  BY <1>11 DEF SectionTurns
<1>12. QED
  BY <1>1, <1>2, <1>3, <1>4, <1>5, <1>6, <1>7, <1>8, <1>9, <1>10, <1>11, Steps

(* It rises and goes by leaving its section.                               *)
LEMMA LifeTurnsBy ==
  ASSUME Ground, StepOf, NEW l \in Listeners
  PROVE  /\ Rises(l) \/ Goes(l) => Leave(Main(l))
         /\ Unlinks(l) => UnlinkSocket(l)
         /\ Binds(l) => Bind(l)
<1> DEFINE By == /\ Rises(l) \/ Goes(l) => Leave(Main(l))
                 /\ Unlinks(l) => UnlinkSocket(l)
                 /\ Binds(l) => Bind(l)
<1> USE DEF Ground
<1>1. ASSUME NEW t \in Threads, Enter(t) \/ Inner(t)
      PROVE  By
  <2>1. life' = life
    BY <1>1, EnterEffect, InnerEffect
  <2>2. QED
    BY <2>1 DEF Rises, Goes, Unlinks, Binds
<1>2. ASSUME NEW t \in Threads, Leave(t)
      PROVE  By
  <2>1. /\ sec[t].pc = "copy"
        /\ \/ life' = life
           \/ t[1] \in Listeners /\ sec[t].op = "register" /\ life' = [life EXCEPT ![t[1]] = "up"]
           \/ t[1] \in Listeners /\ sec[t].op = "remove" /\ life' = [life EXCEPT ![t[1]] = "gone"]
    BY <1>2, LeaveEffect
  <2>2. ~Unlinks(l) /\ ~Binds(l)
    BY <2>1 DEF RegTypeOK, Unlinks, Binds
  <2>3. ASSUME Rises(l) \/ Goes(l)
        PROVE  t = Main(l)
    <3>1. t[1] = l /\ sec[t].op \in {"register", "remove"}
      BY <2>1, <2>3 DEF RegTypeOK, Rises, Goes
    <3>2. t # Handler(l)
      BY <2>1, <3>1 DEF HandlerSections, HandlerSection
    <3>3. QED
      BY <3>1, <3>2, ThreadFacts
  <2>4. QED
    BY <1>2, <2>2, <2>3
<1>3. ASSUME NEW m \in Listeners, Start(m) \/ Look(m) \/ Refuse(m) \/ Notice(m)
      PROVE  By
  <2>1. /\ OthersLive(m) \/ life' = life
        /\ life'[m] = life[m] \/ life[m] \in {"new", "look"}
    BY <1>3, StartEffect, LookEffect, RefuseEffect, NoticeEffect
  <2>2. QED
    BY <2>1 DEF OthersLive, Rises, Goes, Unlinks, Binds
<1>4. ASSUME NEW m \in Listeners, Stop(m) \/ ReadLink(m) \/ Crash(m)
      PROVE  By
  <2>1. OthersLive(m) /\ life'[m] \in {"closing", "unlink", "dead"}
    BY <1>4, StopEffect, ReadLinkEffect, CrashEffect
  <2>2. QED
    BY <2>1 DEF OthersLive, Rises, Goes, Unlinks, Binds
<1>5. ASSUME NEW m \in Listeners, Bind(m)
      PROVE  By
  <2>1. OthersLive(m) /\ life[m] = "bind" /\ life'[m] = "register"
    BY <1>5, BindEffect
  <2>2. QED
    BY <1>5, <2>1 DEF OthersLive, Rises, Goes, Unlinks, Binds
<1>6. ASSUME NEW m \in Listeners, UnlinkSocket(m)
      PROVE  By
  <2>1. OthersLive(m) /\ life[m] = "unlink" /\ life'[m] = "remove"
    BY <1>6, UnlinkSocketEffect
  <2>2. QED
    BY <1>6, <2>1 DEF OthersLive, Rises, Goes, Unlinks, Binds
<1>7. ASSUME life' = life
      PROVE  By
  BY <1>7 DEF Rises, Goes, Unlinks, Binds
<1>8. ASSUME NEW h \in Helpers,
             PruneLook(h) \/ PruneJudge(h) \/ PruneVerify(h) \/ PruneUnlink(h)
      PROVE  By
  <2>1. life' = life
    BY <1>8, PruneLookEffect, PruneJudgeEffect, PruneVerifyEffect, PruneUnlinkEffect
  <2>2. QED
    BY <1>7, <2>1
<1>9. ASSUME NEW h \in Helpers,
             (\E n \in Names : WaitReturns(h, n)) \/ Reset(h) \/ HelperCrash(h)
      PROVE  By
  <2>1. life' = life
    BY <1>9, WaitReturnsEffect, ResetEffect, HelperCrashEffect
  <2>2. QED
    BY <1>7, <2>1
<1> HIDE DEF By
<1>10. By
  BY <1>1, <1>2, <1>3, <1>4, <1>5, <1>6, <1>7, <1>8, <1>9, Steps
<1>11. QED
  BY <1>10 DEF By

(* A registration or removal that is under way and does not end.           *)
LEMMA StaysInside ==
  ASSUME Ground, StepOf, NEW l \in Listeners,
         life[l] \in {"register", "remove"}, life'[l] = life[l]
  PROVE  /\ sec'[Main(l)] = sec[Main(l)] \/ Enter(Main(l)) \/ Inner(Main(l))
         /\ sec'[Main(l)].todo \subseteq sec[Main(l)].todo
         /\ Inside(Main(l)) => Inside(Main(l))'
<1>1. Main(l) \in Threads /\ sec[Main(l)].pc # "out" /\ sec[Main(l)].op = life[l]
  BY ThreadFacts DEF Ground, MainSections, MainSection
<1>2. SectionTurns(Main(l))
  BY <1>1, SectionsTurn
<1>3. ~UnlinkSocket(l)
  BY UnlinkSocketEffect DEF Ground
<1>4. ~Leave(Main(l))
  <2>1. SUFFICES ASSUME Leave(Main(l)) PROVE FALSE
    OBVIOUS
  <2>2. /\ Main(l)[1] = l /\ Main(l)[1] \in Listeners
        /\ \/ life' = [life EXCEPT ![l] = "up"]
           \/ life' = [life EXCEPT ![l] = "gone"]
    BY <1>1, <2>1, LeaveEffect, ThreadFacts DEF Ground
  <2>3. QED
    BY <2>2 DEF Ground, RegTypeOK
<1>5. sec'[Main(l)] = sec[Main(l)] \/ Enter(Main(l)) \/ Inner(Main(l))
  BY <1>1, <1>2, <1>3, <1>4, ThreadFacts DEF SectionTurns
<1>6. Enter(Main(l)) => sec[Main(l)].pc = "wait" /\ sec'[Main(l)].todo = sec[Main(l)].todo
  BY <1>1, EnterEffect DEF Ground
<1>7. Inner(Main(l)) => /\ sec'[Main(l)].todo \subseteq sec[Main(l)].todo
                        /\ sec'[Main(l)].pc \in {"copy", "write"}
  BY <1>1, InnerEffect DEF Ground, GoesOn
<1>8. QED
  BY <1>5, <1>6, <1>7 DEF Inside

(* Nothing is left to be done when it rises or is gone.                    *)
LEMMA NothingLeft ==
  ASSUME Ground, StepOf, NEW l \in Listeners, Rises(l) \/ Goes(l)
  PROVE  /\ Inside(Main(l)) /\ sec[Main(l)].pc = "copy" /\ sec[Main(l)].todo = {}
         /\ UNCHANGED <<json, key>>
<1>1. Leave(Main(l)) /\ Main(l) \in Threads
  BY LifeTurnsBy, ThreadFacts
<1>2. QED
  BY <1>1, LeaveEffect DEF Ground, Inside

-----------------------------------------------------------------------------
(* One at a time, as long as no section ran without the lock               *)

LEMMA ExclusiveKept ==
  ASSUME Exclusive, holder' = holder,
         \A t \in Threads : Inside(t)' => Inside(t) \/ holder = t
  PROVE  Exclusive'
BY DEF Exclusive

(* Every step that does not give up waiting keeps sections apart.          *)
LEMMA ExclusiveStep ==
  ASSUME Ground, Exclusive, StepOf, ~unlocked'
  PROVE  Exclusive'
<1> USE DEF Ground
<1>1. ASSUME NEW t \in Threads, Enter(t)
      PROVE  Exclusive'
  <2>1. holder = None /\ holder' = t /\ OthersStay(t)
    BY <1>1, EnterEffect DEF GoesOn
  <2>2. \A u \in Threads : ~Inside(u)
    BY <2>1, ThreadFacts DEF Exclusive
  <2>3. QED
    BY <2>1, <2>2 DEF Exclusive, OthersStay, Inside
<1>2. ASSUME NEW t \in Threads, Inner(t)
      PROVE  Exclusive'
  <2>1. Inside(t) /\ OthersStay(t) /\ holder' = holder
    BY <1>2, InnerEffect DEF GoesOn
  <2>2. \A u \in Threads : Inside(u)' => Inside(u)
    BY <2>1 DEF OthersStay, Inside
  <2>3. QED
    BY <2>1, <2>2, ExclusiveKept
<1>3. ASSUME NEW t \in Threads, Leave(t)
      PROVE  Exclusive'
  <2>1. /\ sec[t].pc = "copy" /\ sec'[t].pc = "out" /\ OthersStay(t)
        /\ holder' = IF holder = t THEN None ELSE holder
    BY <1>3, LeaveEffect
  <2>2. \A u \in Threads : Inside(u)' => u # t /\ Inside(u)
    BY <2>1 DEF OthersStay, Inside
  <2>3. holder = t
    BY <2>1 DEF Exclusive, Inside
  <2>4. \A u \in Threads : ~Inside(u)'
    BY <2>2, <2>3 DEF Exclusive
  <2>5. QED
    BY <2>4 DEF Exclusive
<1>4. ASSUME NEW l \in Listeners, Start(l) \/ Look(l) \/ Refuse(l) \/ ReadLink(l)
      PROVE  Exclusive'
  <2>1. UNCHANGED <<sec, holder>>
    BY <1>4, StartEffect, LookEffect, RefuseEffect, ReadLinkEffect
  <2>2. QED
    BY <2>1, ExclusiveKept DEF Inside
<1>5. ASSUME NEW l \in Listeners, Bind(l) \/ Stop(l)
      PROVE  Exclusive'
  <2>1. holder' = holder /\ sec'[Main(l)].pc \in {"wait", "out"} /\ OthersStay(Main(l))
    BY <1>5, BindEffect, StopEffect
  <2>2. \A u \in Threads : Inside(u)' => Inside(u)
    BY <2>1 DEF OthersStay, Inside
  <2>3. QED
    BY <2>1, <2>2, ExclusiveKept
<1>6. ASSUME NEW l \in Listeners, Notice(l)
      PROVE  Exclusive'
  <2>1. holder' = holder /\ sec'[Handler(l)].pc = "wait" /\ OthersStay(Handler(l))
    BY <1>6, NoticeEffect
  <2>2. \A u \in Threads : Inside(u)' => Inside(u)
    BY <2>1 DEF OthersStay, Inside
  <2>3. QED
    BY <2>1, <2>2, ExclusiveKept
<1>7. ASSUME NEW l \in Listeners, UnlinkSocket(l)
      PROVE  Exclusive'
  <2>1. /\ holder' = holder /\ OthersStay(Main(l))
        /\ sec'[Main(l)].pc = IF halt[l].nested THEN "copy" ELSE "wait"
        /\ unlocked' = (unlocked \/ (halt[l].nested /\ holder # Main(l)))
    BY <1>7, UnlinkSocketEffect
  <2>2. Inside(Main(l))' => holder = Main(l)
    BY <2>1 DEF Inside
  <2>3. \A u \in Threads : Inside(u)' => Inside(u) \/ holder = u
    BY <2>1, <2>2 DEF OthersStay, Inside
  <2>4. QED
    BY <2>1, <2>3, ExclusiveKept
<1>8. ASSUME NEW l \in Listeners, Crash(l)
      PROVE  Exclusive'
  <2>1. /\ sec'[Main(l)].pc = "out" /\ sec'[Handler(l)].pc = "out"
        /\ \A u \in Threads : u \notin {Main(l), Handler(l)} => sec'[u] = sec[u]
        /\ holder' = Released(l)
    BY <1>8, CrashEffect
  <2>2. \A u \in Threads : Inside(u)' => Inside(u) /\ u \notin {Main(l), Handler(l)}
    BY <2>1 DEF Inside
  <2>3. QED
    BY <2>1, <2>2 DEF Exclusive, Released
<1>9. ASSUME NEW h \in Helpers,
             \/ PruneLook(h) \/ PruneVerify(h) \/ PruneUnlink(h)
             \/ (\E n \in Names : WaitReturns(h, n))
      PROVE  Exclusive'
  <2>1. UNCHANGED <<sec, holder>>
    BY <1>9, PruneLookEffect, PruneVerifyEffect, PruneUnlinkEffect, WaitReturnsEffect
  <2>2. QED
    BY <2>1, ExclusiveKept DEF Inside
<1>10. ASSUME NEW h \in Helpers, PruneJudge(h) \/ Reset(h)
       PROVE  Exclusive'
  <2>1. /\ holder' = holder
        /\ sec' = sec \/ (sec'[Main(h)].pc = "wait" /\ OthersStay(Main(h)))
    BY <1>10, PruneJudgeEffect, ResetEffect
  <2>2. \A u \in Threads : Inside(u)' => Inside(u)
    BY <2>1 DEF OthersStay, Inside
  <2>3. QED
    BY <2>1, <2>2, ExclusiveKept
<1>11. ASSUME NEW h \in Helpers, HelperCrash(h)
       PROVE  Exclusive'
  <2>1. sec'[Main(h)].pc = "out" /\ OthersStay(Main(h)) /\ holder' = Released(h)
    BY <1>11, HelperCrashEffect
  <2>2. sec[Handler(h)].pc = "out"
    BY DEF HelperSections, HelperSection
  <2>3. \A u \in Threads : Inside(u)' => Inside(u) /\ u \notin {Main(h), Handler(h)}
    BY <2>1, <2>2 DEF OthersStay, Inside
  <2>4. QED
    BY <2>1, <2>3 DEF Exclusive, Released
<1>12. ASSUME UNCHANGED <<json, key, sock, link, setup, life, pid, name, halt, met, began,
                          holder, sec, job, unlocked, late, unread, crossed>>
       PROVE  Exclusive'
  BY <1>12, ExclusiveKept DEF Inside
<1>13. QED
  BY <1>1, <1>2, <1>3, <1>4, <1>5, <1>6, <1>7, <1>8, <1>9, <1>10, <1>11, <1>12, Steps

(* While one is inside no other one writes, enters or leaves.              *)
LEMMA Alone ==
  ASSUME Ground, Exclusive, ~unlocked', NEW t \in Threads, Inside(t),
         NEW u \in Threads, Enter(u) \/ Inner(u) \/ Leave(u)
  PROVE  u = t
<1>1. holder = t
  BY DEF Exclusive
<1>2. ~Enter(u)
  BY <1>1, EnterEffect, ThreadFacts DEF Ground
<1>3. Inside(u)
  BY <1>2, InnerEffect, LeaveEffect DEF Ground, Inside
<1>4. QED
  BY <1>1, <1>3 DEF Exclusive

(* Registrations begin as they enter.                                      *)
LEMMA BeginsByEntering ==
  ASSUME Ground, StepOf
  PROVE  \/ \E t \in Threads : Enter(t) /\ sec[t].op = "register"
         \/ began' = began
<1> USE DEF Ground
<1>1. ASSUME NEW t \in Threads, Inner(t) \/ Leave(t)
      PROVE  began' = began
  BY <1>1, InnerEffect, LeaveEffect
<1>2. ASSUME NEW t \in Threads, Enter(t)
      PROVE  began' = began \/ sec[t].op = "register"
  BY <1>2, EnterEffect
<1>3. ASSUME NEW l \in Listeners,
             Start(l) \/ Look(l) \/ Refuse(l) \/ Bind(l) \/ Notice(l)
      PROVE  began' = began
  BY <1>3, StartEffect, LookEffect, RefuseEffect, BindEffect, NoticeEffect
<1>4. ASSUME NEW l \in Listeners,
             Stop(l) \/ ReadLink(l) \/ UnlinkSocket(l) \/ Crash(l)
      PROVE  began' = began
  BY <1>4, StopEffect, ReadLinkEffect, UnlinkSocketEffect, CrashEffect
<1>5. ASSUME NEW h \in Helpers,
             PruneLook(h) \/ PruneJudge(h) \/ PruneVerify(h) \/ PruneUnlink(h)
      PROVE  began' = began
  BY <1>5, PruneLookEffect, PruneJudgeEffect, PruneVerifyEffect, PruneUnlinkEffect
<1>6. ASSUME NEW h \in Helpers,
             (\E n \in Names : WaitReturns(h, n)) \/ Reset(h) \/ HelperCrash(h)
      PROVE  began' = began
  BY <1>6, WaitReturnsEffect, ResetEffect, HelperCrashEffect
<1>7. QED
  BY <1>1, <1>2, <1>3, <1>4, <1>5, <1>6, Steps

(* A registration that is inside was inside already, or enters now.        *)
LEMMA WasInside ==
  ASSUME Ground, StepOf, NEW l \in Listeners, life'[l] = "register", Inside(Main(l))'
  PROVE  /\ life[l] = "register"
         /\ Inside(Main(l)) \/ (Enter(Main(l)) /\ sec[Main(l)].op = "register")
<1>1. ~Binds(l)
  <2>1. Bind(l) => ~Inside(Main(l))'
    BY BindEffect DEF Ground, Inside
  <2>2. QED
    BY <2>1, LifeTurnsBy
<1>2. life[l] = "register"
  BY <1>1, AllGoForward
     DEF Forward, Turns, Starts, Looks, Rises, Stops, Reads, Unlinks, Goes, Dies
<1>3. sec'[Main(l)] = sec[Main(l)] \/ Enter(Main(l)) \/ Inner(Main(l))
  BY <1>2, StaysInside
<1>4. Inner(Main(l)) => Inside(Main(l))
  BY ThreadFacts, InnerEffect DEF Ground
<1>5. sec[Main(l)].op = "register"
  BY <1>2 DEF Ground, MainSections, MainSection
<1>6. QED
  BY <1>2, <1>3, <1>4, <1>5 DEF Inside

(* Every such step keeps the one that is registering the last to have      *)
(* begun.                                                                  *)
LEMMA LatestStep ==
  ASSUME Ground, Exclusive, Latest, StepOf, ~unlocked'
  PROVE  Latest'
<1>1. SUFFICES ASSUME NEW l \in Listeners, NEW m \in Listeners,
                      life'[l] = "register", Inside(Main(l))'
               PROVE  began'[m] <= began'[l]
  BY DEF Latest
<1>2. /\ life[l] = "register" /\ Main(l) \in Threads
      /\ Inside(Main(l)) \/ (Enter(Main(l)) /\ sec[Main(l)].op = "register")
  BY <1>1, WasInside, ThreadFacts
<1>3. CASE Inside(Main(l))
  <2>1. ~\E t \in Threads : Enter(t) /\ sec[t].op = "register"
    <3>1. SUFFICES ASSUME NEW t \in Threads, Enter(t) PROVE FALSE
      OBVIOUS
    <3>2. t = Main(l)
      BY <1>2, <1>3, <3>1, Alone
    <3>3. QED
      BY <1>3, <3>1, <3>2, EnterEffect DEF Ground, Inside
  <2>2. began' = began
    BY <2>1, BeginsByEntering
  <2>3. QED
    BY <1>2, <1>3, <2>2 DEF Latest
<1>4. CASE Enter(Main(l)) /\ sec[Main(l)].op = "register"
  <2>1. PICK k \in Listeners :
           /\ Main(l) = Main(k) /\ began'[k] = 1 + Cardinality(BegunOnes)
           /\ \A n \in Listeners : n # k => began'[n] = began[n]
    BY <1>2, <1>4, NextBegins
  <2>2. k = l
    BY <2>1, ThreadFacts
  <2>3. began[m] <= Cardinality(BegunOnes) /\ began[m] \in Nat
    BY ListenersFinite DEF Ground, RegTypeOK, BeganOnce, BegunOnes
  <2>4. QED
    BY <2>1, <2>2, <2>3, BegunFinite
<1>5. QED
  BY <1>2, <1>3, <1>4

-----------------------------------------------------------------------------
(* What the files say, as long as no section ran without the lock          *)

(* A path at which nobody writes stays as it is.                           *)
LEMMA FileSame ==
  ASSUME Ground, StepOf, NEW path \in Paths,
         \A t \in Threads : Inner(t) => path # Copy(t)
  PROVE  json'[path] = json[path] /\ key'[path] = key[path]
<1>1. CASE UNCHANGED <<json, key>>
  BY <1>1
<1>2. ASSUME NEW t \in Threads, Inner(t)
      PROVE  json'[path] = json[path] /\ key'[path] = key[path]
  <2>1. SameElsewhere(t)
    BY <1>2, InnerWrites
  <2>2. QED
    BY <1>2, <2>1 DEF SameElsewhere
<1>3. QED
  BY <1>1, <1>2, OnlyInside

(* Who writes, where, and what.                                            *)
LEMMA Writer ==
  ASSUME Ground, NEW t \in Threads, Inner(t)
  PROVE  /\ Inside(t) /\ sec[t].pc # "out" /\ sec[t].who \in Listeners
         /\ Copy(t) \in sec[t].todo /\ Copy(t) \in Copies(sec[t].who) /\ Copy(t) \in Paths
         /\ OthersStay(t) /\ life' = life
         /\ KeyPut(t) \/ JsonPut(t) \/ Skipped(t) \/ Passed(t) \/ StatusPut(t) \/ TakenAway(t)
<1>1. Inside(t) /\ sec[t].todo # {} /\ OthersStay(t) /\ life' = life
  BY InnerEffect DEF Ground, GoesOn
<1>2. sec[t].pc # "out"
  BY <1>1 DEF Inside
<1>3. QED
  BY <1>1, <1>2, SectionsOwner, CopyIsOwners, InnerWrites

(* Every such step keeps the entries of a registration behind it.          *)
LEMMA EntriesWrittenStep ==
  ASSUME Ground, EntriesOwn, EntriesWritten, Checked, StepOf
  PROVE  EntriesWritten'
<1>1. SUFFICES ASSUME NEW l \in Listeners, NEW path \in Paths,
                      json'[path].owner = l, life'[l] = "register"
               PROVE  Inside(Main(l))' /\ path \notin sec'[Main(l)].todo
  BY DEF EntriesWritten
<1>2. ~Binds(l)
  <2>1. Bind(l) => json' = json /\ life[l] = "bind"
    BY BindEffect DEF Ground
  <2>2. life[l] = "bind" => json[path].owner # l
    BY DEF EntriesOwn, Ground, BeganOnce, InTurn
  <2>3. QED
    BY <1>1, <2>1, <2>2, LifeTurnsBy
<1>3. life[l] = "register"
  BY <1>1, <1>2, AllGoForward
     DEF Forward, Turns, Starts, Looks, Rises, Stops, Reads, Unlinks, Goes, Dies
<1>4. CASE json[path].owner = l
  BY <1>1, <1>3, <1>4, StaysInside DEF EntriesWritten
<1>5. CASE json[path].owner # l
  <2>1. PICK t \in Threads : Inner(t) /\ path = Copy(t)
    BY <1>1, <1>5, FileSame
  <2>2. l # None
    BY ThreadFacts
  <2>3. JsonPut(t) /\ sec[t].who = l
    <3>1. ~KeyPut(t) /\ ~Skipped(t) /\ ~Passed(t)
      BY <1>1, <1>5 DEF KeyPut, Skipped, Passed
    <3>2. ~TakenAway(t)
      BY <1>1, <2>1, <2>2 DEF TakenAway, NoEntry
    <3>3. StatusPut(t) => json'[path].owner = json[path].owner
      BY <2>1 DEF StatusPut, Checked
    <3>4. JsonPut(t)
      BY <1>1, <1>5, <2>1, <3>1, <3>2, <3>3, Writer
    <3>5. QED
      BY <1>1, <2>1, <3>4 DEF JsonPut
  <2>4. t = Main(l)
    BY <2>1, <2>3, Writer, SectionsOwner DEF JsonPut
  <2>5. QED
    BY <2>1, <2>3, <2>4 DEF JsonPut, MovesOn, Inside
<1>6. QED
  BY <1>4, <1>5

(* A section that stays is at the same copy.                               *)
LEMMA CopyStays ==
  ASSUME Ground, Forward, NEW t \in Threads, sec[t].pc # "out",
         sec'[t].who = sec[t].who, sec'[t].todo = sec[t].todo
  PROVE  Copy(t)' = Copy(t)
<1>1. PICK l \in Listeners : l = sec[t].who /\ life[l] # "new"
  BY SectionsOwner
<1>2. Own(l)' = Own(l) /\ Claude(l)' = Claude(l)
  BY <1>1, PathsStay
<1>3. /\ Own(sec[t].who)' = Own(sec[t].who)
      /\ Claude(sec[t].who)' = Claude(sec[t].who)
  BY <1>1, <1>2 DEF Own, Claude
<1>4. QED
  BY <1>3 DEF Copy

(* Every such step keeps a copy as it was checked until it is written.     *)
LEMMA CheckedStep ==
  ASSUME Ground, Exclusive, Checked, StepOf, ~unlocked'
  PROVE  Checked'
<1>0. Forward
  BY AllGoForward
<1>1. SUFFICES ASSUME NEW t \in Threads, sec'[t].pc = "write"
               PROVE  /\ sec'[t].op = "register" => key'[Copy(t)'] = sec'[t].who
                      /\ sec'[t].op = "update" => json'[Copy(t)'].owner = sec'[t].who
                      /\ sec'[t].op = "remove" => json'[Copy(t)'].owner \in {sec'[t].who, None}
  BY DEF Checked
<1>2. CASE Inner(t)
  <2>1. /\ sec'[t].op = sec[t].op /\ sec'[t].who = sec[t].who
        /\ KeyPut(t) \/ Passed(t)
    BY <1>1, <1>2, InnerEffect, Writer
       DEF Ground, GoesOn, KeyPut, Passed, JsonPut, Skipped, StatusPut, TakenAway, MovesOn
  <2>2. sec'[t].todo = sec[t].todo
    BY <2>1 DEF KeyPut, Passed, Stays
  <2>5. Copy(t)' = Copy(t)
    BY <1>0, <1>2, <2>1, <2>2, Writer, CopyStays
  <2>6. sec[t].op \in {"register", "update", "remove"}
    BY DEF Ground, RegTypeOK, Sections
  <2>7. QED
    BY <2>1, <2>5, <2>6 DEF KeyPut, Passed, NotTheirs
<1>3. CASE ~Inner(t)
  <2>1. sec'[t] = sec[t]
    <3>1. SectionTurns(t)
      BY SectionsTurn
    <3>2. Enter(t) => sec'[t].pc = "copy"
      BY EnterEffect DEF Ground
    <3>3. Leave(t) => sec'[t].pc = "out"
      BY LeaveEffect DEF Ground
    <3>4. \A l \in Listeners : t = Main(l) /\ UnlinkSocket(l) => sec'[t].pc # "write"
      BY UnlinkSocketEffect DEF Ground
    <3>5. QED
      BY <1>1, <1>3, <3>1, <3>2, <3>3, <3>4 DEF SectionTurns
  <2>2. Inside(t) /\ sec[t].pc # "out"
    BY <1>1, <2>1 DEF Inside
  <2>3. UNCHANGED <<json, key>>
    BY <1>3, <2>2, Alone, OnlyInside
  <2>6. Copy(t)' = Copy(t)
    BY <1>0, <2>1, <2>2, CopyStays
  <2>7. QED
    BY <1>1, <2>1, <2>3, <2>6 DEF Checked
<1>4. QED
  BY <1>2, <1>3

(* Every such step keeps what was removed away.                            *)
LEMMA RemovedStep ==
  ASSUME Ground, EntriesOwn, Exclusive, Checked, Removed, StepOf, ~unlocked'
  PROVE  Removed'
<1>0. Forward
  BY AllGoForward
<1>1. SUFFICES ASSUME NEW l \in Listeners, NEW path \in Paths, json'[path].owner = l
               PROVE  /\ life'[l] # "gone"
                      /\ life'[l] = "remove" => path \in sec'[Main(l)].todo
  BY DEF Removed
<1>2. l # None /\ Main(l) \in Threads
  BY ThreadFacts
<1>3. CASE \E t \in Threads : Inner(t) /\ path = Copy(t)
  <2>1. PICK t \in Threads : Inner(t) /\ path = Copy(t)
    BY <1>3
  <2>2. CASE JsonPut(t)
    <3>1. l = sec[t].who
      BY <1>1, <2>1, <2>2 DEF JsonPut
    <3>2. life'[l] = "register"
      BY <2>1, <2>2, <3>1, Writer, SectionsOwner DEF JsonPut
    <3>3. QED
      BY <3>2
  <2>3. CASE StatusPut(t)
    <3>1. json[path].owner = l
      BY <1>1, <2>1, <2>3 DEF StatusPut, Checked
    <3>2. life' = life /\ OthersStay(t)
      BY <2>1, Writer
    <3>3. life[l] = "remove" => t # Main(l)
      BY <2>1, <2>3, Writer DEF StatusPut, Ground, MainSections, MainSection
    <3>4. QED
      BY <1>2, <3>1, <3>2, <3>3 DEF Removed, OthersStay
  <2>4. CASE KeyPut(t) \/ Passed(t)
    <3>1. json[path].owner = l /\ sec'[t].todo = sec[t].todo
      BY <1>1, <2>4 DEF KeyPut, Passed, Stays
    <3>2. life' = life /\ OthersStay(t)
      BY <2>1, Writer
    <3>3. QED
      BY <1>2, <3>1, <3>2 DEF Removed, OthersStay
  <2>5. CASE Skipped(t)
    <3>1. json[path].owner = l
      BY <1>1, <2>5 DEF Skipped
    <3>2. life' = life /\ OthersStay(t)
      BY <2>1, Writer
    <3>3. life[l] = "remove" => t # Main(l)
      <4>1. SUFFICES ASSUME life[l] = "remove", t = Main(l) PROVE FALSE
        OBVIOUS
      <4>2. sec[t].op = "remove" /\ sec[t].who = l
        BY <2>1, <4>1, Writer DEF Ground, MainSections, MainSection
      <4>3. QED
        BY <2>1, <2>5, <3>1, <4>2 DEF Skipped, NotTheirs
    <3>4. QED
      BY <1>2, <3>1, <3>2, <3>3 DEF Removed, OthersStay
  <2>6. CASE TakenAway(t)
    BY <1>1, <1>2, <2>1, <2>6 DEF TakenAway, NoEntry
  <2>7. QED
    BY <2>1, <2>2, <2>3, <2>4, <2>5, <2>6, Writer
<1>4. CASE \A t \in Threads : Inner(t) => path # Copy(t)
  <2>1. json[path].owner = l
    BY <1>1, <1>4, FileSame
  <2>2. path \in Copies(l) /\ Begun(l)
    BY <2>1 DEF EntriesOwn
  <2>3. ~Goes(l)
    <3>1. Goes(l) => life[l] = "remove" /\ sec[Main(l)].todo = {}
      BY NothingLeft DEF Goes
    <3>2. QED
      BY <2>1, <3>1 DEF Removed
  <2>4. life[l] # "gone" /\ (life[l] = "remove" => path \in sec[Main(l)].todo)
    BY <2>1 DEF Removed
  <2>5. life'[l] # "gone"
    BY <1>0, <2>3, <2>4 DEF Forward, Turns, Starts, Looks, Binds, Rises, Stops, Reads,
                            Unlinks, Dies
  <2>6. ASSUME life'[l] = "remove"
        PROVE  path \in sec'[Main(l)].todo
    <3>1. CASE Unlinks(l)
      BY <2>2, <3>1, LifeTurnsBy, UnlinkSocketEffect DEF Ground
    <3>2. CASE ~Unlinks(l)
      <4>1. life[l] = "remove"
        BY <1>0, <2>6, <3>2 DEF Forward, Turns, Starts, Looks, Binds, Rises, Stops, Reads,
                                Goes, Dies
      <4>2. sec'[Main(l)] = sec[Main(l)] \/ Enter(Main(l)) \/ Inner(Main(l))
        BY <2>6, <4>1, StaysInside
      <4>3. Enter(Main(l)) => sec'[Main(l)].todo = sec[Main(l)].todo
        BY <1>2, EnterEffect DEF Ground
      <4>4. Inner(Main(l)) => path \in sec'[Main(l)].todo
        BY <1>2, <1>4, <2>4, <4>1, Writer
           DEF KeyPut, JsonPut, Skipped, Passed, StatusPut, TakenAway, Stays, MovesOn
      <4>5. QED
        BY <2>4, <4>1, <4>2, <4>3, <4>4
    <3>3. QED
      BY <3>1, <3>2
  <2>7. QED
    BY <2>5, <2>6
<1>5. QED
  BY <1>3, <1>4

(* Where the owner of a key without a json file is.                        *)
LEMMA KeyOwnedStays ==
  ASSUME Ground, EntriesOwn, StepOf, NEW l \in Listeners, NEW path \in Paths,
         key[path] = l,
         \/ life[l] \in {"closing", "unlink", "dead"}
         \/ life[l] = "register" /\ sec[Main(l)].pc = "write" /\ path = Copy(Main(l))
            /\ ~Inner(Main(l))
         \/ life[l] = "remove" /\ path \in sec[Main(l)].todo
            /\ (Inner(Main(l)) => path \in sec'[Main(l)].todo)
  PROVE  \/ life'[l] \in {"closing", "unlink", "dead"}
         \/ life'[l] = "register" /\ sec'[Main(l)].pc = "write" /\ path = Copy(Main(l))'
         \/ life'[l] = "remove" /\ path \in sec'[Main(l)].todo
<1>0. Forward /\ Main(l) \in Threads
  BY AllGoForward, ThreadFacts
<1>1. CASE life[l] \in {"closing", "unlink", "dead"}
  <2>1. life'[l] \in {"closing", "unlink", "dead"} \/ Unlinks(l)
    BY <1>0, <1>1 DEF Forward, Turns, Starts, Looks, Binds, Rises, Stops, Reads, Goes, Dies,
                      Starting
  <2>2. Unlinks(l) => UnlinkSocket(l) /\ life'[l] = "remove"
    BY LifeTurnsBy DEF Unlinks
  <2>3. UnlinkSocket(l) => sec'[Main(l)].todo = Copies(l)
    BY UnlinkSocketEffect DEF Ground
  <2>4. path \in Copies(l)
    BY DEF EntriesOwn
  <2>5. QED
    BY <2>1, <2>2, <2>3, <2>4
<1>2. CASE /\ life[l] = "register" /\ sec[Main(l)].pc = "write" /\ path = Copy(Main(l))
           /\ ~Inner(Main(l))
  <2>1. ~Rises(l)
    BY <1>2, NothingLeft
  <2>2. life'[l] = "register" \/ life'[l] \in {"closing", "dead"}
    BY <1>0, <1>2, <2>1 DEF Forward, Turns, Starts, Looks, Binds, Stops, Reads, Unlinks,
                           Goes, Dies
  <2>3. ASSUME life'[l] = "register"
        PROVE  sec'[Main(l)].pc = "write" /\ path = Copy(Main(l))'
    <3>1. sec'[Main(l)] = sec[Main(l)] \/ Enter(Main(l))
      BY <1>2, <2>3, StaysInside
    <3>2. Enter(Main(l)) => sec[Main(l)].pc = "wait"
      BY <1>0, EnterEffect DEF Ground
    <3>3. sec'[Main(l)] = sec[Main(l)] /\ sec[Main(l)].who = l
      BY <1>2, <3>1, <3>2 DEF Ground, MainSections, MainSection
    <3>6. Copy(Main(l))' = Copy(Main(l))
      <4>1. PICK t \in Threads : t = Main(l)
        BY <1>0
      <4>2. Copy(t)' = Copy(t)
        BY <1>0, <1>2, <3>3, <4>1, CopyStays
      <4>3. QED
        BY <4>1, <4>2 DEF Main
    <3>7. QED
      BY <1>2, <3>3, <3>6
  <2>4. QED
    BY <2>2, <2>3
<1>3. CASE /\ life[l] = "remove" /\ path \in sec[Main(l)].todo
           /\ (Inner(Main(l)) => path \in sec'[Main(l)].todo)
  <2>1. ~Goes(l)
    BY <1>3, NothingLeft
  <2>2. life'[l] = "remove" \/ life'[l] = "dead"
    BY <1>0, <1>3, <2>1 DEF Forward, Turns, Starts, Looks, Binds, Rises, Stops, Reads,
                           Unlinks, Dies, Starting
  <2>3. ASSUME life'[l] = "remove"
        PROVE  path \in sec'[Main(l)].todo
    <3>1. sec'[Main(l)] = sec[Main(l)] \/ Enter(Main(l)) \/ Inner(Main(l))
      BY <1>3, <2>3, StaysInside
    <3>2. Enter(Main(l)) => sec'[Main(l)].todo = sec[Main(l)].todo
      BY <1>0, EnterEffect DEF Ground
    <3>3. QED
      BY <1>3, <3>1, <3>2
  <2>4. QED
    BY <2>2, <2>3
<1>4. QED
  BY <1>1, <1>2, <1>3

(* Every such step keeps a key without a json file for its owner to        *)
(* remove.                                                                 *)
LEMMA KeyOwnedStep ==
  ASSUME Ground, EntriesOwn, KeyOwned, StepOf
  PROVE  KeyOwned'
<1>0. Forward
  BY AllGoForward
<1>1. SUFFICES ASSUME NEW l \in Listeners, NEW path \in Paths,
                      key'[path] = l, json'[path].owner = None
               PROVE  \/ life'[l] \in {"closing", "unlink", "dead"}
                      \/ /\ life'[l] = "register" /\ sec'[Main(l)].pc = "write"
                         /\ path = Copy(Main(l))'
                      \/ life'[l] = "remove" /\ path \in sec'[Main(l)].todo
  BY DEF KeyOwned
<1>2. l # None /\ Main(l) \in Threads
  BY ThreadFacts
<1>3. ASSUME key[path] = l, json[path].owner = None,
             life[l] = "register" => ~Inner(Main(l)),
             life[l] = "remove" /\ Inner(Main(l)) => path \in sec'[Main(l)].todo \/ path \notin sec[Main(l)].todo
      PROVE  \/ life'[l] \in {"closing", "unlink", "dead"}
             \/ /\ life'[l] = "register" /\ sec'[Main(l)].pc = "write"
                /\ path = Copy(Main(l))'
             \/ life'[l] = "remove" /\ path \in sec'[Main(l)].todo
  BY <1>3, KeyOwnedStays DEF KeyOwned
<1>4. CASE \E t \in Threads : Inner(t) /\ path = Copy(t)
  <2>1. PICK t \in Threads : Inner(t) /\ path = Copy(t)
    BY <1>4
  <2>2. ~JsonPut(t) /\ ~StatusPut(t) /\ ~TakenAway(t)
    <3>1. sec[t].who # None
      BY <2>1, Writer, ThreadFacts
    <3>2. QED
      BY <1>1, <1>2, <2>1, <3>1 DEF JsonPut, StatusPut, TakenAway
  <2>3. CASE KeyPut(t)
    <3>1. l = sec[t].who /\ sec[t].op = "register"
      BY <1>1, <2>1, <2>3 DEF KeyPut
    <3>2. t = Main(l) /\ life[l] = "register"
      BY <2>1, <3>1, Writer, SectionsOwner
    <3>3. life' = life /\ sec'[t].pc = "write" /\ sec'[t].todo = sec[t].todo
          /\ sec'[t].who = sec[t].who
      BY <2>1, <2>3, Writer, InnerEffect DEF KeyPut, Stays, Ground, GoesOn
    <3>6. Copy(t)' = Copy(t)
      BY <1>0, <2>1, <3>3, Writer, CopyStays
    <3>7. Copy(Main(l))' = Copy(t)
      BY <3>2, <3>6 DEF Main
    <3>8. QED
      BY <2>1, <3>2, <3>3, <3>7
  <2>4. CASE Skipped(t) \/ Passed(t)
    <3>1. key[path] = l /\ json[path].owner = None /\ sec[t].op # "register"
      BY <1>1, <2>4 DEF Skipped, Passed
    <3>2. Inner(Main(l)) => Main(l) = t
      <4>1. SUFFICES ASSUME Inner(Main(l)), Main(l) # t PROVE FALSE
        OBVIOUS
      <4>2. OthersStay(t) /\ sec'[Main(l)] # sec[Main(l)]
        BY <1>2, <2>1, <4>1, Writer
           DEF KeyPut, JsonPut, Skipped, Passed, StatusPut, TakenAway, Stays, MovesOn
      <4>3. QED
        BY <1>2, <4>1, <4>2 DEF OthersStay
    <3>3. life[l] = "register" => ~Inner(Main(l))
      BY <2>1, <3>1, <3>2, Writer DEF Ground, MainSections, MainSection
    <3>4. ASSUME life[l] = "remove", Inner(Main(l))
          PROVE  sec'[Main(l)].todo = sec[Main(l)].todo
      <4>1. t = Main(l) /\ sec[t].op = "remove"
        BY <2>1, <3>2, <3>4, Writer DEF Ground, MainSections, MainSection
      <4>2. ~Skipped(t)
        BY <2>1, <3>1, <4>1 DEF Skipped, NotTheirs
      <4>3. QED
        BY <2>4, <4>1, <4>2 DEF Passed, Stays
    <3>5. QED
      BY <1>3, <3>1, <3>3, <3>4
  <2>5. QED
    BY <2>1, <2>2, <2>3, <2>4, Writer
<1>5. CASE \A t \in Threads : Inner(t) => path # Copy(t)
  <2>1. key[path] = l /\ json[path].owner = None
    BY <1>1, <1>5, FileSame
  <2>2. CASE life[l] = "register" /\ Inner(Main(l))
    <3>1. path # Copy(Main(l))
      BY <1>2, <1>5, <2>2
    <3>2. QED
      BY <2>1, <2>2, <3>1 DEF KeyOwned
  <2>3. CASE ~(life[l] = "register" /\ Inner(Main(l)))
    <3>1. Inner(Main(l)) => path \in sec'[Main(l)].todo \/ path \notin sec[Main(l)].todo
      BY <1>2, <1>5, Writer
         DEF KeyPut, JsonPut, Skipped, Passed, StatusPut, TakenAway, Stays, MovesOn
    <3>2. QED
      BY <1>3, <2>1, <2>3, <3>1
  <2>4. QED
    BY <2>2, <2>3
<1>6. QED
  BY <1>4, <1>5

(* Every such step keeps the entry of a listener that is up.               *)
LEMMA PresentStep ==
  ASSUME Ground, EntriesOwn, PrunesTheDead, Exclusive, Latest, Checked, Present,
         StepOf, ~unlocked'
  PROVE  Present'
<1>0. Forward
  BY AllGoForward
<1>1. SUFFICES ASSUME NEW l \in Listeners, ~Superseded(l)', NEW path \in Copies(l)',
                      \/ Up(l)'
                      \/ /\ life'[l] = "register" /\ Inside(Main(l))'
                         /\ path \notin sec'[Main(l)].todo
               PROVE  json'[path].owner = l /\ key'[path] = l
  BY DEF Present
<1>2. Main(l) \in Threads
  BY ThreadFacts
(* It has begun, and was there, or has just written the last of it.        *)
<1>3. life[l] \in {"register", "up"}
  <2>1. Up(l)' => life[l] \in {"register", "up"}
    BY <1>0 DEF Up, Forward, Turns, Starts, Looks, Binds, Rises, Stops, Reads, Unlinks,
                Goes, Dies
  <2>2. QED
    BY <1>1, <2>1, WasInside
<1>4. Copies(l)' = Copies(l) /\ Copies(l) \subseteq Paths
  BY <1>0, <1>3, PathsStay, CopiesArePaths DEF Ground
<1>5. Up(l) \/ (life[l] = "register" /\ Inside(Main(l)))
  <2>1. CASE Up(l)'
    <3>1. Up(l) \/ Rises(l)
      BY <1>0, <1>3, <2>1 DEF Up, Rises
    <3>2. QED
      BY <3>1, NothingLeft DEF Rises
  <2>2. CASE life'[l] = "register" /\ Inside(Main(l))' /\ path \notin sec'[Main(l)].todo
    <3>1. Enter(Main(l)) /\ sec[Main(l)].op = "register" => path \in sec'[Main(l)].todo
      <4>1. SUFFICES ASSUME Enter(Main(l)) PROVE path \in sec'[Main(l)].todo
        OBVIOUS
      <4>2. sec[Main(l)].pc = "wait" /\ sec'[Main(l)].todo = sec[Main(l)].todo
        BY <1>2, <4>1, EnterEffect DEF Ground
      <4>3. QED
        BY <1>4, <4>2 DEF Ground, MainSections, MainSection
    <3>2. QED
      BY <2>2, <3>1, WasInside
  <2>3. QED
    BY <1>1, <2>1, <2>2
<1>6. Begun(l)
  BY <1>5 DEF Ground, BeganOnce, InTurn
<1>7. ~Superseded(l)
  BY <1>0, <1>1, <1>6, StaysSuperseded
<1>8. CASE \A t \in Threads : Inner(t) => path # Copy(t)
  <2>1. json'[path] = json[path] /\ key'[path] = key[path]
    BY <1>4, <1>8, FileSame
  <2>2. Up(l) \/ (life[l] = "register" /\ Inside(Main(l)) /\ path \notin sec[Main(l)].todo)
    <3>1. ASSUME ~Up(l)
          PROVE  path \notin sec[Main(l)].todo
      <4>1. CASE Up(l)'
        <5>1. Rises(l)
          BY <1>5, <3>1, <4>1 DEF Up, Rises
        <5>2. QED
          BY <5>1, NothingLeft
      <4>2. CASE life'[l] = "register" /\ path \notin sec'[Main(l)].todo
        <5>1. sec'[Main(l)] = sec[Main(l)] \/ Enter(Main(l)) \/ Inner(Main(l))
          BY <1>3, <3>1, <4>2, StaysInside DEF Up
        <5>2. Enter(Main(l)) => sec'[Main(l)].todo = sec[Main(l)].todo
          BY <1>2, EnterEffect DEF Ground
        <5>3. Inner(Main(l)) => path \in sec'[Main(l)].todo \/ path \notin sec[Main(l)].todo
          BY <1>2, <1>8, Writer
             DEF KeyPut, JsonPut, Skipped, Passed, StatusPut, TakenAway, Stays, MovesOn
        <5>4. QED
          BY <4>2, <5>1, <5>2, <5>3
      <4>3. QED
        BY <1>1, <4>1, <4>2
    <3>2. QED
      BY <1>5, <3>1
  <2>3. QED
    BY <1>4, <1>7, <2>1, <2>2 DEF Present
<1>9. CASE \E t \in Threads : Inner(t) /\ path = Copy(t)
  <2>1. PICK t \in Threads : Inner(t) /\ path = Copy(t)
    BY <1>9
  <2>2. /\ Inside(t) /\ sec[t].who \in Listeners /\ path \in Copies(sec[t].who)
        /\ life' = life /\ OthersStay(t)
    BY <2>1, Writer
  <2>3. CASE Up(l)
    <3>1. json[path].owner = l /\ key[path] = l
      BY <1>4, <1>7, <2>3 DEF Present
    <3>2. ~KeyPut(t) /\ ~JsonPut(t)
      <4>1. SUFFICES ASSUME sec[t].op = "register" PROVE FALSE
        BY DEF KeyPut, JsonPut
      <4>2. t = Main(sec[t].who) /\ life[sec[t].who] = "register"
        BY <2>1, <4>1, Writer, SectionsOwner
      <4>3. began[l] <= began[sec[t].who]
        BY <2>2, <4>2 DEF Latest
      <4>4. sec[t].who # l
        BY <2>3, <4>2 DEF Up
      <4>5. began[l] # began[sec[t].who]
        <5>1. PICK m \in Listeners : m = sec[t].who
          BY <2>2
        <5>2. began[l] = began[m] => l = m
          BY <1>6 DEF Ground, BeganOnce
        <5>3. QED
          BY <4>4, <5>1, <5>2
      <4>6. began[l] \in Nat /\ began[sec[t].who] \in Nat
        <5>1. \A m \in Listeners : began[m] \in Nat
          BY ListenersFinite DEF Ground, RegTypeOK
        <5>2. QED
          BY <2>2, <5>1
      <4>7. QED
        BY <1>4, <1>7, <2>2, <4>3, <4>5, <4>6 DEF Superseded
    <3>3. ~TakenAway(t)
      <4>1. SUFFICES ASSUME TakenAway(t) PROVE FALSE
        OBVIOUS
      <4>2. sec[t].op = "remove" /\ sec[t].who = l
        BY <2>1, <3>1, <4>1, ThreadFacts DEF TakenAway, Checked
      <4>3. life[l] # "remove"
        BY <2>3 DEF Up
      <4>4. PICK h \in Helpers : job[h].pc = "prune" /\ job[h].cur = l
        BY <2>1, <4>2, <4>3, Writer, SectionsOwner
      <4>5. Over(l)
        BY <4>4 DEF PrunesTheDead, PruneRight
      <4>6. QED
        BY <2>3, <4>5 DEF Up, Over
    <3>4. StatusPut(t) => json'[path].owner = json[path].owner /\ key'[path] = key[path]
      BY <2>1 DEF StatusPut, Checked
    <3>5. Skipped(t) \/ Passed(t) => json'[path].owner = json[path].owner /\ key'[path] = key[path]
      BY DEF Skipped, Passed
    <3>6. QED
      BY <2>1, <3>1, <3>2, <3>3, <3>4, <3>5, Writer
  <2>4. CASE life[l] = "register" /\ Inside(Main(l))
    <3>1. t = Main(l)
      BY <1>2, <2>1, <2>4, Alone
    <3>2. sec[t].op = "register" /\ sec[t].who = l /\ path \notin sec'[t].todo
      BY <1>1, <2>1, <2>2, <2>4, <3>1, Writer DEF Up, Ground, MainSections, MainSection
    <3>3. JsonPut(t)
      BY <2>1, <3>2, Writer DEF KeyPut, JsonPut, Skipped, Passed, StatusPut, TakenAway, Stays
    <3>4. QED
      BY <2>1, <3>2, <3>3 DEF JsonPut, Checked
  <2>5. QED
    BY <1>5, <2>3, <2>4
<1>10. QED
  BY <1>8, <1>9

(* A message is unread from its Notice on.                                 *)
LEMMA UnreadBy ==
  ASSUME Ground, StepOf, NEW l \in unread', l \notin unread
  PROVE  l \in Listeners /\ Notice(l)
<1> USE DEF Ground
<1>1. ASSUME NEW t \in Threads, Enter(t) \/ Inner(t) \/ Leave(t)
      PROVE  unread' = unread
  BY <1>1, EnterEffect, InnerEffect, LeaveEffect
<1>2. ASSUME NEW m \in Listeners,
             Start(m) \/ Look(m) \/ Refuse(m) \/ Bind(m)
      PROVE  unread' = unread
  BY <1>2, StartEffect, LookEffect, RefuseEffect, BindEffect
<1>3. ASSUME NEW m \in Listeners,
             Stop(m) \/ ReadLink(m) \/ UnlinkSocket(m) \/ Crash(m)
      PROVE  unread' = unread
  BY <1>3, StopEffect, ReadLinkEffect, UnlinkSocketEffect, CrashEffect
<1>4. ASSUME NEW m \in Listeners, Notice(m)
      PROVE  l \in Listeners /\ Notice(l)
  <2>1. unread' = unread \cup {m}
    BY <1>4, NoticeEffect
  <2>2. QED
    BY <1>4, <2>1
<1>5. ASSUME NEW h \in Helpers,
             PruneLook(h) \/ PruneJudge(h) \/ PruneVerify(h) \/ PruneUnlink(h)
      PROVE  unread' = unread
  BY <1>5, PruneLookEffect, PruneJudgeEffect, PruneVerifyEffect, PruneUnlinkEffect
<1>6. ASSUME NEW h \in Helpers,
             (\E n \in Names : WaitReturns(h, n)) \/ Reset(h) \/ HelperCrash(h)
      PROVE  unread' \subseteq unread
  BY <1>6, WaitReturnsEffect, ResetEffect, HelperCrashEffect
<1>7. QED
  BY <1>1, <1>2, <1>3, <1>4, <1>5, <1>6, Steps

(* Every such step keeps "new-msg" in it, or a section that will write     *)
(* it.                                                                     *)
LEMMA StatusKeptStep ==
  ASSUME Ground, UnreadKnown, Checked, Present, Present', StatusKept, StepOf
  PROVE  StatusKept'
<1>0. Forward
  BY AllGoForward
<1>1. unread' \subseteq Listeners
  BY UnreadBy DEF Ground, RegTypeOK
<1>2. SUFFICES ASSUME NEW l \in Listeners, l \in unread', Up(l)', ~crossed', ~Superseded(l)'
               PROVE  \/ json'[Own(l)'].status = "new-msg"
                      \/ sec'[Handler(l)].pc # "out" /\ Own(l)' \in sec'[Handler(l)].todo
  BY <1>1 DEF StatusKept
<1>3. Handler(l) \in Threads /\ l \in Procs
  BY ThreadFacts
<1>4. CASE l \notin unread
  <2>1. Notice(l)
    BY <1>2, <1>4, UnreadBy
  <2>2. /\ life[l] = "up" /\ sec'[Handler(l)].pc = "wait" /\ sec'[Handler(l)].todo = Copies(l)
    BY <2>1, NoticeEffect DEF Ground
  <2>3. Own(l)' = Own(l) /\ Own(l) \in Copies(l)
    BY <1>0, <2>2, PathsStay, CopiesArePaths DEF Ground
  <2>4. QED
    BY <2>2, <2>3
<1>5. CASE l \in unread
  <2>1. Begun(l) /\ life[l] # "register"
    BY <1>5 DEF UnreadKnown
  <2>2. life[l] = "up"
    BY <1>0, <1>2, <2>1 DEF Up, Forward, Turns, Starts, Looks, Binds, Rises, Stops, Reads,
                           Unlinks, Goes, Dies
  <2>3. ~crossed /\ ~Superseded(l)
    BY <1>0, <1>2, <2>1, StaysSuperseded DEF Forward
  <2>4. Own(l)' = Own(l) /\ Own(l) \in Copies(l) /\ Own(l) \in Paths /\ Copies(l)' = Copies(l)
    BY <1>0, <2>2, PathsStay, CopiesArePaths DEF Ground
  <2>5. json[Own(l)].owner = l /\ json'[Own(l)].owner = l
    <3>1. json[Own(l)].owner = l
      BY <2>2, <2>3, <2>4 DEF Present, Up
    <3>2. \A path \in Copies(l)' : json'[path].owner = l
      BY <1>2 DEF Present
    <3>3. QED
      BY <2>4, <3>1, <3>2
  <2>6. CASE json[Own(l)].status = "new-msg"
    <3>1. CASE \A t \in Threads : Inner(t) => Own(l) # Copy(t)
      BY <2>4, <2>6, <3>1, FileSame
    <3>2. ASSUME NEW t \in Threads, Inner(t), Own(l) = Copy(t)
          PROVE  json'[Own(l)].status = "new-msg"
      <4>1. l # None
        BY ThreadFacts
      <4>2. ~TakenAway(t)
        BY <2>5, <3>2, <4>1 DEF TakenAway, NoEntry
      <4>3. ~JsonPut(t)
        <5>1. SUFFICES ASSUME JsonPut(t) PROVE FALSE
          OBVIOUS
        <5>2. sec[t].who = l /\ sec[t].op = "register"
          BY <2>5, <3>2, <5>1 DEF JsonPut
        <5>3. QED
          BY <2>1, <3>2, <5>2, Writer, SectionsOwner
      <4>4. StatusPut(t) => json'[Own(l)].status = "new-msg"
        <5>1. SUFFICES ASSUME StatusPut(t) PROVE sec[t].status = "new-msg"
          BY <3>2 DEF StatusPut
        <5>2. sec[t].who = l /\ sec[t].op = "update" /\ sec[t].pc # "out"
          BY <2>5, <3>2, <5>1 DEF StatusPut
        <5>3. ASSUME NEW h \in Helpers, t = Main(h), job[h].pc = "reset"
              PROVE  FALSE
          <6>1. WaitRight(h)
            BY <2>3 DEF UnreadKnown
          <6>2. name[l] = job[h].cur /\ name[l] # job[h].cur
            BY <1>5, <5>2, <5>3, <6>1 DEF WaitRight
          <6>3. QED
            BY <6>2
        <5>4. QED
          BY <5>2, <5>3, SectionsOwner
      <4>5. QED
        BY <2>6, <3>2, <4>2, <4>3, <4>4, Writer DEF KeyPut, Skipped, Passed
    <3>3. QED
      BY <2>4, <3>1, <3>2
  <2>7. CASE sec[Handler(l)].pc # "out" /\ Own(l) \in sec[Handler(l)].todo
    <3>1. SectionTurns(Handler(l))
      BY <1>3, SectionsTurn
    <3>2. CASE sec'[Handler(l)] = sec[Handler(l)]
      BY <2>4, <2>7, <3>2
    <3>3. CASE Enter(Handler(l))
      BY <1>3, <2>4, <2>7, <3>3, EnterEffect DEF Ground
    <3>4. CASE Leave(Handler(l))
      BY <1>3, <2>7, <3>4, LeaveEffect DEF Ground
    <3>5. CASE Inner(Handler(l))
      <4>1. sec[Handler(l)].op = "update" /\ sec[Handler(l)].who = l
            /\ sec[Handler(l)].status = "new-msg"
        BY <2>7 DEF Ground, HandlerSections, HandlerSection
      <4>2. Copy(Handler(l)) = Own(l)
        BY <2>7, <4>1 DEF Copy
      <4>3. ~Skipped(Handler(l))
        <5>1. l # None
          BY ThreadFacts
        <5>2. ~NotTheirs(Handler(l))
          BY <2>5, <4>1, <4>2, <5>1 DEF NotTheirs
        <5>3. QED
          BY <5>2 DEF Skipped
      <4>4. Passed(Handler(l)) \/ StatusPut(Handler(l))
        BY <1>3, <3>5, <4>1, <4>3, Writer DEF KeyPut, JsonPut, TakenAway
      <4>5. Passed(Handler(l)) => /\ sec'[Handler(l)].pc # "out"
                                  /\ Own(l) \in sec'[Handler(l)].todo
        BY <2>7 DEF Passed, Stays
      <4>6. StatusPut(Handler(l)) => json'[Own(l)].status = "new-msg"
        BY <4>1, <4>2 DEF StatusPut
      <4>7. QED
        BY <2>4, <4>4, <4>5, <4>6
    <3>6. life'[l] # "dead" /\ \A m \in Listeners : Handler(l) # Main(m)
      BY <1>2, ThreadFacts DEF Up
    <3>7. QED
      BY <2>7, <3>1, <3>2, <3>3, <3>4, <3>5, <3>6 DEF SectionTurns
  <2>8. QED
    BY <1>5, <2>2, <2>3, <2>6, <2>7 DEF StatusKept, Up
<1>6. QED
  BY <1>4, <1>5

-----------------------------------------------------------------------------
(* Names                                                                   *)

MetKept(m) ==
  \/ met'[m] = {}
  \/ /\ met'[m] = met[m]
     /\ life[m] \in {"bind", "register", "up"} => life'[m] \notin {"closing", "dead"}

(* Whom a listener has met changes when it looks for a name, or stops.     *)
LEMMA MetMoves ==
  ASSUME Ground, StepOf
  PROVE  \A m \in Listeners : Look(m) \/ MetKept(m)
<1> DEFINE Kept == \A m \in Listeners : Look(m) \/ MetKept(m)
<1> USE DEF Ground
<1>1. ASSUME NEW t \in Threads, Enter(t) \/ Inner(t)
      PROVE  Kept
  <2>1. UNCHANGED <<met, life>>
    BY <1>1, EnterEffect, InnerEffect
  <2>2. QED
    BY <2>1 DEF MetKept
<1>2. ASSUME NEW t \in Threads, Leave(t)
      PROVE  Kept
  <2>1. /\ met' = met
        /\ \/ life' = life
           \/ life' = [life EXCEPT ![t[1]] = "up"]
           \/ life' = [life EXCEPT ![t[1]] = "gone"]
    BY <1>2, LeaveEffect
  <2>2. QED
    BY <2>1 DEF RegTypeOK, MetKept
<1>3. ASSUME NEW l \in Listeners, Start(l) \/ Bind(l) \/ ReadLink(l) \/ UnlinkSocket(l)
      PROVE  Kept
  <2>1. /\ met' = met /\ OthersLive(l)
        /\ life'[l] \in {"look", "register", "unlink", "remove"}
    BY <1>3, StartEffect, BindEffect, ReadLinkEffect, UnlinkSocketEffect
  <2>2. QED
    BY <2>1 DEF OthersLive, MetKept
<1>4. ASSUME NEW l \in Listeners, Stop(l) \/ Crash(l)
      PROVE  Kept
  <2>1. met' = [met EXCEPT ![l] = {}] /\ OthersLive(l)
    BY <1>4, StopEffect, CrashEffect
  <2>2. QED
    BY <2>1 DEF RegTypeOK, OthersLive, MetKept
<1>5. ASSUME NEW l \in Listeners, Notice(l)
      PROVE  Kept
  BY <1>5, NoticeEffect DEF MetKept
<1>6. ASSUME NEW h \in Helpers,
             PruneLook(h) \/ PruneJudge(h) \/ PruneVerify(h) \/ PruneUnlink(h)
      PROVE  Kept
  <2>1. UNCHANGED <<met, life>>
    BY <1>6, PruneLookEffect, PruneJudgeEffect, PruneVerifyEffect, PruneUnlinkEffect
  <2>2. QED
    BY <2>1 DEF MetKept
<1>7. ASSUME NEW h \in Helpers,
             (\E n \in Names : WaitReturns(h, n)) \/ Reset(h) \/ HelperCrash(h)
      PROVE  Kept
  <2>1. UNCHANGED <<met, life>>
    BY <1>7, WaitReturnsEffect, ResetEffect, HelperCrashEffect
  <2>2. QED
    BY <2>1 DEF MetKept
<1>8. ASSUME NEW l \in Listeners, Look(l) \/ Refuse(l)
      PROVE  Kept
  <2>1. /\ life[l] = "look" /\ OthersLive(l)
        /\ met' = met \/ (Look(l) /\ met' = [met EXCEPT ![l] = UpNow])
    BY <1>8, LookEffect, RefuseEffect
  <2>2. QED
    BY <2>1 DEF RegTypeOK, OthersLive, MetKept
<1>9. ASSUME UNCHANGED <<json, key, sock, link, setup, life, pid, name, halt, met, began,
                         holder, sec, job, unlocked, late, unread, crossed>>
      PROVE  Kept
  BY <1>9 DEF MetKept
<1> HIDE DEF Kept
<1>10. Kept
  BY <1>1, <1>2, <1>3, <1>4, <1>5, <1>6, <1>7, <1>8, <1>9, Steps
<1>11. QED
  BY <1>10 DEF Kept

(* One that has registered and is up, and whose entry is its own, is among *)
(* the other sessions of one that looks for a name.                        *)
LEMMA UpIsMet ==
  ASSUME Ground, EntriesOwn, Present, NEW l \in Listeners, NEW m \in Listeners,
         Up(l), ~Superseded(l), Running(m), l # m
  PROVE  l \in OtherSessions(m)
<1>1. Running(l) /\ life[l] # "new"
  BY DEF Up, Running
<1>2. json[Own(l)].owner = l /\ Own(l) \in Paths
  BY <1>1, CopiesArePaths DEF Present, Ground
<1>3. Listed(l) # {}
  BY <1>2 DEF Listed
<1>4. ASSUME NEW k \in Listeners, Listed(k) # {}, pid[k] = pid[l]
      PROVE  k <= l
  <2>1. Begun(k)
    BY <1>4 DEF Listed, EntriesOwn
  <2>2. life[k] # "new"
    BY <2>1 DEF Ground, BeganOnce, InTurn
  <2>3. ~(l < k)
    BY <1>1, <1>4, <2>2 DEF Ground, PidsDiffer
  <2>4. QED
    BY <2>3, ListenersFinite
<1>5. l \in LiveSessions
  BY <1>1, <1>3, <1>4 DEF Sessions, LiveSessions, PidAlive
<1>6. QED
  BY <1>1, <1>5, RunningApart DEF OtherSessions

(* Every step keeps a name apart from those it was chosen after.           *)
LEMMA NamesKeptStep ==
  ASSUME Ground, EntriesOwn, ~unlocked => Present, NamesKept, StepOf
  PROVE  NamesKept'
<1>0. Forward
  BY AllGoForward
<1>1. SUFFICES ASSUME NEW l \in Listeners, NEW m \in Listeners, l \in met'[m]
               PROVE  /\ Begun(l)' /\ life'[l] # "register" /\ l # m
                      /\ life'[m] \in {"bind", "register", "up"}
                      /\ ~unlocked' /\ ~Superseded(l)' =>
                            name'[l] # name'[m] /\ name'[l] # None
  BY DEF NamesKept
<1>2. CASE Look(m)
  <2>1. /\ life[m] = "look" /\ life'[m] = "bind" /\ OthersLive(m)
        /\ name' = [name EXCEPT ![m] = FreeName(m)]
        /\ met' = [met EXCEPT ![m] = UpNow]
    BY <1>2, LookEffect DEF Ground
  <2>2. life[l] = "up" /\ l # m
    BY <1>1, <2>1 DEF Ground, RegTypeOK, UpNow, Up
  <2>3. Begun(l) /\ name[l] # None /\ life'[l] = "up"
    BY <2>1, <2>2 DEF Ground, BeganOnce, InTurn, Up, OthersLive
  <2>4. Begun(l)'
    BY <1>0, <2>3, StaysBegun
  <2>5. name'[l] = name[l] /\ name'[m] = FreeName(m)
    BY <2>1, <2>2 DEF Ground, RegTypeOK
  <2>6. ASSUME ~unlocked', ~Superseded(l)'
        PROVE  name[l] # FreeName(m)
    <3>1. ~unlocked /\ ~Superseded(l)
      BY <1>0, <2>3, <2>6, StaysSuperseded DEF Forward
    <3>2. l \in OtherSessions(m)
      BY <2>1, <2>2, <3>1, UpIsMet DEF Up, Running
    <3>3. QED
      BY <3>2, FreeNameIsFree
  <2>7. QED
    BY <2>1, <2>2, <2>3, <2>4, <2>5, <2>6
<1>3. CASE ~Look(m)
  <2>1. /\ l \in met[m]
        /\ life[m] \in {"bind", "register", "up"} => life'[m] \notin {"closing", "dead"}
    BY <1>1, <1>3, MetMoves DEF MetKept
  <2>2. /\ Begun(l) /\ life[l] # "register" /\ l # m
        /\ life[m] \in {"bind", "register", "up"}
    BY <2>1 DEF NamesKept
  <2>3. Begun(l)'
    BY <1>0, <2>2, StaysBegun
  <2>4. life[l] \notin {"new", "look", "bind"}
    BY <2>2 DEF Ground, BeganOnce, InTurn
  <2>5. life'[l] # "register" /\ name'[l] = name[l]
    BY <1>0, <2>2, <2>4 DEF Forward, Turns, Starts, Looks, Binds, Rises, Stops, Reads,
                           Unlinks, Goes, Dies
  <2>6. life'[m] \in {"bind", "register", "up"} /\ name'[m] = name[m]
    BY <1>0, <2>1, <2>2 DEF Forward, Turns, Starts, Looks, Binds, Rises, Stops, Reads,
                           Unlinks, Goes, Dies
  <2>7. ~unlocked' /\ ~Superseded(l)' => name[l] # name[m] /\ name[l] # None
    <3>1. ~unlocked' /\ ~Superseded(l)' => ~unlocked /\ ~Superseded(l)
      BY <1>0, <2>2, StaysSuperseded DEF Forward
    <3>2. QED
      BY <2>1, <3>1 DEF NamesKept
  <2>8. QED
    BY <2>2, <2>3, <2>5, <2>6, <2>7
<1>4. QED
  BY <1>2, <1>3

-----------------------------------------------------------------------------
(* The registry's invariant                                                *)

(* The registry is right when it is empty ...                              *)
LEMMA RegInitInv ==
  ASSUME RegInit
  PROVE  RegInv
<1> USE DEF RegInit
<1>1. RegTypeOK
  <2>1. MaxRuns \in Nat /\ 0 \in 0 .. MaxRuns
    BY ListenersFinite
  <2>2. Out \in Sections /\ NoEntry \in Entries /\ Whole \in [nested : BOOLEAN, ours : BOOLEAN]
    BY DEF Out, Sections, SecPCs, Statuses, NoEntry, Entries, Whole
  <2>3. "new" \in LifePCs
    BY DEF LifePCs
  <2>4. QED
    BY <2>1, <2>2, <2>3, NoJobs DEF RegTypeOK
<1>2. \A l \in Listeners : life[l] = "new" /\ pid[l] = None /\ name[l] = None /\ ~Begun(l)
                           /\ met[l] = {}
  BY DEF Begun
<1>3. \A t \in Threads : sec[t].pc = "out" /\ ~Inside(t)
  BY DEF Out, Inside
<1>4. \A path \in Paths : json[path].owner = None /\ key[path] = None
  BY DEF NoEntry
<1>5. \A l \in Listeners : l # None
  BY ThreadFacts
<1>6. PidsDiffer
  BY <1>2 DEF PidsDiffer, Running
<1>7. MainSections /\ HandlerSections /\ HelperSections
  BY <1>2, <1>3, ThreadFacts
     DEF MainSections, MainSection, HandlerSections, HandlerSection, HelperSections, HelperSection
<1>8. BeganOnce
  <2>1. \A l \in Listeners : InTurn(l)
    BY <1>2 DEF InTurn, Up
  <2>2. \A l \in Listeners : began[l] = 0
    OBVIOUS
  <2>4. \A l \in Listeners : began[l] <= Cardinality({m \in Listeners : Begun(m)})
    BY <2>2, BegunFinite DEF BegunOnes
  <2>5. QED
    BY <1>2, <2>1, <2>4 DEF BeganOnce
<1>9. EntriesOwn /\ NamesKept
  BY <1>2, <1>4, <1>5 DEF EntriesOwn, NamesKept
<1>10. Sockets
  BY <1>2, <1>5 DEF Sockets
<1>11. PrunesTheDead
  BY NoJobs DEF PrunesTheDead, PruneRight
<1>12. UnreadKnown
  BY <1>3, NoJobs, ThreadFacts DEF UnreadKnown, WaitRight
<1>13. Exclusive /\ Latest /\ Checked
  BY <1>2, <1>3 DEF Exclusive, Latest, Checked
<1>14. EntriesWritten /\ KeyOwned /\ Removed
  BY <1>4, <1>5 DEF EntriesWritten, KeyOwned, Removed
<1>15. Present /\ StatusKept
  BY <1>2 DEF Present, StatusKept, Up
<1>16. QED
  BY <1>1, <1>6, <1>7, <1>8, <1>9, <1>10, <1>11, <1>12, <1>13, <1>14, <1>15
     DEF RegInv, Ground, Files

(* ... and after every step.                                               *)
LEMMA RegInvStep ==
  ASSUME RegInv, StepOf
  PROVE  RegInv'
<1> USE DEF RegInv
<1>1. RegTypeOK' /\ PidsDiffer'
  BY RegTypeOKStep, PidsDifferStep
<1>2. MainSections' /\ HandlerSections' /\ HelperSections'
  BY MainSectionsStep, HandlerSectionsStep, HelperSectionsStep
<1>3. BeganOnce'
  BY BeganOnceStep
<1>4. EntriesOwn' /\ Sockets' /\ PrunesTheDead'
  BY EntriesOwnStep, SocketsStep, PrunesTheDeadStep
<1>5. UnreadKnown'
  BY UnreadKnownStep
<1>6. NamesKept'
  <2>1. ~unlocked => Present
    BY DEF Files
  <2>2. QED
    BY <2>1, NamesKeptStep
<1>7. ASSUME ~unlocked'
      PROVE  Files'
  <2>1. ~unlocked
    BY <1>7, AllGoForward DEF Forward
  <2>2. /\ Exclusive /\ Latest /\ EntriesWritten /\ KeyOwned /\ Checked /\ Removed /\ Present
        /\ StatusKept
    BY <2>1 DEF Files
  <2>3. Exclusive' /\ Latest' /\ Checked'
    BY <1>7, <2>2, ExclusiveStep, LatestStep, CheckedStep
  <2>4. EntriesWritten' /\ KeyOwned' /\ Removed'
    BY <1>7, <2>2, EntriesWrittenStep, KeyOwnedStep, RemovedStep
  <2>5. Present'
    BY <1>7, <2>2, PresentStep
  <2>6. StatusKept'
    BY <2>2, <2>5, StatusKeptStep
  <2>7. QED
    BY <2>3, <2>4, <2>5, <2>6 DEF Files
<1>8. QED
  BY <1>1, <1>2, <1>3, <1>4, <1>5, <1>6, <1>7 DEF Ground

regTuple == <<json, key, sock, link, setup, life, pid, name, halt, met, began,
              holder, sec, job, unlocked, late, unread, crossed>>

(* No step of a send writes the registry.                                  *)
LEMMA DeliveryIsQuiet ==
  ASSUME NEW s \in Senders, DeliveryStep(s)
  PROVE  UNCHANGED regTuple
<1>1. UNCHANGED regVars
  <2>1. CASE Resolve(s) \/ NotFound(s) \/ ReadToken(s) \/ FallBackToDead(s)
    BY <2>1 DEF Resolve, NotFound, ReadToken, FallBackToDead, MailStep
  <2>2. CASE Queue(s) \/ Audit(s) \/ Native(s)
    BY <2>2 DEF Queue, Audit, Native, To, MailStep
  <2>3. CASE Connect(s) \/ Serve(s) \/ Drop(s) \/ Lost(s)
    BY <2>3 DEF Connect, Serve, Drop, Lost, Served, To, MailStep
  <2>4. QED
    BY <2>1, <2>2, <2>3 DEF DeliveryStep
<1>2. QED
  BY <1>1 DEF regVars, fileVars, lifeVars, waitVars, regTuple

(* A step of the whole is one of the registry's, or leaves it alone.       *)
LEMMA NextIsAStep ==
  ASSUME [Next]_vars
  PROVE  StepOf
<1>1. CASE RegNext
  BY <1>1 DEF StepOf
<1>2. ASSUME NEW s \in Senders, DeliveryStep(s)
      PROVE  UNCHANGED regVars
  BY <1>2, DeliveryIsQuiet DEF regTuple, regVars, fileVars, lifeVars, waitVars
<1>3. CASE UNCHANGED vars
  BY <1>3 DEF vars, StepOf
<1>4. QED
  BY <1>1, <1>2, <1>3 DEF Next, StepOf

(* The registry's invariant holds always, whatever listeners, prunes,      *)
(* waits and senders do and wherever they stop: what the sections, the     *)
(* jobs of helpers and the order of registrations are (Ground), what that  *)
(* makes of entries, sockets, names and unread messages, and, unless a     *)
(* section ran without the lock, what the files say (Files).               *)
THEOREM RegistryInvariant == Spec => []RegInv
<1>1. Init => RegInv
  BY RegInitInv DEF Init
<1>2. RegInv /\ [Next]_vars => RegInv'
  BY NextIsAStep, RegInvStep
<1>3. QED
  BY <1>1, <1>2, PTL DEF Spec

(* The session registry keeps the types of its variables.                  *)
THEOREM RegTypeCorrect == Spec => []RegTypeOK
<1>1. RegInv => RegTypeOK
  BY DEF RegInv, Ground
<1>2. QED
  BY <1>1, RegistryInvariant, PTL

(* A listener that is up is found under its own token, at its own socket   *)
(* and by its name, whatever other listeners, prunes and waits do to the   *)
(* files of register_session: but for a section that ran without the       *)
(* lock, a later listener of the same session, and a socket or link that   *)
(* was replaced just before it was removed.                                *)
THEOREM ReachableWhileUp == Spec => []UpIsReachable
<1>1. ASSUME RegInv PROVE UpIsReachable
  <2>1. SUFFICES ASSUME NEW l \in Listeners, Up(l), ~unlocked, ~Superseded(l)
                 PROVE  /\ \A path \in Copies(l) : json[path].owner = l /\ key[path] = l
                        /\ ~late =>
                             /\ sock[pid[l]] = l
                             /\ (\A m \in Listeners \ {l} : name[m] # name[l])
                                  => link[name[l]] = pid[l]
    BY DEF UpIsReachable
  <2>2. \A path \in Copies(l) : json[path].owner = l /\ key[path] = l
    BY <1>1, <2>1 DEF RegInv, Files, Present
  <2>3. QED
    BY <1>1, <2>1, <2>2 DEF RegInv, Sockets, Up
<1>2. QED
  BY <1>1, RegistryInvariant, PTL

(* A listener whose cleanup ended has no json, key or socket file left,    *)
(* not even one that an update under way wrote back: but for a section     *)
(* that ran without the lock.                                              *)
THEOREM NothingLeftBehind == Spec => []GoneLeavesNothing
<1>1. ASSUME RegInv PROVE GoneLeavesNothing
  BY <1>1 DEF RegInv, Files, Removed, KeyOwned, Sockets, GoneLeavesNothing
<1>2. QED
  BY <1>1, RegistryInvariant, PTL

(* Two listeners that are up have two names, if one of them saw the other  *)
(* when it looked for its name (_resolve_name_conflict): but for a         *)
(* section that ran without the lock, and an entry that was taken over.    *)
THEOREM NamesApart == Spec => []NamesDiffer
<1>1. ASSUME RegInv PROVE NamesDiffer
  BY <1>1 DEF RegInv, NamesKept, NamesDiffer
<1>2. QED
  BY <1>1, RegistryInvariant, PTL

(* The entry of a listener with an unread message says "new-msg" once the  *)
(* handler has written it, until a wait has returned the message: but for  *)
(* a wait that sets back what it has not read, a section that ran without  *)
(* the lock, and an entry that was taken over.                             *)
THEOREM StatusIsTold == Spec => []StatusTells
<1>1. ASSUME RegInv PROVE StatusTells
  <2>1. SUFFICES ASSUME NEW l \in unread, Up(l), sec[Handler(l)].pc = "out", ~crossed,
                        ~unlocked, ~Superseded(l)
                 PROVE  Status(l) = "new-msg"
    BY DEF StatusTells
  <2>2. l \in Listeners
    BY <1>1 DEF RegInv, Ground, RegTypeOK
  <2>3. Own(l) \in Copies(l) /\ Own(l) \in Paths
    BY <1>1, <2>1, <2>2, CopiesArePaths DEF RegInv, Ground, Up
  <2>4. json[Own(l)].owner = l /\ json[Own(l)].status = "new-msg"
    BY <1>1, <2>1, <2>2, <2>3 DEF RegInv, Files, Present, StatusKept
  <2>5. QED
    BY <2>3, <2>4 DEF Status, Listed
<1>2. QED
  BY <1>1, RegistryInvariant, PTL

(* Some listener of a set that is not empty started last.                  *)
LEMMA Greatest ==
  ASSUME NEW S, S \subseteq Listeners, S # {}
  PROVE  \E x \in S : \A y \in S : y <= x
<1> DEFINE Bounds == {n \in Nat : \A y \in S : y <= n}
(* Its least upper bound is one of them.                                   *)
<1>1. MaxRuns \in Bounds /\ Bounds \subseteq Nat
  BY ListenersFinite DEF Listeners
<1>2. PICK n \in Bounds : \A k \in Bounds : n <= k
  <2> HIDE DEF Bounds
  <2>1. QED
    BY <1>1, Least
<1>3. n \in Nat /\ \A y \in S : y <= n
  OBVIOUS
<1>4. S \subseteq Nat /\ \A y \in S : y >= 1
  BY DEF Listeners
<1>5. n \in S
  <2>1. SUFFICES ASSUME n \notin S PROVE FALSE
    OBVIOUS
  <2>2. \A y \in S : y <= n - 1
    BY <1>3, <1>4, <2>1
  <2>3. n - 1 \in Nat
    <3>1. PICK y \in S : y \in Nat /\ y >= 1 /\ y <= n - 1
      BY <1>4, <2>2
    <3>2. QED
      BY <1>3, <3>1
  <2>4. n - 1 \in Bounds
    BY <2>2, <2>3
  <2>5. QED
    BY <1>2, <1>3, <2>4
<1>6. QED
  BY <1>3, <1>5

-----------------------------------------------------------------------------
(* What each step of a send does                                           *)

SendersApart(s) ==
  \A r \in Senders : r # s =>
    /\ mail'[r] = mail[r] /\ handed'[r] = handed[r] /\ dropped'[r] = dropped[r]
    /\ late2nd'[r] = late2nd[r] /\ unlogged'[r] = unlogged[r]

Letter(m) == <<m.who, m.path, m.token, m.conn>>

(* The mail of one sender moves.                                           *)
Moved(s) ==
  /\ \A r \in Senders : r # s => mail'[r] = mail[r]
  /\ mail' \in [Senders -> Mails]
  /\ UNCHANGED regTuple

LEMMA MailMoves ==
  ASSUME TypeOK, NEW s \in Senders, NEW from, NEW to \in Mails, MailStep(s, from, to)
  PROVE  mail[s].pc = from /\ mail'[s] = to /\ Moved(s)
BY DEF TypeOK, MailStep, regVars, fileVars, lifeVars, waitVars, regTuple, Moved

LEMMA ToMoves ==
  ASSUME TypeOK, NEW s \in Senders, NEW pc \in MailPCs, To(s, pc)
  PROVE  mail'[s].pc = pc /\ Letter(mail'[s]) = Letter(mail[s]) /\ Moved(s)
<1> DEFINE to == [mail[s] EXCEPT !.pc = pc]
<1>1. mail[s] \in Mails
  BY DEF TypeOK
<1>2. to \in Mails /\ to.pc = pc /\ Letter(to) = Letter(mail[s])
  BY <1>1 DEF Mails, Letter
<1>3. MailStep(s, mail[s].pc, to)
  BY DEF To
<1> HIDE DEF to
<1>4. QED
  BY <1>2, <1>3, MailMoves

(* Its history moves, and no other's.                                      *)
HistApart(s) ==
  /\ \A r \in Senders : r # s =>
       /\ handed'[r] = handed[r] /\ dropped'[r] = dropped[r]
       /\ late2nd'[r] = late2nd[r] /\ unlogged'[r] = unlogged[r]
  /\ handed' \in [Senders -> Nat] /\ dropped' \in [Senders -> BOOLEAN]
  /\ late2nd' \in [Senders -> BOOLEAN] /\ unlogged' \in [Senders -> BOOLEAN]

LEMMA OthersUntouched ==
  ASSUME TypeOK, NEW s \in Senders, Moved(s), HistApart(s)
  PROVE  TypeOK' /\ SendersApart(s)
BY DEF TypeOK, Moved, HistApart, SendersApart

LEMMA Histories ==
  ASSUME TypeOK, NEW s \in Senders
  PROVE  /\ handed[s] \in Nat
         /\ Hand(s) => /\ handed'[s] = handed[s] + 1 /\ handed' \in [Senders -> Nat]
                       /\ \A r \in Senders : r # s => handed'[r] = handed[r]
         /\ Quietly => HistApart(s) /\ UNCHANGED <<handed, late2nd, unlogged, dropped>>
         /\ Hand(s) /\ Plainly => HistApart(s) /\ UNCHANGED <<late2nd, unlogged, dropped>>
         /\ Hand(s) /\ Noted(s) => HistApart(s) /\ unlogged'[s]
         /\ UNCHANGED handed /\ Noted(s) => HistApart(s) /\ unlogged'[s]
         /\ Hand(s) /\ Late(s) => HistApart(s) /\ late2nd'[s]
<1>1. /\ handed \in [Senders -> Nat] /\ dropped \in [Senders -> BOOLEAN]
      /\ late2nd \in [Senders -> BOOLEAN] /\ unlogged \in [Senders -> BOOLEAN]
  BY DEF TypeOK
<1>2. Hand(s) => /\ handed'[s] = handed[s] + 1 /\ handed' \in [Senders -> Nat]
                 /\ \A r \in Senders : r # s => handed'[r] = handed[r]
  BY <1>1 DEF Hand
<1>3. Noted(s) => /\ unlogged'[s] /\ unlogged' \in [Senders -> BOOLEAN]
                  /\ \A r \in Senders : r # s => unlogged'[r] = unlogged[r]
                  /\ UNCHANGED <<late2nd, dropped>>
  BY <1>1 DEF Noted
<1>4. Late(s) => /\ late2nd'[s] /\ late2nd' \in [Senders -> BOOLEAN]
                 /\ \A r \in Senders : r # s => late2nd'[r] = late2nd[r]
                 /\ UNCHANGED <<unlogged, dropped>>
  BY <1>1 DEF Late
<1>5. Quietly => UNCHANGED <<handed, late2nd, unlogged, dropped>>
  BY DEF Quietly, histVars
<1>6. QED
  BY <1>1, <1>2, <1>3, <1>4, <1>5 DEF HistApart, Plainly

(* A message before it is sent, and at the beginning of a try.             *)
LEMMA NoMails ==
  /\ NoMail \in Mails /\ NoMail.pc = "new" /\ NoMail.conn = None /\ NoMail.tries = <<>>
  /\ NoMail.who = None /\ NoMail.path = None /\ NoMail.token = None
BY DEF NoMail, Mails, MailPCs

LEMMA OneOrTwo ==
  ASSUME NEW S, NEW a \in S, NEW b \in S
  PROVE  /\ <<a>> \in Seq(S) /\ Len(<<a>>) = 1
         /\ <<a, b>> \in Seq(S) /\ Len(<<a, b>>) = 2
OBVIOUS

LEMMA HasTwo ==
  ASSUME NEW S, NEW q \in Seq(S), Len(q) = 2
  PROVE  q # <<>>
OBVIOUS

LEMMA JoinedSeq ==
  ASSUME NEW S, NEW p \in Seq(S), NEW q \in Seq(S)
  PROVE  p \o q \in Seq(S) /\ Len(p \o q) = Len(p) + Len(q)
OBVIOUS

LEMMA TriesAreTries ==
  ASSUME NEW call \in Calls
  PROVE  call \in Seq(Tries) /\ call # <<>>
<1>1. \A by \in {"name", "pid"}, n \in Listeners, native \in BOOLEAN : Try(by, n, native) \in Tries
  BY DEF Try, Tries, Targets
<1>3. \A n \in Names, p \in Pids, native \in BOOLEAN :
        Push(n, p, native) \in Seq(Tries) /\ Len(Push(n, p, native)) = 2
  BY <1>1, OneOrTwo DEF Push, Names, Pids
<1>4. \A n \in Names, p \in Pids : Handoff(n, p) \in Seq(Tries) /\ Handoff(n, p) # <<>>
  <2>1. SUFFICES ASSUME NEW n \in Names, NEW p \in Pids
                 PROVE  Handoff(n, p) \in Seq(Tries) /\ Handoff(n, p) # <<>>
    OBVIOUS
  <2>2. /\ Push(n, p, FALSE) \in Seq(Tries) /\ Len(Push(n, p, FALSE)) = 2
        /\ Push(n, p, TRUE) \in Seq(Tries) /\ Len(Push(n, p, TRUE)) = 2
    BY <1>3
  <2> DEFINE first == Push(n, p, FALSE)
             second == Push(n, p, TRUE)
  <2> HIDE DEF first, second
  <2>3. /\ first \o second \in Seq(Tries)
        /\ Len(first \o second) = Len(first) + Len(second)
    BY <2>2, JoinedSeq, Zenon DEF first, second
  <2>4. Handoff(n, p) \in Seq(Tries) /\ Len(Handoff(n, p)) = 4
    <3>1. Handoff(n, p) = first \o second
      BY Zenon DEF Handoff, first, second
    <3>2. Len(first) = 2 /\ Len(second) = 2
      BY <2>2, Zenon DEF first, second
    <3>3. QED
      BY <2>3, <3>1, <3>2
  <2>5. QED
    BY <2>4
<1>5. PICK n \in Names, p \in Pids, native \in BOOLEAN :
        \/ call = <<Try("name", n, TRUE)>> \/ call = <<Try("pid", p, TRUE)>>
        \/ call = Push(n, p, native) \/ call = Handoff(n, p)
  BY DeliveryAssumption
<1>6. CASE call = <<Try("name", n, TRUE)>> \/ call = <<Try("pid", p, TRUE)>>
  <2>1. Try("name", n, TRUE) \in Tries /\ Try("pid", p, TRUE) \in Tries
    BY <1>1 DEF Names, Pids
  <2>2. call \in Seq(Tries) /\ Len(call) = 1
    BY <1>6, <2>1, OneOrTwo
  <2>3. QED
    BY <2>2
<1>7. CASE call = Push(n, p, native)
  <2>1. call \in Seq(Tries) /\ Len(call) = 2
    BY <1>3, <1>5, <1>7, Zenon
  <2>2. QED
    BY <2>1, HasTwo, Zenon
<1>8. QED
  BY <1>4, <1>5, <1>6, <1>7

LEMMA AskedAreTries ==
  ASSUME TypeOK, NEW s \in Senders, NEW call \in Asked(s)
  PROVE  /\ call \in Seq(Tries) /\ call # <<>>
         /\ mail[s].pc \in {"new", "failed"}
<1>1. mail[s].tries \in Seq(Tries)
  BY DEF TypeOK, Mails
<1>2. CASE mail[s].pc = "new"
  BY <1>2, TriesAreTries DEF Asked
<1>3. CASE mail[s].pc = "failed" /\ mail[s].tries # <<>>
  BY <1>1, <1>3 DEF Asked
<1>4. QED
  BY <1>2, <1>3 DEF Asked

LEMMA BeginsIsMail ==
  ASSUME NEW call \in Seq(Tries), call # <<>>, NEW pc \in MailPCs
  PROVE  /\ Begins(call, pc) \in Mails
         /\ Begins(call, pc).pc = pc /\ Begins(call, pc).conn = None
<1>1. Head(call) \in Tries /\ Tail(call) \in Seq(Tries)
  OBVIOUS
<1>2. Head(call).to \in Targets /\ Head(call).native \in BOOLEAN
  BY <1>1 DEF Tries
<1>3. QED
  BY <1>1, <1>2 DEF Begins, NoMail, Mails

(* resolve_session finds a live session and the copy that counts ...       *)
LEMMA ResolveEffect ==
  ASSUME TypeOK, RegInv, NEW s \in Senders, Resolve(s)
  PROVE  /\ mail[s].pc \in {"new", "failed"}
         /\ mail'[s].pc = "token" /\ mail'[s].conn = None
         /\ \E l \in LiveSessions :
              /\ mail'[s].who = l
              /\ mail'[s].path = IF Own(l) \in Listed(l) THEN Own(l) ELSE Claude(l)
         /\ Moved(s) /\ Quietly
<1>1. PICK call \in Asked(s), l \in LiveSessions :
        MailStep(s, mail[s].pc,
          [Begins(call, "token") EXCEPT
             !.who = l, !.path = IF Own(l) \in Listed(l) THEN Own(l) ELSE Claude(l)])
  BY DEF Resolve
<1> DEFINE path == IF Own(l) \in Listed(l) THEN Own(l) ELSE Claude(l)
           begins == Begins(call, "token")
           to == [begins EXCEPT !.who = l, !.path = path]
<1>2. begins \in Mails /\ begins.pc = "token" /\ begins.conn = None /\ mail[s].pc \in {"new", "failed"}
  BY AskedAreTries, BeginsIsMail DEF MailPCs
<1>3. l \in Listeners /\ life[l] # "new"
  <2>1. l \in Listeners /\ Listed(l) # {}
    BY DEF LiveSessions, Sessions
  <2>2. Begun(l)
    BY <2>1 DEF Listed, RegInv, EntriesOwn
  <2>3. QED
    BY <2>1, <2>2 DEF RegInv, Ground, BeganOnce, InTurn
<1>4. path \in Paths
  BY <1>3, CopiesArePaths DEF RegInv, Ground
<1>5. to \in Mails /\ to.pc = "token" /\ to.conn = None /\ to.who = l /\ to.path = path
  <2> HIDE DEF path, begins
  <2>1. QED
    BY <1>2, <1>3, <1>4 DEF Mails
<1>6. MailStep(s, mail[s].pc, to)
  BY <1>1
<1>7. Quietly
  BY DEF Resolve
<1> HIDE DEF to
<1>8. QED
  BY <1>2, <1>5, <1>6, <1>7, MailMoves

(* ... or none.                                                            *)
LEMMA NotFoundEffect ==
  ASSUME TypeOK, NEW s \in Senders, NotFound(s)
  PROVE  /\ mail[s].pc \in {"new", "failed"}
         /\ mail'[s].pc = "fallback" /\ mail'[s].conn = None
         /\ Moved(s) /\ Quietly
<1>1. PICK call \in Asked(s) : MailStep(s, mail[s].pc, Begins(call, "fallback"))
  BY DEF NotFound
<1>2. /\ Begins(call, "fallback") \in Mails
      /\ Begins(call, "fallback").pc = "fallback" /\ Begins(call, "fallback").conn = None
      /\ mail[s].pc \in {"new", "failed"}
  BY AskedAreTries, BeginsIsMail DEF MailPCs
<1>3. Quietly
  BY DEF NotFound
<1>4. QED
  BY <1>1, <1>2, <1>3, MailMoves

(* Without one, the queue of a dead Codex session, or an error.            *)
LEMMA FallBackEffect ==
  ASSUME TypeOK, NEW s \in Senders, FallBackToDead(s)
  PROVE  /\ mail[s].pc = "fallback" /\ mail'[s].pc \in {"failed", "queue"}
         /\ mail'[s].conn = mail[s].conn
         /\ Moved(s) /\ Quietly
<1> DEFINE known == {l \in Sessions : NamedExactly(mail[s].to, l)}
           dead == {l \in known \ LiveSessions : DoorOf(l) = "codex"}
           Last == CHOOSE l \in dead : \A m \in dead : m <= l
           no == [mail[s] EXCEPT !.pc = "failed"]
           queue == [mail[s] EXCEPT !.pc = "queue", !.who = Last]
<1>0. mail[s] \in Mails
  BY DEF TypeOK
<1>1. \/ MailStep(s, "fallback", no)
      \/ dead # {} /\ MailStep(s, "fallback", queue)
  BY DEF FallBackToDead
<1>2. no \in Mails /\ no.pc = "failed" /\ no.conn = mail[s].conn
  BY <1>0 DEF Mails, MailPCs
<1>3. dead # {} => Last \in Listeners
  <2>1. dead \subseteq Listeners
    BY DEF Sessions
  <2>2. dead # {} => \E l \in dead : \A m \in dead : m <= l
    <3> HIDE DEF dead
    <3>1. QED
      BY <2>1, Greatest
  <2>3. QED
    BY <2>1, <2>2
<1>4. dead # {} => queue \in Mails /\ queue.pc = "queue" /\ queue.conn = mail[s].conn
  <2> HIDE DEF Last, dead
  <2>1. QED
    BY <1>0, <1>3 DEF Mails, MailPCs
<1>5. Quietly
  BY DEF FallBackToDead
<1> HIDE DEF no, queue, dead
<1>6. QED
  BY <1>1, <1>2, <1>4, <1>5, MailMoves

(* The key file read at the path that was found.                           *)
LEMMA ReadTokenEffect ==
  ASSUME TypeOK, RegInv, NEW s \in Senders, Addressed(s), ReadToken(s)
  PROVE  /\ mail[s].pc = "token" /\ mail'[s].who = mail[s].who
         /\ mail'[s].conn = mail[s].conn
         /\ mail'[s].token = key[mail[s].path]
         /\ mail'[s].pc \in {"fallback", "queue", "native", "connect"}
         /\ Moved(s) /\ Quietly
<1> DEFINE pc == IF key[mail[s].path] = None THEN "fallback"
                 ELSE IF DoorOf(mail[s].who) = "codex" THEN "queue"
                 ELSE IF DoorOf(mail[s].who) = "agy" /\ mail[s].native THEN "native"
                 ELSE "connect"
           token == key[mail[s].path]
           to == [mail[s] EXCEPT !.token = token, !.path = None, !.pc = pc]
<1>1. mail[s] \in Mails /\ mail[s].pc = "token"
  BY DEF TypeOK, ReadToken, MailStep
<1>2. token \in Listeners \cup {None}
  <2>1. mail[s].who \in Listeners /\ Begun(mail[s].who) /\ mail[s].path \in Copies(mail[s].who)
    BY <1>1 DEF Addressed, Known
  <2>2. life[mail[s].who] # "new"
    BY <2>1 DEF RegInv, Ground, BeganOnce, InTurn
  <2>3. mail[s].path \in Paths
    BY <2>1, <2>2, CopiesArePaths DEF RegInv, Ground
  <2>4. QED
    BY <2>3 DEF RegInv, Ground, RegTypeOK
<1>3. pc \in {"fallback", "queue", "native", "connect"}
  OBVIOUS
<1>4. /\ to \in Mails /\ to.pc = pc /\ to.token = token /\ to.who = mail[s].who
      /\ to.conn = mail[s].conn
  <2> HIDE DEF pc, token
  <2>1. QED
    BY <1>1, <1>2, <1>3 DEF Mails, MailPCs
<1>5. MailStep(s, "token", to)
  BY DEF ReadToken
<1>6. Quietly
  BY DEF ReadToken
<1> HIDE DEF to, pc
<1>7. QED
  BY <1>1, <1>3, <1>4, <1>5, <1>6, MailMoves

(* The two doors that take a turn: what was handed over, and what is to    *)
(* come, unless there is an excuse.                                        *)
LEMMA DoorEffect ==
  ASSUME TypeOK, NEW s \in Senders, Queue(s) \/ Audit(s) \/ Native(s)
  PROVE  /\ \/ /\ mail[s].pc = "queue" /\ mail'[s].pc = "audit"
               /\ handed'[s] = handed[s] + 1 /\ UNCHANGED <<late2nd, unlogged>>
            \/ /\ mail[s].pc = "queue" /\ mail'[s].pc = "failed"
               /\ (Quietly \/ unlogged'[s])
            \/ /\ mail[s].pc = "audit" /\ mail'[s].pc = "told" /\ Quietly
            \/ /\ mail[s].pc = "audit" /\ mail'[s].pc = "failed" /\ unlogged'[s]
            \/ /\ mail[s].pc = "native" /\ mail'[s].pc = "told"
               /\ handed'[s] = handed[s] + 1 /\ UNCHANGED <<late2nd, unlogged>>
            \/ /\ mail[s].pc = "native" /\ mail'[s].pc = "connect"
               /\ (Quietly \/ late2nd'[s])
         /\ Letter(mail'[s]) = Letter(mail[s]) /\ Moved(s) /\ HistApart(s)
<1>1. ASSUME NEW pc \in MailPCs, To(s, pc)
      PROVE  mail'[s].pc = pc /\ Letter(mail'[s]) = Letter(mail[s]) /\ Moved(s)
  BY <1>1, ToMoves
<1>2. {"audit", "failed", "told", "connect"} \subseteq MailPCs
  BY DEF MailPCs
<1>3. CASE Queue(s)
  <2>1. mail[s].pc = "queue"
    BY <1>3 DEF Queue, AtDoor
  <2>2. CASE To(s, "audit") /\ Hand(s) /\ Plainly
    BY <1>1, <1>2, <2>1, <2>2, Histories
  <2>3. CASE To(s, "failed") /\ Hand(s) /\ Noted(s)
    BY <1>1, <1>2, <2>1, <2>3, Histories
  <2>4. CASE To(s, "failed") /\ Quietly
    BY <1>1, <1>2, <2>1, <2>4, Histories
  <2>5. QED
    BY <1>3, <2>2, <2>3, <2>4 DEF Queue
<1>4. CASE Audit(s)
  <2>1. mail[s].pc = "audit"
    BY <1>4 DEF Audit, AtDoor
  <2>2. CASE To(s, "told") /\ Quietly
    BY <1>1, <1>2, <2>1, <2>2, Histories
  <2>3. CASE To(s, "failed") /\ Noted(s) /\ UNCHANGED handed
    BY <1>1, <1>2, <2>1, <2>3, Histories
  <2>4. QED
    BY <1>4, <2>2, <2>3 DEF Audit
<1>5. CASE Native(s)
  <2>1. mail[s].pc = "native"
    BY <1>5 DEF Native, AtDoor
  <2>2. CASE To(s, "told") /\ Hand(s) /\ Plainly
    BY <1>1, <1>2, <2>1, <2>2, Histories
  <2>3. CASE To(s, "connect") /\ Quietly
    BY <1>1, <1>2, <2>1, <2>3, Histories
  <2>4. CASE To(s, "connect") /\ Hand(s) /\ Late(s)
    BY <1>1, <1>2, <2>1, <2>4, Histories
  <2>5. QED
    BY <1>5, <2>2, <2>3, <2>4 DEF Native
<1>6. QED
  BY <1>3, <1>4, <1>5

(* Both frames go to whoever has bound the socket, or the socket fails.    *)
LEMMA ConnectEffect ==
  ASSUME TypeOK, NEW s \in Senders, Connect(s)
  PROVE  /\ mail[s].pc = "connect"
         /\ mail'[s].who = mail[s].who /\ mail'[s].token = mail[s].token
         /\ \/ mail'[s].pc = "failed" /\ mail'[s].conn = mail[s].conn
            \/ mail'[s].pc = "told" /\ mail'[s].conn \in Bound(pid[mail[s].who])
         /\ Moved(s) /\ Quietly
<1>1. mail[s] \in Mails /\ mail[s].pc = "connect" /\ Quietly
  BY DEF TypeOK, Connect, AtDoor
<1>2. CASE To(s, "failed")
  BY <1>1, <1>2, ToMoves DEF MailPCs, Letter
<1>3. ASSUME NEW l \in Bound(pid[mail[s].who]),
             MailStep(s, "connect", [mail[s] EXCEPT !.pc = "told", !.conn = l])
      PROVE  /\ mail'[s].who = mail[s].who /\ mail'[s].token = mail[s].token
             /\ mail'[s].pc = "told" /\ mail'[s].conn \in Bound(pid[mail[s].who])
             /\ Moved(s)
  <2> DEFINE to == [mail[s] EXCEPT !.pc = "told", !.conn = l]
  <2>1. l \in Listeners
    BY DEF Bound
  <2>2. /\ to \in Mails /\ to.pc = "told" /\ to.conn = l
        /\ to.who = mail[s].who /\ to.token = mail[s].token
    BY <1>1, <2>1 DEF Mails, MailPCs
  <2>3. MailStep(s, "connect", to)
    BY <1>3
  <2> HIDE DEF to
  <2>4. QED
    BY <2>2, <2>3, MailMoves
<1>4. QED
  BY <1>1, <1>2, <1>3 DEF Connect

(* The frames are read.                                                    *)
LEMMA ServedMoves ==
  ASSUME TypeOK, NEW s \in Senders, Served(s)
  PROVE  /\ mail'[s].pc = mail[s].pc /\ mail'[s].who = mail[s].who
         /\ mail'[s].token = mail[s].token /\ mail'[s].conn = None
         /\ Moved(s)
<1> DEFINE to == [mail[s] EXCEPT !.conn = None]
<1>1. mail[s] \in Mails
  BY DEF TypeOK
<1>2. /\ to \in Mails /\ to.pc = mail[s].pc /\ to.conn = None
      /\ to.who = mail[s].who /\ to.token = mail[s].token
  BY <1>1 DEF Mails
<1>3. MailStep(s, mail[s].pc, to)
  BY DEF Served
<1> HIDE DEF to
<1>4. QED
  BY <1>2, <1>3, MailMoves

(* The listener that has the frames reads them, and hands the message      *)
(* over, or drops it, or stops before.                                     *)
LEMMA ServeEffect ==
  ASSUME TypeOK, NEW s \in Senders, Serve(s) \/ Drop(s) \/ Lost(s)
  PROVE  /\ mail[s].conn # None /\ mail'[s].pc = mail[s].pc
         /\ mail'[s].who = mail[s].who /\ mail'[s].token = mail[s].token /\ mail'[s].conn = None
         /\ \/ /\ Quietly
               /\ mail[s].token # mail[s].conn \/ life[mail[s].conn] \notin {"register", "up"}
            \/ handed'[s] = handed[s] + 1 /\ UNCHANGED <<late2nd, unlogged>>
            \/ handed'[s] > 0 /\ late2nd'[s]
            \/ dropped'[s] /\ UNCHANGED <<handed, late2nd, unlogged>>
         /\ Moved(s) /\ HistApart(s)
<1>0. /\ handed \in [Senders -> Nat] /\ late2nd \in [Senders -> BOOLEAN]
      /\ unlogged \in [Senders -> BOOLEAN] /\ dropped \in [Senders -> BOOLEAN]
  BY DEF TypeOK
<1>1. mail[s].conn # None /\ Served(s)
  BY DEF Serve, Drop, Lost
<1>2. /\ mail'[s].pc = mail[s].pc /\ mail'[s].who = mail[s].who
      /\ mail'[s].token = mail[s].token /\ mail'[s].conn = None /\ Moved(s)
  BY <1>1, ServedMoves
<1>3. \/ /\ Quietly
         /\ mail[s].token # mail[s].conn \/ life[mail[s].conn] \notin {"register", "up"}
      \/ Hand(s) /\ Plainly
      \/ handed' = [handed EXCEPT ![s] = @ + 2] /\ Late(s)
      \/ /\ dropped' = [dropped EXCEPT ![s] = TRUE] /\ UNCHANGED <<late2nd, unlogged>>
         /\ UNCHANGED handed \/ Hand(s)
  BY DEF Serve, Drop, Lost
<1>4. CASE /\ Quietly
           /\ mail[s].token # mail[s].conn \/ life[mail[s].conn] \notin {"register", "up"}
  BY <1>1, <1>2, <1>4, Histories
<1>5. CASE Hand(s) /\ Plainly
  BY <1>1, <1>2, <1>5, Histories
<1>6. CASE handed' = [handed EXCEPT ![s] = @ + 2] /\ Late(s)
  <2>1. /\ handed'[s] = handed[s] + 2 /\ handed' \in [Senders -> Nat]
        /\ \A r \in Senders : r # s => handed'[r] = handed[r]
    BY <1>0, <1>6
  <2>2. /\ late2nd'[s] /\ late2nd' \in [Senders -> BOOLEAN]
        /\ \A r \in Senders : r # s => late2nd'[r] = late2nd[r]
        /\ UNCHANGED <<unlogged, dropped>>
    BY <1>0, <1>6 DEF Late
  <2>3. HistApart(s) /\ handed'[s] > 0
    BY <1>0, <2>1, <2>2 DEF HistApart
  <2>4. QED
    BY <1>1, <1>2, <2>2, <2>3
<1>7. CASE /\ dropped' = [dropped EXCEPT ![s] = TRUE] /\ UNCHANGED <<late2nd, unlogged>>
           /\ UNCHANGED handed \/ Hand(s)
  <2>1. /\ dropped'[s] /\ dropped' \in [Senders -> BOOLEAN]
        /\ \A r \in Senders : r # s => dropped'[r] = dropped[r]
    BY <1>0, <1>7
  <2>2. HistApart(s) /\ (UNCHANGED handed \/ handed'[s] = handed[s] + 1)
    BY <1>0, <1>7, <2>1, Histories DEF HistApart
  <2>3. QED
    BY <1>1, <1>2, <1>7, <2>1, <2>2
<1>8. QED
  BY <1>3, <1>4, <1>5, <1>6, <1>7

-----------------------------------------------------------------------------
(* What came of a message                                                  *)

(* What a sender's message went through does not change with another's.    *)
LEMMA HandingApart ==
  ASSUME NEW s \in Senders, Handing(s),
         mail'[s] = mail[s], handed'[s] = handed[s],
         late2nd'[s] = late2nd[s], unlogged'[s] = unlogged[s]
  PROVE  Handing(s)'
BY DEF Handing, Excused

LEMMA HandingQuiet ==
  ASSUME NEW s \in Senders, Handing(s), Quietly,
         mail[s].pc \notin {"audit", "told"} \/ mail[s].conn # None,
         mail'[s].pc # "audit", mail'[s].conn # None => mail'[s].pc = "told"
  PROVE  Handing(s)'
BY DEF Handing, Excused, Quietly, histVars

(* No message is handed over a second time but after a late answer or a    *)
(* late failure, and none that was handed over is told to have failed but  *)
(* by one.                                                                 *)
LEMMA HandingStep ==
  ASSUME RegInv, TypeOK, NEW s \in Senders, Handing(s), Addressed(s), DeliveryStep(s)
  PROVE  TypeOK' /\ SendersApart(s) /\ Handing(s)'
<1>0. handed[s] \in Nat /\ late2nd[s] \in BOOLEAN /\ unlogged[s] \in BOOLEAN
  BY DEF TypeOK
<1>a. Quietly => HistApart(s)
  BY Histories
<1>b. mail[s].pc # "told" => mail[s].conn = None
  BY DEF Handing
<1>1. CASE Resolve(s) \/ NotFound(s)
  <2>1. /\ mail[s].pc \in {"new", "failed"} /\ mail'[s].pc \in {"token", "fallback"}
        /\ mail'[s].conn = None /\ Moved(s) /\ Quietly
    BY <1>1, ResolveEffect, NotFoundEffect
  <2>2. QED
    BY <1>a, <2>1, HandingQuiet, OthersUntouched
<1>2. CASE FallBackToDead(s)
  <2>1. /\ mail[s].pc = "fallback" /\ mail'[s].pc \in {"failed", "queue"}
        /\ mail'[s].conn = None /\ Moved(s) /\ Quietly
    BY <1>2, <1>b, FallBackEffect
  <2>2. QED
    BY <1>a, <2>1, HandingQuiet, OthersUntouched
<1>3. CASE ReadToken(s)
  <2>1. /\ mail[s].pc = "token" /\ mail'[s].pc \in {"fallback", "queue", "native", "connect"}
        /\ mail'[s].conn = None /\ Moved(s) /\ Quietly
    BY <1>3, <1>b, ReadTokenEffect
  <2>2. QED
    BY <1>a, <2>1, HandingQuiet, OthersUntouched
<1>4. CASE Queue(s) \/ Audit(s) \/ Native(s)
  <2>1. TypeOK' /\ SendersApart(s)
    BY <1>4, DoorEffect, OthersUntouched
  <2>2. /\ mail[s].pc \in {"queue", "audit", "native"} /\ mail'[s].conn = mail[s].conn
        /\ mail'[s].conn = None
    BY <1>4, <1>b, DoorEffect DEF Letter
  <2>3. CASE mail[s].pc = "queue"
    <3>1. handed[s] = 0 \/ Excused(s)
      BY <2>3 DEF Handing
    <3>2. CASE /\ mail'[s].pc = "audit" /\ handed'[s] = handed[s] + 1
               /\ UNCHANGED <<late2nd, unlogged>>
      BY <1>0, <2>1, <2>2, <3>1, <3>2 DEF Handing, Excused
    <3>3. CASE mail'[s].pc = "failed" /\ (Quietly \/ unlogged'[s])
      BY <2>1, <2>2, <3>1, <3>3 DEF Handing, Excused, Quietly, histVars
    <3>4. QED
      BY <1>4, <2>1, <2>3, <3>2, <3>3, DoorEffect
  <2>4. CASE mail[s].pc = "audit"
    <3>1. CASE mail'[s].pc = "told" /\ Quietly
      BY <2>1, <2>2, <3>1 DEF Handing, Excused, Quietly, histVars
    <3>2. CASE mail'[s].pc = "failed" /\ unlogged'[s]
      BY <2>1, <2>2, <3>2 DEF Handing, Excused
    <3>3. QED
      BY <1>4, <2>1, <2>4, <3>1, <3>2, DoorEffect
  <2>5. CASE mail[s].pc = "native"
    <3>1. handed[s] = 0 \/ Excused(s)
      BY <2>5 DEF Handing
    <3>2. CASE /\ mail'[s].pc = "told" /\ handed'[s] = handed[s] + 1
               /\ UNCHANGED <<late2nd, unlogged>>
      BY <1>0, <2>1, <2>2, <3>1, <3>2 DEF Handing, Excused
    <3>3. CASE mail'[s].pc = "connect" /\ (Quietly \/ late2nd'[s])
      BY <2>1, <2>2, <3>1, <3>3 DEF Handing, Excused, Quietly, histVars
    <3>4. QED
      BY <1>4, <2>1, <2>5, <3>2, <3>3, DoorEffect
  <2>6. QED
    BY <2>2, <2>3, <2>4, <2>5
<1>5. CASE Connect(s)
  <2>1. /\ mail[s].pc = "connect" /\ Moved(s) /\ Quietly
        /\ \/ mail'[s].pc = "failed" /\ mail'[s].conn = None
           \/ mail'[s].pc = "told"
    BY <1>5, <1>b, ConnectEffect
  <2>2. QED
    BY <1>a, <2>1, HandingQuiet, OthersUntouched
<1>6. CASE Serve(s) \/ Drop(s) \/ Lost(s)
  <2>1. /\ mail[s].pc = "told" /\ mail'[s].pc = "told" /\ mail'[s].conn = None
        /\ handed[s] = 0 \/ Excused(s)
    BY <1>6, ServeEffect DEF Handing
  <2>2. TypeOK' /\ SendersApart(s)
    BY <1>6, ServeEffect, OthersUntouched
  <2>3. handed'[s] > 1 => Excused(s)'
    <3>1. CASE Quietly \/ UNCHANGED <<handed, late2nd, unlogged>>
      BY <2>1, <3>1 DEF Excused, Quietly, histVars
    <3>2. CASE handed'[s] = handed[s] + 1 /\ UNCHANGED <<late2nd, unlogged>>
      BY <1>0, <2>1, <3>2 DEF Excused
    <3>3. CASE late2nd'[s]
      BY <3>3 DEF Excused
    <3>4. QED
      BY <1>6, <3>1, <3>2, <3>3, ServeEffect
  <2>4. QED
    BY <2>1, <2>2, <2>3 DEF Handing
<1>7. QED
  BY <1>1, <1>2, <1>3, <1>4, <1>5, <1>6 DEF DeliveryStep

-----------------------------------------------------------------------------
(* Whom it is for                                                          *)

(* A session that is found has begun to register, and it is found at one   *)
(* of its paths.                                                           *)
LEMMA FoundIsKnown ==
  ASSUME RegInv, NEW l \in LiveSessions, NEW path,
         path = IF Own(l) \in Listed(l) THEN Own(l) ELSE Claude(l)
  PROVE  Known(l) /\ path \in Listed(l) /\ path \in Copies(l)
<1>1. l \in Listeners /\ Listed(l) # {}
  BY DEF LiveSessions, Sessions
<1>2. Listed(l) \subseteq Copies(l) /\ Begun(l)
  BY <1>1 DEF RegInv, EntriesOwn, Listed
<1>3. path \in Listed(l)
  BY <1>1, <1>2 DEF Copies
<1>4. QED
  BY <1>1, <1>2, <1>3 DEF Known

(* A send keeps to a session that has registered, and to one of its        *)
(* paths.                                                                  *)
LEMMA AddressedStep ==
  ASSUME RegInv, TypeOK, NEW s \in Senders, Handing(s), Addressed(s), DeliveryStep(s)
  PROVE  Addressed(s)'
<1>0. /\ \A l \in Listeners : Begun(l)' = Begun(l) /\ Copies(l)' = Copies(l)
      /\ None \notin Listeners /\ handed[s] \in Nat
  <2>1. UNCHANGED <<began, setup, pid>>
    BY DeliveryIsQuiet DEF regTuple
  <2>2. QED
    BY <2>1, ThreadFacts DEF Begun, Copies, Own, Claude, TypeOK
<1>a. mail[s].pc # "told" => mail[s].conn = None
  BY DEF Handing
<1>1. CASE Resolve(s)
  <2>1. PICK l \in LiveSessions :
          /\ mail'[s].who = l
          /\ mail'[s].path = IF Own(l) \in Listed(l) THEN Own(l) ELSE Claude(l)
    BY <1>1, ResolveEffect
  <2>2. Known(l) /\ mail'[s].path \in Copies(l)
    BY <2>1, FoundIsKnown
  <2>3. mail'[s].pc = "token" /\ mail'[s].conn = None
    BY <1>1, ResolveEffect
  <2>4. QED
    BY <1>0, <2>1, <2>2, <2>3 DEF Addressed, Known
<1>2. CASE NotFound(s)
  BY <1>2, NotFoundEffect DEF Addressed
<1>3. CASE FallBackToDead(s)
  <2>1. mail'[s].pc \in {"failed", "queue"} /\ mail'[s].conn = None
    BY <1>3, <1>a, FallBackEffect
  <2>2. QED
    BY <2>1 DEF Addressed
<1>4. CASE ReadToken(s)
  <2>1. /\ Known(mail[s].who) /\ mail'[s].who = mail[s].who /\ mail'[s].conn = None
        /\ mail'[s].pc \in {"fallback", "queue", "native", "connect"}
    BY <1>4, <1>a, ReadTokenEffect DEF Addressed
  <2>2. QED
    BY <1>0, <2>1 DEF Addressed, Known
<1>5. CASE Queue(s) \/ Audit(s) \/ Native(s)
  <2>1. /\ mail[s].pc \in {"queue", "audit", "native"}
        /\ mail'[s].conn = None /\ mail'[s].who = mail[s].who
        /\ mail'[s].pc \in {"audit", "failed", "told", "connect"}
        /\ mail'[s].pc = "connect" => mail[s].pc = "native"
    BY <1>5, <1>a, DoorEffect DEF Letter
  <2>2. mail'[s].pc = "told" => handed'[s] > 0
    BY <1>0, <1>5, DoorEffect DEF Handing, Quietly, histVars
  <2>3. mail'[s].pc = "connect" => Known(mail[s].who)'
    BY <1>0, <2>1 DEF Addressed, Known
  <2>4. QED
    BY <2>1, <2>2, <2>3 DEF Addressed
<1>6. CASE Connect(s)
  <2>1. /\ mail[s].pc = "connect" /\ mail'[s].pc \in {"failed", "told"}
        /\ mail'[s].who = mail[s].who
    BY <1>6, ConnectEffect
  <2>2. Known(mail[s].who)'
    BY <1>0, <2>1 DEF Addressed, Known
  <2>3. QED
    BY <2>1, <2>2 DEF Addressed
<1>7. CASE Serve(s) \/ Drop(s) \/ Lost(s)
  <2>1. /\ mail[s].conn # None /\ mail[s].pc = "told" /\ mail'[s].pc = "told"
        /\ mail'[s].who = mail[s].who /\ mail'[s].conn = None
    BY <1>7, ServeEffect DEF Handing
  <2>2. Known(mail[s].who)'
    BY <1>0, <2>1 DEF Addressed, Known
  <2>3. QED
    BY <2>1, <2>2 DEF Addressed
<1>8. QED
  BY <1>1, <1>2, <1>3, <1>4, <1>5, <1>6, <1>7 DEF DeliveryStep

(* A step of the registry's leaves it where it is.                         *)
LEMMA AddressedStays ==
  ASSUME RegInv, StepOf, NEW s \in Senders, Addressed(s), UNCHANGED mailVars
  PROVE  Addressed(s)'
<1>1. mail' = mail /\ handed' = handed
  BY DEF mailVars, histVars
<1>2. Ground /\ Forward
  BY AllGoForward DEF RegInv
<1>3. ASSUME NEW l \in Listeners, Begun(l)
      PROVE  Begun(l)' /\ Copies(l)' = Copies(l)
  BY <1>2, <1>3, StaysBegun, PathsStay DEF Ground, BeganOnce, InTurn
<1>4. \A l : Known(l) => Known(l)' /\ Copies(l)' = Copies(l)
  BY <1>3 DEF Known
<1>5. QED
  BY <1>1, <1>4 DEF Addressed

-----------------------------------------------------------------------------
(* Whose token and whose socket it found                                   *)

(* A session that has ended or was taken over stays so.                    *)
LEMMA StaysEnded ==
  ASSUME Ground, Forward, NEW l \in Listeners, Begun(l), Ended(l)
  PROVE  Ended(l)'
<1>1. CASE Superseded(l)
  BY <1>1, StaysSuperseded DEF Ended
<1>2. CASE life[l] \notin {"register", "up"}
  <2>1. life[l] \notin {"new", "look", "bind", "register", "up"}
    BY <1>2 DEF Ground, BeganOnce, InTurn
  <2>2. life'[l] = life[l] \/ Turns(l)
    BY DEF Forward
  <2>3. life'[l] \notin {"register", "up"}
    BY <2>1, <2>2 DEF Turns, Starts, Looks, Binds, Rises, Stops, Reads, Unlinks, Goes, Dies,
                      Starting
  <2>4. QED
    BY <2>3 DEF Ended
<1>3. QED
  BY <1>1, <1>2 DEF Ended

(* A step of the registry's keeps what a sender has found.                 *)
LEMMA FindingStays ==
  ASSUME RegInv, StepOf, NEW s \in Senders, Addressed(s), Finding(s), UNCHANGED mailVars
  PROVE  Finding(s)'
<1>0. Ground /\ Forward /\ mail' = mail /\ handed' = handed /\ dropped' = dropped
  BY AllGoForward DEF mailVars, histVars, RegInv
<1>1. \A l : Known(l) /\ Ended(l) => Ended(l)'
  BY <1>0, StaysEnded DEF Known
<1>2. ASSUME mail[s].pc = "token", life'[mail[s].who] = "register"
      PROVE  Inside(Main(mail[s].who))' /\ mail[s].path \notin sec'[Main(mail[s].who)].todo
  <2>1. PICK l \in Listeners : l = mail[s].who /\ Begun(l)
    BY <1>2 DEF Addressed, Known
  <2>2. life[l] \notin {"new", "look", "bind"}
    BY <1>0, <2>1 DEF Ground, BeganOnce, InTurn
  <2>3. life[l] = "register" /\ life'[l] = life[l]
    BY <1>0, <1>2, <2>1, <2>2 DEF Forward, Turns, Starts, Looks, Binds, Rises, Stops, Reads,
                                  Unlinks, Goes, Dies
  <2>4. Inside(Main(l)) /\ mail[s].path \notin sec[Main(l)].todo
    BY <1>2, <2>1, <2>3 DEF Finding
  <2>5. Inside(Main(l))' /\ sec'[Main(l)].todo \subseteq sec[Main(l)].todo
    <3>1. life[l] \in {"register", "remove"}
      BY <2>3
    <3>2. QED
      BY <1>0, <2>3, <2>4, <3>1, StaysInside
  <2>6. Inside(Main(mail[s].who))' = Inside(Main(l))'
    BY <1>0, <2>1 DEF Inside, Main
  <2>7. QED
    BY <2>1, <2>4, <2>5, <2>6
<1>3. QED
  <2>1. mail'[s].pc = "token" /\ life'[mail'[s].who] = "register" =>
          Inside(Main(mail[s].who))' /\ mail'[s].path \notin sec'[Main(mail'[s].who)].todo
    BY <1>0, <1>2
  <2>2. /\ mail'[s].pc \in {"native", "connect"} =>
             mail'[s].token = mail'[s].who \/ Ended(mail[s].who)'
        /\ mail'[s].conn # None =>
             (mail'[s].conn = mail'[s].who /\ mail'[s].token = mail'[s].who)
               \/ Ended(mail[s].who)'
        /\ mail'[s].pc = "told" /\ handed'[s] = 0 /\ mail'[s].conn = None =>
             Ended(mail[s].who)' \/ dropped'[s]
    BY <1>0, <1>1 DEF Addressed, Finding
  <2>3. QED
    BY <1>0, <2>1, <2>2 DEF Finding, Inside, Main, Ended, Superseded, Copies, Own, Claude

(* A send finds the token and the socket of the session it is for, as long *)
(* as that one goes on and no other takes its place.                       *)
LEMMA FindingStep ==
  ASSUME RegInv, TypeOK, ~unlocked, NEW s \in Senders, Handing(s), Addressed(s), Finding(s),
         DeliveryStep(s)
  PROVE  Finding(s)'
<1>0. /\ UNCHANGED <<json, life, sec>>
      /\ \A l : Ended(l)' = Ended(l) /\ Inside(Main(l))' = Inside(Main(l))
      /\ Files /\ Ground /\ None \notin Listeners /\ handed[s] \in Nat
  <2>1. UNCHANGED <<began, setup, pid, life, json, sec>>
    BY DeliveryIsQuiet DEF regTuple
  <2>2. QED
    BY <2>1, ThreadFacts DEF RegInv, Ended, Superseded, Copies, Own, Claude, Inside, Main, TypeOK
<1>a. mail[s].pc # "told" => mail[s].conn = None
  BY DEF Handing
<1>1. CASE Resolve(s)
  <2>1. PICK l \in LiveSessions :
          /\ mail'[s].who = l
          /\ mail'[s].path = IF Own(l) \in Listed(l) THEN Own(l) ELSE Claude(l)
    BY <1>1, ResolveEffect
  <2>2. l \in Listeners /\ mail'[s].path \in Paths /\ json[mail'[s].path].owner = l
    BY <2>1, FoundIsKnown DEF Known, Listed
  <2>3. life[l] = "register" => Inside(Main(l)) /\ mail'[s].path \notin sec[Main(l)].todo
    BY <1>0, <2>2 DEF Files, EntriesWritten
  <2>4. mail'[s].pc = "token" /\ mail'[s].conn = None
    BY <1>1, ResolveEffect
  <2>5. QED
    BY <1>0, <2>1, <2>3, <2>4 DEF Finding, Inside, Main
<1>2. CASE NotFound(s) \/ FallBackToDead(s)
  <2>1. mail'[s].pc \in {"fallback", "failed", "queue"} /\ mail'[s].conn = None
    BY <1>2, <1>a, NotFoundEffect, FallBackEffect
  <2>2. QED
    BY <2>1 DEF Finding
<1>3. CASE ReadToken(s)
  <2>1. PICK l \in Listeners : l = mail[s].who /\ mail[s].path \in Copies(l)
    BY <1>3, ReadTokenEffect DEF Addressed, Known
  <2>2. ~Ended(l) => key[mail[s].path] = l
    <3>1. SUFFICES ASSUME ~Ended(l) PROVE key[mail[s].path] = l
      OBVIOUS
    <3>2. life[l] = "register" => Inside(Main(l)) /\ mail[s].path \notin sec[Main(l)].todo
      BY <1>3, <2>1, ReadTokenEffect DEF Finding
    <3>3. QED
      BY <1>0, <2>1, <3>1, <3>2 DEF Files, Present, Ended, Up
  <2>3. /\ mail'[s].pc \in {"fallback", "queue", "native", "connect"}
        /\ mail'[s].who = l /\ mail'[s].token = key[mail[s].path] /\ mail'[s].conn = None
    BY <1>3, <1>a, <2>1, ReadTokenEffect
  <2>4. mail'[s].token = mail'[s].who \/ Ended(l)'
    BY <1>0, <2>2, <2>3
  <2>5. Ended(l)' = Ended(mail[s].who)'
    BY <1>3, <2>1, <2>3, ReadTokenEffect DEF Ended, Superseded, Copies, Own, Claude
  <2>6. QED
    BY <2>3, <2>4, <2>5 DEF Finding, Ended, Superseded, Copies, Own, Claude
<1>4. CASE Queue(s) \/ Audit(s) \/ Native(s)
  <2>1. mail'[s].conn = None /\ mail'[s].who = mail[s].who /\ mail'[s].token = mail[s].token
    BY <1>4, <1>a, DoorEffect DEF Letter
  <2>2. /\ mail'[s].pc \in {"audit", "failed", "told", "connect"}
        /\ mail'[s].pc = "connect" => mail[s].pc = "native"
    BY <1>4, DoorEffect
  <2>3. mail'[s].pc = "told" => handed'[s] > 0
    BY <1>0, <1>4, DoorEffect DEF Handing, Quietly, histVars
  <2>4. mail'[s].pc = "connect" => mail'[s].token = mail'[s].who \/ Ended(mail[s].who)
    BY <2>1, <2>2 DEF Finding
  <2>5. QED
    BY <1>0, <2>1, <2>2, <2>3, <2>4 DEF Finding, Ended, Superseded, Copies, Own, Claude
<1>5. CASE Connect(s)
  <2>1. PICK l \in Listeners : l = mail[s].who /\ Begun(l)
    BY <1>5, ConnectEffect DEF Addressed, Known
  <2>2. /\ mail[s].pc = "connect" /\ mail'[s].who = l /\ mail'[s].token = mail[s].token
        /\ mail[s].conn = None
        /\ \/ mail'[s].pc = "failed" /\ mail'[s].conn = mail[s].conn
           \/ mail'[s].pc = "told" /\ mail'[s].conn \in Bound(pid[l])
    BY <1>5, <1>a, <2>1, ConnectEffect
  <2>3. mail[s].token = l \/ Ended(l)
    BY <2>1, <2>2 DEF Finding
  <2>4. ASSUME mail'[s].conn \in Bound(pid[l]), ~Ended(l)
        PROVE  mail'[s].conn = l
    <3>1. PICK m \in Listeners : m = mail'[s].conn /\ sock[pid[l]] = m /\ life[m] \in {"register", "up"}
      BY <2>4 DEF Bound
    <3>2. life[l] \in {"register", "up"}
      BY <2>4 DEF Ended
    <3>3. pid[l] \in Pids
      BY <1>0, <3>2, CopiesArePaths DEF Ground
    <3>4. pid[m] = pid[l]
      BY <3>1, <3>3 DEF RegInv, Sockets
    <3>5. QED
      BY <1>0, <3>1, <3>2, <3>4, RunningApart DEF Running
  <2>5. mail'[s].conn \in Bound(pid[l]) => mail'[s].conn \in Listeners
    BY DEF Bound
  <2>6. Ended(mail[s].who)' <=> Ended(l)
    <3>1. mail'[s].who = mail[s].who
      BY <2>1, <2>2
    <3>2. Ended(mail[s].who)' <=> Ended(l)'
      BY <2>1, <3>1 DEF Ended, Superseded, Copies, Own, Claude
    <3>3. QED
      BY <1>0, <3>2
  <2>7. CASE mail'[s].pc = "failed"
    BY <2>2, <2>7 DEF Finding
  <2>8. CASE mail'[s].pc = "told" /\ mail'[s].conn \in Bound(pid[l])
    <3>1. mail'[s].conn \in Listeners /\ mail'[s].conn # None
      BY <1>0, <2>5, <2>8
    <3>2. (mail'[s].conn = l /\ mail'[s].token = l) \/ Ended(l)
      BY <2>2, <2>3, <2>4, <2>8
    <3>3. Finding(s)' <=>
            (mail'[s].conn = l /\ mail'[s].token = l) \/ Ended(mail[s].who)'
      BY <2>1, <2>2, <2>8, <3>1 DEF Finding, Ended, Superseded, Copies, Own, Claude
    <3>4. QED
      BY <2>6, <3>2, <3>3
  <2>9. QED
    BY <2>2, <2>7, <2>8
<1>6. CASE Serve(s) \/ Drop(s) \/ Lost(s)
  <2>1. PICK l \in Listeners : l = mail[s].who
    BY <1>6, ServeEffect DEF Addressed, Known
  <2>2. /\ mail'[s].pc = "told" /\ mail'[s].conn = None /\ mail'[s].who = l
    BY <1>6, <2>1, ServeEffect DEF Handing
  <2>3. handed'[s] = 0 => Ended(l) \/ dropped'[s]
    <3>1. SUFFICES ASSUME handed'[s] = 0, ~dropped'[s] PROVE Ended(l)
      OBVIOUS
    <3>2. mail[s].token # mail[s].conn \/ life[mail[s].conn] \notin {"register", "up"}
      BY <1>0, <1>6, <3>1, ServeEffect
    <3>3. QED
      BY <1>6, <2>1, <3>2, ServeEffect DEF Finding, Ended
  <2>4. QED
    BY <1>0, <2>1, <2>2, <2>3 DEF Finding, Ended, Superseded, Copies, Own, Claude
<1>7. QED
  BY <1>1, <1>2, <1>3, <1>4, <1>5, <1>6 DEF DeliveryStep

-----------------------------------------------------------------------------
(* The delivery's invariant                                                *)

(* All of it holds before anything happens ...                             *)
LEMMA DelInitInv == Init => DelInv
<1> SUFFICES ASSUME Init PROVE DelInv
  OBVIOUS
<1>1. RegInv
  BY RegInitInv DEF Init
<1>2. \A s \in Senders : mail[s] = NoMail /\ handed[s] = 0
  BY DEF Init
<1>3. TypeOK
  BY NoMails DEF Init, TypeOK
<1>4. \A s \in Senders : Handing(s) /\ Addressed(s) /\ Finding(s)
  BY <1>2, NoMails DEF Handing, Addressed, Finding
<1>5. QED
  BY <1>1, <1>3, <1>4 DEF DelInv

(* ... and after every step.                                               *)
LEMMA DelInvStep == DelInv /\ [Next]_vars => DelInv'
<1> SUFFICES ASSUME DelInv, [Next]_vars PROVE DelInv'
  OBVIOUS
<1>1. StepOf /\ RegInv'
  BY NextIsAStep, RegInvStep DEF DelInv
<1>2. RegInv /\ TypeOK /\ \A s \in Senders : Handing(s) /\ Addressed(s)
  BY DEF DelInv
<1>3. unlocked' \/ (~unlocked /\ \A s \in Senders : Finding(s))
  BY <1>1, <1>2, AllGoForward DEF DelInv, Forward, RegInv
<1>4. CASE UNCHANGED mailVars
  <2>1. TypeOK' /\ \A s \in Senders : Handing(s)'
    BY <1>2, <1>4 DEF mailVars, histVars, TypeOK, Handing, Excused
  <2>2. \A s \in Senders : Addressed(s)'
    BY <1>1, <1>2, <1>4, AddressedStays
  <2>3. ~unlocked' => \A s \in Senders : Finding(s)'
    BY <1>1, <1>2, <1>3, <1>4, FindingStays
  <2>4. QED
    BY <1>1, <2>1, <2>2, <2>3 DEF DelInv
<1>5. ASSUME NEW s \in Senders, DeliveryStep(s)
      PROVE  DelInv'
  <2>1. TypeOK' /\ SendersApart(s) /\ Handing(s)' /\ Addressed(s)'
    BY <1>2, <1>5, HandingStep, AddressedStep
  <2>2. UNCHANGED regTuple
    BY <1>5, DeliveryIsQuiet
  <2>3. ASSUME NEW r \in Senders, r # s
        PROVE  Handing(r)' /\ Addressed(r)' /\ (Finding(r) => Finding(r)')
    <3>1. /\ mail'[r] = mail[r] /\ handed'[r] = handed[r] /\ dropped'[r] = dropped[r]
          /\ late2nd'[r] = late2nd[r] /\ unlogged'[r] = unlogged[r]
      BY <2>1, <2>3 DEF SendersApart
    <3>2. UNCHANGED <<began, setup, pid, life, sec>>
      BY <2>2 DEF regTuple
    <3>3. Handing(r)'
      BY <1>2, <3>1, HandingApart
    <3>4. Addressed(r)'
      BY <1>2, <3>1, <3>2 DEF Addressed, Known, Begun, Copies, Own, Claude
    <3>5. Finding(r) => Finding(r)'
      BY <3>1, <3>2 DEF Finding, Inside, Main, Ended, Superseded, Copies, Own, Claude
    <3>6. QED
      BY <3>3, <3>4, <3>5
  <2>4. ~unlocked' => ~unlocked
    BY <2>2 DEF regTuple
  <2>5. ~unlocked' => Finding(s)'
    BY <1>2, <1>3, <1>5, <2>4, FindingStep
  <2>6. QED
    BY <1>1, <1>3, <2>1, <2>3, <2>5 DEF DelInv
<1>6. QED
  BY <1>4, <1>5 DEF Next, vars

(* The invariant of delivery: the registry's, what came of each message    *)
(* (Handing), whom it is for (Addressed), and whose token and socket the   *)
(* sender found (Finding).                                                 *)
THEOREM DeliveryInvariant == Spec => []DelInv
<1>1. Init => DelInv
  BY DelInitInv
<1>2. DelInv /\ [Next]_vars => DelInv'
  BY DelInvStep
<1>3. QED
  BY <1>1, <1>2, PTL DEF Spec

(* A message, and what is recorded of it, keep their types.                *)
THEOREM DeliveryTypeCorrect == Spec => []TypeOK
<1>1. DelInv => TypeOK
  BY DEF DelInv
<1>2. QED
  BY <1>1, DeliveryInvariant, PTL

(* A message is handed over once, through whichever of send_message's      *)
(* doors, and a push that failed under the name does not hand it over      *)
(* again under the pid, or through agy's door: but for a door that took it *)
(* and answered late, and for Codex's queue that took it and failed late,  *)
(* itself or in its inbox line.                                            *)
THEOREM HandedOverOnce == Spec => []HandedOnce
<1>1. ASSUME DelInv PROVE HandedOnce
  BY <1>1 DEF DelInv, Handing, Excused, HandedOnce
<1>2. QED
  BY <1>1, DeliveryInvariant, PTL

(* What send_message answers is right.  A message it calls delivered was   *)
(* handed over, unless the listener it found stops or is taken over before *)
(* it reads the frames, or reads them and cannot write its inbox; one it   *)
(* calls failed was not, unless a door had taken it and failed to say so.  *)
THEOREM ToldIsRight == Spec => []ToldRight
<1>1. ASSUME DelInv, NEW s \in Senders, Settled(s), ~unlocked
      PROVE  /\ mail[s].pc = "failed" /\ handed[s] > 0 => Excused(s)
             /\ mail[s].pc = "told" /\ handed[s] = 0 => dropped[s] \/ Ended(mail[s].who)
  BY <1>1 DEF DelInv, Handing, Finding, Settled
<1>2. ASSUME DelInv PROVE ToldRight
  BY <1>1, <1>2 DEF ToldRight, Excused, Ended
<1>3. QED
  BY <1>2, DeliveryInvariant, PTL
=============================================================================
