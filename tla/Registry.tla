------------------------------ MODULE Registry ------------------------------
(***************************************************************************)
(* Who can be reached: the session registry of agent_peer/registry.py, the *)
(* life of a listener (agent_peer/listener.py) and the commands that write *)
(* into the registry from outside, prune and the end of wait (cli.py).     *)
(*                                                                         *)
(* A listener is one run of "agent-peer listen": a process, a sessionId    *)
(* and a token.  Its entry is a json file and a key file, in the program's *)
(* own directory under a stable key or the pid, and again in Claude's      *)
(* directory under the pid.  The files are written one by one under        *)
(* _registry_lock, which is given up after 3 s; readers take no lock.      *)
(***************************************************************************)
EXTENDS Naturals, FiniteSets

CONSTANTS MaxRuns,    \* bound: runs of listen
          Helpers,    \* the processes that run prune and wait
          Keys,       \* Codex threads and agy conversations
          Setups,     \* what the listeners may be started with
          Slow,       \* the processes that may stand still for 3 s in a section
          None,
          MaxKilled   \* bound: listeners that are killed

(* The runs of listen, in the order in which they start.  A pid is named   *)
(* by the first of them that had it.                                       *)
Listeners == 1 .. MaxRuns
Pids == Listeners
Names == Listeners

ASSUME RegistryAssumption ==
  /\ {MaxRuns, MaxKilled} \subseteq Nat
  /\ Setups \subseteq [Listeners -> [key : Keys \cup {None}, mirrored : BOOLEAN]]
  /\ None \notin Nat \cup Keys \cup ((Listeners \cup Helpers) \X {"main", "handler"})
  /\ Nat \cap Keys = {}
  /\ Listeners \cap Helpers = {}
  /\ Slow \subseteq Listeners \cup Helpers

VARIABLES
  json,      \* the json file at each path: whose it is, and the status in it
  key,       \* the key file beside it: whose token it holds
  sock,      \* the socket file of each pid: who bound it
  link,      \* the link of each name: the pid of the socket it leads to
  holder,    \* the thread that holds registry.lock
  setup,     \* each one's Codex thread or agy conversation, or None, and
             \* whether Claude's directory gets a copy of its entry
  life,      \* where each listener is
  pid,       \* its process id
  name,      \* the name it took: 1 is the one asked for, n is it with -n
  sec,       \* each thread's way through _registry_lock
  halt,      \* of each one that stops: whether it was in the middle of its
             \* registration, and whether it has seen the name link lead to itself
  job,       \* each helper's command
  unread,    \* the listeners with a message no wait has returned
  met,       \* the listeners that were up when each one looked for a name
  began,     \* the order in which they began to register
  unlocked,  \* a section ran without the lock
  crossed,   \* a wait set the status back of a session with a message that it
             \* had not returned: one that came in since, or another session's
  late       \* a socket or link was removed that was not the one looked at

fileVars == <<json, key, sock, link>>
lifeVars == <<setup, life, pid, name, halt, met, began>>
waitVars == <<unread, crossed>>
regVars == <<fileVars, lifeVars, waitVars, holder, sec, job, unlocked, late>>

Procs == Listeners \cup Helpers
Threads == Procs \X {"main", "handler"}
Main(p) == <<p, "main">>
Handler(p) == <<p, "handler">>

Paths == {"own", "claude"} \X (Pids \cup Keys)
Own(l) == <<"own", IF setup[l].key = None THEN pid[l] ELSE setup[l].key>>
Claude(l) == <<"claude", pid[l]>>
Copies(l) == IF setup[l].mirrored THEN {Own(l), Claude(l)} ELSE {Own(l)}

Statuses == {"idle", "new-msg"}
Entries == [owner : Listeners \cup {None}, status : Statuses]
NoEntry == [owner |-> None, status |-> "idle"]

Whole == [nested |-> FALSE, ours |-> FALSE]

LifePCs == {"new", "look", "bind", "register", "up",
            "closing", "unlink", "remove", "gone", "dead"}
Starting == {"look", "bind", "register"}
Running(l) == life[l] \notin {"new", "gone", "dead"}
Up(l) == life[l] = "up"

SecPCs == {"out", "wait", "copy", "write"}
Sections == [pc : SecPCs, op : {"register", "update", "remove"},
             who : Listeners \cup {None}, todo : SUBSET Paths, status : Statuses]
Out == [pc |-> "out", op |-> "update", who |-> None, todo |-> {}, status |-> "idle"]
Inside(t) == sec[t].pc \in {"copy", "write"}

JobPCs == {"idle", "judge", "prune", "verify", "unlink", "print", "reset", "done"}
Jobs == [pc : JobPCs, dead : SUBSET Listeners, copies : [Listeners -> SUBSET Paths],
         cur : Listeners \cup {None}, taken : BOOLEAN, ours : BOOLEAN]
NoJob == [pc |-> "idle", dead |-> {}, copies |-> [l \in Listeners |-> {}],
          cur |-> None, taken |-> FALSE, ours |-> FALSE]
Finished == [NoJob EXCEPT !.pc = "done"]

RegInit ==
  /\ json = [path \in Paths |-> NoEntry]
  /\ key = [path \in Paths |-> None]
  /\ sock = [n \in Pids |-> None]
  /\ link = [n \in Names |-> None]
  /\ holder = None
  /\ setup \in Setups
  /\ life = [l \in Listeners |-> "new"]
  /\ pid = [l \in Listeners |-> None]
  /\ name = [l \in Listeners |-> None]
  /\ sec = [t \in Threads |-> Out]
  /\ halt = [l \in Listeners |-> Whole]
  /\ job = [h \in Helpers |-> NoJob]
  /\ met = [l \in Listeners |-> {}]
  /\ began = [l \in Listeners |-> 0]
  /\ unread = {}
  /\ crossed = FALSE
  /\ unlocked = FALSE
  /\ late = FALSE

-----------------------------------------------------------------------------
(* Reading the registry: get_active_sessions                               *)

PidAlive(n) == \E l \in Listeners : Running(l) /\ pid[l] = n

Listed(l) == {path \in Paths : json[path].owner = l}

(* One entry for each listener, and one for each pid: the newest.          *)
Sessions ==
  {l \in Listeners :
     /\ Listed(l) # {}
     /\ \A m \in Listeners :
          Listed(m) # {} /\ pid[m] = pid[l] => m <= l}

LiveSessions == {l \in Sessions : PidAlive(pid[l])}

-----------------------------------------------------------------------------
(* _registry_lock, and what is done inside it                              *)

Section(op, l, paths, status) ==
  [pc |-> "wait", op |-> op, who |-> l, todo |-> paths, status |-> status]

Begin(t, op, l, paths, status) ==
  sec' = [sec EXCEPT ![t] = Section(op, l, paths, status)]

(* The two threads of a process share _LOCAL_LOCK.                         *)
MayEnter(t) ==
  /\ sec[t].pc = "wait"
  /\ \A u \in Threads : u[1] = t[1] => ~Inside(u)
  /\ sec' = [sec EXCEPT ![t].pc = "copy"]
  /\ began' = IF sec[t].op = "register"
              THEN [began EXCEPT ![sec[t].who] = 1 + Cardinality({m \in Listeners : began[m] > 0})]
              ELSE began
  /\ UNCHANGED <<fileVars, setup, life, pid, name, halt, met, job, late, waitVars>>

EnterLocked(t) ==
  /\ MayEnter(t)
  /\ holder = None
  /\ holder' = t
  /\ UNCHANGED unlocked

(* The lock stays taken for 3 s: "it proceeds unlocked".                   *)
EnterUnlocked(t) ==
  /\ MayEnter(t)
  /\ \E u \in Threads : holder = u /\ u[1] \in Slow
  /\ unlocked' = TRUE
  /\ UNCHANGED holder

(* The own copy comes first.                                               *)
Copy(t) ==
  IF Own(sec[t].who) \in sec[t].todo THEN Own(sec[t].who) ELSE Claude(sec[t].who)

AtCopy(t, pc) == sec[t].pc = pc /\ sec[t].todo # {}
NextCopy(t) ==
  sec' = [sec EXCEPT ![t].pc = "copy", ![t].todo = @ \ {Copy(t)}]

(* MUTANT of WriteKey: a key file that is already there is kept.           *)
KeepKey(t) ==
  /\ AtCopy(t, "copy") /\ sec[t].op = "register"
  /\ key' = [key EXCEPT ![Copy(t)] = IF @ = None THEN sec[t].who ELSE @]
  /\ sec' = [sec EXCEPT ![t].pc = "write"]
  /\ UNCHANGED <<json, sock, link, lifeVars, holder, job, unlocked, late, waitVars>>

(* register_session: the key file of a copy, then its json.                *)
WriteKey(t) ==
  /\ AtCopy(t, "copy") /\ sec[t].op = "register"
  /\ key' = [key EXCEPT ![Copy(t)] = sec[t].who]
  /\ sec' = [sec EXCEPT ![t].pc = "write"]
  /\ UNCHANGED <<json, sock, link, lifeVars, holder, job, unlocked, late, waitVars>>

WriteJson(t) ==
  /\ AtCopy(t, "write") /\ sec[t].op = "register"
  /\ json' = [json EXCEPT ![Copy(t)] = [owner |-> sec[t].who, status |-> "idle"]]
  /\ NextCopy(t)
  /\ UNCHANGED <<key, sock, link, lifeVars, holder, job, unlocked, late, waitVars>>

(* MUTANT of NotTheirs: update_session and remove_session without          *)
(* _owned_by.                                                              *)
NeverTheirs(t) == sec[t].op = "update" /\ json[Copy(t)].owner = None

(* update_session leaves a copy alone that is not there, and both leave a  *)
(* copy alone that has another sessionId.                                  *)
NotTheirs(t) ==
  \/ json[Copy(t)].owner \notin {sec[t].who, None}
  \/ sec[t].op = "update" /\ json[Copy(t)].owner = None

CheckCopy(t) ==
  /\ AtCopy(t, "copy") /\ sec[t].op # "register"
  /\ IF NotTheirs(t) THEN NextCopy(t) ELSE sec' = [sec EXCEPT ![t].pc = "write"]
  /\ UNCHANGED <<fileVars, lifeVars, holder, job, unlocked, late, waitVars>>

(* The json as read, with the new status, replaces what is there now.      *)
WriteStatus(t) ==
  /\ AtCopy(t, "write") /\ sec[t].op = "update"
  /\ json' = [json EXCEPT ![Copy(t)] = [owner |-> sec[t].who, status |-> sec[t].status]]
  /\ NextCopy(t)
  /\ UNCHANGED <<key, sock, link, lifeVars, holder, job, unlocked, late, waitVars>>

(* MUTANT of UnlinkCopy: the key file stays.                               *)
UnlinkJson(t) ==
  /\ AtCopy(t, "write") /\ sec[t].op = "remove"
  /\ json' = [json EXCEPT ![Copy(t)] = NoEntry]
  /\ NextCopy(t)
  /\ UNCHANGED <<key, sock, link, lifeVars, holder, job, unlocked, late, waitVars>>

UnlinkCopy(t) ==
  /\ AtCopy(t, "write") /\ sec[t].op = "remove"
  /\ json' = [json EXCEPT ![Copy(t)] = NoEntry]
  /\ key' = [key EXCEPT ![Copy(t)] = None]
  /\ NextCopy(t)
  /\ UNCHANGED <<sock, link, lifeVars, holder, job, unlocked, late, waitVars>>

(* What the thread goes on to when the section is over.                    *)
Leave(t) ==
  /\ sec[t].pc = "copy" /\ sec[t].todo = {}
  /\ sec' = [sec EXCEPT ![t] = Out]
  /\ holder' = IF holder = t THEN None ELSE holder
  /\ \/ /\ t[1] \in Listeners
        /\ life' = CASE sec[t].op = "register" -> [life EXCEPT ![t[1]] = "up"]
                     [] sec[t].op = "remove" -> [life EXCEPT ![t[1]] = "gone"]
                     [] OTHER -> life
        /\ UNCHANGED job
     \/ /\ t[1] \in Helpers
        /\ job' = [job EXCEPT ![t[1]] =
                     IF sec[t].op = "remove" THEN [@ EXCEPT !.pc = "verify"] ELSE Finished]
        /\ UNCHANGED life
  /\ UNCHANGED <<fileVars, setup, pid, name, halt, met, began, unlocked, late, waitVars>>

SectionStep(t) ==
  \/ EnterLocked(t)
  \/ EnterUnlocked(t)
  \/ WriteKey(t)
  \/ WriteJson(t)
  \/ CheckCopy(t)
  \/ WriteStatus(t)
  \/ UnlinkCopy(t)
  \/ Leave(t)

-----------------------------------------------------------------------------
(* A listener's life: PeerListener                                         *)

At(l, from, to) == life[l] = from /\ life' = [life EXCEPT ![l] = to]

Start(l) ==
  /\ At(l, "new", "look")
  /\ \A m \in Listeners : m < l => life[m] # "new"
  /\ \E n \in {l} \cup {pid[m] : m \in 1 .. l - 1} :
       ~PidAlive(n) /\ pid' = [pid EXCEPT ![l] = n]
  /\ UNCHANGED <<fileVars, setup, holder, name, sec, halt, job, met, began, unlocked, late, waitVars>>

OtherSessions(l) == {m \in LiveSessions : pid[m] # pid[l]}

(* The listeners that registered and have not begun to stop.               *)
UpNow == {m \in Listeners : Up(m)}

(* MUTANT of FreeName: the name asked for, whoever has it.                 *)
AskedName(l) == 1

(* The least name no live session has.                                     *)
FreeName(l) ==
  CHOOSE n \in Names :
    /\ \A m \in OtherSessions(l) : name[m] # n
    /\ \A k \in 1 .. n - 1 : \E m \in OtherSessions(l) : name[m] = k

Look(l) ==
  /\ At(l, "look", "bind")
  /\ name' = [name EXCEPT ![l] = FreeName(l)]
  /\ met' = [met EXCEPT ![l] = UpNow]
  /\ UNCHANGED <<fileVars, setup, holder, pid, sec, halt, job, began, unlocked, late, waitVars>>

(* "This session is already listening": sys.exit, through cleanup.  With   *)
(* --force, or a harness that gives its sessions no id, it is a Look.      *)
Refuse(l) ==
  /\ setup[l].key # None
  /\ \E m \in OtherSessions(l) : setup[m].key = setup[l].key
  /\ At(l, "look", "closing")
  /\ UNCHANGED <<fileVars, setup, holder, pid, name, sec, halt, job, met, began, unlocked, late, waitVars>>

(* The socket of the pid is bound anew, an old one removed, and the name   *)
(* link replaced whoever it leads to; then register_session begins.        *)
Bind(l) ==
  /\ At(l, "bind", "register")
  /\ sock' = [sock EXCEPT ![pid[l]] = l]
  /\ link' = [link EXCEPT ![name[l]] = pid[l]]
  /\ Begin(Main(l), "register", l, Copies(l), "idle")
  /\ UNCHANGED <<json, key, setup, holder, pid, name, halt, job, met, began, unlocked, late, waitVars>>

(* process_incoming_frame, on a handler thread: a message goes to the      *)
(* inbox, then the status becomes "new-msg".                               *)
Notice(l) ==
  /\ Up(l)
  /\ sec[Handler(l)].pc = "out"
  /\ Begin(Handler(l), "update", l, Copies(l), "new-msg")
  /\ unread' = unread \cup {l}
  /\ crossed' = (crossed \/ \E h \in Helpers : job[h].pc \in {"print", "reset"})
  /\ UNCHANGED <<fileVars, lifeVars, holder, job, unlocked, late>>

(* A signal, or an error in setup: cleanup begins.  In the middle of the   *)
(* registration it finds _lock_depth set and does not wait.                *)
Stop(l) ==
  /\ life[l] \in Starting \cup {"up"}
  /\ life' = [life EXCEPT ![l] = "closing"]
  /\ halt' = [halt EXCEPT ![l].nested = sec[Main(l)].pc # "out"]
  /\ met' = [met EXCEPT ![l] = {}]
  /\ sec' = [sec EXCEPT ![Main(l)] = Out]
  /\ UNCHANGED <<fileVars, setup, holder, pid, name, job, began, unlocked, late, waitVars>>

(* A listener that was refused still has the name it asked for.            *)
Called(l) == IF name[l] = None THEN 1 ELSE name[l]

ReadLink(l) ==
  /\ At(l, "closing", "unlink")
  /\ halt' = [halt EXCEPT ![l].ours = link[Called(l)] = pid[l]]
  /\ UNCHANGED <<fileVars, setup, holder, pid, name, sec, job, met, began, unlocked, late, waitVars>>

Unlinked(n, mine) == link' = IF mine THEN [link EXCEPT ![n] = None] ELSE link

UnlinkSocket(l) ==
  /\ At(l, "unlink", "remove")
  /\ sock' = [sock EXCEPT ![pid[l]] = None]
  /\ Unlinked(Called(l), halt[l].ours)
  /\ late' = (late \/ (halt[l].ours /\ link[Called(l)] \notin {pid[l], None}))
  /\ sec' = [sec EXCEPT ![Main(l)] =
               [Section("remove", l, Copies(l), "idle")
                  EXCEPT !.pc = IF halt[l].nested THEN "copy" ELSE "wait"]]
  /\ unlocked' = (unlocked \/ (halt[l].nested /\ holder # Main(l)))
  /\ halt' = [halt EXCEPT ![l] = Whole]
  /\ UNCHANGED <<json, key, setup, holder, pid, name, job, met, began, waitVars>>

Released(p) == IF holder \in {Main(p), Handler(p)} THEN None ELSE holder

(* SIGKILL, or a second signal while cleanup runs: what is done is done.   *)
Crash(l) ==
  /\ Running(l)
  /\ Cardinality({m \in Listeners : life[m] = "dead"}) < MaxKilled
  /\ life' = [life EXCEPT ![l] = "dead"]
  /\ halt' = [halt EXCEPT ![l] = Whole]
  /\ met' = [met EXCEPT ![l] = {}]
  /\ sec' = [sec EXCEPT ![Main(l)] = Out, ![Handler(l)] = Out]
  /\ holder' = Released(l)
  /\ UNCHANGED <<fileVars, setup, pid, name, job, began, unlocked, late, waitVars>>

ListenerStep(l) ==
  \/ Start(l)
  \/ Look(l)
  \/ Refuse(l)
  \/ Bind(l)
  \/ Stop(l)
  \/ ReadLink(l)
  \/ UnlinkSocket(l)
  \/ Crash(l)

-----------------------------------------------------------------------------
(* cmd_prune, over the list of sessions as it was when it began            *)

JobAt(h, from, to) == job[h].pc = from /\ job' = [job EXCEPT ![h] = to]

(* With every session dead it takes --force.                               *)
PruneLook(h) ==
  /\ Sessions # LiveSessions
  /\ JobAt(h, "idle", [NoJob EXCEPT !.pc = "judge", !.dead = Sessions \ LiveSessions,
                                    !.copies = [l \in Listeners |-> Listed(l)]])
  /\ UNCHANGED <<fileVars, lifeVars, holder, sec, unlocked, late, waitVars>>

(* is_superseded, then remove_session.                                     *)
PruneJudge(h) ==
  \E l \in job[h].dead :
    /\ JobAt(h, "judge",
         [job[h] EXCEPT !.pc = "prune", !.cur = l, !.dead = @ \ {l},
            !.taken = \E path \in job[h].copies[l] : json[path].owner \notin {l, None}])
    /\ Begin(Main(h), "remove", l, job[h].copies[l], "idle")
    /\ UNCHANGED <<fileVars, lifeVars, holder, unlocked, late, waitVars>>

PruneNext(h) == IF job[h].dead = {} THEN Finished ELSE [job[h] EXCEPT !.pc = "judge"]

PruneVerify(h) ==
  LET l == job[h].cur IN
  /\ JobAt(h, "verify",
       IF job[h].taken \/ PidAlive(pid[l]) THEN PruneNext(h)
       ELSE [job[h] EXCEPT !.pc = "unlink", !.ours = link[name[l]] = pid[l]])
  /\ UNCHANGED <<fileVars, lifeVars, holder, sec, unlocked, late, waitVars>>

PruneUnlink(h) ==
  LET l == job[h].cur IN
  /\ JobAt(h, "unlink", PruneNext(h))
  /\ sock' = [sock EXCEPT ![pid[l]] = None]
  /\ Unlinked(name[l], job[h].ours)
  /\ late' = (late \/ sock[pid[l]] \notin {l, None}
                   \/ (job[h].ours /\ link[name[l]] \notin {pid[l], None}))
  /\ UNCHANGED <<json, key, lifeVars, holder, sec, unlocked, waitVars>>

(* resolve_session: the one live session of exactly this name, or, when    *)
(* there is none, the one whose name contains it (the name without -n is   *)
(* in all of them).                                                        *)
Exact(n) == {l \in LiveSessions : name[l] = n}
Partial(n) == {l \in LiveSessions : n = 1}
LeadsTo(n, l) == IF Exact(n) # {} THEN Exact(n) = {l} ELSE Partial(n) = {l}

(* cmd_wait for the name n returns what is unread, and prints it.          *)
WaitReturns(h, n) ==
  /\ \E l \in unread : name[l] = n
  /\ JobAt(h, "idle", [NoJob EXCEPT !.pc = "print", !.cur = n])
  /\ unread' = {l \in unread : name[l] # n}
  /\ UNCHANGED <<fileVars, lifeVars, holder, sec, crossed, unlocked, late>>

(* _reset_status_idle, for the session the name leads to; errors are       *)
(* ignored.                                                                *)
Reset(h) ==
  \/ \E l \in LiveSessions :
       /\ LeadsTo(job[h].cur, l)
       /\ JobAt(h, "print", [job[h] EXCEPT !.pc = "reset"])
       /\ Begin(Main(h), "update", l, Listed(l), "idle")
       /\ crossed' = (crossed \/ name[l] # job[h].cur)
       /\ UNCHANGED <<fileVars, lifeVars, holder, unlocked, late, unread>>
  \/ /\ ~\E l \in LiveSessions : LeadsTo(job[h].cur, l)
     /\ JobAt(h, "print", Finished)
     /\ UNCHANGED <<fileVars, lifeVars, holder, sec, unlocked, late, waitVars>>

HelperCrash(h) ==
  /\ job[h].pc \notin {"idle", "done"}
  /\ job' = [job EXCEPT ![h] = Finished]
  /\ sec' = [sec EXCEPT ![Main(h)] = Out]
  /\ holder' = Released(h)
  /\ UNCHANGED <<fileVars, lifeVars, unlocked, late, waitVars>>

HelperStep(h) ==
  \/ PruneLook(h)
  \/ PruneJudge(h)
  \/ PruneVerify(h)
  \/ PruneUnlink(h)
  \/ \E n \in Names : WaitReturns(h, n)
  \/ Reset(h)
  \/ HelperCrash(h)

-----------------------------------------------------------------------------

RegNext ==
  \/ \E t \in Threads : SectionStep(t)
  \/ \E l \in Listeners : ListenerStep(l) \/ Notice(l)
  \/ \E h \in Helpers : HelperStep(h)

RegSpec == RegInit /\ [][RegNext]_regVars

-----------------------------------------------------------------------------

RegTypeOK ==
  /\ json \in [Paths -> Entries]
  /\ key \in [Paths -> Listeners \cup {None}]
  /\ sock \in [Pids -> Listeners \cup {None}]
  /\ link \in [Names -> Pids \cup {None}]
  /\ holder \in Threads \cup {None}
  /\ life \in [Listeners -> LifePCs]
  /\ pid \in [Listeners -> Pids \cup {None}]
  /\ name \in [Listeners -> Names \cup {None}]
  /\ sec \in [Threads -> Sections]
  /\ halt \in [Listeners -> [nested : BOOLEAN, ours : BOOLEAN]]
  /\ job \in [Helpers -> Jobs]
  /\ setup \in Setups
  /\ met \in [Listeners -> SUBSET Listeners]
  /\ began \in [Listeners -> 0 .. MaxRuns]
  /\ unread \subseteq Listeners /\ crossed \in BOOLEAN
  /\ unlocked \in BOOLEAN /\ late \in BOOLEAN

(* A listener that began to register later has one of l's paths: it is     *)
(* started for the same Codex thread or agy conversation.                  *)
Superseded(l) ==
  \E m \in Listeners : began[m] > began[l] /\ Copies(m) \cap Copies(l) # {}

(* A listener that is up is found, with its own token, its socket is the   *)
(* one it bound, and the link of a name that only it ever had leads there, *)
(* whatever other listeners, prunes and waits do meanwhile: but for a      *)
(* section that ran without the lock, a later listener of the same         *)
(* session, and a file that was replaced just before it was removed.       *)
UpIsReachable ==
  \A l \in Listeners :
    Up(l) /\ ~unlocked /\ ~Superseded(l) =>
      /\ \A path \in Copies(l) : json[path].owner = l /\ key[path] = l
      /\ ~late =>
           /\ sock[pid[l]] = l
           /\ (\A m \in Listeners \ {l} : name[m] # name[l]) => link[name[l]] = pid[l]

(* A listener that stopped in good order leaves nothing behind, not even   *)
(* what an update that was under way could write back: but for a section   *)
(* that ran without the lock.                                              *)
GoneLeavesNothing ==
  \A l \in Listeners :
    life[l] = "gone" /\ ~unlocked =>
      /\ \A path \in Paths :
           /\ json[path].owner # l
           /\ key[path] = l => json[path].owner # None
      /\ \A n \in Pids : sock[n] # l

(* Two listeners that are up have one name only if each of them looked for *)
(* a name before the other was up, if the other's entry was taken over, or *)
(* if a section ran without the lock.                                      *)
NamesDiffer ==
  \A l, m \in Listeners :
    Up(l) /\ Up(m) /\ l # m /\ l \in met[m] /\ ~unlocked /\ ~Superseded(l)
      => name[l] # name[m]

Status(l) == IF Own(l) \in Listed(l) THEN json[Own(l)].status ELSE json[Claude(l)].status

(* A session with a message nobody has read says so: but for the two ways  *)
(* in which a wait sets back what it has not read (one came in meanwhile,  *)
(* or the name it waits for leads to another session by a partial match),  *)
(* and for a section that ran without the lock.                            *)
StatusTells ==
  \A l \in unread :
    Up(l) /\ sec[Handler(l)].pc = "out" /\ ~crossed /\ ~unlocked /\ ~Superseded(l)
      => Status(l) = "new-msg"
=============================================================================
