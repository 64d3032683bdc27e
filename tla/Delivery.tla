------------------------------ MODULE Delivery ------------------------------
(***************************************************************************)
(* One message on its way to a session: send_message of                    *)
(* agent_peer/sender.py, with resolve_session before it and the listener's *)
(* handle_client after it, while listeners start, stop and are replaced    *)
(* (Registry).  A post's push (_push_one of agent_peer/thread.py) is a     *)
(* send that is tried again: by the name, then by the pid, and then by     *)
(* both again through agy's own door.                                      *)
(***************************************************************************)
EXTENDS Registry, Sequences

CONSTANTS Senders,     \* the processes that send, one message each
          Agy,         \* the keys that are agy conversations; the others
                       \* are Codex threads
          Calls        \* the messages the senders may be asked to send: to
                       \* whom each is tried, and through which doors

VARIABLES
  mail,      \* each sender's message and how far it is
  handed,    \* how often it reached a harness or an inbox, over all doors
  late2nd,   \* it went out again after a door had taken it and answered late
  unlogged,  \* Codex's queue took it, and failed to say so, or the inbox line
             \* for it failed
  dropped    \* a listener read it, and could not put it in the inbox

histVars == <<handed, late2nd, unlogged, dropped>>
mailVars == <<mail, histVars>>
vars == <<regVars, mailVars>>

(* A session is sent to by its name or by its pid; native is FALSE when    *)
(* agy's own door is not to be taken.                                      *)
Targets == {"name", "pid"} \X Listeners
Tries == [to : Targets, native : BOOLEAN]
Try(by, n, native) == [to |-> <<by, n>>, native |-> native]

(* A send is one call of send_message.  A push has the pid its target had  *)
(* in the presence or in the registry when it was decided, whoever has it  *)
(* by now; it leaves agy's door alone when the post earns no turn, or at   *)
(* first, when agy's listener forwards what reaches its socket.            *)
Push(n, p, native) == <<Try("name", n, native), Try("pid", p, native)>>
Handoff(n, p) == Push(n, p, FALSE) \o Push(n, p, TRUE)

ASSUME DeliveryAssumption ==
  /\ Senders \cap (Listeners \cup Helpers) = {} /\ Agy \subseteq Keys
  /\ \A call \in Calls : \E n \in Names, p \in Pids, native \in BOOLEAN :
       call \in {<<Try("name", n, TRUE)>>, <<Try("pid", p, TRUE)>>,
                Push(n, p, native), Handoff(n, p)}

MailPCs == {"new", "token", "fallback", "queue", "audit", "native", "connect", "told", "failed"}
Mails == [pc : MailPCs, tries : Seq(Tries), to : Targets \cup {None}, native : BOOLEAN,
          who : Listeners \cup {None}, path : Paths \cup {None},
          token : Listeners \cup {None}, conn : Listeners \cup {None}]
NoMail == [pc |-> "new", tries |-> <<>>, to |-> None, native |-> TRUE,
           who |-> None, path |-> None, token |-> None, conn |-> None]

Init ==
  /\ RegInit
  /\ mail = [s \in Senders |-> NoMail]
  /\ handed = [s \in Senders |-> 0]
  /\ late2nd = [s \in Senders |-> FALSE]
  /\ unlogged = [s \in Senders |-> FALSE]
  /\ dropped = [s \in Senders |-> FALSE]

-----------------------------------------------------------------------------
(* Who it is for                                                           *)

MailStep(s, from, to) ==
  /\ mail[s].pc = from
  /\ mail' = [mail EXCEPT ![s] = to]
  /\ UNCHANGED regVars

Hand(s) == handed' = [handed EXCEPT ![s] = @ + 1]
Quietly == UNCHANGED histVars
Noted(s) == unlogged' = [unlogged EXCEPT ![s] = TRUE] /\ UNCHANGED <<late2nd, dropped>>
Late(s) == late2nd' = [late2nd EXCEPT ![s] = TRUE] /\ UNCHANGED <<unlogged, dropped>>
Plainly == UNCHANGED <<late2nd, unlogged, dropped>>

(* A Codex thread or an agy conversation is in the entry; a session        *)
(* without one has only its socket.                                        *)
DoorOf(l) ==
  IF setup[l].key = None THEN "socket" ELSE IF setup[l].key \in Agy THEN "agy" ELSE "codex"

(* What is to be tried: all of it, or, after a try that failed, the rest.  *)
Asked(s) ==
  CASE mail[s].pc = "new" -> Calls
    [] mail[s].pc = "failed" /\ mail[s].tries # <<>> -> {mail[s].tries}
    [] OTHER -> {}

Ready(s) == Asked(s) # {}

(* resolve_session takes a pid as it is, and a name as wait does.          *)
Meant(to, l) == IF to[1] = "pid" THEN pid[l] = to[2] ELSE LeadsTo(to[2], l)

Begins(call, pc) ==
  [NoMail EXCEPT !.pc = pc, !.tries = Tail(call), !.to = Head(call).to,
                 !.native = Head(call).native]

(* The copy that counts is the own one, when it is there.                  *)
Resolve(s) ==
  /\ \E call \in Asked(s), l \in LiveSessions :
       /\ Meant(Head(call).to, l)
       /\ MailStep(s, mail[s].pc,
            [Begins(call, "token") EXCEPT
               !.who = l, !.path = IF Own(l) \in Listed(l) THEN Own(l) ELSE Claude(l)])
  /\ Quietly

NotFound(s) ==
  /\ \E call \in Asked(s) :
       /\ ~\E l \in LiveSessions : Meant(Head(call).to, l)
       /\ MailStep(s, mail[s].pc, Begins(call, "fallback"))
  /\ Quietly

(* Without a token it is an error, like a session that is not there.       *)
ReadToken(s) ==
  /\ MailStep(s, "token",
       [mail[s] EXCEPT !.token = key[mail[s].path], !.path = None,
          !.pc = IF key[mail[s].path] = None THEN "fallback"
                 ELSE IF DoorOf(mail[s].who) = "codex" THEN "queue"
                 ELSE IF DoorOf(mail[s].who) = "agy" /\ mail[s].native THEN "native"
                 ELSE "connect"])
  /\ Quietly

(* _dead_codex_session reads the registry again: unless a live session has *)
(* exactly this name or pid, the queue of the last dead Codex session that *)
(* had it, if that one is not older than 72 h.                             *)
NamedExactly(to, l) == to = <<"name", name[l]>> \/ to = <<"pid", pid[l]>>

FallBackToDead(s) ==
  LET known == {l \in Sessions : NamedExactly(mail[s].to, l)}
      dead == {l \in known \ LiveSessions : DoorOf(l) = "codex"} IN
  /\ \/ MailStep(s, "fallback", [mail[s] EXCEPT !.pc = "failed"])
     \/ /\ known \cap LiveSessions = {} /\ dead # {}
        /\ MailStep(s, "fallback",
             [mail[s] EXCEPT !.pc = "queue",
                             !.who = CHOOSE l \in dead : \A m \in dead : m <= l])
  /\ Quietly

-----------------------------------------------------------------------------
(* The doors                                                               *)

To(s, pc) == MailStep(s, mail[s].pc, [mail[s] EXCEPT !.pc = pc])
AtDoor(s, pc) == mail[s].pc = pc

(* _send_via_codex_queue: "codex queue" takes it or not, and may take it   *)
(* and fail to say so within 10 s.                                         *)
Queue(s) ==
  /\ AtDoor(s, "queue")
  /\ \/ To(s, "audit") /\ Hand(s) /\ Plainly
     \/ To(s, "failed") /\ Hand(s) /\ Noted(s)
     \/ To(s, "failed") /\ Quietly

(* append_inbox for Codex: an error there is an error of the send.         *)
Audit(s) ==
  /\ AtDoor(s, "audit")
  /\ \/ To(s, "told") /\ Quietly
     \/ To(s, "failed") /\ Noted(s) /\ UNCHANGED handed

(* MUTANT of Native: a failing audit line sends the caller to the socket.  *)
NativeAudited(s) ==
  /\ AtDoor(s, "native")
  /\ \/ Hand(s) /\ (To(s, "told") \/ To(s, "connect")) /\ Plainly
     \/ To(s, "connect") /\ Quietly

(* _try_native: agy takes the turn, or does not, or takes it and answers   *)
(* too late; an error of the audit line is ignored.                        *)
Native(s) ==
  /\ AtDoor(s, "native")
  /\ \/ To(s, "told") /\ Hand(s) /\ Plainly
     \/ To(s, "connect") /\ Quietly
     \/ To(s, "connect") /\ Hand(s) /\ Late(s)

(* Both frames go to whoever has bound the socket now, and it need not     *)
(* have called accept yet; no answer is waited for.  Or the socket fails,  *)
(* before the second frame is in it.                                       *)
Bound(n) == {l \in Listeners : sock[n] = l /\ life[l] \in {"register", "up"}}

Connect(s) ==
  /\ AtDoor(s, "connect")
  /\ \/ To(s, "failed")
     \/ \E l \in Bound(pid[mail[s].who]) :
          MailStep(s, "connect", [mail[s] EXCEPT !.pc = "told", !.conn = l])
  /\ Quietly

Served(s) == MailStep(s, mail[s].pc, [mail[s] EXCEPT !.conn = None])

(* handle_client and process_incoming_frame: as a turn of agy's, or to the *)
(* inbox (what follows from that is Notice), or, when agy's door answers   *)
(* late, both.                                                             *)
Serve(s) ==
  LET l == mail[s].conn IN
  /\ l # None /\ Up(l)
  /\ Served(s)
  /\ IF mail[s].token # l THEN Quietly
     ELSE \/ Hand(s) /\ Plainly
          \/ /\ DoorOf(l) = "agy"
             /\ handed' = [handed EXCEPT ![s] = @ + 2]
             /\ Late(s)

(* The same with an error of append_inbox, before a line of it is in the   *)
(* session's inbox, or 5 s between the frames: both end the handler, and   *)
(* nobody is told.                                                         *)
Drop(s) ==
  LET l == mail[s].conn IN
  /\ l # None /\ Up(l) /\ mail[s].token = l
  /\ Served(s)
  /\ dropped' = [dropped EXCEPT ![s] = TRUE]
  /\ UNCHANGED <<late2nd, unlogged>>
  /\ \/ UNCHANGED handed
     \/ DoorOf(l) = "agy" /\ Hand(s)

(* The listener stops before it has read the frames.                       *)
Lost(s) ==
  LET l == mail[s].conn IN
  /\ l # None /\ life[l] \notin {"register", "up"}
  /\ Served(s)
  /\ Quietly

DeliveryStep(s) ==
  \/ Resolve(s)
  \/ NotFound(s)
  \/ ReadToken(s)
  \/ FallBackToDead(s)
  \/ Queue(s)
  \/ Audit(s)
  \/ Native(s)
  \/ Connect(s)
  \/ Serve(s)
  \/ Drop(s)
  \/ Lost(s)

Next ==
  \/ RegNext /\ UNCHANGED mailVars
  \/ \E s \in Senders : DeliveryStep(s)

Spec == Init /\ [][Next]_vars

-----------------------------------------------------------------------------

TypeOK ==
  /\ mail \in [Senders -> Mails]
  /\ handed \in [Senders -> Nat]
  /\ {late2nd, unlogged, dropped} \subseteq [Senders -> BOOLEAN]

Settled(s) == mail[s].pc \in {"told", "failed"} /\ mail[s].conn = None /\ ~Ready(s)

(* A message is not handed over twice, by two doors, by one door and the   *)
(* try after it, under the name and under the pid: but for a door that     *)
(* took it and answered late, and for Codex's queue that took it and then  *)
(* failed, or whose inbox line did, after which a push tries again.        *)
HandedOnce == \A s \in Senders : handed[s] > 1 => late2nd[s] \/ unlogged[s]

(* "Delivered" is printed without an answer from the listener.  It is true *)
(* as long as the listener that was found goes on, no other one of the     *)
(* same session takes its place, and its inbox can be written: an error    *)
(* there is not told to anybody.  An error is printed for a message that   *)
(* arrived only when a door, or the inbox line for it, failed late.        *)
ToldRight ==
  \A s \in Senders : Settled(s) /\ ~unlocked =>
    /\ mail[s].pc = "failed" /\ handed[s] > 0 => unlogged[s] \/ late2nd[s]
    /\ mail[s].pc = "told" /\ handed[s] = 0 =>
         \/ dropped[s]
         \/ life[mail[s].who] \notin {"register", "up"} \/ Superseded(mail[s].who)
=============================================================================
