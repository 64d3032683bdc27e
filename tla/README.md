# A TLA+ development of agent-peer

agent-peer lets coding agents on one machine message each other: directly, into
each other's inboxes, or in threads, shared rooms that any number of agents and
people read and post to. There is no server. Every command is a short-lived
process, every session has a listener process of its own, and what they share
is files under `~/.agent-peer`, guarded, where anything guards them, by lock
files. What can go wrong lies in the steps of these processes between two file
operations, and in a process that dies there. That is what is modelled.

Line numbers refer to `src/agent_peer/`.

## Modules

| module | models | state | runs |
|---|---|---|---|
| `Mutex` | the promise of a lock | `holder` | (implemented by `FileLock`) |
| `FileLock` | `compat.py` `acquire_lock`, `release_lock` | the inode the lock path names, the pids written, open files, a position per process | `lock_windows`, `lock_posix` |
| `ThreadLog` | `thread.py` `append_thread_message`, `_append_system_event`, `_read_last_record` | the lines of `log.jsonl`, the lock, the append of each process | (part of `ThreadWait`) |
| `Room` | the promise of a thread to its participants | `posts`, `seen`, `heard`, `left`, `deaths` | (implemented by `ThreadWait`) |
| `ThreadWait` | `thread.py` `wait_for_thread_message`, `ThreadTail`, `touch_thread_presence` under `cli.py` `cmd_thread`; extends `ThreadLog` | presence, cursor files, waiting processes, what was printed and what was left out | `thread_wait` |
| `Inbox` | `inbox.py`, with `listener.py`'s handlers and `cli.py`'s `wait` and `inbox --clear` | inbox file, cursor file, the listener, its handlers, a wait, a clear | `inbox`, `inbox_overtaken` |
| `Presence` | `thread.py` `touch_thread_presence`, `leave_thread_presence`, join and leave events; `cli.py` `cmd_thread` with `--leave` | the presence file and its lock, a calling and a leaving process per member, the log and how far each member has read | (part of `Fanout`) |
| `Fanout` | `thread.py` `append_thread_message` after its append, `fanout_targets`, `fanout_thread_push`; extends `Presence` | each poster's post in progress, what was pushed, what was not and why | `fanout` |
| `PushBrake` | `thread.py` `_codex_push_decision` | the push-state file, Codex's queue, each poster's decision and its tries | `push_brake` |
| `Registry` | `registry.py` but for its formatting; `listener.py` but for what a handler reads; `cli.py` `cmd_prune`, `_reset_status_idle` | json, key and socket files, name links, the lock, each listener's life and each thread's way through the lock, prune and wait | (part of `Delivery`) |
| `Delivery` | `sender.py` `send_message`, `thread.py` `_push_one`, `listener.py` `handle_client`, `_forward_natively`; extends `Registry` | each message and how often it was handed over | `peers` |
| `TelegramBridge` | `telegram_bridge.py`, `logs.py` `show_thread_logs` as its child | the thread, the phone, the positions in memory and on disk, both workers, the child | `bridge` |
| `JoinView` | `join.py`, `rawline.py` `render`, `clear_rendered_area`, `picker.py` as it meets the screen | the thread, the screen row by row and the one beneath a picker's, the main thread, the poller, what they share | `join`, `join_skips` |
| `LineEditor` | `rawline.py` `LineEditor` and its readers | the composition, the cursor, the completion under way | `text` |
| `Mentions` | `thread.py` `_strip_code_spans`, `_mention_tokens` | a post, written token by token | `text` |
| `MarkerBlock` | `setup_rules.py` | the instruction file, a setup under way | `text` |
| `Ordered` | what it is for a sequence to list a set of numbers in order | | (used by `Room`, `ThreadWait`, `Inbox`) |
| `Selection` | what is left of a sequence when some of it is taken out | | (used by `LineEditor`, `MarkerBlock`) |
| `FileLockProofs`, `ThreadProofs`, `InboxProofs`, `PresenceProofs` (with `Fanout`), `PushBrakeProofs`, `DeliveryProofs` (with `Registry`), `BridgeProofs`, `JoinProofs` (with `LineEditor`, `Mentions`, `MarkerBlock`) | theorems | | |

An `MC...` module gives the constants of its component values; the `.cfg` files
choose among them. In the component modules, a definition under a comment that
starts with MUTANT is a plausible bug of the definition after it (or of several
such). `Next` does not use it; it is there so that each property can be shown
to fail when the code is changed that way.

How they fit: `FileLock` implements `Mutex` under the assumption named below;
`ThreadLog` uses `Mutex` for the thread's lock; `ThreadWait` is `ThreadLog`
with readers; `ThreadWait` implements `Room`. `Fanout` is `Presence` with
posters. Both take from the modules before them what those show: appending to
the log is one step, a lock is a `Mutex`, and a reader is a position in the
log. `PushBrake` details the one step of `Fanout` in which a post to a Codex
member is held (`Hold`). `Inbox` stands alone, because in the code, too, nothing
guards the inbox. `Delivery` is `Registry` with senders: whom a name leads to, and
who reads the socket, change while a message is on its way; it details the push
that `Fanout` takes for one step, and the append behind it is `Inbox`'s.
`TelegramBridge` and `JoinView` read a thread as `ThreadWait` does and take its
log for a sequence. `MCText` runs `LineEditor`, `Mentions` and `MarkerBlock`, the
three parts that are about text, one at a time.

## The system's parts

**Lock file** (`compat.py:261-337`). State: a file that exists while the lock
is held, with the owner's pid. Operations: acquire (four attempts: create
exclusively, or look at the file that is there and unlink it if its owner is
dead or it stays empty), release (close, unlink). Used by thread appends and
presence, by the registry, and by the one-waiter-per-participant rule. Hard:
judging a file and unlinking a *path* are two steps, and the owner may die
between creating the file and writing its pid. Correct if exclusive, and if a
dead owner's lock is taken over.

**Thread log** (`thread.py:70-187`). State: one JSON record per line, numbered.
Operations: read the last record's seq, append the next one, under the thread's
lock, given up after 2 s. Readers take no lock. Hard: a writer may die half way
through a record, and the number is recomputed from the end of the file.
Correct if seqs follow file order without repetition and an acknowledged post
stays readable.

**Thread wait** (`thread.py:519-757`, `cli.py` `cmd_thread`). State: cursor
file per participant, presence entry, the waiter's position in the file and the
records it has kept. Operations: arrive (presence and a join event), poll,
return a batch, time out. Hard: it reads without a lock while others write,
keeps a batch for as long as nobody mentions it, and moves the cursor before it
prints, past what `--mention-only` does not print. Correct if everybody else's
posts are handed over once, in order, with none left out but by that option and
no mention by it, and a wait with something to return returns.

**Presence and knocks** (`thread.py:190-516`, `594-700`). State: `presence.json`.
Operations: touch, leave, follow all, compute whom a post must reach, push in
worker threads within a time budget, the brake that holds posts back from a
Codex target. Hard: read and rewritten by processes of which some take no lock;
a member is woken only if the poster sees it as not waiting. Correct if no
update undoes another's, the room's last event about a member agrees with the
file, a waiting member is not pushed to, and a mention is polled or pushed.

**Inbox and wait** (`inbox.py`, `listener.py` handlers, `cli.py` `cmd_wait`,
`cmd_inbox`). State: the inbox file, a cursor that is a *time*. Operations:
append (stamp, then write), wait (read or make the cursor, read inbox, write
cursor, print), session start and clear (cursor := now). Hard: no lock between any of
these; a stamp is taken before the write it belongs to. Correct if a message is
returned once and none is missed.

**Listener and registry** (`listener.py`, `registry.py`, `cli.py` `cmd_prune`).
State: an entry per listener, as a json and a key file under a stable key or the
pid, and again in Claude's directory; a socket per pid, a link per name.
Operations: look for a free name, bind, register, set the status, clean up,
prune, resolve a name. Hard: two starts at once, a signal in the middle of the
registration, a pid or a key that is taken again, an update that goes on without
the lock after 3 s. Correct if a listener that is up is found with its own token
and socket, and one that stopped leaves nothing behind.

**Delivery** (`sender.py`, `native/`, `thread.py` `_push_one`). State: none of its
own. Operations: choose queue, agy's door or socket; fall back; try a push again
by the pid. Hard: what is read one after the other may belong to different
listeners, a late answer counts as a failure, and nobody hears of what the
receiver could not store. Correct if a message arrives once, and the sender is
told so.

**Telegram bridge** (`telegram_bridge.py`). State: the last relayed seq and the
next update, in memory and in a file; a follower process. Operations: relay in
each direction, restart the follower, retry. Hard: death between relaying and
recording it, a file that cannot be written, an answer that is lost, replay of a
bounded number of records. Correct if nothing is lost, what is repeated is
bounded, and a bridge that runs catches up.

**Join view** (`join.py`, `rawline.py`). State: the last shown seq, the screen,
the composition. Operations: type, post, invite, leave; poll, print, redraw.
Hard: two threads draw on one screen and move one position, with no lock, and a
picker takes the screen in between. Correct if every post is shown once and
stays, and who has left is out of the room.

**Line editor** (`rawline.py`): a sequential machine but for the list of names,
which the poller replaces. Correct if an edit happens at the cursor and nowhere
else, and the post mentions what can be read of a completed name.

**Mention parser** (`thread.py:125-208`): a function of a post. Correct if what is
quoted mentions nobody and what follows it is read.

**Managed instruction blocks** (`setup_rules.py`): rewrites part of a file that
belongs to the user. Correct if what they wrote stays.

Not modelled, because they keep no state of their own or only move bytes: the
formatting and searching of log views, usage dashboards, harness detection, the
agy language server's HTTP, the rest of the platform shim, argument parsing and
printing, path and frame shapes, the update check, the editor hooks, the curses
screens. `PROJECT.json` lists every part with its state of work, and the hazards
at their lines.

## How the modules follow the code

### FileLock

One action per system call: `Create` is the exclusive open, `WritePid` the
write, `Exists`/`OpenToRead`/`Vanished` the failed create and the open that
follows it, `EmptyRetry`/`Refuse`/`JudgeStale` the verdict on what was read,
`UnlinkStale` the unlink and the loop, `Close` and `UnlinkOwn` the release.
`Crash` kills a process anywhere. An inode is named by its creator and the
number of the call, so two files that had the same path are distinguished. The
age test of an empty file is a choice (it depends on how long the creator has
been suspended). `UnlinkOpenFails` is the platform: on Windows a file that some
process has open cannot be unlinked, on POSIX its name goes away. Left out:
reuse of a dead owner's pid by another program.

### ThreadLog

`Begin`, `TakeLock` or `GiveUp`, `ReadLast`, `StartWrite`, `EndWrite`,
`Unlock`. A line has two flags: `whole` (it parses) and `ended` (it has its
newline). The write is split because a record is flushed in several pieces when
it is long and readers see the file at any moment; a writer that dies leaves the
line unfinished, either not parsing or lacking only its newline, and the next
`StartWrite` continues that line. `Crash` also stands for a write that fails on a full
disk: the program reports the error and the line stays as far as it got.
`TailMisses` says whether the end of the file that `_read_last_record` reads may
hold no record before a torn last line (which depends on the lengths of the
lines relative to its 4096-byte steps).

### ThreadWait

`Start` is `cmd_thread` up to the wait: it writes presence and, for an arrival,
begins the append of a join event, in one step (the presence file itself is the
subject of `Presence`), or skips both where the presence lock stays
taken. `Poll` is one round of the loop: what `ThreadTail` yields up to
the last newline, the filter by the cursor file and by author, the test of
`--mention-only`. Then `TruncateCursor`, `WriteCursor`, `PrintBatch`: opening
for writing truncates, so the cursor reads as 0 in between. `PrintBatch` prints
what `split_for_mention_only` leaves (`Shown`): with `--mention-only` and no
`--context` the posts that mention the participant or match `--match` (`Wanted`),
while the cursor passes the whole batch; the history `hid` keeps the rest
(`Spared`). `Die` kills the
waiter anywhere; `hurt` records where it mattered. The lock that admits one
waiter per participant is taken for granted (see `FileLock` for how far it
holds). A `--match` is the set of the bodies that it finds (`Patterns`).

### Inbox

`Stamp` and `AppendInbox` are the two halves of `append_inbox` in a handler
thread. `MarkTruncate`/`MarkWrite` and `EmptyInbox`/`ClearTruncate`/`ClearWrite`
are `mark_session_start` and `clear_inbox`. `ReadCursor`, `ReadInbox`,
`TruncateCursor`, `WriteCursor`, `PrintMessages` are `wait_for_message` and
`cmd_wait`. A wait that finds no cursor file makes one (`inbox.py:76-79`), in four
steps: `FindNoCursor`, `TakeTime`, `MakeCursor` (the file is truncated) and
`FillMade`; what the listener writes there meanwhile is overwritten. Readings of the clock are all different, so that a stamp names its
message; a coarse clock would add ties, of which the strict comparison in
`get_unread` would drop the second. A record is appended in one write.
`newest`, `late`, `made`, `baseline` and `hurt` are history variables that the
properties use and no action tests, but for the bound in `Die`. Left out: the
second copy in the global inbox, and appends that a sender process makes itself.

### Presence

A member has at most one `agent-peer thread` (`wait`) at a time, which the
one-waiter lock sees to, and beside it any `--leave` (`leave`); a call's number
is its pid. `Touch` and `Mark` read the file and open it for writing, which
truncates it; `Fill` and `FillLeft` write it and give the lock back; `Joins` and
`Leaves` append the event afterwards, or drop it when the thread's lock stays
taken. `SkipTouch` and `NotLeft` are the returns without an update. `Start`
chooses between waiting without a bound (`"arm"`) and with one (`"peek"`), and
whether `--follow` is given. `Killed` and `LeaveKilled` end a process anywhere;
one that dies with the file truncated sets `wiped`, since the next update starts
from an empty file. `Age` is the passing of the 30 seconds after which a member
counts as deaf. `opted` and `crossed` are history variables: the members whose
last completed update left them following, and those for whom two updates
overlapped or one was given up half way.

### Fanout

`AppendPost` is the append; `Look` reads the presence file, without its lock and
so perhaps truncated; `Judge` asks for one member whether its process runs and
decides; the pushes begin when all are judged. `Deliver` is a push that arrives,
`Hold` one that the Codex brake holds back (never a person's and never a
"[stop]"), `Finish` the exit of the poster with the workers that were not done,
for whatever reason. `Deaf` and `Targeted` are the tests of `fanout_targets`. A
push is a single step. `knocked`, `spared` and `excused` are history: pushed, not pushed because
a running process was seen, and not pushed for another reason or seen running
and ended without reading on.

### PushBrake

`ReadState` and `Decide` are the read of the state file and the decision with
its atomic rewrite; between them another poster may decide. A file that cannot
be read counts as empty. `Decide` reads Codex's queue, or cannot; and it may fail
as a whole, in its write for one, after which the post is pushed and the file is
as it was (`FailOpen`, `thread.py:414`). `Go` clears the count before the push
goes out. `Push` is a try of `_push_one`, by the name or, when that one seems to
have failed, by the pid; either may leave an item in the queue and seem to have
failed. `Fail` is the end of the poster before its push is done. `Cool` is the
passing of the window. `urgent` posts are a person's and "[stop]". `raced`,
`misread`, `blind` and `free` are history: two decided at once, the file was not
read, the queue was not, and the posts that no brake held or let go.

### Registry

A listener is one run of `agent-peer listen`, numbered in the order of the
starts; its sessionId and token are that number. `Start` gives it a new pid or
one that a dead listener had. `Look` and `Refuse` are the first half of `setup`,
`Bind` the socket and the name link, and the registration then goes through
`_registry_lock` like every other use of it: `EnterLocked` or, past 3 s and only
behind a process in `Slow`, `EnterUnlocked`; then one step per file
(`WriteKey`, `WriteJson`, `CheckCopy`, `WriteStatus`, `UnlinkCopy`), and `Leave`. A
handler thread is a second thread of the same process, which `_LOCAL_LOCK` keeps
out of the section. `Stop` is a signal or an error anywhere between the look and
the end, including the middle of the registration, where cleanup finds
`_lock_depth` set; `ReadLink` and `UnlinkSocket` are cleanup's check of the name
link and its unlinks, apart because another listener may bind in between. `Crash`
is SIGKILL, and a second signal during cleanup. `Prune...` are the steps of
`cmd_prune` over the list it read first, `WaitReturns` and `Reset` the end of
`cmd_wait`. A name asked for is 1, and n is the same with `-n`, so that 1 is a part
of all of them and a partial match is possible. `met`, `began`, `unlocked`,
`crossed` and `late` are history. Left out: `--force`, which skips `Refuse`; and the
fields that are only shown.

### Delivery

`Resolve` (or `NotFound`), `FallBackToDead` and `ReadToken` are the reads before a
message goes out, each of what the registry holds then; a target is a name or a
pid. `Queue`/`Audit` are `codex queue`
and the inbox line for it, `Native` agy's door, `Connect` the socket; each may
fail, and the first two may have worked when they fail (the 10 s of the queue, the
budget of the door). `Serve` is the handler of the listener that has the
connection: it ignores frames whose token is not its own, hands them to agy or to
its inbox. `Drop` is the same with an error of `append_inbox`, which ends the
handler without a word (`listener.py:249`). `Lost` is a connection that nobody
read. What a sender is asked for (`Calls`) is a list of tries, each of which begins
when the one before it has failed (`Asked`): a send is one; `_push_one` tries the
name and then the pid (`Push`), and with a handoff both without agy's door first
and then both with it (`Handoff`). An entry without a Codex thread or an agy
conversation has only its socket (`DoorOf`). Left out: a session of Claude Code
itself, whose own program reads its socket.

### TelegramBridge

A record's place in `log` is its seq and its time. `Post` and `Type` are the world;
`Start` and `Stop` a run, which ends anywhere, by a signal, an error of a worker, a
rejected token or SIGKILL: the workers are daemon threads. `SkipStale`, `Spawn`,
`ReadLine`, `ChildEnded` and `Mark` are `thread_to_telegram`; `Taken`,
`TakenUnheard`, `TryAgain` and `Refused` an attempt of `_send_one`. `ChildBegins` is
where `logs --follow` reads the thread and decides where to begin, `ChildDies`
ends it with some printed lines unread. `FirstPoll`, `Poll`, `Relay` and
`MarkUpdate` are `telegram_to_thread`; Telegram forgets what an offset confirms.
`Set` writes the positions to memory and to the file, or to memory only. `named`,
`early`, `doubt` and `unsaved` are history: what was refused or counted in a note,
what was older than a run without positions, what was under way when a run
ended, and whether the file was behind. A message in several parts is one.

### JoinView

The screen is a sequence of rows that ends at the cursor's; a row is a printed
post or blank. One step is one write to the terminal, or one assignment between
two of them: `Wipe`, `Forget`, `Write` and `Remember` are the parts of a redraw, and
either thread may be in one while the other draws. `rows` is how many rows the
composition takes now, `drawn` what was drawn last (`_printed_visual_rows`). A
key changes `rows` to any number up to `MaxRows`; what the key does to the text is
`LineEditor`'s. `RaiseBox` and `Judge` are the two uses of `last_seq_box`. `TickFails`
is an exception in a tick: what the tail has returned is not returned again.
`Joined` waits 2 s for the poller. `Leave` marks the participant as gone, or
marks nothing, since `leave_thread_presence` returns without the lock after 0.5 s
or when the file cannot be read and `run_join` does not ask (`unmarked`); `Enter`
and `Touch` may likewise mark nothing. The picker either draws on the screen it
clears (`PickerDraws`: on Windows, and in a terminal with one screen only), or
curses opens a screen of its own and brings back the one beneath
(`OpenCurses`, `CloseCurses`); a poller already past its look at `invite_paused`
prints on whichever is there. `gone` keeps what the picker took away. Which of
the two happens is chosen anew each time. Left out: the messages that an
invitation sends, an invitation at the start, before anything is shown; the
path without a terminal.

### LineEditor, Mentions, MarkerBlock

`LineEditor` has one action per method, and the keys whose handling is in the
readers (`Escape`, `EnterKey`, `Abandon`). `Refresh` is the poller's assignment to
`mention_candidates`, whose names are any strings (`join.py:40-42`): `Letters` are
the characters that a mention is read from, `Marks` those of them that end a
sentence (`.` and `-`), `Odd` some others, and a name may have any of them and may
begin another. `Mentions` is what the post's regular expression reads of a line
in which no code is quoted (`Quoting`). The names that begin with what is typed
are `Picked`, in their order.

`Mentions` has the two strippers as functions over positions. A token is a run of
backticks or tildes, a name, or other text, and a run's length is what decides.
`MsgNext` writes any post. Indentation and the characters of a name are left out
(the latter are in `LineEditor`). A span within a line is of one or two backticks,
as three or more at the start of a line are a fence.

`MarkerBlock` has the four patterns of `setup_rules.py` as sets of line numbers,
and the edits as functions of a file; `CleanedOf` is `_clean_orphan_line` on
every line, for one marker: a line that is the marker goes, and from any other the
marker is `Purged`. `Truncate` and `WriteAll` are the two halves of
the write. `Edit` is the user's own save, `Kill` the end of a setup anywhere.
`Stray` is a file that has a marker beside its block.

## What the runs check

| run | bounds | distinct states | result |
|---|---|---|---|
| `lock_windows` | 2 processes, 3 calls each | 52,614 | holds |
| `lock_posix` | 2 processes, 2 calls each | | `MutualExclusion` violated |
| `thread_wait` | 1 participant, 1 poster, 3 appends | 1,008,165 | holds |
| `inbox` | 2 handlers, 5 readings of the clock, 2 starts, 1 clear | 1,033,317 | holds |
| `inbox_overtaken` | 2 handlers, 4 readings, 1 start | | `NeverMissesBacklog` violated |
| `fanout` | 1 member with 2 calls and 1 leave, 1 post of 3 kinds | 1,058,791 | holds |
| `push_brake` | 2 posters, 3 posts of 3 kinds | 1,551,308 | holds |
| `peers` | 2 listeners, 1 prune or wait, 1 message by send, push or handoff, 1 killed | 1,271,218 | holds |
| `bridge` | 2 runs, 1 death of the child or failing write, 2 records and 1 message or 1 and 2 | 1,360,232 | holds |
| `join` | 2 rows, 2 posts of others, 1 own, 1 key, 1 picker, 1 failing tick | 2,347,664 | holds |
| `join_skips` | 1 row, 1 post of others, 1 own | | `OthersShown` violated |
| `text` | 5 keys, 6 tokens, 4 lines | 2,060,377 | holds |

- **lock_windows**: where an open file cannot be unlinked, at most one process
  has a handle, the protocol implements `Mutex`, and a caller that finds a dead
  owner's pid gets the lock within its four attempts. Two processes are enough
  for one to judge a file while the other replaces it; three calls let a process
  meet the file of a second generation and release its own. The proofs below
  cover any number.
- **thread_wait**: posts are handed over once and in order; the cursor never
  passes a post that was not printed, unless `--mention-only` left it out, and
  that is never a post that mentions the participant; a waiter with something to return
  returns; and all of it is a `Room`. Seqs increase in file order, and the number
  of acknowledged posts that cannot be read is at most the number of torn
  records. The exceptions are the deaths in `hurt`, each of which may happen
  once. Three appends allow a post read while half written, one before the wait,
  and a torn one between; the participant may also write one of them, and one
  may be its join event. What is left out in this run is a join event, since the
  other posts are the participant's own or mention it; `--match` and any other
  posts are left to the proofs. A second participant has its own cursor and waiter and
  meets the first only in the log, where it is one more poster.
- **inbox**: a message that came after the last start or clear is passed by the
  cursor unprinted only if it was appended after a younger one, a wait died
  before its print, or a first wait that had found no cursor made one after it
  came; one is printed twice, or out of order, only with such a late
  one about, or after the cursor read as 0 or was put back. Five readings leave
  two concurrent messages and a third after the start, with one clear.
- **fanout**: with no process dead while the file was truncated, a member's
  entry follows exactly if its last completed update said so; a member whose last
  event is "left" is not active, and an active one's is "joined"; a member whose
  call is polling when a post is appended is not pushed that post while the call
  runs; and a mention is polled or pushed, or there is a reason in `excused`. One
  member suffices for the file's races: its own call and its own `--leave` are
  two processes that rewrite the file, and another member's update could only
  do to this member's entry what these do. Two calls give an entry left behind
  by a dead or finished process, with another one's pid. Posts of different
  posters meet only in the log, so one is enough. The theorems below cover any
  number of either.
- **push_brake**: unless two posters have decided at the same time or one found
  the file unreadable, the state file has the number and the first of the posts
  held since the last push that reported them, a decision that fails open being
  no exception; and as long as Codex's queue can be read, what was decided by a
  brake is in it no deeper than one less than its depth for mentions and two
  tries of each poster. That is five items, and three posts can leave six, two
  each.
- **peers**: a listener that is up is found in every copy of its entry with its
  own token, its socket is its own and the name that only it has leads there
  (`UpIsReachable`); one that stopped in good order leaves no file, not even what
  an update under way could have written back (`GoneLeavesNothing`); two
  listeners share a name only if neither saw the other (`NamesDiffer`); a session
  with an unread message says so (`StatusTells`); a message is handed over twice,
  over all doors and all tries by name and by pid, only when a door answered late
  or Codex's queue had it before an error (`HandedOnce`); and what the sender is
  told is what happened, unless the listener could not write its inbox
  (`ToldRight`). The reasons that excuse a state are history variables and are each a window in the code: `unlocked`, a section entered
  after 3 s without the lock, or by cleanup nested in a registration that did
  not hold it; `Superseded`, a later listener of the same Codex
  thread or agy conversation;
  `late`, a link or socket replaced between the look and the unlink; `crossed`, a
  wait that sets back the status of a session whose message it has not read.
  The two listeners are one with only a socket and one of Codex, or a second one
  of the same agy conversation, the first mirrored in Claude's
  directory. Two of them give every pair of old and new, since pid, key, name and link are each taken over from one. The
  constraint `Bounds` leaves out what follows a section without the lock, where
  every property is excused, and what follows the end of the message; and it
  sends the message only where no prune or wait has run, so that the combination
  of all three is not looked at. The theorems below have neither limit.
- **bridge**: neither position passes a record or message that was not relayed,
  refused, given up or counted in a note, taken for older than the first run, or
  further back than the child replays (`NothingSkipped`); one is repeated only
  after a lost answer or when a run ended with its position not yet in the file
  (`RepeatedOnlyIfCut`); the repeats of one run do not add up: the replay of a
  restarted child, lost answers and an unwritable file together put a record on
  the phone at most as often as one message is tried, and a message in the thread
  once (`OncePerRun`); and a bridge that runs catches up or stops (`Relaying`). Two runs give a restart
  at any point of the first; a batch of two messages gives one relayed and one
  not; the replay of one record of two gives one that is too far back. The first
  three are proved for any bound.
- **join**: a post that the poller has passed was printed, but for those in
  `hidden` (the person posted before the poller had looked) and `dropped` (its
  tick failed); none is printed twice; what was printed stays on the screen, or on
  the one beneath the picker's, as long as no post arrives beside a composition
  of several rows (`tall`), but for what a picker cleared or took along (`gone`);
  who has left is not a member, but for a poller that outlived the 2 s it is
  waited for and for a leave that could not be marked;
  and every post is looked at while the view is open. Two rows are what tells a
  composition of several from one of one row; two posts of others and one own
  are the smallest case with one on either side of the own post.
- **text**: over every composition of five keys, an edit changes what is before
  the cursor only (`EditsAtCursor`, with the exceptions it lists), and of a name
  that Tab has put in the post mentions what can be read: the name, if it is
  letters throughout and what follows ends it, else the part before its first
  other character, unless code is quoted in the composition; over every post of six tokens in
  any lines, a post quoted in a longer fence or a span mentions nobody, and the
  name behind the quotation is read; over every instruction file of four lines
  and every save by the user in the middle, what the user wrote outside the
  block is kept, but for a mishap, and an install is stable and a removal undoes
  it. Four lines hold a block with a line before or after it and a stray marker;
  six tokens hold two runs that close each other and two that do not.

Each of `ThreadWait`, `Inbox`, `Fanout`, `Registry`, `Delivery`, `TelegramBridge`,
`JoinView` and `LineEditor` also states its type invariant, which is proved and not
among the properties of a run.

Fairness. In `Fanout` a post goes on once appended (nothing in
`fanout_thread_push` waits without a bound) and a calling member polls every
0.1 s; neither a death nor the passing of 30 seconds nor the next call is ever
required. `FairSpec` of `FileLock` has a running call go on: both functions are
a few system calls without a wait for another process. The wait loops of
`ThreadWait` and `Inbox` poll every 0.1 s and are weakly fair in polling and in
what follows a ready batch. Nothing makes a user call a command, a poster post, a
listener start, a timeout come or a process die; the writers of `ThreadWait` are
not fair either, since `WakesUp` speaks of records that are already in the file.
The participant's own join event must be finished before it waits, which is in
the property's condition. `FairSpec` of `TelegramBridge` is weakly fair in each of
the two workers and in the child's first read: a worker is never without a next
step but where it waits for its child or for Telegram, and its attempts are
bounded by `MAX_RETRIES`, or answered in the end. It does not make a run stop or a
child die. `FairSpec` of `JoinView` has the poller go on, which waits for nothing
but the picker; the person need not press a key, so `LooksAtAll` ends at the
picker.

Deadlock checking is off: every bound may be used up with nobody waiting, which
is where the real system rests too.

## What is proved

All theorems hold for any set of processes and any bound.

`FileLockProofs`
- `TypeCorrect`: the type invariant, with `WriterHasFile`: a process between
  its create and its release has the inode it created open.
- `LockIsExclusive`: `Spec => []MutualExclusion`, assuming `UnlinkOpenFails =
  TRUE`. `MutualExclusion` alone is not inductive: nothing in it says that an
  unlink by another process leaves a holder's file in place. The
  invariant `HolderKeepsPath` says that the lock path names the inode that a
  writing or holding process has open. An unlink preserves it because that
  inode is open and so survives; a create because the path is taken. The path
  has one value and an inode one creator, so two holders are equal.
- `LockImplementsMutex`: each step of `FileLock` is a step of `Mutex` or a
  stutter, under the same assumption.

`ThreadProofs`, about `ThreadLog`, `ThreadWait` and `Room`. What is said of seqs and of
waiting participants assumes `TailMisses = FALSE`: where numbering
restarts, seqs repeat (see below), and nothing that a cursor is compared with
can be relied on. What is said of lines and of losses does not.
- `LogTypeCorrect`: the type invariant, with `WriterHasLine`: during a write
  the log has a last line. `LinesAreEnded`: only the last line may lack its
  newline.
- `SeqsIncrease`: `LogSpec => []SeqIncreasing`. The inductive invariant
  `Numbering` adds three facts: a process between
  taking and giving the lock is its holder (so there is one such process); the
  seq a process has computed is above those of all records of the log; and while
  its record is being written, above those of all records before it. Deaths are
  no exception: the lock dies with its holder, and the next writer reads anew.
- `LossIsBounded`: `LossBounded` counts what is lost so far. A torn line at the end
  will cost the next record, so the invariant `Counted` adds one for a line left
  open and for a record that is being glued to one (`Owed`): a death raises
  `torn` and what is owed by one, and the next acknowledgement turns what is owed
  into a loss.
- `HandsOnceInOrder` and `SkipsNothing`, for any number of participants, posters,
  posts and deaths. Both follow from `Served`, which says of each participant
  four things: what a process that waits has kept is exactly what is unread
  between its cursor and its place in the file (`Keeps`); cursors are numbers of
  records (`Places`); what was printed rises and is not past the cursor, or past
  the batch under way (`InOrderSoFar`); and nothing of somebody else's up to there
  is missing but for what `--mention-only` left out (`CompleteSoFar`). The last two
  need the first: a batch leaves nothing out of print and `hid` because the lines
  kept are all of them. A post that is appended meanwhile
  gets a number above every cursor, by `SeqIncreasing`.
- `ThreadImplementsRoom`: each step of `ThreadWait` is one of `Room` or a stutter.
  A post is in the room once its line is finished, and it is the nth that is; so
  the mapping needs that the nth finished record has seq n (`Ranked`), and that
  the one being written will be next (`NextRank`), which says more than
  that seqs increase.

`InboxProofs`, for any number of handlers, starts, clears and waits. The invariant
`InboxInv` is the type invariant and four parts.
- `Times` orders the readings of the clock: stamps differ, the inbox is in order
  but for what is in `late`, and no cursor or baseline is in the future. As long as
  there is no cursor file no listener has been up and nothing has come
  (`FirstCursor`), and the wait that makes the file is the first to deliver. `Taken`: a wait that delivers has something to
  deliver.
- `BacklogKept`: `MissedOnlyIfLate` speaks of the cursor in the file.
  A wait holds one it has read and a batch that will raise it, so `NoneLost` says
  the same of the cursor it began from, and of the batch that what it is about to
  pass is in it. Messages that came before `made`
  are set aside throughout.
- `PrintedOnce`: `NoneAgain` says that whatever was printed is not past the cursor,
  but for what follows a late message. A cursor of 0 is one that was read
  truncated, and excused in `hurt`.

`PresenceProofs`
- `FollowKept`: `Spec => []FollowStands`, for any number of members and posters.
  `FollowStands` speaks of the file while nobody has its lock, so the inductive
  invariant `Kept` adds what holds in between: a process has the lock exactly
  while the file is its to fill (`HolderFills`), and what it is about to write
  differs from what the members want in its own entry only (`DraftStands`).
  Taking the lock turns the first into the second, filling the file turns it
  back, a death with the lock sets `wiped`, and every other step is shown to
  leave all of it alone (`Beside`, `StepOfPresence`). That a lock is exclusive is
  assumed here; see `FileLock` for where it is.
- `LastWordStands`: `Spec => []LeftMeansLeft`. The file changes before the event
  that says so is in the log. `Told` says of a member whose event is yet to come
  that the file agrees with that event, and of any other that it agrees with the
  last one. It is inductive only while a member's leave and its own arrival do
  not overlap (`OneAtATime`), which is what `crossed` excuses.
- `OneSpeaker`: `Spec => []NoSecondSpeaker`, for any number of posters. A poster
  computes its targets from what it read before, so `Heard` keeps of each post:
  a call that was polling when it was appended has had its pid in the file
  ever since, it is in what the poster has read, and its member is none of
  the targets.
- `FanoutTypeCorrect`: the type invariant of `Fanout`, with that of `Presence`. That
  what is recorded of a push is about a record of the log needs `PostsOK`: the post
  of a poster in progress is in it.

`PushBrakeProofs`
- `BrakeTypeCorrect`: the type invariant, with `Numbered`: a post in progress
  has a seq. That the state read by a poster is of the file's type needs it.
- `HeldPostsCounted`: `Spec => []HeldAreCounted`. The inductive invariant adds
  `ReadIsCurrent`: unless two posters decide at once or the file was not read, what
  a deciding poster has read is still what the file says.
- `QueueShallow`: `Spec => []QueueStaysShallow`. A post is let go on a look at the
  queue and gets there later, so `FewSetOut` counts what waits together with what
  is on the way: at most the depth for mentions less one, and two per poster, for
  its two tries. When a poster sets out, few wait, and no more are on the way than
  two per poster; a try moves one from the one to the other. `UrgentKnown` says
  that a post whose push no brake decided is in `free`.

`DeliveryProofs`, about `Registry` and `Delivery`, for any number of runs of
`listen`, of helpers, senders and keys, and of kills. Neither the
`Bounds` of the run `peers` nor its two listeners limit them. What each action
does to each variable is stated once (`...Effect`), then that no step takes back a
pid, a begun registration or an entry that was taken over (`AllGoForward`), and
then, part by part, that every step keeps the invariant.
- `RegistryInvariant`: `Spec => []RegInv`. `Ground` needs nothing but itself: types; a
  pid is one running listener's (`PidsDiffer`); which sections there are, whose and
  for what (`MainSections`, `HandlerSections`, `HelperSections`); and the order in
  which listeners began to register (`BeganOnce`). From it follow, lock or no
  lock, that an entry is at its owner's paths, that a socket is that of its pid,
  and that prune works on sessions that are over. `Files` is what a section that
  ran without the lock may break: sections exclude each other; the one that
  is registering began last (`Latest`), so that it overwrites the older ones and
  not they it; a section has checked the copy that it is about to write
  (`Checked`), so that an update that goes on after its session was taken over
  brings nothing back; what a removal has passed is gone (`Removed`); a key without
  a json file is one that its owner has yet to remove (`KeyOwned`); and the entry
  of a listener that is up is there (`Present`).
- `ReachableWhileUp` follows from `Present` and `Sockets`, `NothingLeftBehind` from
  `Removed`, `KeyOwned` and `Sockets`, `NamesApart` from `NamesKept` and `Present` (a
  listener that looks for a name finds the entry of one that is up, and
  of as many names as there are listeners one is free, `FreeNameIsFree`),
  `StatusIsTold` from `StatusKept` and `UnreadKnown`.
- `DeliveryInvariant`: `Spec => []DelInv`. For each message, `Handing` says when it has
  not been handed over at a stage, and when at most once, however many tries there
  were, `Addressed` that the session found has
  registered and at which path, and `Finding` that the token read and the
  socket reached are that session's unless it has ended or was taken over, since a
  sender reads one after the other without the lock.
- `HandedOverOnce` follows from `Handing`; `ToldIsRight` from `Handing` and `Finding`.
  `RegTypeCorrect`, `DeliveryTypeCorrect`: the types.

`BridgeProofs`, for any number of records, messages, runs, deaths of the child
and failing writes, any replay and any number of retries. The positions are not
bounded by a constant but by the thread and the updates, which grow; so the
first half of each step is that what was covered stays so (`Grow`, `DealtKept`,
`DealtUpdatesKept`).
- `BridgeTypeCorrect`: the type invariant.
- `NothingSkippedEver`: `NothingSkipped` speaks of the positions in memory only. A
  restart takes over the file's, so `PlaceInv` and `CoverUpdatesInv` say the same
  of those; `ReadLine` raises a position to the line it reads, so `LineInv` says
  it of every line before the one being worked on, and with it `OutInv`, that
  the record in hand is the last line read and nothing is read from a child
  that has not begun. For the messages `CoverUpdatesInv` says it of the batch and
  of what Telegram has forgotten, since a poll without an offset begins there.
- `RepeatedOnlyIfCutEver`: the invariants `ShownInv` and `PostedInv` add that what
  arrived once is past, about to be marked, or was cut; then a second arrival
  can only be of the latter, because what is taken up is not past (`OutInv`,
  `PollInv`). `OffInv` says that between runs memory is the file, and so a start
  does not set a position back.
- `OncePerRunEver`: a count of arrivals alone is not inductive, since a child that
  is started again prints what was relayed. `CountInv` says that a record past
  the last relayed one and not in hand has what appeared of it from earlier runs
  only, and that the one in hand has appeared once per try besides; what is in
  hand is past that position because `ReadLine` leaves out what is not. `TurnInv`
  is the same of the messages and their offset. Neither speaks of the file, so
  that failing writes do not matter until the next run.

`JoinProofs`, for any number of posts, keys, pickers and failing ticks. Most steps
touch neither the posts nor the positions; `MainStep`, `PollerStep` and `GoneStep`
say so of them once.
- `ShownOnceEver`: `CountsInv` says that nothing past `last_seq_box` has been
  printed, and that what one of the threads is about to print has not been either
  and is not past it. The two cannot be the same post, since the poller takes
  up what others wrote and the main thread what the person did.
- `UnshownOnlyIfEver`: the poller skips what is not past `last_seq_box`, so
  `PassedInv` says of that, too, and not only of what the poller has passed, that
  it was printed or is in `hidden` or `dropped`.
- `LeftMeansLeftEver`: unless it outlived the wait, the poller is off when the main
  thread leaves, and nothing turns it on again; what is left is a leave that
  marked nothing.
- `StaysOnScreenEver`: what a thread clears is as many rows as `_printed_visual_rows`
  says, or its own `rows`; `TailBlank` says that these are blank, whichever of its
  writes the other thread is between, until a post arrives beside a composition
  of several rows. So a clearing takes no post away (`AllShown`): what was printed
  is on the screen, on the one beneath it while a picker has its own, or `gone`.
- `JoinTypeCorrect`: the type invariant. Every row is blank or a post of the thread,
  which only grows (`RowsInv`).

`JoinProofs`, about `LineEditor`, for any letters, names and pastes and any number of
keys.
- `EditInvariant`: the cursor is in its line, and what Tab has put in stands between
  the start of its token and the cursor (`TabOK`). Each method has a lemma that says
  what it does to the text before and after the cursor (`AppendCharDoes` and the
  like). `EditTypeCorrect` is part of it.
- `CompletedMentioned`: `TabOK` says that the sign and the completed name stand before
  the cursor for as long as a completion is under way, whichever of the names
  it shows; a part of it that ends before another character is read as far as
  that, and of a whole name the property's condition says that it ends there.
- `KeysEditAtCursor`: the text is its lines joined by line breaks, that is, every line but
  the last with its break (`Broken`), and then the last (`TextIs`); so an edit of the
  last line is an edit of the text's end (`TextGoesOn`).

`JoinProofs`, about `Mentions`, for any post.
- `QuotedSilent`: `FencedExists` and `InlineExists` show that the scanners, which are
  recursive functions over a post's positions, are defined, so that each of their
  positions may be read off. A fence that is longer than every run of the post
  is ended by its own end only (`BlockSilent`), and so is a span by a run of its own
  length (`SpanSilent`); what is left is the name behind it (`OnlyName`).

`JoinProofs`, about `MarkerBlock`, for any lines that the user may write and any
number of them. `MaxLines` bounds the file in the model; no proof uses it.
- `WordsKept`: `BlockInv` says that what is in the file, and what a setup under way is
  about to write, has the user's words in their order, unless there was a
  mishap. A removal has to show it of `CutOut`, which joins the lines around the
  block, and of `Collapsed`, which takes blank lines only; both are about a file that
  is what is before a block, the block, and what is after (`Framed`, `AroundBlock`).
- `InstallStable`: an install frames the block with what was around it, or with the
  cleaned file before it, and the first block found in that is the one it wrote
  (`InstallIs`); with no stray marker around it, a removal leaves no marker at all
  (`FramedClean`, `RemovedIs`).

Two arguments by the size of a number recur, and use the library's theorems about
finite sets: every set of numbers that is not empty has a least one (`Least`), by
the well-foundedness of the subset ordering, and a set of numbers has one
increasing enumeration. The theorems about text need induction over numbers
and sequences. The library's induction theorems take an operator as a
parameter, which the provers cannot instantiate; so induction is stated of sets,
and proved from `Least`: a set of numbers that has 0 and, with a number, the next is
all of `Nat` (`CountingUp`), and a set of sequences over `X` that has `<< >>` and, with a
sequence, all its extensions by one element is all of `Seq(X)` (`SeqInduction`). What
`FlattenSeq`, `Picked` and `Purged` make of a sequence that is appended to follows.

Only model-checked:
- everything under fairness (`DeadOwnerReclaimed`, both `WakesUp`,
  `MentionArrives`, `Relaying`, `LooksAtAll`), since neither liveness nor
  `ENABLED` is in reach of the proof system;
- the three runs that show a disagreement.

Every other property of a run is a theorem, and so is every type invariant.

## Disagreements with the documentation

With a run that shows them, and quoted in `PROJECT.json`:

1. `lock_posix`. On POSIX two live processes can hold the lock, with no process
   dying: A finds the file, its owner releases it, A's open fails and counts as
   stale, B creates its lock, A unlinks it (`compat.py:316-319`).
2. `inbox_overtaken`. A message stamped first and appended second is not
   returned by any wait when one has read the inbox in between (`inbox.py:23`).
3. `join_skips`. Somebody posts, and the person posts before the poller's next
   look: the own post raises `last_seq_box` past the other one, which is never
   printed (`join.py:255`).

Met while modelling, where the models follow the code and a property names the
exception:

- If the last record but a torn one is longer than what the backward read
  happens to cover, numbering restarts at 1 (`thread.py:89`; the constant
  `TailMisses`, which the theorems about seqs assume to be false).
- The post after a torn record is written onto its line, is acknowledged and is
  never read (`thread.py:115`; counted by `LossBounded`).
- A first wait that finds no cursor file writes the time into it (`inbox.py:76-79`)
  even where the listener, which is waited for as soon as it is registered, has
  marked the session's start since: a message that came in between is not
  returned, though "a message sent before the first 'wait' still counts"
  (`inbox.py:97-98`; `made` in `MissedOnlyIfLate`).
- With `--mention-only` and no `--context` the cursor passes posts that are not
  printed (`cli.py:344-349`), which a line with their number says; join and leave
  events are not in the number (`thread.py:708`; `hid` in `NothingSkipped`).
- A push whose queue took the message before an error is tried again by the pid
  and delivers twice (`sender.py:54`, `thread.py:284`; `unlogged` in `HandedOnce`).
- A listener that cannot write its inbox drops what it has read, and the sender
  has printed "Delivered" (`listener.py:249`; `dropped` in `ToldRight`).
- "Left the thread" is printed also when the leave could not be marked
  (`join.py:264-265`; `unmarked` in `LeftMeansLeft`).
- A name with a character that no mention is read from, a space for one, is
  offered for completion, and the post mentions the part before it, perhaps
  somebody else's name (`join.py:40-42`, `thread.py:200`; `Readable`).
- A peek that has polled for the last time is still running when a poster looks:
  the mention is neither polled nor pushed (`thread.py:250`; in `excused`).
- The docstring of the bridge's `_State` (`telegram_bridge.py:106`) has a restart
  neither repeat nor skip messages; what can be
  repeated and what can be skipped is in `doubt`, `unsaved`, `named` and `early`.
- A post that arrives beside a composition of several rows overwrites a row of
  it, and the redraw may clear a post above (`join.py:126-132`; `tall`).
- The invite picker clears the posts on the screen on Windows, and elsewhere takes
  along what a poller past its look at the pause printed (`picker.py:21`,
  `join.py:154`; `gone`).
- Backspace at the start of a composition's last line removes that line with
  what is in it (`rawline.py:66-76`; an alternative of `EditsAtCursor`).
- A marker in the user's own text is taken for the block's and what is between
  goes with it (`setup_rules.py:67-68`, `121`; `Stray` and `mishap`).

## Not modelled, and why

- What only moves bytes or shows them: setup screens (but for what the picker does
  to the join view's), status dashboards,
  harness detection, the update check, argument parsing, file names and frames,
  colouring and search of the log views, the language server's HTTP. None keeps
  state that another part reads.
- The sockets, named pipes and process checks of `compat.py` beside the lock
  file: system calls, modelled by what their callers see of them.
- Claude Code sessions as receivers: their own program reads the socket. There the
  sender writes the inbox line itself, after the frames are out (`sender.py:207`):
  an error of it is an error of the send, as with Codex's queue, and a push is then
  tried again.
- An update of the status that fails in a handler, which goes on
  (`listener.py:334-344`).
- The text of the brake's note and how many lines it tells Codex to read
  (`thread.py:410`); the messages of an invitation; the wording of every error.
- A dead owner's pid that a stranger's process has taken.

Modelled, with no property of its own: on Windows a release leaves its lock file
behind while a contender has it open (`compat.py:333`, `UnlinkOwn`), and a push that
fails after the count of held posts was cleared (`thread.py:412`, `Go`, `Fail`).

## What is left

Theorems: that the brake's decision is the `Hold` of `Fanout`, and a sender's hand-over
its `Deliver`, which is argued here and not stated as a refinement. Models: the
invitation's messages, the note of the brake. A property: what a lock that a
release on Windows leaves behind may delay.
