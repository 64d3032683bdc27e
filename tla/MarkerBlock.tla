---------------------------- MODULE MarkerBlock ----------------------------
(***************************************************************************)
(* agent_peer/setup_rules.py: the block of rules that setup keeps in a     *)
(* harness's instruction file, between two marker lines, among what the    *)
(* user has written there.  The file is a sequence of lines that are all   *)
(* ended; a line is a sequence of words, of which Start and End are the    *)
(* markers and Rule the body of the block.                                 *)
(***************************************************************************)
EXTENDS Naturals, Sequences, FiniteSets, SequencesExt, Selection

CONSTANTS Absent,
          UserLines,    \* the lines that the user may write
          MaxLines,     \* bound: lines of the file when the user adds one or setup runs
          MaxHits       \* bound: setups that are killed or overtaken by the user

Start == "start"
End == "end"
Rule == "rule"
Markers == {Start, End}

Word == Markers \cup {Rule} \cup UNION {ToSet(l) : l \in UserLines}

ASSUME BlockAssumption ==
  /\ UserLines \subseteq Seq(Word) /\ Absent \notin Seq(Seq(Word))
  /\ << >> \in UserLines /\ \A l \in UserLines : Rule \notin ToSet(l)
  /\ {MaxLines, MaxHits} \subseteq Nat

VARIABLES
  file,         \* the instruction file, or Absent
  setup,        \* inject or remove under way: pc, and what it will write
  theirs,       \* the words of the user, as they last saved them
  mishap,       \* since then a setup was killed as it wrote, or had read the
                \* file before that, or found a stray marker beside the block
  hits

blockVars == <<file, setup, theirs, mishap, hits>>

Idle == [pc |-> "idle", text |-> << >>]
Block == <<<<Start>>, <<Rule>>, <<End>>>>

BlockInit ==
  /\ file = Absent /\ setup = Idle /\ theirs = << >> /\ mishap = FALSE /\ hits = 0

-----------------------------------------------------------------------------
(* The patterns                                                            *)

(* MUTANT of Ends: in either order.                                        *)
EndsAnywhere(f, i) == {j \in DOMAIN f : f[j] = <<End>>}

(* _valid_block_regex: from the first start line to the first end line     *)
(* after it that is not the next one.                                      *)
Ends(f, i) == {j \in i + 2 .. Len(f) : f[j] = <<End>>}
Starts(f) == {i \in DOMAIN f : f[i] = <<Start>> /\ Ends(f, i) # {}}
HasBlock(f) == Starts(f) # {}

(* The pattern of remove_marker_block: the start marker may end a line,    *)
(* and the end marker begin one.                                           *)
LooseEnds(f, i) == {j \in i + 2 .. Len(f) : f[j] # << >> /\ Head(f[j]) = End}
LooseStarts(f) ==
  {i \in DOMAIN f : f[i] # << >> /\ Last(f[i]) = Start /\ LooseEnds(f, i) # {}}

-----------------------------------------------------------------------------
(* What inject_marker_block and remove_marker_block make of a file         *)

(* MUTANT of Unmarked: a line with a marker in it goes.                    *)
UnmarkedNothing(l, m) == IF m \notin ToSet(l) THEN l ELSE << >>

(* _clean_orphan_line, of every line, for one marker and then the other.   *)
Unmarked(l, m) == Purged(l, {m})
CleanedOf(f, m) ==
  LET kept == Purged(f, {<<m>>}) IN [i \in DOMAIN kept |-> Unmarked(kept[i], m)]
Cleaned(f) == CleanedOf(CleanedOf(f, Start), End)

(* A blank line between what there is and the block.                       *)
Separator(f) ==
  IF f = << >> \/ (Len(f) > 1 /\ Last(f) = << >>) THEN << >> ELSE << << >> >>

Injected(f) ==
  IF f = Absent THEN Block
  ELSE IF HasBlock(f)
  THEN LET i == Min(Starts(f))
       IN SubSeq(f, 1, i - 1) \o Block \o SubSeq(f, Min(Ends(f, i)) + 1, Len(f))
  ELSE Cleaned(f) \o Separator(Cleaned(f)) \o Block

(* Three line breaks in a row become two.                                  *)
Collapsed(f) ==
  Picked(f, {i \in DOMAIN f : ~(i >= 3 /\ f[i] = << >> /\ f[i - 1] = << >>)})

(* What stands before the start marker on its line is joined to what       *)
(* follows the end marker, on its line or on the next.                     *)
CutOut(f) ==
  LET i == Min(LooseStarts(f))
      j == Min(LooseEnds(f, i))
      before == Front(f[i])
      after == Tail(f[j])
      rest == SubSeq(f, j + 1, Len(f))
      lines == IF after # << >> \/ (before # << >> /\ rest = << >>)
               THEN <<before \o after>> \o rest
               ELSE IF before = << >> THEN rest
               ELSE <<before \o Head(rest)>> \o Tail(rest)
  IN SubSeq(f, 1, i - 1) \o lines

Removed(f) == IF HasBlock(f) THEN Collapsed(CutOut(f)) ELSE Cleaned(f)

-----------------------------------------------------------------------------
(* The user                                                                *)

Words(f) == IF f = Absent THEN << >> ELSE Purged(FlattenSeq(f), Markers \cup {Rule})

(* What is the user's: all that is not between the markers of a block.     *)
Theirs(f) ==
  IF f = Absent \/ ~HasBlock(f) THEN Words(f)
  ELSE LET i == Min(Starts(f))
       IN Words(SubSeq(f, 1, i - 1) \o SubSeq(f, Min(Ends(f, i)) + 1, Len(f)))

Insert(f, k, l) == SubSeq(f, 1, k) \o <<l>> \o SubSeq(f, k + 1, Len(f))
Without(f, k) == SubSeq(f, 1, k - 1) \o SubSeq(f, k + 1, Len(f))

(* They add a line or take one away; a setup under way has read the file.  *)
Edit ==
  /\ \/ \E l \in UserLines :
          LET f == IF file = Absent THEN << >> ELSE file IN
          Len(f) < MaxLines /\ \E k \in 0 .. Len(f) : file' = Insert(f, k, l)
     \/ file # Absent /\ \E k \in DOMAIN file : file' = Without(file, k)
  /\ theirs' = Theirs(file')
  /\ mishap' = (setup # Idle)
  /\ IF setup = Idle THEN UNCHANGED hits ELSE hits < MaxHits /\ hits' = hits + 1
  /\ UNCHANGED setup

-----------------------------------------------------------------------------
(* install_rules and remove_rules, for one harness                         *)

(* Another marker where the patterns take it for one of the block.         *)
Stray(f) ==
  f # Absent /\ HasBlock(f) /\
    \/ \E i \in DOMAIN f : Start \in ToSet(f[i]) /\ i # Min(Starts(f))
    \/ \E j \in DOMAIN f : End \in ToSet(f[j]) /\ j # Min(Ends(f, Min(Starts(f))))

Read(text) ==
  /\ setup = Idle /\ (file # Absent => Len(file) <= MaxLines)
  /\ setup' = [pc |-> "open", text |-> text]
  /\ mishap' = (mishap \/ Stray(file))
  /\ UNCHANGED <<file, theirs, hits>>

InjectBlock == Read(Injected(file))
RemoveBlock == file # Absent /\ Removed(file) # file /\ Read(Removed(file))

(* open(path, "w"), and then the text.                                     *)
Truncate ==
  /\ setup.pc = "open"
  /\ file' = << >>
  /\ setup' = [setup EXCEPT !.pc = "write"]
  /\ UNCHANGED <<theirs, mishap, hits>>

WriteAll ==
  /\ setup.pc = "write"
  /\ file' = setup.text
  /\ setup' = Idle
  /\ UNCHANGED <<theirs, mishap, hits>>

Kill ==
  /\ setup.pc # "idle" /\ hits < MaxHits
  /\ hits' = hits + 1
  /\ setup' = Idle
  /\ mishap' = (mishap \/ setup.pc = "write")
  /\ UNCHANGED <<file, theirs>>

BlockNext ==
  \/ Edit
  \/ InjectBlock
  \/ RemoveBlock
  \/ Truncate
  \/ WriteAll
  \/ Kill

BlockSpec == BlockInit /\ [][BlockNext]_blockVars

-----------------------------------------------------------------------------

(* Whatever setup did to the file, what the user wrote outside of the      *)
(* block is in it, in order, but for a mishap (setup_rules.py:64-152).     *)
Kept == setup = Idle /\ ~mishap => Theirs(file) = theirs

(* An install leaves a complete block, so a second one changes nothing,    *)
(* and a removal after it leaves no marker, and every word of the user     *)
(* (setup_rules.py:37-47, 76-152).                                         *)
InstallIsStable ==
  LET installed == Injected(file)
      removed == Removed(installed)
  IN /\ HasBlock(installed) /\ Injected(installed) = installed
     /\ ~Stray(file) => /\ ToSet(FlattenSeq(removed)) \cap Markers = {}
                        /\ Words(removed) = Theirs(file)
=============================================================================
