----------------------------- MODULE LineEditor -----------------------------
(***************************************************************************)
(* agent_peer/rawline.py, LineEditor and the keys its readers turn into    *)
(* calls of it: the composition of one message in lines, with the cursor   *)
(* in the last one, and the completion of @mentions, whose candidates the  *)
(* poller of join.py replaces at any time.  A character is a member of     *)
(* Chars; a name is any sequence of them, since candidates are the names   *)
(* of sessions and of a room's members as they are (join.py:34-42).        *)
(***************************************************************************)
EXTENDS Naturals, Sequences, SequencesExt, Selection

CONSTANTS Letters,      \* the characters that an @mention is read over
          Marks,        \* those of Letters that may also end a sentence
          Odd,          \* further characters
          Names,        \* the names one may mention, sorted
          Pastes,       \* what may be pasted: sequences of lines
          MaxEdits      \* bound: keys and pastes

Space == " "
At == "@"
Backslash == "\\"
Break == "\n"
Quotes == {"backtick", "tilde"}
Chars == Letters \cup Odd \cup Quotes \cup {Space, At, Backslash}

ASSUME EditorAssumption ==
  /\ Marks \subseteq Letters /\ Letters \cap (Odd \cup Quotes \cup {Space, At, Backslash}) = {}
  /\ Names \in Seq(Seq(Chars) \ {<< >>})
  /\ Pastes \subseteq Seq(Seq(Chars)) \ {<< >>}
  /\ MaxEdits \in Nat

VARIABLES lines,        \* the composition
          col,          \* cursor_col
          tab,          \* _completion_state: start, matches, index; none is NoTab
          candidates,   \* mention_candidates: indices of Names
          done,         \* read_message has returned
          keys          \* keys so far

editVars == <<lines, col, tab, candidates, done, keys>>

NoTab == [start |-> 0, matches |-> << >>, index |-> 0]

EditInit ==
  /\ lines = << << >> >> /\ col = 0 /\ tab = NoTab
  /\ candidates = DOMAIN Names
  /\ done = FALSE /\ keys = 0

line == Last(lines)
Upto(l, n) == SubSeq(l, 1, n)
Past(l, n) == SubSeq(l, n + 1, Len(l))
Before == Upto(line, col)
After == Past(line, col)
WithLine(l) == Append(Front(lines), l)

(* text: the lines, with a line break between one and the next.            *)
Text(ls) == FlattenSeq([i \in DOMAIN ls |-> IF i < Len(ls) THEN Append(ls[i], Break) ELSE ls[i]])

KeyPressed ==
  /\ ~done /\ keys < MaxEdits
  /\ keys' = keys + 1
  /\ UNCHANGED candidates

Edited(ls, at) == lines' = ls /\ col' = at /\ UNCHANGED done

(* MUTANT of AppendChar: the completion goes on after another key.         *)
AppendCharKeeps(c) ==
  /\ KeyPressed
  /\ Edited(WithLine(Append(Before, c) \o After), col + 1)
  /\ UNCHANGED tab

AppendChar(c) ==
  /\ KeyPressed
  /\ Edited(WithLine(Append(Before, c) \o After), col + 1)
  /\ tab' = NoTab

(* Before the first column of a later line, that line goes.                *)
Backspace ==
  /\ KeyPressed
  /\ \/ col > 0 /\ Edited(WithLine(Front(Before) \o After), col - 1)
     \/ col = 0 /\ Len(lines) > 1 /\ Edited(Front(lines), Len(lines[Len(lines) - 1]))
  /\ tab' = NoTab

IsSpace(l, i) == l[i] = Space

(* Where move_word_left and move_word_right go.                            *)
WordStart(l, i) == i = 0 \/ (i > 0 /\ IsSpace(l, i))
WordEnd(l, i) == i = Len(l) \/ (i < Len(l) /\ IsSpace(l, i + 1))
InWord(l, from, to) == {i \in from .. to : ~IsSpace(l, i)}
WordLeftOf(l, i) ==
  IF InWord(l, 1, i) = {} THEN 0
  ELSE Max({j \in 0 .. Max(InWord(l, 1, i)) - 1 : WordStart(l, j)})
WordRightOf(l, i) ==
  IF InWord(l, i + 1, Len(l)) = {} THEN Len(l)
  ELSE Min({j \in Min(InWord(l, i + 1, Len(l))) .. Len(l) : WordEnd(l, j)})

Move ==
  /\ KeyPressed
  /\ \E to \in {IF col > 0 THEN col - 1 ELSE 0, IF col < Len(line) THEN col + 1 ELSE col,
                WordLeftOf(line, col), WordRightOf(line, col)} :
       Edited(lines, to)
  /\ tab' = NoTab

(* Alt+Enter or Shift+Enter, wherever the cursor is.                       *)
NewLine ==
  /\ KeyPressed
  /\ Edited(Append(lines, << >>), 0)
  /\ tab' = NoTab

(* The start of the token the cursor is in, if it is an @token.            *)
TokenStart == Max({i \in 0 .. col : WordStart(line, i)})
InMention == TokenStart < col /\ line[TokenStart + 1] = At

Matches ==
  LET prefix == SubSeq(line, TokenStart + 2, col)
  IN Picked([i \in DOMAIN Names |-> i], {i \in candidates : IsPrefix(prefix, Names[i])})

Chosen(t) == Names[t.matches[t.index]]

(* MUTANT of Completed: what follows the cursor is gone.                   *)
CompletedToEnd(t) ==
  /\ tab' = t
  /\ Edited(WithLine(Upto(line, t.start) \o <<At>> \o Chosen(t)), t.start + 1 + Len(Chosen(t)))

Completed(t) ==
  /\ tab' = t
  /\ Edited(WithLine(Upto(line, t.start) \o <<At>> \o Chosen(t) \o After),
            t.start + 1 + Len(Chosen(t)))

(* complete_mention: the first Tab takes the matches of now, a further one *)
(* goes through the same.                                                  *)
CompleteMention ==
  /\ KeyPressed
  /\ \/ /\ tab = NoTab /\ InMention /\ Matches # << >>
        /\ Completed([start |-> TokenStart, matches |-> Matches, index |-> 1])
     \/ /\ tab # NoTab
        /\ Completed([tab EXCEPT !.index = (@ % Len(tab.matches)) + 1])

PasteExtend(p) ==
  LET first == Before \o p[1]
      ls == IF Len(p) = 1 THEN WithLine(first) ELSE Front(lines) \o <<first>> \o Tail(p)
  IN /\ KeyPressed
     /\ Edited(Append(Front(ls), Last(ls) \o After), Len(Last(ls)))
     /\ tab' = NoTab

Escape ==
  /\ KeyPressed
  /\ Edited(<< << >> >>, 0)
  /\ tab' = NoTab

(* Enter: a backslash at the end of the last line asks for another line.   *)
EnterKey ==
  /\ KeyPressed
  /\ IF line # << >> /\ Last(line) = Backslash
     THEN /\ Edited(Append(WithLine(Front(line)), << >>), 0)
          /\ tab' = NoTab
     ELSE done' = TRUE /\ UNCHANGED <<lines, col, tab>>

(* Ctrl+C, or Ctrl+D on an empty composition.                              *)
Abandon ==
  /\ KeyPressed
  /\ done' = TRUE
  /\ UNCHANGED <<lines, col, tab>>

(* join.py:169-171, in the poller: others come and go.                     *)
Refresh ==
  /\ ~done
  /\ candidates' \in SUBSET DOMAIN Names
  /\ UNCHANGED <<lines, col, tab, done, keys>>

EditNext ==
  \/ \E c \in Chars : AppendChar(c)
  \/ Backspace
  \/ Move
  \/ NewLine
  \/ CompleteMention
  \/ \E p \in Pastes : PasteExtend(p)
  \/ Escape
  \/ EnterKey
  \/ Abandon
  \/ Refresh

EditSpec == EditInit /\ [][EditNext]_editVars

-----------------------------------------------------------------------------

EditTypeOK ==
  /\ lines \in Seq(Seq(Chars)) \ {<< >>}
  /\ col \in 0 .. Len(line)
  /\ tab # NoTab => tab.start < col /\ tab.index \in DOMAIN tab.matches /\ ToSet(tab.matches) \subseteq DOMAIN Names
  /\ candidates \subseteq DOMAIN Names

(* What follows the cursor stays, and before it a key adds, or takes one   *)
(* character, or changes the token of the completion; but a new line       *)
(* begins below, and the backspace that removes a line removes what is in  *)
(* it (rawline.py:66-76, 107-110, 112-156, 306-322).                       *)
EditAtCursor ==
  LET before == Text(WithLine(Before)) before2 == Text(WithLine(Before))' IN
  \/ lines' = lines
  \/ lines' = << << >> >>
  \/ /\ After' = After
     /\ \/ IsPrefix(before, before2)
        \/ before2 = Front(before)
        \/ tab' # NoTab /\ IsPrefix(Text(WithLine(Upto(line, tab'.start))), before2)
  \/ Text(lines)' = Append(Text(lines), Break)
  \/ Text(lines)' = Append(Front(Text(lines)), Break) /\ Last(line) = Backslash
  \/ lines' = Front(lines) /\ col = 0

EditsAtCursor == [][EditAtCursor]_editVars

(* The regular expression of _mention_tokens reads @ and as many letters   *)
(* as follow, and takes the marks at their end for those of a sentence.    *)
NameEnds(l, k, n) ==
  \E j \in k .. Len(l) :
    /\ \A i \in k + 1 .. j : l[i] \in Marks
    /\ j < Len(l) => l[j + 1] \notin Letters
    /\ j > k => Last(n) \notin Marks

(* It is asked here only of a composition in which no code is quoted.      *)
Mentions(l, n) ==
  \E i \in 1 .. Len(l) - Len(n) : SubSeq(l, i, i + Len(n)) = <<At>> \o n /\ NameEnds(l, i + Len(n), n)

Quoting == \E i \in DOMAIN lines : ToSet(lines[i]) \cap Quotes # {}

(* What is read of a name: its letters up to the first other character.    *)
Readable(n) == Upto(n, Max({k \in 0 .. Len(n) : \A i \in 1 .. k : n[i] \in Letters}))

(* Of the name that Tab has put in, the post mentions what is read of it:  *)
(* the name, if it is letters throughout and what follows ends it, else    *)
(* the part before its first other character (so that after @John Doe it   *)
(* is John who is mentioned).  This leaves out compositions with a         *)
(* backtick or a tilde, in which the name may stand in code, and then      *)
(* mentions nobody (rawline.py:112-139, thread.py:197-203).                *)
CompletedIsMentioned ==
  LET n == Readable(Chosen(tab)) IN
  tab # NoTab /\ ~Quoting /\ n # << >> /\ (n = Chosen(tab) => NameEnds(line, col, n)) => Mentions(line, n)
=============================================================================
