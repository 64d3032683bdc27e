------------------------------ MODULE Mentions ------------------------------
(***************************************************************************)
(* agent_peer/thread.py: whom a post mentions.  A post is a sequence of    *)
(* lines, a line a sequence of tokens: a run of n equal backticks or       *)
(* tildes, an @name, or Plain, any other text.                             *)
(***************************************************************************)
EXTENDS Naturals, Sequences, FiniteSets, SequencesExt

CONSTANTS Who,          \* the names that posts mention
          Runs,         \* the lengths of runs
          MaxTokens     \* bound: tokens of a post

ASSUME MentionsAssumption == Runs \subseteq Nat \ {0} /\ MaxTokens \in Nat

Backtick == "backtick"
Tilde == "tilde"
Run(char, n) == [char |-> char, n |-> n, name |-> ""]
Name(who) == [char |-> "@", n |-> 0, name |-> who]
Plain == [char |-> "-", n |-> 0, name |-> ""]
Tokens == {Run(c, n) : c \in {Backtick, Tilde}, n \in Runs} \cup {Name(w) : w \in Who} \cup {Plain}

IsRun(t, char) == t.char = char
Opens(l) == l # << >> /\ l[1].char \in {Backtick, Tilde} /\ l[1].n >= 3

(* MUTANT of Closes: any fence of the same character closes.               *)
ClosesAny(l, fence) == Len(l) = 1 /\ l[1].char = fence.char /\ l[1].n >= 3

Closes(l, fence) == Len(l) = 1 /\ l[1].char = fence.char /\ l[1].n >= fence.n

(* _strip_fenced_code_blocks: what follows line i - 1, without its blocks. *)
StripFencedCodeBlocks(ls) ==
  LET from[i \in 1 .. Len(ls) + 1] ==
        IF i > Len(ls) THEN << >>
        ELSE IF ~Opens(ls[i]) THEN <<ls[i]>> \o from[i + 1]
        ELSE LET closers == {j \in i + 1 .. Len(ls) : Closes(ls[j], ls[i][1])}
             IN IF closers = {} THEN << >> ELSE from[Min(closers) + 1]
  IN from[1]

Pairs(opener, run) == run.char = Backtick /\ run.n = opener.n

(* _strip_inline_code_spans, of the tokens of all lines.                   *)
StripInlineCodeSpans(ts) ==
  LET from[i \in 1 .. Len(ts) + 1] ==
        IF i > Len(ts) THEN << >>
        ELSE LET closers == {j \in i + 1 .. Len(ts) : Pairs(ts[i], ts[j])}
             IN IF IsRun(ts[i], Backtick) /\ closers # {} THEN from[Min(closers) + 1]
                ELSE <<ts[i]>> \o from[i + 1]
  IN from[1]

StripCodeSpans(ls) == StripInlineCodeSpans(FlattenSeq(StripFencedCodeBlocks(ls)))

(* _mention_tokens.                                                        *)
MentionTokens(ls) == {t.name : t \in {x \in ToSet(StripCodeSpans(ls)) : IsRun(x, "@")}}

-----------------------------------------------------------------------------
(* Any post, written a token or a line at a time; two runs of the same     *)
(* character are not next to each other.                                   *)

VARIABLE post

MsgInit == post = << << >> >>

Apart(l, t) == l # << >> /\ t.n > 0 => Last(l).char # t.char

MsgNext ==
  /\ Len(FlattenSeq(post)) + Len(post) <= MaxTokens
  /\ \/ post' = Append(post, << >>)
     \/ \E t \in Tokens :
          /\ Apart(Last(post), t)
          /\ post' = Append(Front(post), Append(Last(post), t))

MsgSpec == MsgInit /\ [][MsgNext]_post

-----------------------------------------------------------------------------

(* A post that is quoted whole mentions nobody, and what is written after  *)
(* the quotation is read: in a block whose fence is longer than any run in *)
(* the post, and, if the post is one line, in an inline span by a run of   *)
(* one or two that it does not have; three or more at the start of a line  *)
(* are a fence, so that those are not asked of (thread.py:129-208).        *)
QuotedIsSilent ==
  LET lengths == {t.n : t \in ToSet(FlattenSeq(post))}
      longer == Max(lengths \cup {2}) + 1
      others == {n \in {1, 2} : n \notin lengths}
  IN \A w \in Who :
       /\ \A c \in {Backtick, Tilde} :
            MentionTokens(<< <<Run(c, longer)>> >> \o post \o
                          << <<Run(c, longer)>>, <<Name(w)>> >>) = {w}
       /\ Len(post) = 1 => \A n \in others :
            MentionTokens(<< <<Run(Backtick, n), Plain>> \o post[1] \o
                             <<Plain, Run(Backtick, n), Name(w)>> >>) = {w}
=============================================================================
