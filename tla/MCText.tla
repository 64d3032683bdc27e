------------------------------- MODULE MCText -------------------------------
(* The three modules about what a user writes, one at a time: while one    *)
(* goes on, the others stay as they begin.                                 *)
EXTENDS LineEditor, Mentions, MarkerBlock

TextInit == EditInit /\ MsgInit /\ BlockInit

TextNext ==
  \/ MsgInit /\ BlockInit /\ EditNext /\ UNCHANGED <<post, blockVars>>
  \/ EditInit /\ BlockInit /\ MsgNext /\ UNCHANGED <<editVars, blockVars>>
  \/ EditInit /\ MsgInit /\ BlockNext /\ UNCHANGED <<editVars, post>>

TextSpec == TextInit /\ [][TextNext]_<<editVars, post, blockVars>>

(* A name, one that is cut short after it, and one with a mark.            *)
SomeNames == <<<<"a">>, <<"a", " ", "a">>, <<"a", ".">>>>
SomePastes == {<<<<"a">>, << >>>>, <<<<" ">>>>}

(* A blank line, one with a word, the markers, and either with a word.     *)
SomeLines ==
  {<< >>, <<"x">>, <<Start>>, <<End>>, <<"x", Start>>, <<End, "y">>}
=============================================================================
