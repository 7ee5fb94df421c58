---------------------------- MODULE MCStartupFile ----------------------------
(* Small instances of StartupFile for TLC. *)
EXTENDS StartupFile

CONSTANTS p1, p2

OldBlock == <<"begin", "nl", "old", "nl", "body", "nl", "end", "nl">>
ShortBlock == <<"begin", "nl", "end", "nl">>
X == <<"x", "nl">>

MCTexts ==
  {<<>>, <<"nl">>, <<"x">>, X, X \o <<"nl">>, X \o <<"nl">> \o block, OldBlock \o X,
   X \o ShortBlock \o X, <<"begin", "nl", "x">>, <<"x", "begin", "nl">>,
   <<"generated", "nl">>, <<"own", "nl", "old", "nl", "body", "nl">>}
MCSymmetry == Permutations(Runs)
=============================================================================
