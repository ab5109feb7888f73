---------------------------- MODULE MCTreeSearch ----------------------------
(* Model-checking instance of TreeSearch: the samples of the hidden state hold two *)
(* equal cards, to play as a, or one of them and two others, to play as b.         *)
EXTENDS TreeSearch

CONSTANTS a, b

MCRoot  == {<<a, 1>>, <<a, 2>>}
MCLists == {MCRoot, {<<a, 1>>, <<b, 1>>, <<b, 2>>}}
=============================================================================
