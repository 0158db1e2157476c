------------------------------ MODULE MCConsole ------------------------------
(***************************************************************************)
(* A small screen for TLC: the texts wrap, scroll, go back and tabulate.   *)
(***************************************************************************)
EXTENDS Console, TLC

CONSTANTS p, q

MCChar == {Blank, "a", "k", "x", "y", "z", "u", "v", "w", "nl", "cr", "bs", "tab"}
MCUserText == {<<"a", "tab">>, <<"nl", "bs">>}
MCKernelText == {<<"tab", "k", "bs", "cr">>}
MCBootText == {<<"x", "y", "z", "u", "w", "nl", "v">>}
Symmetric == Permutations(Printer)
=============================================================================
