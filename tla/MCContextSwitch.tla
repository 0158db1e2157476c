-------------------------- MODULE MCContextSwitch --------------------------
(***************************************************************************)
(* ContextSwitch for TLC, with a bound on the contexts of all stacks: one  *)
(* process has been signalled at the entry point of a request within which *)
(* a keyboard interrupt came, its handler makes a request or returns, and  *)
(* each of the two others waits in one context.                            *)
(***************************************************************************)
EXTENDS ContextSwitch

FewContexts == MapThenSumSet(LAMBDA p : Len(stack[p]), Proc) <= 7
=============================================================================
