---------------------------- MODULE MCDispatcher ----------------------------
(***************************************************************************)
(* Small instances of Dispatcher for TLC.                                  *)
(***************************************************************************)
EXTENDS Dispatcher

\* The bad signal numbers of the instances: one past the last one.
MCBadSig == {32}

\* Sleeps: none, one tick, two ticks.
MCSleepLen == {0, 10, 25}

MCEax == {7}

\* The requests of programs that use no signals.
MCPlainCall == {"create", "getpid", "yield", "stop", "sleep", "timer", "puts", "bad",
                "keyboard", "device"}

\* Two signals at a time are being handled.
FewFrames == MapThenSumSet(LAMBDA s : Len(frames[s]), DOMAIN frames) <= 2
=============================================================================
