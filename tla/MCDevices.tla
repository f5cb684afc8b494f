------------------------------ MODULE MCDevices ------------------------------
(***************************************************************************)
(* The clock and the console, which share no state, in one instance: the   *)
(* initial state settles which of them a behaviour is about.               *)
(***************************************************************************)
EXTENDS Clock, Console

VARIABLE about

MCInit    == ClockInit /\ ConsoleInit /\ about \in {"clock", "console"}
MCClock   == about = "clock" /\ ClockNext /\ UNCHANGED consoleVars
MCConsole == about = "console" /\ ConsoleNext /\ UNCHANGED clockVars
MCNext    == (MCClock \/ MCConsole) /\ UNCHANGED about
MCSpec    == MCInit /\ [][MCNext]_<<clockVars, consoleVars, about>>
=============================================================================
