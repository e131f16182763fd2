------------------------------- MODULE WebClock -------------------------------
(***************************************************************************)
(* The time that the web server's parts read: time.monotonic() and         *)
(* time.time(), taken to advance together and never to be set back.        *)
(***************************************************************************)
EXTENDS Integers

CONSTANT MaxTime    \* bound of the clock

ASSUME ClockAssumption == MaxTime \in Nat

VARIABLE clock
=============================================================================
