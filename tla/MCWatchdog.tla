----------------------------- MODULE MCWatchdog -----------------------------
(* Small instances of Watchdog. *)
EXTENDS Watchdog

CONSTANTS e1, e2

TwoExecs == {e1, e2}
=============================================================================
