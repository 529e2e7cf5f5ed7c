-------------------------- MODULE MCCommandLedger --------------------------
(***************************************************************************)
(* Small instances of CommandLedger for TLC: two commands bound to one     *)
(* state, and a key used again for another command, bound to the next one. *)
(***************************************************************************)
EXTENDS CommandLedger

CONSTANTS k, l, pause, dismiss

MCRequests ==
  {[key |-> k, expected |-> 0, body |-> pause],
   [key |-> l, expected |-> 0, body |-> dismiss],
   [key |-> l, expected |-> 1, body |-> pause]}
=============================================================================
