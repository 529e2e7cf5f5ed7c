---------------------------- MODULE SourceFence ----------------------------
(***************************************************************************)
(* What the live controller promises about evidence                        *)
(* (docs/implementation/LIVE_REFERENCE_MIC_FREEZE.md, "Atomic source       *)
(* switch"): every opening, switch, pause, stop and restart starts a new   *)
(* epoch and takes down what is shown; what is shown is evidence of the    *)
(* epoch it is shown in; after a stop nothing is shown and no epoch        *)
(* starts.  Threads, tokens, locks and workers do not occur at this level. *)
(***************************************************************************)
EXTENDS Naturals

VARIABLES
  epoch, \* the source generation the session claims
  shown, \* the epoch whose evidence is shown as fresh, or 0
  ended  \* the session was stopped

fence == <<epoch, shown, ended>>

FInit == epoch = 0 /\ shown = 0 /\ ended = FALSE

\* A new source, or none for now.
Advance == ~ended /\ epoch' > epoch /\ shown' = 0 /\ ended' = FALSE

\* Fresh evidence of the source in use.
Show == ~ended /\ shown' = epoch /\ UNCHANGED <<epoch, ended>>

\* Evidence expires or is taken down.
Withdraw == ~ended /\ shown' = 0 /\ UNCHANGED <<epoch, ended>>

End == ~ended /\ epoch' > epoch /\ shown' = 0 /\ ended' = TRUE

FSpec == FInit /\ [][Advance \/ Show \/ Withdraw \/ End]_fence
=============================================================================
