---------------------------- MODULE MCLiveAudio ----------------------------
(***************************************************************************)
(* Small instances of LiveAudio for TLC.  In the liveness instance no      *)
(* generation is above MaxGeneration.                                      *)
(***************************************************************************)
EXTENDS LiveAudio

CONSTANT MaxGeneration

FairSpec == Spec /\ Fairness(1..MaxGeneration)
=============================================================================
