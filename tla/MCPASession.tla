---------------------------- MODULE MCPASession ----------------------------
(***************************************************************************)
(* Small instances of PASession for TLC.                                   *)
(***************************************************************************)
EXTENDS PASession

MCLevels == {0, 1, 2}
MCTwoLevels == {0, 1}
MCSigned == {-1, 0, 1}
=============================================================================
