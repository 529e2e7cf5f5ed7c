-------------------------- MODULE MCModelEvidence --------------------------
(* Bounds for ModelEvidence. *)
EXTENDS ModelEvidence

Data(train, calibration, test, real) ==
  [groups |-> [train |-> train, validation |-> {}, calibration |-> calibration, test |-> test],
   real |-> real]

\* A dataset, the same material split anew, and a leaking one.
MCDatasets ==
  {Data({1}, {2, 3}, {4}, TRUE), Data({2}, {1}, {4}, TRUE), Data({2}, {1}, {1}, TRUE)}
MCScores == 0..2
MCEdgeLists == {<<0, 1, 2>>}
\* The later export loses a source.
MCScore == << <<0, 1, 2, 1>>, <<0, 1, NoScore, 1>> >>
MCRoom == [report |-> 2, rows |-> 2, candidate |-> 2, evaluation |-> 1, parity |-> 1]
=============================================================================
