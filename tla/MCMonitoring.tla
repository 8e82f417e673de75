---------------------------- MODULE MCMonitoring ----------------------------
(***************************************************************************)
(* Instances of Monitoring for TLC.  Tasks are interchangeable.            *)
(***************************************************************************)
EXTENDS Monitoring, TLC

TaskSymmetry == Permutations(Tasks)
=============================================================================
