-------------------------- MODULE MCMeshReputation --------------------------
(* Two processes that gossip about one subject or two.                     *)
EXTENDS MeshReputation, TLC

CONSTANTS p1, p2, x

MCSeeded == {<<p1, x>>}
MCAllSeeded == Procs \X Subjects
=============================================================================
