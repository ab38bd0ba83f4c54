------------------------------ MODULE MCFat32 ------------------------------
(* Fat32 on small volumes.  The .cfg files choose the volume, the workload  *)
(* and the faults; the definitions here are the values a .cfg cannot write. *)
EXTENDS Fat32Inv, Fat32Store, TLC

\* Writes within one cluster; and writes of one cluster, of two, and from the
\* first into the second.
OneClusterWrites == {<<0, 1>>, <<0, 2>>}
LongWrites == {<<0, 1>>, <<0, 3>>, <<1, 2>>}

Symmetry == Permutations(Name)
=============================================================================
