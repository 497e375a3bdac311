---------------------------- MODULE MCLogMerger ----------------------------
(* Two partitions of the day, p1 and p2, and m that both are merged into:  *)
(* two files in p1 and one in p2, or two in p1 only.                       *)
EXTENDS LogMerger, TLC

CONSTANTS r1, r2, r3, p1, p2, m, e1, e2

RowsPartition == r1 :> p1 @@ r2 :> p1 @@ r3 :> p2
OnePartition == r1 :> p1 @@ r2 :> p1
OneMerged == [p \in Partitions |-> m]

(* One merge is like another, and so are the rows of a partition.  What is *)
(* recorded of an execution decides no later step.                         *)
Symmetric == Permutations({r1, r2}) \cup Permutations({e1, e2})
Unreported == <<dataVars, pc, jobVars>>
=============================================================================
