------------------------- MODULE MCObjectMigration -------------------------
(* Model checking of ObjectMigration: invocations are interchangeable.     *)
EXTENDS ObjectMigration, TLC

WorkerSymmetry == Permutations(Workers)
=============================================================================
