---------------------------- MODULE MCLogLoader ----------------------------
(* Model checking of LogLoader: the jobs whose order matters.              *)
EXTENDS LogLoader, TLC

MCInitJobs == <<"TEMPLATE", "ALIAS">>
ContainerSymmetry == Permutations(Containers) \union Permutations(Events)
=============================================================================
