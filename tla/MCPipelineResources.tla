------------------------ MODULE MCPipelineResources ------------------------
(* Instance of PipelineResources for TLC: pipelines, tables and locations are  *)
(* alike; the pipelines share both their table and their location, or neither. *)
(* Behaviours are followed up to two accidents (a stale write, a stale         *)
(* decision or an overlap counts as two), the fewer the more stacks there are  *)
(* and the more invocations are under way, which are never more than two.      *)
EXTENDS PipelineResources, TLC

Symmetric == Permutations(Pipelines) \cup Permutations(Tables) \cup Permutations(Locations)

Accidents ==
    failures + Cardinality(swallowed) + 2 * Cardinality(raced) + 2 * Cardinality(overlapped)
Started == Cardinality({j \in Jobs : stack[j] # "absent"})
UnderWay == Cardinality({j \in Jobs : Busy(j)})

Distinct(placing) == Cardinality({placing[p] : p \in Pipelines})

FewAccidents ==
    /\ Distinct(table) = Distinct(location)
    /\ Accidents <= 2 /\ UnderWay <= 2
    /\ Accidents + Started + UnderWay <= 6
=============================================================================
