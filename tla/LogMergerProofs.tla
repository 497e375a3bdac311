-------------------------- MODULE LogMergerProofs --------------------------
(***************************************************************************)
(* What holds of LogMerger for every number of rows, partitions and        *)
(* executions: it is type correct, and unless a job masks the failure of an*)
(* object, a row can be queried or is in a backup and no query counts it   *)
(* twice, whatever fails and whichever Lambdas of an answered job are still*)
(* at work.  Of a day that is merged once: step 5 drops only partitions    *)
(* that were emptied, and a merge that succeeds leaves every row visible.  *)
(* What the early answer of step 2 (or 3) breaks is in each property.      *)
(*                                                                         *)
(* A row that is in no backup is still where LogProcessor inserted it, and *)
(* in a partition of the catalog (RowsInv).  What could hide it is step 5. *)
(* JobInv says why it does not: until its end the job of step 2 has every  *)
(* object of a partition it touches in its hands, and after it no object   *)
(* that LogProcessor inserted is left in a partition of the backup.        *)
(***************************************************************************)
EXTENDS LogMerger, FiniteSetTheorems, TLAPS

Plain(r) == <<PartitionOf[r], {r}>>
IsMerged(o) == MergedOf[Partition(o)] = Partition(o)
Shaped(O) == \A o \in O : IsMerged(o) \/ \E r \in inserted : o = Plain(r)

(* The partition of r is among those of the objects.                        *)
Meets(r, O) == \E o \in O : Partition(o) = PartitionOf[r]

Saved(r) == \E e \in Executions : \E o \in original[e] : r \in o[2]
Excused(r) == \E e \in Executions : MisledAtBackup(e) /\ Meets(r, original[e])

RowsInv ==
    \A r \in inserted :
        Saved(r) \/ Excused(r) \/ (Plain(r) \in delta /\ PartitionOf[r] \in table)

ShapeInv ==
    /\ Shaped(delta)
    /\ \A e \in Executions :
          /\ Shaped(original[e])
          /\ \A j \in Jobs : Shaped(todo[e][j]) /\ Shaped(copied[e][j])
          /\ \A o \in merge[e] : IsMerged(o)

JobInv(e) ==
    /\ copied[e]["merge"] = {} /\ copied[e]["backup"] \subseteq original[e]
    /\ pc[e] = "new" => job[e] = "merge"
    /\ pc[e] \in {"new", "scan"} => Left(e, job[e]) = {}
    /\ job[e] = "merge" =>
          original[e] = {} /\ Left(e, "backup") = {} /\ Left(e, "restore") = {}
    /\ job[e] # "merge" => todo[e]["merge"] = {}
    /\ job[e] = "backup" => Left(e, "restore") = {}
    /\ job[e] = "backup" /\ pc[e] = "scan" => original[e] = {}
    /\ job[e] = "backup" /\ pc[e] = "work" =>
          \A r \in Rows :
             Plain(r) \in delta /\ Meets(r, Left(e, "backup") \cup original[e])
                => Plain(r) \in Left(e, "backup")
    /\ pc[e] \in {"add", "drop"} => job[e] = "restore"
    /\ job[e] = "restore" /\ ~MisledAtBackup(e) =>
          /\ Left(e, "backup") = {}
          /\ pc[e] \in {"scan", "work", "add", "drop"} =>
                \A r \in Rows : Plain(r) \in delta => ~Meets(r, original[e])

IInv == TypeOK /\ RowsInv /\ ShapeInv /\ \A e \in Executions : JobInv(e)

-----------------------------------------------------------------------------
(* What each action does to its execution, and that it leaves the others    *)
(* alone.                                                                   *)
Kept(e) == pc'[e] = pc[e] /\ job'[e] = job[e] /\ early'[e] = early[e]

OthersKept(e) ==
    \A f \in Executions :
        f # e => /\ Kept(f) /\ todo'[f] = todo[f] /\ copied'[f] = copied[f]
                 /\ merge'[f] = merge[f] /\ original'[f] = original[f] /\ log'[f] = log[f]

OtherJobsKept(e, j) ==
    \A i \in Jobs : i # j => todo'[e][i] = todo[e][i] /\ copied'[e][i] = copied[e][i]

Advanced(e) ==
    \/ job[e] = "merge" /\ job'[e] = "backup" /\ pc'[e] = "scan"
    \/ job[e] = "backup" /\ job'[e] = "restore" /\ pc'[e] = "scan"
    \/ job[e] = "restore" /\ job'[e] = "restore" /\ pc'[e] = "add"

ToldNothing(e) ==
    \/ job[e] = "merge" /\ job'[e] = "merge" /\ pc'[e] = "complete"
    \/ job[e] # "merge" /\ Advanced(e)

Misled(e, j) ==
    /\ pc[e] = "work" /\ job[e] = j
    /\ early'[e] = early[e] \cup {j}
    /\ ToldNothing(e)

LEMMA NoObjectsDoes ==
    ASSUME TypeOK, NEW e \in Executions, NoObjects(e)
    PROVE  /\ ToldNothing(e)
           /\ \A f \in Executions : f # e => pc'[f] = pc[f] /\ job'[f] = job[f]
           /\ pc' \in [Executions -> Steps] /\ job' \in [Executions -> Jobs]
  BY DEF NoObjects, NextStep, Goto, ToldNothing, Advanced, TypeOK, Steps, Jobs

LEMMA ComparesDoes ==
    ASSUME TypeOK, NEW e \in Executions, NEW j \in Jobs,
           Misleads(e, j)
    PROVE  /\ Misled(e, j)
           /\ \A f \in Executions : f # e => Kept(f)
           /\ pc' \in [Executions -> Steps] /\ job' \in [Executions -> Jobs]
           /\ early' \in [Executions -> SUBSET Jobs]
  <1>1. /\ pc[e] = "work" /\ job[e] = j /\ early' = [early EXCEPT ![e] = @ \cup {j}]
        /\ NoObjects(e)
    BY DEF Misleads, Waits
  <1>2. early[e] \cup {j} \in SUBSET Jobs BY DEF TypeOK
  <1>3. /\ early' \in [Executions -> SUBSET Jobs] /\ early'[e] = early[e] \cup {j}
        /\ \A f \in Executions : f # e => early'[f] = early[f]
    BY <1>1, <1>2 DEF TypeOK
  <1> QED BY <1>1, <1>3, NoObjectsDoes DEF Misled, Kept

LEMMA ScanDoes ==
    ASSUME TypeOK, NEW e \in Executions, Scan(e)
    PROVE  /\ UNCHANGED <<inserted, delta, table, merge, original, copied, early, log, notified>>
           /\ pc[e] = "scan" /\ todo'[e][job[e]] = Source(e, job[e])
           /\ OthersKept(e) /\ OtherJobsKept(e, job[e])
           /\ \/ Source(e, job[e]) = {} /\ ToldNothing(e)
              \/ Source(e, job[e]) # {} /\ pc'[e] = "work" /\ job'[e] = job[e]
           /\ pc' \in [Executions -> Steps] /\ job' \in [Executions -> Jobs]
           /\ todo' = [todo EXCEPT ![e][job[e]] = Source(e, job[e])]
  <1>1. /\ UNCHANGED <<inserted, delta, table, merge, original, copied, early, log, notified>>
        /\ pc[e] = "scan" /\ todo' = [todo EXCEPT ![e][job[e]] = Source(e, job[e])]
    BY DEF Scan, dataVars, logVars
  <1>2. job[e] \in Jobs /\ todo[e] \in [Jobs -> SUBSET Object] BY DEF TypeOK
  <1>3. /\ \A f \in Executions : f # e => todo'[f] = todo[f]
        /\ todo'[e][job[e]] = Source(e, job[e])
        /\ \A i \in Jobs : i # job[e] => todo'[e][i] = todo[e][i]
    BY <1>1, <1>2 DEF TypeOK
  <1>4. CASE Source(e, job[e]) = {}
    <2>1. NoObjects(e) BY <1>4 DEF Scan
    <2> QED BY <1>1, <1>3, <1>4, <2>1, NoObjectsDoes DEF OthersKept, OtherJobsKept, Kept
  <1>5. CASE Source(e, job[e]) # {}
    <2>1. pc' = [pc EXCEPT ![e] = "work"] /\ job' = job BY <1>5 DEF Scan, Goto
    <2>2. /\ pc' \in [Executions -> Steps] /\ pc'[e] = "work"
          /\ \A f \in Executions : f # e => pc'[f] = pc[f]
      BY <2>1 DEF TypeOK, Steps
    <2> QED BY <1>1, <1>3, <1>5, <2>1, <2>2 DEF OthersKept, OtherJobsKept, Kept, TypeOK
  <1> QED BY <1>4, <1>5

LEMMA ScanFailsDoes ==
    ASSUME TypeOK, NEW e \in Executions, NEW S \in SUBSET Source(e, job[e]), ScanFails(e, S)
    PROVE  /\ UNCHANGED <<inserted, delta, table, merge, original, job, copied, early, log,
                          notified>>
           /\ "QueryError" \in Faults
           /\ pc[e] = "scan" /\ pc'[e] = "notify" /\ todo'[e][job[e]] = S
           /\ OthersKept(e) /\ OtherJobsKept(e, job[e])
           /\ pc' \in [Executions -> Steps]
           /\ todo' = [todo EXCEPT ![e][job[e]] = S]
  <1>1. /\ UNCHANGED <<inserted, delta, table, merge, original, job, copied, early, log,
                       notified>>
        /\ "QueryError" \in Faults
        /\ pc[e] = "scan" /\ todo' = [todo EXCEPT ![e][job[e]] = S]
        /\ pc' = [pc EXCEPT ![e] = "notify"]
    BY DEF ScanFails, Goto, dataVars, logVars
  <1>2. job[e] \in Jobs /\ todo[e] \in [Jobs -> SUBSET Object] BY DEF TypeOK
  <1>3. /\ \A f \in Executions : f # e => todo'[f] = todo[f] /\ pc'[f] = pc[f]
        /\ todo'[e][job[e]] = S /\ pc'[e] = "notify" /\ pc' \in [Executions -> Steps]
        /\ \A i \in Jobs : i # job[e] => todo'[e][i] = todo[e][i]
    BY <1>1, <1>2 DEF TypeOK, Steps
  <1> QED BY <1>1, <1>3 DEF OthersKept, OtherJobsKept, Kept

LEMMA MergeDoes ==
    ASSUME TypeOK, NEW e \in Executions, NEW S \in SUBSET todo[e]["merge"], MergeBatch(e, S)
    PROVE  /\ UNCHANGED <<inserted, delta, table, original, copied, log, notified>>
           /\ S # {} /\ S \subseteq delta
           /\ \E p \in Partitions :
                /\ \A o \in S : MergedOf[Partition(o)] = p
                /\ merge'[e] = merge[e] \cup {<<p, RowsIn(S)>>}
                /\ merge' = [merge EXCEPT ![e] = @ \cup {<<p, RowsIn(S)>>}]
           /\ todo'[e]["merge"] = todo[e]["merge"] \ S
           /\ OthersKept(e) /\ OtherJobsKept(e, "merge")
           /\ Kept(e) \/ Misled(e, "merge")
           /\ pc' \in [Executions -> Steps] /\ job' \in [Executions -> Jobs]
           /\ early' \in [Executions -> SUBSET Jobs]
           /\ todo' = [todo EXCEPT ![e]["merge"] = @ \ S]
  <1>1. /\ UNCHANGED <<inserted, delta, table, original, copied, log, notified>>
        /\ S # {} /\ S \subseteq delta
        /\ todo' = [todo EXCEPT ![e]["merge"] = @ \ S]
    BY DEF MergeBatch, AfterMerge, logVars
  <1>2. PICK p \in Partitions : /\ \A o \in S : MergedOf[Partition(o)] = p
                                /\ merge' = [merge EXCEPT ![e] = @ \cup {<<p, RowsIn(S)>>}]
    BY DEF MergeBatch
  <1>3. "merge" \in Jobs /\ todo[e] \in [Jobs -> SUBSET Object] BY DEF TypeOK, Jobs
  <1>4. /\ \A f \in Executions : f # e => todo'[f] = todo[f] /\ merge'[f] = merge[f]
        /\ todo'[e]["merge"] = todo[e]["merge"] \ S
        /\ merge'[e] = merge[e] \cup {<<p, RowsIn(S)>>}
        /\ \A i \in Jobs : i # "merge" => todo'[e][i] = todo[e][i]
    BY <1>1, <1>2, <1>3 DEF TypeOK
  <1>5. UNCHANGED <<pc, job, early>> \/ Misleads(e, "merge") BY DEF MergeBatch, ComparesEarly
  <1>6. CASE UNCHANGED <<pc, job, early>>
    BY <1>1, <1>2, <1>4, <1>6 DEF OthersKept, OtherJobsKept, Kept, TypeOK
  <1>7. CASE Misleads(e, "merge")
    BY <1>1, <1>2, <1>3, <1>4, <1>7, ComparesDoes DEF OthersKept, OtherJobsKept, Kept
  <1> QED BY <1>5, <1>6, <1>7

LEMMA CopyDoes ==
    ASSUME TypeOK, NEW e \in Executions, NEW j \in Jobs, NEW o \in todo[e][j],
           CopyObject(e, j, o)
    PROVE  /\ UNCHANGED <<inserted, table, merge, pc, job, early, log, notified>>
           /\ j \in {"backup", "restore"} /\ o \in Source(e, j) /\ o \in Object
           /\ j = "backup" => delta' = delta /\ original'[e] = original[e] \cup {o}
           /\ j = "restore" => delta' = delta \cup {o} /\ original'[e] = original[e]
           /\ todo'[e][j] = todo[e][j] \ {o} /\ copied'[e][j] = copied[e][j] \cup {o}
           /\ OthersKept(e) /\ OtherJobsKept(e, j) /\ Kept(e)
  <1>1. /\ UNCHANGED <<inserted, table, merge, pc, job, early, log, notified>>
        /\ o \in Source(e, j) /\ j # "merge"
        /\ delta' = IF j = "backup" THEN delta ELSE delta \cup {o}
        /\ original' = IF j = "backup" THEN [original EXCEPT ![e] = @ \cup {o}] ELSE original
        /\ todo' = [todo EXCEPT ![e][j] = @ \ {o}]
        /\ copied' = [copied EXCEPT ![e][j] = @ \cup {o}]
    BY DEF CopyObject, logVars
  <1>2. todo[e] \in [Jobs -> SUBSET Object] /\ copied[e] \in [Jobs -> SUBSET Object]
    BY DEF TypeOK
  <1>3. /\ \A f \in Executions : f # e => todo'[f] = todo[f] /\ copied'[f] = copied[f]
        /\ todo'[e][j] = todo[e][j] \ {o} /\ copied'[e][j] = copied[e][j] \cup {o}
        /\ \A i \in Jobs : i # j => todo'[e][i] = todo[e][i] /\ copied'[e][i] = copied[e][i]
    BY <1>1, <1>2 DEF TypeOK
  <1>4. /\ \A f \in Executions : f # e => original'[f] = original[f]
        /\ j = "backup" => original'[e] = original[e] \cup {o}
        /\ j # "backup" => original'[e] = original[e]
    BY <1>1 DEF TypeOK
  <1>5. j \in {"backup", "restore"} /\ o \in Object BY <1>1, <1>2 DEF Jobs
  <1> QED BY <1>1, <1>3, <1>4, <1>5 DEF OthersKept, OtherJobsKept, Kept

LEMMA DeleteDoes ==
    ASSUME TypeOK, NEW e \in Executions, NEW j \in Jobs, NEW o \in copied[e][j],
           DeleteObject(e, j, o)
    PROVE  /\ UNCHANGED <<inserted, table, original, todo, log, notified>>
           /\ j = "backup" => delta' = delta \ {o} /\ merge'[e] = merge[e]
           /\ j # "backup" => delta' = delta /\ merge'[e] = merge[e] \ {o}
           /\ copied'[e][j] = copied[e][j] \ {o}
           /\ OthersKept(e) /\ OtherJobsKept(e, j)
           /\ Kept(e) \/ Misled(e, j)
           /\ pc' \in [Executions -> Steps] /\ job' \in [Executions -> Jobs]
           /\ early' \in [Executions -> SUBSET Jobs]
  <1>1. /\ UNCHANGED <<inserted, table, original, todo, log, notified>>
        /\ delta' = IF j = "backup" THEN delta \ {o} ELSE delta
        /\ merge' = IF j = "backup" THEN merge ELSE [merge EXCEPT ![e] = @ \ {o}]
        /\ copied' = [copied EXCEPT ![e][j] = @ \ {o}]
    BY DEF DeleteObject, logVars
  <1>2. copied[e] \in [Jobs -> SUBSET Object] BY DEF TypeOK
  <1>3. /\ \A f \in Executions : f # e => copied'[f] = copied[f]
        /\ copied'[e][j] = copied[e][j] \ {o}
        /\ \A i \in Jobs : i # j => copied'[e][i] = copied[e][i]
    BY <1>1, <1>2 DEF TypeOK
  <1>4. /\ \A f \in Executions : f # e => merge'[f] = merge[f]
        /\ j = "backup" => merge'[e] = merge[e]
        /\ j # "backup" => merge'[e] = merge[e] \ {o}
    BY <1>1 DEF TypeOK
  <1>5. UNCHANGED <<pc, job, early>> \/ Misleads(e, j) BY DEF DeleteObject, ComparesEarly
  <1>6. CASE UNCHANGED <<pc, job, early>>
    BY <1>1, <1>3, <1>4, <1>6 DEF OthersKept, OtherJobsKept, Kept, TypeOK
  <1>7. CASE Misleads(e, j)
    BY <1>1, <1>3, <1>4, <1>7, ComparesDoes DEF OthersKept, OtherJobsKept, Kept
  <1> QED BY <1>5, <1>6, <1>7

LEMMA FailDoes ==
    ASSUME TypeOK, NEW e \in Executions, NEW j \in Jobs, NEW o \in Left(e, j),
           BatchFails(e, j, o)
    PROVE  /\ UNCHANGED <<inserted, delta, table, merge, original, log, notified>>
           /\ todo'[e][j] = todo[e][j] \ {o} /\ copied'[e][j] = copied[e][j] \ {o}
           /\ OthersKept(e) /\ OtherJobsKept(e, j)
           /\ \/ /\ job'[e] = job[e] /\ early'[e] = early[e]
                 /\ IF pc[e] = "work" /\ job[e] = j THEN pc'[e] = "notify"
                                                    ELSE pc'[e] = pc[e]
              \/ "Masked" \in Faults /\ Kept(e)
              \/ Misled(e, j)
           /\ pc' \in [Executions -> Steps] /\ job' \in [Executions -> Jobs]
           /\ early' \in [Executions -> SUBSET Jobs]
           /\ todo' = [todo EXCEPT ![e][j] = @ \ {o}]
           /\ copied' = [copied EXCEPT ![e][j] = @ \ {o}]
  <1>1. /\ UNCHANGED <<inserted, delta, table, merge, original, log, notified>>
        /\ todo' = [todo EXCEPT ![e][j] = @ \ {o}]
        /\ copied' = [copied EXCEPT ![e][j] = @ \ {o}]
    BY DEF BatchFails, dataVars, logVars
  <1>2. todo[e] \in [Jobs -> SUBSET Object] /\ copied[e] \in [Jobs -> SUBSET Object]
    BY DEF TypeOK
  <1>3. /\ \A f \in Executions : f # e => todo'[f] = todo[f] /\ copied'[f] = copied[f]
        /\ todo'[e][j] = todo[e][j] \ {o} /\ copied'[e][j] = copied[e][j] \ {o}
        /\ \A i \in Jobs : i # j => todo'[e][i] = todo[e][i] /\ copied'[e][i] = copied[e][i]
    BY <1>1, <1>2 DEF TypeOK
  <1>4. \/ Goto(e, AfterFailure(e, j)) /\ UNCHANGED <<job, early>>
        \/ "Masked" \in Faults /\ UNCHANGED <<pc, job, early>>
        \/ Misleads(e, j)
    BY DEF BatchFails
  <1>5. CASE Goto(e, AfterFailure(e, j)) /\ UNCHANGED <<job, early>>
    <2>1. /\ pc' \in [Executions -> Steps] /\ pc'[e] = AfterFailure(e, j)
          /\ \A f \in Executions : f # e => pc'[f] = pc[f]
      BY <1>5 DEF Goto, AfterFailure, TypeOK, Steps
    <2> QED
      BY <1>1, <1>3, <1>5, <2>1
      DEF OthersKept, OtherJobsKept, Kept, AfterFailure, Waits, TypeOK
  <1>6. CASE "Masked" \in Faults /\ UNCHANGED <<pc, job, early>>
    BY <1>1, <1>3, <1>6 DEF OthersKept, OtherJobsKept, Kept, TypeOK
  <1>7. CASE Misleads(e, j)
    BY <1>1, <1>3, <1>7, ComparesDoes DEF OthersKept, OtherJobsKept, Kept
  <1> QED BY <1>4, <1>5, <1>6, <1>7

LEMMA SucceedsDoes ==
    ASSUME TypeOK, NEW e \in Executions, JobSucceeds(e)
    PROVE  /\ UNCHANGED <<inserted, delta, table, merge, original, todo, copied, early, log,
                          notified>>
           /\ pc[e] = "work" /\ Left(e, job[e]) = {} /\ Advanced(e)
           /\ OthersKept(e)
           /\ pc' \in [Executions -> Steps] /\ job' \in [Executions -> Jobs]
  BY DEF JobSucceeds, JobDone, NextStep, Advanced, OthersKept, Kept, Goto, dataVars, moveVars,
         logVars, TypeOK, Steps, Jobs

(* The other steps look at no object, but for the catalog.                  *)
Passes(e) ==
    \/ JobSilent(e) \/ StateFails(e) \/ Complete(e) \/ Notify(e) \/ UpdateFailed(e)
    \/ \E P \in SUBSET Partitions :
          AddPartitions(e, P) \/ DropPartitions(e, P) \/ UpdateFails(e, P)

Ends == {"unanswered", "drop", "complete", "notify", "fail", "ended"}

LEMMA PassDoes ==
    ASSUME TypeOK, NEW e \in Executions, Passes(e)
    PROVE  /\ UNCHANGED <<inserted, delta, merge, original, job, todo, copied, early>>
           /\ pc'[e] \in Ends
           /\ pc[e] = "scan" => job[e] = "merge"
           /\ pc'[e] = "drop" => pc[e] = "add"
           /\ pc[e] \notin {"new", "unanswered", "ended"}
           /\ OthersKept(e)
           /\ pc' \in [Executions -> Steps] /\ table' \in SUBSET Partitions
           /\ log' \in [Executions -> {"None", "Running", "Succeeded", "Failed"}]
           /\ notified' \in SUBSET Executions
  <1> USE DEF Goto, dataVars, jobVars, moveVars, logVars, Ends
  <1>1. CASE JobSilent(e) \/ StateFails(e)
    BY <1>1 DEF JobSilent, StateFails, OthersKept, Kept, TypeOK, Steps
  <1>2. CASE Complete(e) \/ Notify(e) \/ UpdateFailed(e)
    BY <1>2 DEF Complete, Notify, UpdateFailed, OthersKept, Kept, TypeOK, Steps
  <1>3. ASSUME NEW P \in SUBSET Partitions,
               AddPartitions(e, P) \/ DropPartitions(e, P) \/ UpdateFails(e, P)
        PROVE  /\ UNCHANGED <<inserted, delta, merge, original, job, todo, copied, early, log,
                              notified>>
               /\ pc[e] \in {"add", "drop"} /\ pc'[e] \in {"drop", "complete", "notify"}
               /\ pc'[e] = "drop" => pc[e] = "add"
               /\ pc' \in [Executions -> Steps] /\ table' \in SUBSET Partitions
               /\ \A f \in Executions : f # e => pc'[f] = pc[f]
    BY <1>3 DEF AddPartitions, DropPartitions, UpdateFails, TypeOK, Steps
  <1>4. CASE \E P \in SUBSET Partitions :
               AddPartitions(e, P) \/ DropPartitions(e, P) \/ UpdateFails(e, P)
    BY <1>3, <1>4 DEF OthersKept, Kept, TypeOK
  <1> QED BY <1>1, <1>2, <1>4 DEF Passes

LEMMA StartDoes ==
    ASSUME TypeOK, NEW e \in Executions, Start(e)
    PROVE  /\ UNCHANGED <<inserted, delta, table, merge, original, job, todo, copied, early,
                          notified>>
           /\ pc[e] = "new" /\ pc'[e] = "scan" /\ log'[e] = "Running"
           /\ \A f \in Executions : ~Running(f)
           /\ OthersKept(e)
           /\ pc' \in [Executions -> Steps]
           /\ log' \in [Executions -> {"None", "Running", "Succeeded", "Failed"}]
  BY DEF Start, Goto, dataVars, jobVars, moveVars, OthersKept, Kept, TypeOK, Steps

(* A step of an execution, or of the Lambdas of its jobs, is one of these.  *)
LEMMA StepCases ==
    ASSUME NEW e \in Executions, Work(e) \/ JobSilent(e) \/ StateFails(e)
    PROVE  \/ Scan(e)
           \/ \E S \in SUBSET Source(e, job[e]) : ScanFails(e, S)
           \/ \E S \in SUBSET todo[e]["merge"] : MergeBatch(e, S)
           \/ \E j \in Jobs :
                 \/ \E o \in todo[e][j] : CopyObject(e, j, o)
                 \/ \E o \in copied[e][j] : DeleteObject(e, j, o)
                 \/ \E o \in Left(e, j) : BatchFails(e, j, o)
           \/ JobSucceeds(e)
           \/ Passes(e)
  BY DEF Work, Passes

Acts(e) == Work(e) \/ JobSilent(e) \/ StateFails(e)

LEMMA NextCases ==
    ASSUME [Next]_vars
    PROVE  \/ \E p \in Partitions : Insert(p)
           \/ \E e \in Executions : Start(e) \/ Acts(e)
           \/ UNCHANGED vars
  BY DEF Next, Acts

-----------------------------------------------------------------------------
(* Types.                                                                   *)
LEMMA RowsInTyped == ASSUME NEW O \in SUBSET Object PROVE RowsIn(O) \in SUBSET Rows
  BY DEF RowsIn, Object

LEMMA PartitionsInTyped ==
    ASSUME NEW O \in SUBSET Object
    PROVE  /\ PartitionsIn(O) \in SUBSET Partitions
           /\ \A o \in O : Partition(o) \in PartitionsIn(O)
           /\ \A p \in PartitionsIn(O) : \E o \in O : Partition(o) = p
  BY DEF PartitionsIn, Partition, Object

LEMMA PlainTyped ==
    ASSUME MergerAssumption, NEW r \in Rows
    PROVE  /\ Plain(r) \in Object /\ Partition(Plain(r)) = PartitionOf[r]
           /\ ~IsMerged(Plain(r)) /\ \A n : n \in Plain(r)[2] <=> n = r
           /\ PartitionOf[r] \in Partitions
           /\ \A o : IsMerged(o) => Partition(o) # PartitionOf[r]
  BY DEF MergerAssumption, Plain, Partition, IsMerged, Object

LEMMA PartsTyped ==
    ASSUME TypeOK, NEW e \in Executions, NEW j \in Jobs
    PROVE  /\ delta \in SUBSET Object /\ original[e] \in SUBSET Object
           /\ merge[e] \in SUBSET Object /\ Source(e, j) \in SUBSET Object
           /\ todo[e][j] \in SUBSET Object /\ copied[e][j] \in SUBSET Object
           /\ Left(e, j) \in SUBSET Object /\ job[e] \in {"merge", "backup", "restore"}
  BY DEF TypeOK, Source, Left, Jobs

(* Objects that are put among, or taken from, those of a job.               *)
LEMMA JobUpdateTyped ==
    ASSUME NEW T \in [Executions -> [Jobs -> SUBSET Object]], NEW e \in Executions,
           NEW j \in Jobs, NEW O \in SUBSET Object
    PROVE  [T EXCEPT ![e][j] = O] \in [Executions -> [Jobs -> SUBSET Object]]
  OBVIOUS

LEMMA StepTyped ==
    ASSUME MergerAssumption, TypeOK, NEW e \in Executions, Acts(e)
    PROVE  TypeOK'
  <1>1. CASE Scan(e)
    <2>1. job[e] \in Jobs BY DEF TypeOK
    <2>2. Source(e, job[e]) \in SUBSET Object BY <2>1, PartsTyped
    <2>3. todo' = [todo EXCEPT ![e][job[e]] = Source(e, job[e])] BY <1>1, ScanDoes
    <2>4. todo' \in [Executions -> [Jobs -> SUBSET Object]]
      BY <2>1, <2>2, <2>3, JobUpdateTyped DEF TypeOK
    <2> QED BY <1>1, <2>4, ScanDoes DEF TypeOK
  <1>2. ASSUME NEW S \in SUBSET Source(e, job[e]), ScanFails(e, S) PROVE TypeOK'
    <2>1. job[e] \in Jobs BY DEF TypeOK
    <2>2. S \in SUBSET Object BY <2>1, PartsTyped
    <2>3. todo' = [todo EXCEPT ![e][job[e]] = S] BY <1>2, ScanFailsDoes
    <2>4. todo' \in [Executions -> [Jobs -> SUBSET Object]]
      BY <2>1, <2>2, <2>3, JobUpdateTyped DEF TypeOK
    <2> QED BY <1>2, <2>4, ScanFailsDoes DEF TypeOK
  <1>3. ASSUME NEW S \in SUBSET todo[e]["merge"], MergeBatch(e, S) PROVE TypeOK'
    <2>1. "merge" \in Jobs BY DEF Jobs
    <2>2. PICK p \in Partitions : merge' = [merge EXCEPT ![e] = @ \cup {<<p, RowsIn(S)>>}]
      BY <1>3, MergeDoes
    <2>3. S \in SUBSET Object /\ todo[e]["merge"] \ S \in SUBSET Object BY <2>1, PartsTyped
    <2>4. <<p, RowsIn(S)>> \in Object BY <2>3, RowsInTyped DEF Object
    <2>5. merge' \in [Executions -> SUBSET Object] BY <2>2, <2>4 DEF TypeOK
    <2>6. todo' = [todo EXCEPT ![e]["merge"] = todo[e]["merge"] \ S] BY <1>3, MergeDoes
    <2>7. todo' \in [Executions -> [Jobs -> SUBSET Object]]
      BY <2>1, <2>3, <2>6, JobUpdateTyped DEF TypeOK
    <2> QED BY <1>3, <2>5, <2>7, MergeDoes DEF TypeOK
  <1>4. ASSUME NEW j \in Jobs, NEW o \in todo[e][j], CopyObject(e, j, o) PROVE TypeOK'
    <2>1. /\ todo[e][j] \ {o} \in SUBSET Object /\ copied[e][j] \cup {o} \in SUBSET Object
          /\ o \in Object
      BY PartsTyped
    <2>2. /\ todo' = [todo EXCEPT ![e][j] = todo[e][j] \ {o}]
          /\ copied' = [copied EXCEPT ![e][j] = copied[e][j] \cup {o}]
      BY <1>4 DEF CopyObject
    <2>3. /\ todo' \in [Executions -> [Jobs -> SUBSET Object]]
          /\ copied' \in [Executions -> [Jobs -> SUBSET Object]]
      BY <2>1, <2>2, JobUpdateTyped DEF TypeOK
    <2>4. delta' \in SUBSET Object /\ original' \in [Executions -> SUBSET Object]
      <3>1. CASE j = "backup"
        <4>1. original' = [original EXCEPT ![e] = @ \cup {o}] /\ delta' = delta
          BY <1>4, <3>1 DEF CopyObject
        <4> QED BY <2>1, <4>1 DEF TypeOK
      <3>2. CASE j # "backup"
        <4>1. original' = original /\ delta' = delta \cup {o}
          BY <1>4, <3>2 DEF CopyObject
        <4> QED BY <2>1, <4>1 DEF TypeOK
      <3> QED BY <3>1, <3>2
    <2>5. UNCHANGED <<inserted, table, merge, pc, job, early, log, notified>>
      BY <1>4, CopyDoes
    <2> QED BY <2>3, <2>4, <2>5 DEF TypeOK
  <1>5. ASSUME NEW j \in Jobs, NEW o \in copied[e][j], DeleteObject(e, j, o) PROVE TypeOK'
    <2>1. copied[e][j] \ {o} \in SUBSET Object BY PartsTyped
    <2>2. copied' = [copied EXCEPT ![e][j] = copied[e][j] \ {o}] BY <1>5 DEF DeleteObject
    <2>3. copied' \in [Executions -> [Jobs -> SUBSET Object]]
      BY <2>1, <2>2, JobUpdateTyped DEF TypeOK
    <2>4. delta' \in SUBSET Object /\ merge' \in [Executions -> SUBSET Object]
      <3>1. CASE j = "backup"
        <4>1. merge' = merge /\ delta' = delta \ {o} BY <1>5, <3>1 DEF DeleteObject
        <4> QED BY <4>1 DEF TypeOK
      <3>2. CASE j # "backup"
        <4>1. merge' = [merge EXCEPT ![e] = @ \ {o}] /\ delta' = delta
          BY <1>5, <3>2 DEF DeleteObject
        <4> QED BY <4>1 DEF TypeOK
      <3> QED BY <3>1, <3>2
    <2>5. /\ UNCHANGED <<inserted, table, original, todo, log, notified>>
          /\ pc' \in [Executions -> Steps] /\ job' \in [Executions -> Jobs]
          /\ early' \in [Executions -> SUBSET Jobs]
      BY <1>5, DeleteDoes
    <2> QED BY <2>3, <2>4, <2>5 DEF TypeOK
  <1>6. ASSUME NEW j \in Jobs, NEW o \in Left(e, j), BatchFails(e, j, o) PROVE TypeOK'
    <2>1. /\ todo[e][j] \ {o} \in SUBSET Object /\ copied[e][j] \ {o} \in SUBSET Object
      BY PartsTyped
    <2>2. /\ todo' = [todo EXCEPT ![e][j] = todo[e][j] \ {o}]
          /\ copied' = [copied EXCEPT ![e][j] = copied[e][j] \ {o}]
      BY <1>6, FailDoes
    <2>3. /\ todo' \in [Executions -> [Jobs -> SUBSET Object]]
          /\ copied' \in [Executions -> [Jobs -> SUBSET Object]]
      BY <2>1, <2>2, JobUpdateTyped DEF TypeOK
    <2> QED BY <1>6, <2>3, FailDoes DEF TypeOK
  <1>7. CASE JobSucceeds(e) BY <1>7, SucceedsDoes DEF TypeOK
  <1>8. CASE Passes(e) BY <1>8, PassDoes DEF TypeOK
  <1> QED BY <1>1, <1>2, <1>3, <1>4, <1>5, <1>6, <1>7, <1>8, StepCases DEF Acts

LEMMA InsertInserts ==
    ASSUME MergerAssumption, TypeOK, NEW p \in Partitions, Insert(p)
    PROVE  /\ \A r \in Rows : r \in inserted' <=> r \in inserted \/ PartitionOf[r] = p
           /\ \A r \in Rows : PartitionOf[r] = p => r \notin inserted
           /\ \A o : o \in delta' <=>
                o \in delta \/ \E r \in Rows : PartitionOf[r] = p /\ o = Plain(r)
           /\ table' = table \cup {p}
           /\ UNCHANGED <<merge, original, pc, job, todo, copied, early, log, notified>>
  BY DEF Insert, Plain, jobVars, moveVars, logVars

LEMMA UnchangedVars ==
    ASSUME UNCHANGED vars
    PROVE  UNCHANGED <<inserted, delta, table, merge, original, pc, job, todo, copied, early,
                       log, notified>>
  BY DEF vars, dataVars, jobVars, moveVars, logVars

LEMMA TypeStep == MergerAssumption /\ TypeOK /\ [Next]_vars => TypeOK'
  <1> SUFFICES ASSUME MergerAssumption, TypeOK, [Next]_vars PROVE TypeOK' OBVIOUS
  <1>1. ASSUME NEW p \in Partitions, Insert(p) PROVE TypeOK'
    <2>1. inserted' \subseteq Rows BY <1>1 DEF Insert, TypeOK
    <2>2. delta' \subseteq Object BY <1>1, InsertInserts, PlainTyped DEF TypeOK
    <2> QED BY <1>1, <2>1, <2>2, InsertInserts DEF TypeOK
  <1>2. ASSUME NEW e \in Executions, Start(e) PROVE TypeOK'
    BY <1>2, StartDoes DEF TypeOK
  <1>3. CASE UNCHANGED vars BY <1>3, UnchangedVars DEF TypeOK
  <1> QED BY <1>1, <1>2, <1>3, StepTyped, NextCases

(* LogMerger's TypeOK: every object of every prefix, also of those a merge  *)
(* has just written, is of a partition and of rows that exist.              *)
THEOREM TypeCorrect == Spec => []TypeOK
  <1>1. Init => TypeOK BY DEF Init, TypeOK, Steps, Jobs
  <1>2. TypeOK /\ [Next]_vars => TypeOK' BY MergerAssumption, TypeStep
  <1> QED BY <1>1, <1>2, PTL DEF Spec

-----------------------------------------------------------------------------
(* Step by step: where the objects of each part may come from.              *)
Flows(e) ==
    /\ inserted' = inserted /\ delta' \subseteq delta \cup merge[e]
    /\ original[e] \subseteq original'[e] /\ early[e] \subseteq early'[e]
    /\ original'[e] \subseteq original[e] \cup todo[e]["backup"]
    /\ \A o \in merge'[e] : o \in merge[e] \/ IsMerged(o)
    /\ \A i \in Jobs :
          /\ todo'[e][i] \subseteq todo[e][i] \cup delta \cup merge[e]
          /\ copied'[e][i] \subseteq copied[e][i] \cup todo[e][i]
    /\ OthersKept(e)

LEMMA ObjectsFlow ==
    ASSUME MergerAssumption, TypeOK, NEW e \in Executions, Acts(e)
    PROVE  Flows(e)
  <1>1. CASE Scan(e)
    <2>1. \A i \in Jobs : Source(e, i) \subseteq delta \cup merge[e] BY DEF Source
    <2>2. job[e] \in Jobs BY DEF TypeOK
    <2> QED BY <1>1, <2>1, <2>2, ScanDoes DEF Flows, OtherJobsKept
  <1>2. ASSUME NEW S \in SUBSET Source(e, job[e]), ScanFails(e, S) PROVE Flows(e)
    <2>1. \A i \in Jobs : Source(e, i) \subseteq delta \cup merge[e] BY DEF Source
    <2>2. job[e] \in Jobs BY DEF TypeOK
    <2> QED BY <1>2, <2>1, <2>2, ScanFailsDoes DEF Flows, OtherJobsKept
  <1>3. ASSUME NEW S \in SUBSET todo[e]["merge"], MergeBatch(e, S) PROVE Flows(e)
    <2>1. PICK p \in Partitions : /\ \A o \in S : MergedOf[Partition(o)] = p
                                  /\ merge'[e] = merge[e] \cup {<<p, RowsIn(S)>>}
      BY <1>3, MergeDoes
    <2>2. "merge" \in Jobs BY DEF Jobs
    <2>3. PICK o \in S : o \in Object BY <1>3, <2>2, MergeDoes, PartsTyped
    <2>4. IsMerged(<<p, RowsIn(S)>>)
      BY <2>1, <2>3 DEF IsMerged, Partition, Object, MergerAssumption
    <2>5. /\ inserted' = inserted /\ delta' = delta /\ original' = original
          /\ copied' = copied /\ early[e] \subseteq early'[e]
          /\ todo'[e]["merge"] = todo[e]["merge"] \ S
          /\ OthersKept(e) /\ OtherJobsKept(e, "merge")
      BY <1>3, MergeDoes DEF Kept, Misled
    <2> QED BY <2>1, <2>2, <2>4, <2>5 DEF Flows, OtherJobsKept
  <1>4. ASSUME NEW j \in Jobs, NEW o \in todo[e][j], CopyObject(e, j, o) PROVE Flows(e)
    <2>1. Source(e, "restore") = merge[e] BY DEF Source
    <2> QED BY <1>4, <2>1, CopyDoes DEF Flows, OtherJobsKept
  <1>5. ASSUME NEW j \in Jobs, NEW o \in copied[e][j], DeleteObject(e, j, o) PROVE Flows(e)
    <2>1. /\ inserted' = inserted /\ delta' \subseteq delta /\ original' = original
          /\ todo' = todo /\ early[e] \subseteq early'[e] /\ merge'[e] \subseteq merge[e]
          /\ copied'[e][j] = copied[e][j] \ {o}
          /\ OthersKept(e) /\ OtherJobsKept(e, j)
      BY <1>5, DeleteDoes DEF Kept, Misled
    <2> QED BY <2>1 DEF Flows, OtherJobsKept
  <1>6. ASSUME NEW j \in Jobs, NEW o \in Left(e, j), BatchFails(e, j, o) PROVE Flows(e)
    <2>1. /\ UNCHANGED <<inserted, delta, merge, original>> /\ early[e] \subseteq early'[e]
          /\ todo'[e][j] = todo[e][j] \ {o} /\ copied'[e][j] = copied[e][j] \ {o}
          /\ OthersKept(e) /\ OtherJobsKept(e, j)
      BY <1>6, FailDoes DEF Kept, Misled
    <2> QED BY <2>1 DEF Flows, OtherJobsKept
  <1>7. CASE JobSucceeds(e) BY <1>7, SucceedsDoes DEF Flows
  <1>8. CASE Passes(e) BY <1>8, PassDoes DEF Flows
  <1> QED BY <1>1, <1>2, <1>3, <1>4, <1>5, <1>6, <1>7, <1>8, StepCases DEF Acts

LEMMA ShapeActs ==
    ASSUME MergerAssumption, TypeOK, ShapeInv, NEW e \in Executions, Acts(e)
    PROVE  ShapeInv'
  <1>1. Flows(e) BY ObjectsFlow
  <1>2. "backup" \in Jobs BY DEF Jobs
  <1>3. inserted' = inserted /\ Shaped(delta) /\ \A o \in merge[e] : IsMerged(o)
    BY <1>1 DEF Flows, ShapeInv
  <1>4. Shaped(delta)'
    BY <1>1, <1>3 DEF Flows, Shaped, IsMerged, Plain, Partition
  <1>5. ASSUME NEW f \in Executions, f # e
        PROVE  /\ Shaped(original[f])' /\ \A o \in merge'[f] : IsMerged(o)'
               /\ \A j \in Jobs : Shaped(todo[f][j])' /\ Shaped(copied[f][j])'
    <2>1. /\ original'[f] = original[f] /\ merge'[f] = merge[f]
          /\ todo'[f] = todo[f] /\ copied'[f] = copied[f]
      BY <1>1, <1>5 DEF Flows, OthersKept
    <2> QED BY <1>3, <2>1 DEF ShapeInv, Shaped, IsMerged, Plain, Partition
  <1>6. Shaped(original[e])'
    <2>1. Shaped(original[e]) /\ Shaped(todo[e]["backup"]) BY <1>2 DEF ShapeInv
    <2> QED BY <1>1, <1>3, <2>1 DEF Flows, Shaped, IsMerged, Plain, Partition
  <1>7. \A o \in merge'[e] : IsMerged(o)'
    BY <1>1, <1>3 DEF Flows, IsMerged, Partition
  <1>8. ASSUME NEW j \in Jobs PROVE Shaped(todo[e][j])' /\ Shaped(copied[e][j])'
    <2>1. Shaped(todo[e][j]) /\ Shaped(copied[e][j]) BY DEF ShapeInv
    <2> QED BY <1>1, <1>3, <2>1 DEF Flows, Shaped, IsMerged, Plain, Partition
  <1> QED BY <1>4, <1>5, <1>6, <1>7, <1>8 DEF ShapeInv

LEMMA ShapeStep == MergerAssumption /\ TypeOK /\ ShapeInv /\ [Next]_vars => ShapeInv'
  <1> SUFFICES ASSUME MergerAssumption, TypeOK, ShapeInv, [Next]_vars PROVE ShapeInv' OBVIOUS
  <1>1. ASSUME NEW p \in Partitions, Insert(p) PROVE ShapeInv'
    <2>1. \A r \in Rows : PartitionOf[r] = p => r \in inserted' BY <1>1, InsertInserts
    <2>2. \A r \in inserted : r \in inserted' BY <1>1, InsertInserts DEF TypeOK
    <2>3. Shaped(delta)'
      BY <1>1, <2>1, <2>2, InsertInserts DEF ShapeInv, Shaped, IsMerged, Plain, Partition
    <2>4. UNCHANGED <<merge, original, todo, copied>> BY <1>1, InsertInserts
    <2> QED
      BY <2>2, <2>3, <2>4 DEF ShapeInv, Shaped, IsMerged, Plain, Partition
  <1>2. ASSUME UNCHANGED <<inserted, delta, merge, original, todo, copied>> PROVE ShapeInv'
    BY <1>2 DEF ShapeInv, Shaped, IsMerged, Plain, Partition
  <1>3. ASSUME NEW e \in Executions, Start(e) PROVE ShapeInv' BY <1>2, <1>3, StartDoes
  <1> QED BY <1>1, <1>2, <1>3, ShapeActs, NextCases, UnchangedVars

(* Only LogProcessor writes objects as it inserts them.                     *)
LEMMA NoNewPlain ==
    ASSUME MergerAssumption, TypeOK, ShapeInv, NEW e \in Executions, Acts(e),
           NEW r \in Rows, Plain(r) \in delta'
    PROVE  Plain(r) \in delta
  <1>1. \A o \in merge[e] : o # Plain(r) BY PlainTyped DEF ShapeInv
  <1> QED BY <1>1, ObjectsFlow DEF Flows

(* A step of e leaves the jobs of the others alone.                         *)
LEMMA OthersJob ==
    ASSUME MergerAssumption, TypeOK, ShapeInv, NEW e \in Executions, Acts(e),
           NEW f \in Executions, f # e, JobInv(f)
    PROVE  JobInv(f)'
  <1>1. /\ pc'[f] = pc[f] /\ job'[f] = job[f] /\ todo'[f] = todo[f] /\ early'[f] = early[f]
        /\ copied'[f] = copied[f] /\ original'[f] = original[f]
    BY ObjectsFlow DEF Flows, OthersKept, Kept
  <1>2. \A r \in Rows : Plain(r) \in delta' => Plain(r) \in delta BY NoNewPlain
  <1>3. \A r \in Rows :
          /\ Meets(r, Left(f, "backup") \cup original[f])'
               <=> Meets(r, Left(f, "backup") \cup original[f])
          /\ Meets(r, original[f])' <=> Meets(r, original[f])
    BY <1>1 DEF Meets, Partition, Left
  <1> QED BY <1>1, <1>2, <1>3 DEF JobInv, Plain, Left, MisledAtBackup

(* Steps of the own jobs that list nothing and copy nothing.                *)
Shrinks(e) ==
    /\ original'[e] = original[e]
    /\ \A i \in Jobs : todo'[e][i] \subseteq todo[e][i] /\ copied'[e][i] \subseteq copied[e][i]
    /\ \A r \in Rows : Plain(r) \in delta' => Plain(r) \in delta

(* The part of JobInv that is about the job of step 2 at work.              *)
HandsOn(e) ==
    \A r \in Rows :
        Plain(r) \in delta /\ Meets(r, Left(e, "backup") \cup original[e])
            => Plain(r) \in Left(e, "backup")
Emptied(e) == \A r \in Rows : Plain(r) \in delta => ~Meets(r, original[e])

Ending(e) ==
    /\ pc'[e] \in Ends /\ job'[e] = job[e] /\ early'[e] = early[e]
    /\ pc'[e] = "drop" => pc[e] = "add"

LEMMA JobAnswered ==
    ASSUME MergerAssumption, TypeOK, NEW e \in Executions, JobInv(e), Shrinks(e),
           \/ Kept(e) /\ (job[e] = "backup" /\ pc[e] = "work" => HandsOn(e)')
           \/ \E j \in Jobs : Misled(e, j)
           \/ Ending(e)
           \/ Advanced(e) /\ pc[e] = "work" /\ Left(e, job[e]) = {} /\ early'[e] = early[e]
    PROVE  JobInv(e)'
  <1>1. job[e] \in {"merge", "backup", "restore"} BY DEF TypeOK, Jobs
  <1>2. /\ Left(e, "merge")' \subseteq Left(e, "merge")
        /\ Left(e, "backup")' \subseteq Left(e, "backup")
        /\ Left(e, "restore")' \subseteq Left(e, "restore")
        /\ todo'[e]["merge"] \subseteq todo[e]["merge"]
        /\ copied'[e]["merge"] \subseteq copied[e]["merge"]
        /\ copied'[e]["backup"] \subseteq copied[e]["backup"]
    BY DEF Shrinks, Left, Jobs
  <1>3. Emptied(e) => Emptied(e)'
    BY DEF Shrinks, Emptied, Meets, Partition, Plain
  <1>4. CASE Kept(e) /\ (job[e] = "backup" /\ pc[e] = "work" => HandsOn(e)')
    <2>1. job'[e] = job[e] => Left(e, job[e])' \subseteq Left(e, job[e])
      BY <1>1, <1>2 DEF Left
    <2> QED
      BY <1>1, <1>2, <1>3, <1>4, <2>1
      DEF Kept, Shrinks, HandsOn, Emptied, JobInv, MisledAtBackup
  <1>5. ASSUME NEW j \in Jobs, Misled(e, j) PROVE JobInv(e)'
    <2>1. CASE j = "merge"
      BY <1>2, <1>5, <2>1 DEF Misled, ToldNothing, JobInv, Shrinks
    <2>2. CASE j = "backup"
      <3>1. /\ job[e] = "backup" /\ job'[e] = "restore" /\ pc'[e] = "scan"
            /\ MisledAtBackup(e)'
        BY <1>5, <2>2 DEF Misled, ToldNothing, Advanced, MisledAtBackup
      <3>2. Left(e, "restore")' = {} BY <1>2, <3>1 DEF JobInv
      <3> QED BY <1>2, <3>1, <3>2 DEF JobInv, Shrinks, Left
    <2>3. CASE j = "restore"
      <3>1. /\ job[e] = "restore" /\ job'[e] = "restore" /\ pc'[e] = "add" /\ pc[e] = "work"
            /\ MisledAtBackup(e)' <=> MisledAtBackup(e)
        BY <1>5, <2>3 DEF Misled, ToldNothing, Advanced, MisledAtBackup
      <3> QED BY <1>2, <1>3, <3>1 DEF JobInv, Shrinks, Emptied
    <2> QED BY <1>1, <1>5, <2>1, <2>2, <2>3 DEF Misled
  <1>6. CASE Ending(e)
    BY <1>1, <1>2, <1>3, <1>6 DEF Ending, Ends, JobInv, Shrinks, Emptied, MisledAtBackup
  <1>7. CASE Advanced(e) /\ pc[e] = "work" /\ Left(e, job[e]) = {} /\ early'[e] = early[e]
    <2>1. CASE job[e] = "merge"
      <3>1. job'[e] = "backup" /\ pc'[e] = "scan" BY <1>7, <2>1 DEF Advanced
      <3>2. /\ todo'[e]["merge"] = {} /\ original'[e] = {} /\ Left(e, "backup")' = {}
            /\ Left(e, "restore")' = {}
        BY <1>2, <1>7, <2>1 DEF JobInv, Shrinks, Left
      <3> QED BY <1>2, <3>1, <3>2 DEF JobInv, Left
    <2>2. CASE job[e] = "backup"
      <3>1. job'[e] = "restore" /\ pc'[e] = "scan" BY <1>7, <2>2 DEF Advanced
      <3>2. \A r \in Rows : Meets(r, original[e]) => Meets(r, Left(e, "backup") \cup original[e])
        BY DEF Meets
      <3>3. Emptied(e) BY <1>7, <2>2, <3>2 DEF JobInv, Emptied
      <3>4. /\ todo'[e]["merge"] = {} /\ Left(e, "backup")' = {} /\ Left(e, "restore")' = {}
        BY <1>2, <1>7, <2>2 DEF JobInv
      <3> QED BY <1>2, <1>3, <3>1, <3>3, <3>4 DEF JobInv, Emptied, Shrinks
    <2>3. CASE job[e] = "restore"
      <3>1. job'[e] = "restore" /\ pc'[e] = "add" BY <1>7, <2>3 DEF Advanced
      <3> QED
        BY <1>2, <1>3, <1>7, <2>3, <3>1 DEF JobInv, Shrinks, Emptied, MisledAtBackup
    <2> QED BY <1>1, <2>1, <2>2, <2>3
  <1> QED BY <1>4, <1>5, <1>6, <1>7

LEMMA OwnJob ==
    ASSUME MergerAssumption, TypeOK, ShapeInv, "Masked" \notin Faults,
           NEW e \in Executions, Acts(e), JobInv(e)
    PROVE  JobInv(e)'
  <1>1. \A r \in Rows : Plain(r) \in delta' => Plain(r) \in delta BY NoNewPlain
  <1>2. job[e] \in {"merge", "backup", "restore"} BY DEF TypeOK, Jobs
  <1>3. "merge" \in Jobs /\ "backup" \in Jobs /\ "restore" \in Jobs BY DEF Jobs
  <1>4. CASE Scan(e)
    <2>1. /\ UNCHANGED <<delta, original, copied, early>> /\ pc[e] = "scan"
          /\ todo'[e][job[e]] = Source(e, job[e]) /\ OtherJobsKept(e, job[e])
      BY <1>4, ScanDoes
    <2>2. Left(e, job[e]) = {} BY <2>1 DEF JobInv
    <2>3. CASE Source(e, job[e]) = {}
      <3>1. ToldNothing(e) /\ Shrinks(e)
        BY <1>1, <1>4, <2>1, <2>3, ScanDoes DEF Shrinks, OtherJobsKept
      <3>2. \A i \in Jobs : Left(e, i)' \subseteq Left(e, i)
        BY <3>1 DEF Shrinks, Left
      <3>3. CASE job[e] = "merge"
        BY <1>3, <2>1, <3>1, <3>2, <3>3 DEF ToldNothing, JobInv, Left
      <3>4. CASE job[e] = "backup"
        <4>1. /\ job'[e] = "restore" /\ pc'[e] = "scan" /\ original'[e] = {}
              /\ Left(e, "backup")' = {} /\ Left(e, "restore")' = {}
          BY <1>3, <2>1, <2>2, <3>1, <3>2, <3>4 DEF ToldNothing, Advanced, JobInv
        <4>2. todo'[e]["merge"] = {} BY <1>3, <3>1, <3>4 DEF Shrinks, JobInv
        <4> QED BY <2>1, <4>1, <4>2 DEF JobInv, Left, Meets
      <3>5. CASE job[e] = "restore"
        <4>1. job'[e] = "restore" /\ pc'[e] = "add"
          BY <3>1, <3>5 DEF ToldNothing, Advanced
        <4>2. /\ todo'[e]["merge"] = {} /\ Left(e, "restore")' = {}
              /\ copied' = copied /\ original' = original
          BY <1>3, <2>1, <2>2, <3>1, <3>2, <3>5 DEF Shrinks, JobInv
        <4>3. Emptied(e) => Emptied(e)'
          BY <2>1 DEF Emptied, Meets, Partition, Plain
        <4>4. (Left(e, "backup") = {} => Left(e, "backup")' = {})
              /\ (MisledAtBackup(e)' <=> MisledAtBackup(e))
          BY <1>3, <2>1, <3>2 DEF MisledAtBackup
        <4> QED BY <2>1, <3>5, <4>1, <4>2, <4>3, <4>4 DEF JobInv, Emptied
      <3> QED BY <1>2, <3>3, <3>4, <3>5
    <2>4. CASE Source(e, job[e]) # {}
      <3>1. pc'[e] = "work" /\ job'[e] = job[e] BY <1>4, <2>4, ScanDoes
      <3>2. \A i \in Jobs : i # job[e] => Left(e, i)' = Left(e, i)
        BY <2>1 DEF OtherJobsKept, Left
      <3>3. CASE job[e] = "merge"
        BY <1>3, <2>1, <3>1, <3>2, <3>3 DEF JobInv
      <3>4. CASE job[e] = "backup"
        <4>1. todo'[e]["backup"] = delta BY <2>1, <3>4 DEF Source
        <4>2. HandsOn(e)' BY <2>1, <4>1 DEF HandsOn, Left
        <4>3. todo'[e]["merge"] = todo[e]["merge"] BY <1>3, <2>1, <3>4 DEF OtherJobsKept
        <4> QED BY <1>3, <2>1, <3>1, <3>2, <3>4, <4>2, <4>3 DEF JobInv, HandsOn
      <3>5. CASE job[e] = "restore"
        <4>1. Emptied(e) => Emptied(e)'
          BY <2>1 DEF Emptied, Meets, Partition, Plain
        <4>2. todo'[e]["merge"] = todo[e]["merge"] BY <1>3, <2>1, <3>5 DEF OtherJobsKept
        <4>3. MisledAtBackup(e)' <=> MisledAtBackup(e) BY <2>1 DEF MisledAtBackup
        <4> QED BY <1>3, <2>1, <3>1, <3>2, <3>5, <4>1, <4>2, <4>3 DEF JobInv, Emptied
      <3> QED BY <1>2, <3>3, <3>4, <3>5
    <2> QED BY <2>3, <2>4
  <1>5. ASSUME NEW S \in SUBSET Source(e, job[e]), ScanFails(e, S) PROVE JobInv(e)'
    <2>1. /\ UNCHANGED <<delta, original, job, copied, early>>
          /\ pc[e] = "scan" /\ pc'[e] = "notify" /\ OtherJobsKept(e, job[e])
      BY <1>5, ScanFailsDoes
    <2>2. \A i \in Jobs : i # job[e] => Left(e, i)' = Left(e, i) /\ todo'[e][i] = todo[e][i]
      BY <2>1 DEF OtherJobsKept, Left
    <2> QED BY <1>2, <1>3, <2>1, <2>2 DEF JobInv, MisledAtBackup
  <1>6. ASSUME NEW S \in SUBSET todo[e]["merge"], MergeBatch(e, S) PROVE JobInv(e)'
    <2>1. /\ UNCHANGED <<delta, original, copied>> /\ S # {}
          /\ todo'[e]["merge"] = todo[e]["merge"] \ S /\ OtherJobsKept(e, "merge")
          /\ Kept(e) \/ Misled(e, "merge")
      BY <1>6, MergeDoes
    <2>2. Shrinks(e) BY <1>1, <2>1 DEF Shrinks, OtherJobsKept
    <2>3. job[e] # "backup" BY <2>1 DEF JobInv
    <2> QED BY <1>3, <2>1, <2>2, <2>3, JobAnswered
  <1>7. ASSUME NEW j \in Jobs, NEW o \in todo[e][j], CopyObject(e, j, o) PROVE JobInv(e)'
    <2>1. /\ Kept(e) /\ OtherJobsKept(e, j) /\ j \in {"backup", "restore"}
          /\ todo'[e][j] = todo[e][j] \ {o} /\ copied'[e][j] = copied[e][j] \cup {o}
          /\ j = "backup" => delta' = delta /\ original'[e] = original[e] \cup {o}
          /\ j = "restore" => original'[e] = original[e]
      BY <1>7, CopyDoes
    <2>2. o \in Left(e, j) /\ Left(e, j)' = Left(e, j) BY <2>1 DEF Left
    <2>3. \A i \in Jobs : Left(e, i)' = Left(e, i) BY <2>1, <2>2 DEF OtherJobsKept, Left
    <2>4. todo'[e]["merge"] = todo[e]["merge"] /\ copied'[e]["merge"] = copied[e]["merge"]
      BY <1>3, <2>1 DEF OtherJobsKept
    <2>5. CASE j = "backup"
      <3>1. job[e] # "merge" /\ ~(job[e] = "backup" /\ pc[e] = "scan")
            /\ (job[e] = "restore" => MisledAtBackup(e))
        BY <2>2, <2>5 DEF JobInv
      <3>2. copied'[e]["backup"] \subseteq original'[e] BY <2>1, <2>5 DEF JobInv
      <3>3. Left(e, "backup")' \cup original'[e] = Left(e, "backup") \cup original[e]
        BY <2>1, <2>2, <2>5
      <3>4. HandsOn(e) => HandsOn(e)'
        <4>1. \A r \in Rows : Meets(r, Left(e, "backup") \cup original[e])' =>
                  Meets(r, Left(e, "backup") \cup original[e])
          BY <3>3 DEF Meets, Partition
        <4> QED BY <2>2, <2>5, <4>1, <1>1 DEF HandsOn, Plain
      <3> QED
        BY <1>2, <1>3, <2>1, <2>3, <2>4, <3>1, <3>2, <3>4
        DEF JobInv, Kept, HandsOn, MisledAtBackup
    <2>6. CASE j = "restore"
      <3>1. job[e] = "restore" /\ pc[e] \notin {"new", "scan"}
        BY <1>2, <2>2, <2>6 DEF JobInv
      <3>2. copied'[e]["backup"] \subseteq original'[e]
        BY <1>3, <2>1, <2>6 DEF JobInv, OtherJobsKept
      <3>3. Emptied(e) => Emptied(e)'
        BY <1>1, <2>1, <2>6 DEF Emptied, Meets, Partition, Plain
      <3> QED
        BY <1>3, <2>1, <2>3, <2>4, <3>1, <3>2, <3>3 DEF JobInv, Kept, Emptied, MisledAtBackup
    <2> QED BY <2>1, <2>5, <2>6
  <1>8. ASSUME NEW j \in Jobs, NEW o \in copied[e][j], DeleteObject(e, j, o) PROVE JobInv(e)'
    <2>1. /\ original' = original /\ todo' = todo /\ OtherJobsKept(e, j)
          /\ copied'[e][j] = copied[e][j] \ {o}
          /\ j = "backup" => delta' = delta \ {o}
          /\ Kept(e) \/ Misled(e, j)
      BY <1>8, DeleteDoes
    <2>2. Shrinks(e) BY <1>1, <2>1 DEF Shrinks, OtherJobsKept
    <2>3. job[e] = "backup" /\ pc[e] = "work" => HandsOn(e)'
      <3> SUFFICES ASSUME job[e] = "backup", pc[e] = "work" PROVE HandsOn(e)' OBVIOUS
      <3>1. j = "backup"
        BY <1>3, <1>8 DEF JobInv, Left, Jobs
      <3>2. Left(e, "backup")' \subseteq Left(e, "backup")
            /\ Left(e, "backup") \subseteq Left(e, "backup")' \cup {o}
        BY <2>1, <3>1 DEF Left
      <3>3. \A r \in Rows : Meets(r, Left(e, "backup") \cup original[e])' =>
                Meets(r, Left(e, "backup") \cup original[e])
        BY <2>1, <3>2 DEF Meets, Partition
      <3>4. \A r \in Rows : Plain(r) \in delta' => Plain(r) # o /\ Plain(r) \in delta
        BY <2>1, <3>1
      <3> QED BY <3>2, <3>3, <3>4 DEF JobInv, HandsOn, Plain
    <2> QED BY <2>1, <2>2, <2>3, JobAnswered
  <1>9. ASSUME NEW j \in Jobs, NEW o \in Left(e, j), BatchFails(e, j, o) PROVE JobInv(e)'
    <2>1. /\ UNCHANGED <<delta, original>> /\ OtherJobsKept(e, j)
          /\ todo'[e][j] = todo[e][j] \ {o} /\ copied'[e][j] = copied[e][j] \ {o}
      BY <1>9, FailDoes
    <2>2. Shrinks(e) BY <1>1, <2>1 DEF Shrinks, OtherJobsKept
    <2>3. job[e] = "backup" /\ pc[e] = "work" => j = "backup"
      BY <1>3 DEF JobInv, Left, Jobs
    <2>4. \/ Ending(e) \/ Misled(e, j)
          \/ Kept(e) /\ ~(job[e] = "backup" /\ pc[e] = "work")
      BY <1>9, <2>3, FailDoes DEF Ending, Ends, Kept
    <2> QED BY <2>2, <2>4, JobAnswered
  <1>10. CASE JobSucceeds(e)
    <2>1. /\ UNCHANGED <<delta, original, todo, copied, early>> /\ pc[e] = "work"
          /\ Left(e, job[e]) = {} /\ Advanced(e)
      BY <1>10, SucceedsDoes
    <2> QED BY <1>1, <2>1, JobAnswered DEF Shrinks
  <1>11. CASE Passes(e)
    <2>1. UNCHANGED <<delta, original, job, todo, copied, early>> /\ pc'[e] \in Ends
          /\ (pc'[e] = "drop" => pc[e] = "add")
      BY <1>11, PassDoes
    <2> QED BY <1>1, <2>1, JobAnswered DEF Shrinks, Ending
  <1> QED
    BY <1>4, <1>5, <1>6, <1>7, <1>8, <1>9, <1>10, <1>11, StepCases DEF Acts

(* A late insert comes with a partition of its own.                         *)
LEMMA InsertJob ==
    ASSUME MergerAssumption, TypeOK, ShapeInv, NEW p \in Partitions, Insert(p),
           NEW e \in Executions, JobInv(e)
    PROVE  JobInv(e)'
  <1>1. UNCHANGED <<original, pc, job, todo, copied, early>> BY InsertInserts
  <1>2. ASSUME NEW r \in Rows, PartitionOf[r] = p, NEW O \in SUBSET Object, Shaped(O)
        PROVE  ~Meets(r, O)
    <2> SUFFICES ASSUME NEW o \in O, Partition(o) = p PROVE FALSE BY <1>2 DEF Meets
    <2>1. ~IsMerged(o) BY <1>2, PlainTyped
    <2>2. PICK q \in inserted : o = Plain(q) BY <1>2, <2>1 DEF Shaped
    <2>3. q \in Rows /\ PartitionOf[q] = p BY <2>2, PlainTyped DEF TypeOK
    <2> QED BY <2>2, <2>3, InsertInserts
  <1>3. ASSUME NEW r \in Rows, Plain(r) \in delta'
        PROVE  Plain(r) \in delta \/ PartitionOf[r] = p
    <2>1. \A q \in Rows : Plain(q) = Plain(r) => PartitionOf[q] = PartitionOf[r]
      BY DEF Plain
    <2> QED BY <1>3, <2>1, InsertInserts
  <1>4. "backup" \in Jobs BY DEF Jobs
  <1>5. \A r \in Rows :
          PartitionOf[r] = p => /\ ~Meets(r, Left(e, "backup") \cup original[e])
                                /\ ~Meets(r, original[e])
    <2>1. /\ original[e] \in SUBSET Object /\ Shaped(original[e])
          /\ (Left(e, "backup") \cup original[e]) \in SUBSET Object
          /\ Shaped(Left(e, "backup") \cup original[e])
      BY <1>4, PartsTyped DEF ShapeInv, Shaped, Left
    <2> QED BY <1>2, <2>1
  <1>6. \A r \in Rows :
          /\ Meets(r, Left(e, "backup") \cup original[e])'
               => Meets(r, Left(e, "backup") \cup original[e])
          /\ Meets(r, original[e])' => Meets(r, original[e])
    BY <1>1 DEF Meets, Partition, Left
  <1> QED BY <1>1, <1>3, <1>5, <1>6 DEF JobInv, Plain, Left, MisledAtBackup

LEMMA JobStep ==
    ASSUME MergerAssumption, TypeOK, ShapeInv, "Masked" \notin Faults,
           \A e \in Executions : JobInv(e), [Next]_vars
    PROVE  \A e \in Executions : JobInv(e)'
  <1>1. ASSUME NEW e \in Executions, Acts(e) PROVE \A f \in Executions : JobInv(f)'
    BY <1>1, OwnJob, OthersJob
  <1>2. ASSUME NEW p \in Partitions, Insert(p) PROVE \A f \in Executions : JobInv(f)'
    BY <1>2, InsertJob
  <1>3. ASSUME UNCHANGED <<delta, original, job, todo, copied, early>>, NEW f \in Executions,
               pc'[f] = pc[f] \/ (pc[f] = "new" /\ pc'[f] = "scan")
        PROVE  JobInv(f)'
    <2>1. \A r \in Rows :
            /\ Meets(r, Left(f, "backup") \cup original[f])'
                 => Meets(r, Left(f, "backup") \cup original[f])
            /\ Meets(r, original[f])' => Meets(r, original[f])
      BY <1>3 DEF Meets, Partition, Left
    <2> QED BY <1>3, <2>1 DEF JobInv, Plain, Left, MisledAtBackup
  <1>4. ASSUME NEW e \in Executions, Start(e) PROVE \A f \in Executions : JobInv(f)'
    BY <1>3, <1>4, StartDoes DEF OthersKept, Kept
  <1> QED BY <1>1, <1>2, <1>3, <1>4, NextCases, UnchangedVars

-----------------------------------------------------------------------------
(* A row in no backup is where it was inserted, unless the execution that   *)
(* has backed up an object of its partition was misled.                     *)
LEMMA RowsActs ==
    ASSUME MergerAssumption, TypeOK, RowsInv, ShapeInv, NEW e \in Executions, JobInv(e), Acts(e)
    PROVE  RowsInv'
  <1>1. /\ inserted' = inserted
        /\ \A f \in Executions : original[f] \subseteq original'[f] /\ early[f] \subseteq early'[f]
    BY ObjectsFlow DEF Flows, OthersKept, Kept
  <1> SUFFICES ASSUME NEW r \in inserted, ~Saved(r)', ~Excused(r)'
               PROVE  Plain(r) \in delta' /\ PartitionOf[r] \in table'
    BY <1>1 DEF RowsInv, Plain
  <1>2. ~Saved(r) BY <1>1 DEF Saved
  <1>3. \A f \in Executions : MisledAtBackup(f) => ~Meets(r, original[f])
    BY <1>1 DEF Excused, MisledAtBackup, Meets, Partition
  <1>4. r \in Rows /\ Plain(r) \in delta /\ PartitionOf[r] \in table
    BY <1>2, <1>3 DEF RowsInv, Excused, TypeOK
  <1>5. Plain(r) \in delta'
    <2>1. ASSUME NEW j \in Jobs, NEW o \in copied[e][j], DeleteObject(e, j, o)
          PROVE  Plain(r) \in delta'
      <3>1. j = "backup" => o \in original[e] BY DEF JobInv
      <3>2. j = "backup" => o # Plain(r) BY <1>2, <1>4, <3>1, PlainTyped DEF Saved
      <3> QED BY <1>4, <2>1, <3>2, DeleteDoes
    <2> QED
      BY <1>4, <2>1, StepCases, ScanDoes, ScanFailsDoes, MergeDoes, CopyDoes, FailDoes,
         SucceedsDoes, PassDoes
      DEF Acts
  <1>6. PartitionOf[r] \in table'
    <2>1. ASSUME pc[e] = "drop", NEW P \in SUBSET PartitionsIn(original[e])
          PROVE  PartitionOf[r] \notin P
      <3>1. ~Meets(r, original[e]) BY <1>3, <1>4, <2>1 DEF JobInv
      <3> QED BY <3>1, PartitionsInTyped DEF Meets, TypeOK
    <2>2. CASE Passes(e)
      BY <1>4, <2>1, <2>2
      DEF Passes, JobSilent, StateFails, Complete, Notify, UpdateFailed, AddPartitions,
          DropPartitions, DroppedPartitions, Altered, UpdateFails, dataVars
    <2> QED
      BY <1>4, <2>2, StepCases, ScanDoes, ScanFailsDoes, MergeDoes, CopyDoes, DeleteDoes,
         FailDoes, SucceedsDoes
      DEF Acts
  <1> QED BY <1>5, <1>6

LEMMA RowsStep ==
    ASSUME MergerAssumption, TypeOK, RowsInv, ShapeInv,
           \A e \in Executions : JobInv(e), [Next]_vars
    PROVE  RowsInv'
  <1>1. ASSUME NEW p \in Partitions, Insert(p) PROVE RowsInv'
    <2>1. \A r \in Rows : (Saved(r)' <=> Saved(r)) /\ (Excused(r)' <=> Excused(r))
      BY <1>1, InsertInserts DEF Saved, Excused, MisledAtBackup, Meets, Partition
    <2>2. inserted' \subseteq Rows BY <1>1 DEF Insert, TypeOK
    <2>3. ASSUME NEW r \in inserted', ~Saved(r), ~Excused(r)
          PROVE  Plain(r) \in delta' /\ PartitionOf[r] \in table'
      <3>1. CASE r \in inserted BY <1>1, <2>3, <3>1, InsertInserts DEF RowsInv
      <3>2. CASE PartitionOf[r] = p BY <1>1, <2>2, <2>3, <3>2, InsertInserts
      <3> QED BY <1>1, <2>2, <2>3, <3>1, <3>2, InsertInserts
    <2> QED BY <2>1, <2>2, <2>3 DEF RowsInv, Plain
  <1>2. ASSUME UNCHANGED <<inserted, delta, table, original, early>> PROVE RowsInv'
    BY <1>2 DEF RowsInv, Saved, Excused, MisledAtBackup, Meets, Partition, Plain
  <1>3. ASSUME NEW e \in Executions, Start(e) PROVE RowsInv' BY <1>2, <1>3, StartDoes
  <1> QED BY <1>1, <1>2, <1>3, RowsActs, NextCases, UnchangedVars

LEMMA Inductive == "Masked" \notin Faults => (Spec => []IInv)
  <1> SUFFICES ASSUME "Masked" \notin Faults PROVE Spec => []IInv OBVIOUS
  <1>1. Init => IInv
    <2> SUFFICES ASSUME Init PROVE IInv OBVIOUS
    <2>1. TypeOK BY DEF Init, TypeOK, Steps, Jobs
    <2>2. RowsInv /\ ShapeInv BY DEF Init, RowsInv, ShapeInv, Shaped
    <2>3. ASSUME NEW e \in Executions PROVE JobInv(e)
      BY DEF Init, JobInv, Left, Jobs
    <2> QED BY <2>1, <2>2, <2>3 DEF IInv
  <1>2. IInv /\ [Next]_vars => IInv'
    BY MergerAssumption, TypeStep, ShapeStep, JobStep, RowsStep DEF IInv
  <1> QED BY <1>1, <1>2, PTL DEF Spec

(* Whatever fails in a merge, and whatever the Lambdas of an answered job   *)
(* still do, an inserted row can be queried or is in the backup of an       *)
(* execution, unless a job reports a batch with a failed object as          *)
(* Succeeded: step 5 drops no partition that still holds a row of its own.  *)
(* It may drop one whose objects step 2 is still moving when that step was  *)
(* answered too early, and no other.                                        *)
THEOREM RowsAreBackedUp == ASSUME "Masked" \notin Faults PROVE Spec => []BackedUp
  <1>1. IInv => BackedUp
    <2> SUFFICES ASSUME IInv, NEW r \in inserted,
                        ~(\E e \in Executions : r \in RowsIn(original[e])),
                        ~(\E e \in Executions : /\ MisledAtBackup(e)
                                                /\ PartitionOf[r] \in PartitionsIn(original[e]))
                 PROVE  Visible(r)
      BY DEF BackedUp
    <2>1. ~Saved(r) BY DEF Saved, RowsIn
    <2>2. ~Excused(r) BY PartitionsInTyped DEF Excused, Meets, IInv, TypeOK
    <2>3. r \in Rows /\ Plain(r) \in delta /\ PartitionOf[r] \in table
      BY <2>1, <2>2 DEF IInv, RowsInv, TypeOK
    <2> QED BY <2>3, PlainTyped, MergerAssumption DEF Visible, Found
  <1> QED BY <1>1, Inductive, PTL

-----------------------------------------------------------------------------
(* No row twice.  What a job may still copy to the delta prefix (Pending)  *)
(* has no row that is there: it was merged from objects that the job of    *)
(* step 2 took away, all of them, before the restore began, unless that    *)
(* job was answered too early.                                             *)
Apart(A, B) == \A r \in Rows : \A a \in A, b \in B : r \in a[2] => r \notin b[2]
Distinct(O) == \A r \in Rows : \A a, b \in O : r \in a[2] /\ r \in b[2] => a = b
Known(O) == \A o \in O : o[2] \subseteq inserted

NoneMisled == \A e \in Executions : ~MisledAtBackup(e)

Pending(e) ==
    IF job[e] # "restore" THEN {}
    ELSE IF pc[e] = "scan" THEN merge[e] ELSE todo[e]["restore"]
Making(e) == job[e] # "restore" /\ pc[e] \in {"scan", "work"}

AloneInv == \A e, f \in Executions : Running(e) /\ Running(f) => e = f

KnownInv ==
    /\ Known(delta)
    /\ \A e \in Executions : Known(merge[e]) /\ \A j \in Jobs : Known(todo[e][j])

PendingInv ==
    /\ Distinct(delta)
    /\ \A e \in Executions : Distinct(Pending(e)) /\ Apart(Pending(e), delta)
    /\ \A e, f \in Executions : e # f => Apart(Pending(e), Pending(f))

MakingInv(e) ==
    /\ pc[e] = "new" \/ (pc[e] = "scan" /\ job[e] = "merge") => merge[e] = {}
    /\ Making(e) =>
          /\ Distinct(merge[e])
          /\ \A f \in Executions : Apart(merge[e], Pending(f))
          /\ job[e] = "merge" =>
                Distinct(todo[e]["merge"]) /\ Apart(merge[e], todo[e]["merge"])
          /\ job[e] = "backup" /\ pc[e] = "work" =>
                \A o \in delta : o \in Left(e, "backup") \/ Apart({o}, merge[e])

OnceInv == AloneInv /\ KnownInv /\ PendingInv /\ \A e \in Executions : MakingInv(e)

LEMMA OnceInit == Init => OnceInv
  BY DEF Init, OnceInv, AloneInv, Running, KnownInv, PendingInv, MakingInv, Making, Pending,
         Apart, Distinct, Known, Jobs

LEMMA AloneStep ==
    ASSUME MergerAssumption, TypeOK, AloneInv, \A e \in Executions : JobInv(e), [Next]_vars
    PROVE  AloneInv'
  <1>1. ASSUME NEW e \in Executions, Start(e) PROVE AloneInv'
    BY <1>1, StartDoes DEF AloneInv, Running, OthersKept, Kept
  <1>2. ASSUME NEW e \in Executions, Acts(e)
        PROVE  /\ Running(e)' => Running(e)
               /\ \A f \in Executions : f # e => pc'[f] = pc[f]
    <2>1. ToldNothing(e) => pc'[e] \in {"scan", "add", "complete"}
      BY DEF ToldNothing, Advanced
    <2> QED
      BY <1>2, <2>1, StepCases, ScanDoes, ScanFailsDoes, MergeDoes, CopyDoes, DeleteDoes,
         FailDoes, SucceedsDoes, PassDoes
      DEF Acts, Running, OthersKept, Kept, Misled
  <1>3. ASSUME UNCHANGED pc PROVE AloneInv' BY <1>3 DEF AloneInv, Running
  <1>4. CASE \E e \in Executions : Acts(e)
    BY <1>2, <1>4 DEF AloneInv, Running
  <1>5. CASE \E p \in Partitions : Insert(p) BY <1>3, <1>5, InsertInserts
  <1> QED BY <1>1, <1>3, <1>4, <1>5, NextCases, UnchangedVars

(* Steps that give the jobs nothing new to copy.                            *)
LEMMA Quieter ==
    ASSUME OnceInv, delta' \subseteq delta, inserted' = inserted,
           \A e \in Executions :
              /\ merge'[e] \subseteq merge[e]
              /\ \A j \in Jobs : todo'[e][j] \subseteq todo[e][j] \cup delta \cup merge[e]
              /\ Pending(e)' \subseteq Pending(e)
    PROVE  KnownInv' /\ PendingInv'
  <1>1. KnownInv' BY DEF OnceInv, KnownInv, Known
  <1>2. Distinct(delta)' BY DEF OnceInv, PendingInv, Distinct
  <1>3. ASSUME NEW e \in Executions PROVE Distinct(Pending(e))' /\ Apart(Pending(e), delta)'
    <2>1. Pending(e)' \subseteq Pending(e) OBVIOUS
    <2>2. Distinct(Pending(e)) /\ Apart(Pending(e), delta) BY DEF OnceInv, PendingInv
    <2> QED BY <2>1, <2>2 DEF Distinct, Apart
  <1>4. ASSUME NEW e \in Executions, NEW f \in Executions, e # f
        PROVE  Apart(Pending(e), Pending(f))'
    <2>1. Pending(e)' \subseteq Pending(e) /\ Pending(f)' \subseteq Pending(f) OBVIOUS
    <2>2. Apart(Pending(e), Pending(f)) BY <1>4 DEF OnceInv, PendingInv
    <2> QED BY <2>1, <2>2 DEF Apart
  <1> QED BY <1>1, <1>2, <1>3, <1>4 DEF PendingInv

(* They disturb no execution whose own part does not change.                *)
LEMMA QuieterMaking ==
    ASSUME OnceInv, delta' \subseteq delta, NEW f \in Executions,
           \A e \in Executions : Pending(e)' \subseteq Pending(e),
           pc'[f] = pc[f], job'[f] = job[f], merge'[f] = merge[f],
           todo'[f] = todo[f], copied'[f] = copied[f]
    PROVE  MakingInv(f)'
  <1>1. MakingInv(f) BY DEF OnceInv
  <1>2. Making(f)' <=> Making(f) BY DEF Making
  <1>3. ASSUME Making(f), NEW e \in Executions PROVE Apart(merge[f], Pending(e))'
    <2>1. Apart(merge[f], Pending(e)) BY <1>1, <1>3 DEF MakingInv
    <2>2. Pending(e)' \subseteq Pending(e) OBVIOUS
    <2> QED BY <2>1, <2>2 DEF Apart
  <1> QED BY <1>1, <1>2, <1>3 DEF MakingInv, Distinct, Apart, Left

Once == KnownInv /\ PendingInv /\ \A f \in Executions : MakingInv(f)

LEMMA QuietStep ==
    ASSUME OnceInv, NEW e \in Executions, OthersKept(e),
           delta' \subseteq delta, inserted' = inserted, merge'[e] \subseteq merge[e],
           \A j \in Jobs : todo'[e][j] \subseteq todo[e][j] \cup delta \cup merge[e],
           Pending(e)' \subseteq Pending(e), MakingInv(e)'
    PROVE  Once'
  <1>1. \A f \in Executions : Pending(f)' \subseteq Pending(f)
    BY DEF Pending, OthersKept, Kept
  <1>2. KnownInv' /\ PendingInv' BY <1>1, Quieter DEF OthersKept
  <1>3. ASSUME NEW f \in Executions, f # e PROVE MakingInv(f)'
    BY <1>1, <1>3, QuieterMaking DEF OthersKept, Kept
  <1> QED BY <1>2, <1>3 DEF Once

(* The merged objects of e are made by then, and steps 1 and 2 are over.    *)
LEMMA NotMaking ==
    ASSUME NEW e \in Executions, pc'[e] \notin {"new", "scan", "work"}
    PROVE  MakingInv(e)'
  BY DEF MakingInv, Making

LEMMA OnceStart ==
    ASSUME TypeOK, OnceInv, NEW e \in Executions, JobInv(e), Start(e)
    PROVE  Once'
  <1>1. /\ UNCHANGED <<inserted, delta, merge, job, todo, copied>>
        /\ pc[e] = "new" /\ pc'[e] = "scan" /\ OthersKept(e)
    BY StartDoes
  <1>2. job[e] = "merge" /\ todo[e]["merge"] = {} /\ merge[e] = {}
    BY <1>1 DEF JobInv, OnceInv, MakingInv, Left
  <1>3. Pending(e)' = {} BY <1>1, <1>2 DEF Pending
  <1>4. MakingInv(e)' BY <1>1, <1>2 DEF MakingInv, Distinct, Apart
  <1> QED BY <1>1, <1>3, <1>4, QuietStep

LEMMA OnceScanFails ==
    ASSUME TypeOK, OnceInv, NEW e \in Executions,
           NEW S \in SUBSET Source(e, job[e]), ScanFails(e, S)
    PROVE  Once'
  <1>1. /\ UNCHANGED <<inserted, delta, merge, job>> /\ pc[e] = "scan" /\ pc'[e] = "notify"
        /\ todo'[e][job[e]] = S /\ OthersKept(e) /\ OtherJobsKept(e, job[e])
    BY ScanFailsDoes
  <1>2. \A j \in Jobs : todo'[e][j] \subseteq todo[e][j] \cup delta \cup merge[e]
    BY <1>1 DEF OtherJobsKept, Source
  <1>3. Pending(e)' \subseteq Pending(e) BY <1>1 DEF Pending, Source
  <1>4. MakingInv(e)' BY <1>1, NotMaking
  <1> QED BY <1>1, <1>2, <1>3, <1>4, QuietStep

LEMMA OnceDelete ==
    ASSUME TypeOK, OnceInv, NoneMisled', NEW e \in Executions, JobInv(e),
           NEW j \in Jobs, NEW o \in copied[e][j], DeleteObject(e, j, o)
    PROVE  Once'
  <1>1. /\ UNCHANGED <<inserted, todo>> /\ delta' \subseteq delta
        /\ merge'[e] \subseteq merge[e] /\ copied'[e][j] = copied[e][j] \ {o}
        /\ OthersKept(e) /\ OtherJobsKept(e, j)
        /\ j = "backup" => delta' = delta \ {o} /\ merge'[e] = merge[e]
        /\ Kept(e) \/ Misled(e, j)
    BY DeleteDoes
  <1>2. o \in Left(e, j) BY DEF Left
  <1>3. job[e] \in {"merge", "backup", "restore"} /\ job[e] \in Jobs BY DEF TypeOK, Jobs
  <1>4. CASE Kept(e)
    <2>1. Pending(e)' \subseteq Pending(e) BY <1>1, <1>4 DEF Pending, Kept
    <2>2. MakingInv(e)'
      <3>1. ASSUME Making(e) PROVE job[e] = "backup" /\ pc[e] = "work" /\ j = "backup"
        BY <1>2, <1>3, <3>1 DEF Making, JobInv, Left, Jobs
      <3>2. CASE Making(e)
        <4>1. MakingInv(e) BY DEF OnceInv
        <4>2. ASSUME NEW f \in Executions PROVE Apart(merge[e], Pending(f))'
          <5>1. Apart(merge[e], Pending(f)) BY <3>2, <4>1 DEF MakingInv
          <5>2. Pending(f)' \subseteq Pending(f)
            BY <1>1, <2>1 DEF Pending, OthersKept, Kept
          <5> QED BY <1>1, <3>1, <3>2, <5>1, <5>2 DEF Apart
        <4>3. \A x \in delta' : x \in Left(e, "backup")' \/ Apart({x}, merge[e])'
          BY <1>1, <3>1, <3>2, <4>1 DEF MakingInv, Left, Apart
        <4> QED BY <1>1, <1>4, <3>1, <3>2, <4>1, <4>2, <4>3 DEF MakingInv, Kept, Distinct
      <3>3. CASE ~Making(e)
        BY <1>1, <1>2, <1>3, <1>4, <3>3 DEF MakingInv, Making, Kept, JobInv, OnceInv
      <3> QED BY <3>2, <3>3
    <2> QED BY <1>1, <2>1, <2>2, QuietStep
  <1>5. CASE Misled(e, j)
    <2>1. j # "backup" BY <1>5 DEF Misled, NoneMisled, MisledAtBackup
    <2>2. pc'[e] \in {"complete", "add"} /\ job'[e] = job[e] /\ pc[e] = "work"
      BY <1>3, <1>5, <2>1 DEF Misled, ToldNothing, Advanced
    <2>3. Pending(e)' \subseteq Pending(e) BY <1>1, <2>2 DEF Pending
    <2>4. MakingInv(e)' BY <2>2, NotMaking
    <2> QED BY <1>1, <2>3, <2>4, QuietStep
  <1> QED BY <1>1, <1>4, <1>5

LEMMA OnceFail ==
    ASSUME TypeOK, OnceInv, NoneMisled', "Masked" \notin Faults, NEW e \in Executions,
           JobInv(e), NEW j \in Jobs, NEW o \in Left(e, j), BatchFails(e, j, o)
    PROVE  Once'
  <1>1. /\ UNCHANGED <<inserted, delta, merge>> /\ OthersKept(e)
        /\ \A i \in Jobs : todo'[e][i] \subseteq todo[e][i]
    BY FailDoes DEF OtherJobsKept
  <1>2. job[e] \in {"merge", "backup", "restore"} /\ job[e] \in Jobs /\ "restore" \in Jobs
    BY DEF TypeOK, Jobs
  <1>3. \/ /\ job'[e] = job[e]
           /\ IF pc[e] = "work" /\ job[e] = j THEN pc'[e] = "notify" ELSE pc'[e] = pc[e]
        \/ Misled(e, j)
    BY FailDoes
  <1>4. CASE Misled(e, j)
    <2>1. j # "backup" BY <1>4 DEF Misled, NoneMisled, MisledAtBackup
    <2>2. pc'[e] \in {"complete", "add"} /\ job'[e] = job[e] /\ pc[e] = "work"
      BY <1>2, <1>4, <2>1 DEF Misled, ToldNothing, Advanced
    <2>3. Pending(e)' \subseteq Pending(e) BY <1>1, <1>2, <2>2 DEF Pending
    <2>4. MakingInv(e)' BY <2>2, NotMaking
    <2> QED BY <1>1, <2>3, <2>4, QuietStep
  <1>5. CASE pc[e] = "work" /\ job[e] = j /\ pc'[e] = "notify" /\ job'[e] = job[e]
    <2>1. Pending(e)' \subseteq Pending(e) BY <1>1, <1>2, <1>5 DEF Pending
    <2>2. MakingInv(e)' BY <1>5, NotMaking
    <2> QED BY <1>1, <2>1, <2>2, QuietStep
  <1>6. CASE ~(pc[e] = "work" /\ job[e] = j) /\ pc'[e] = pc[e] /\ job'[e] = job[e]
    <2>1. Pending(e)' \subseteq Pending(e) BY <1>1, <1>2, <1>6 DEF Pending
    <2>2. ~Making(e)
      <3>1. Making(e) => j = job[e] \/ Left(e, j) = {}
        BY <1>2 DEF Making, JobInv, Left, Jobs
      <3> QED BY <1>2, <1>6, <3>1 DEF Making, JobInv
    <2>3. MakingInv(e)' BY <1>1, <1>6, <2>2 DEF MakingInv, Making, OnceInv
    <2> QED BY <1>1, <2>1, <2>3, QuietStep
  <1> QED BY <1>3, <1>4, <1>5, <1>6

LEMMA OncePasses ==
    ASSUME TypeOK, OnceInv, NEW e \in Executions, Passes(e)
    PROVE  Once'
  <1>1. /\ UNCHANGED <<inserted, delta, merge, job, todo>> /\ OthersKept(e)
        /\ pc'[e] \in Ends /\ (pc[e] = "scan" => job[e] = "merge")
    BY PassDoes
  <1>2. Pending(e)' \subseteq Pending(e) BY <1>1 DEF Pending, Ends
  <1>3. MakingInv(e)' BY <1>1, NotMaking DEF Ends
  <1> QED BY <1>1, <1>2, <1>3, QuietStep

(* What is restored is handed to the job of step 3 when no row of it is     *)
(* left at the delta prefix.                                                *)
LEMMA HandOver ==
    ASSUME OnceInv, NEW e \in Executions, OthersKept(e), UNCHANGED <<inserted, delta, merge>>,
           \A j \in Jobs : todo'[e][j] \subseteq todo[e][j] \cup delta \cup merge[e],
           job[e] = "backup", pc[e] \in {"scan", "work"}, job'[e] = "restore", pc'[e] = "scan",
           \A o \in delta : Apart({o}, merge[e])
    PROVE  Once'
  <1>1. Pending(e)' = merge[e] /\ Making(e) /\ Running(e)
    BY DEF Pending, Making, Running
  <1>2. \A f \in Executions : f # e => Pending(f)' = Pending(f)
    BY DEF Pending, OthersKept, Kept
  <1>3. Distinct(merge[e]) /\ \A f \in Executions : Apart(merge[e], Pending(f))
    BY <1>1 DEF OnceInv, MakingInv
  <1>4. KnownInv'
    <2>1. Known(delta)' /\ \A f \in Executions : Known(merge[f])'
      BY DEF OnceInv, KnownInv, Known
    <2>2. ASSUME NEW f \in Executions, NEW j \in Jobs PROVE Known(todo[f][j])'
      <3>1. todo'[f][j] \subseteq todo[f][j] \cup delta \cup merge[f]
        BY DEF OthersKept
      <3> QED BY <3>1 DEF OnceInv, KnownInv, Known
    <2> QED BY <2>1, <2>2 DEF KnownInv
  <1>5. Distinct(Pending(e))' /\ Apart(Pending(e), delta)'
    BY <1>1, <1>3 DEF Distinct, Apart
  <1>6. ASSUME NEW f \in Executions, f # e
        PROVE  /\ Distinct(Pending(f))' /\ Apart(Pending(f), delta)'
               /\ Apart(Pending(f), Pending(e))' /\ Apart(Pending(e), Pending(f))'
    <2>1. Distinct(Pending(f)) /\ Apart(Pending(f), delta) BY DEF OnceInv, PendingInv
    <2>2. Apart(merge[e], Pending(f)) /\ Pending(f)' = Pending(f) BY <1>2, <1>3, <1>6
    <2> QED BY <1>1, <2>1, <2>2 DEF Distinct, Apart
  <1>7. ASSUME NEW f \in Executions, NEW g \in Executions, f # g, f # e, g # e
        PROVE  Apart(Pending(f), Pending(g))'
    <2>1. Apart(Pending(f), Pending(g)) BY <1>7 DEF OnceInv, PendingInv
    <2>2. Pending(f)' = Pending(f) /\ Pending(g)' = Pending(g) BY <1>2, <1>7
    <2> QED BY <2>1, <2>2 DEF Apart
  <1>8. Distinct(delta)' BY DEF OnceInv, PendingInv, Distinct
  <1>9. PendingInv' BY <1>5, <1>6, <1>7, <1>8 DEF PendingInv
  <1>10. MakingInv(e)' BY DEF MakingInv, Making
  <1>11. ASSUME NEW f \in Executions, f # e PROVE MakingInv(f)'
    <2>1. ~Making(f) /\ ~Making(f)'
      BY <1>1, <1>11 DEF OnceInv, AloneInv, Making, Running, OthersKept, Kept
    <2> QED BY <1>11, <2>1 DEF OnceInv, MakingInv, OthersKept, Kept
  <1> QED BY <1>4, <1>9, <1>10, <1>11 DEF Once

(* What a job may copy is listed, or merged, or handed to the next job.     *)
LEMMA OnceScan ==
    ASSUME TypeOK, OnceInv, NEW e \in Executions, JobInv(e), Scan(e)
    PROVE  Once'
  <1>1. /\ UNCHANGED <<inserted, delta, merge, copied>> /\ pc[e] = "scan"
        /\ todo'[e][job[e]] = Source(e, job[e])
        /\ OthersKept(e) /\ OtherJobsKept(e, job[e])
        /\ \/ Source(e, job[e]) = {} /\ ToldNothing(e)
           \/ Source(e, job[e]) # {} /\ pc'[e] = "work" /\ job'[e] = job[e]
    BY ScanDoes
  <1>2. job[e] \in {"merge", "backup", "restore"} /\ job[e] \in Jobs /\ "restore" \in Jobs
    BY DEF TypeOK, Jobs
  <1>3. \A j \in Jobs : todo'[e][j] \subseteq todo[e][j] \cup delta \cup merge[e]
    BY <1>1 DEF OtherJobsKept, Source
  <1>4. CASE Source(e, job[e]) = {} /\ ToldNothing(e)
    <2>1. CASE job[e] = "backup"
      <3>1. delta = {} /\ job'[e] = "restore" /\ pc'[e] = "scan"
        BY <1>4, <2>1 DEF Source, ToldNothing, Advanced
      <3> QED BY <1>1, <1>3, <2>1, <3>1, HandOver
    <2>2. CASE job[e] # "backup"
      <3>1. pc'[e] \in {"complete", "add"} /\ job'[e] = job[e]
        BY <1>4, <2>2 DEF ToldNothing, Advanced
      <3>2. Pending(e)' \subseteq Pending(e)
        BY <1>1, <1>4, <3>1 DEF Pending, Source
      <3>3. MakingInv(e)' BY <3>1, NotMaking
      <3> QED BY <1>1, <1>3, <3>2, <3>3, QuietStep
    <2> QED BY <2>1, <2>2
  <1>5. CASE pc'[e] = "work" /\ job'[e] = job[e]
    <2>1. Pending(e)' = Pending(e) BY <1>1, <1>5 DEF Pending, Source
    <2>2. MakingInv(e)'
      <3>1. MakingInv(e) /\ Distinct(delta) BY DEF OnceInv, PendingInv
      <3>2. ASSUME Making(e), NEW f \in Executions PROVE Apart(merge[e], Pending(f))'
        <4>1. Apart(merge[e], Pending(f)) BY <3>1, <3>2 DEF MakingInv
        <4>2. Pending(f)' = Pending(f) BY <1>1, <2>1 DEF Pending, OthersKept, Kept
        <4> QED BY <1>1, <4>1, <4>2 DEF Apart
      <3>3. Making(e)' => Making(e) BY <1>1, <1>5 DEF Making
      <3>4. job[e] = "merge" => Distinct(todo[e]["merge"])' /\ Apart(merge[e], todo[e]["merge"])'
        BY <1>1, <3>1 DEF MakingInv, Source, Distinct, Apart
      <3>5. job[e] = "backup" => \A o \in delta' : o \in Left(e, "backup")'
        BY <1>1 DEF Source, Left
      <3>6. Making(e) => Distinct(merge[e])' BY <1>1, <3>1 DEF MakingInv, Distinct
      <3> QED BY <1>1, <1>5, <3>2, <3>3, <3>4, <3>5, <3>6 DEF MakingInv
    <2> QED BY <1>1, <1>3, <2>1, <2>2, QuietStep
  <1> QED BY <1>1, <1>4, <1>5

LEMMA OnceSucceeds ==
    ASSUME TypeOK, OnceInv, NEW e \in Executions, JobSucceeds(e)
    PROVE  Once'
  <1>1. /\ UNCHANGED <<inserted, delta, merge, todo, copied>>
        /\ pc[e] = "work" /\ Left(e, job[e]) = {} /\ Advanced(e) /\ OthersKept(e)
    BY SucceedsDoes
  <1>2. \A j \in Jobs : todo'[e][j] \subseteq todo[e][j] \cup delta \cup merge[e] BY <1>1
  <1>3. MakingInv(e) BY DEF OnceInv
  <1>4. CASE job[e] = "backup"
    <2>1. job'[e] = "restore" /\ pc'[e] = "scan" BY <1>1, <1>4 DEF Advanced
    <2>2. \A o \in delta : Apart({o}, merge[e]) BY <1>1, <1>3, <1>4 DEF MakingInv, Making
    <2> QED BY <1>1, <1>2, <1>4, <2>1, <2>2, HandOver
  <1>5. CASE job[e] = "restore"
    <2>1. job'[e] = "restore" /\ pc'[e] = "add" BY <1>1, <1>5 DEF Advanced
    <2>2. Pending(e)' \subseteq Pending(e) BY <1>1, <1>5, <2>1 DEF Pending
    <2>3. MakingInv(e)' BY <2>1, NotMaking
    <2> QED BY <1>1, <1>2, <2>2, <2>3, QuietStep
  <1>6. CASE job[e] = "merge"
    <2>1. job'[e] = "backup" /\ pc'[e] = "scan" BY <1>1, <1>6 DEF Advanced
    <2>2. Pending(e)' = {} BY <2>1 DEF Pending
    <2>3. ASSUME NEW f \in Executions PROVE Apart(merge[e], Pending(f))'
      <3>1. Apart(merge[e], Pending(f)) BY <1>1, <1>3, <1>6 DEF MakingInv, Making
      <3>2. Pending(f)' \subseteq Pending(f) BY <1>1, <2>2 DEF Pending, OthersKept, Kept
      <3> QED BY <1>1, <3>1, <3>2 DEF Apart
    <2>4. Distinct(merge[e])' BY <1>1, <1>3, <1>6 DEF MakingInv, Making, Distinct
    <2>5. MakingInv(e)' BY <2>1, <2>3, <2>4 DEF MakingInv
    <2> QED BY <1>1, <1>2, <2>2, <2>5, QuietStep
  <1> QED BY <1>1, <1>4, <1>5, <1>6 DEF Advanced

LEMMA OnceMerge ==
    ASSUME TypeOK, OnceInv, NEW e \in Executions, JobInv(e),
           NEW S \in SUBSET todo[e]["merge"], MergeBatch(e, S)
    PROVE  Once'
  <1>1. PICK p \in Partitions : merge'[e] = merge[e] \cup {<<p, RowsIn(S)>>}
    BY MergeDoes
  <1> DEFINE new == <<p, RowsIn(S)>>
  <1>2. /\ UNCHANGED <<inserted, delta, copied>> /\ S # {} /\ S \subseteq delta
        /\ todo'[e]["merge"] = todo[e]["merge"] \ S
        /\ merge'[e] = merge[e] \cup {new}
        /\ OthersKept(e) /\ OtherJobsKept(e, "merge")
        /\ Kept(e) \/ Misled(e, "merge")
    BY <1>1, MergeDoes
  <1>3. new[2] = RowsIn(S) /\ \A r : r \in RowsIn(S) <=> \E o \in S : r \in o[2]
    BY DEF RowsIn
  <1>4. /\ job[e] = "merge" /\ pc[e] \notin {"new", "scan"}
        /\ job'[e] = "merge" /\ pc'[e] \in {pc[e], "complete"}
    BY <1>2 DEF JobInv, Left, Kept, Misled, ToldNothing
  <1>5. \A f \in Executions : Pending(f)' = Pending(f)
    BY <1>2, <1>4 DEF Pending, OthersKept, Kept
  <1>6. KnownInv'
    <2>1. Known(delta)' /\ Known(merge[e])'
      BY <1>2, <1>3 DEF OnceInv, KnownInv, Known
    <2>2. ASSUME NEW j \in Jobs PROVE Known(todo[e][j])'
      <3>1. todo'[e][j] \subseteq todo[e][j] BY <1>2 DEF OtherJobsKept
      <3> QED BY <1>2, <3>1 DEF OnceInv, KnownInv, Known
    <2> QED BY <1>2, <2>1, <2>2 DEF OnceInv, KnownInv, Known, OthersKept
  <1>7. PendingInv' BY <1>2, <1>5 DEF OnceInv, PendingInv, Distinct, Apart
  <1>8. ASSUME Making(e) PROVE MakingInv(e)'
    <2>1. /\ Distinct(merge[e]) /\ Distinct(todo[e]["merge"])
          /\ Apart(merge[e], todo[e]["merge"])
          /\ \A f \in Executions : Apart(merge[e], Pending(f))
      BY <1>4, <1>8 DEF OnceInv, MakingInv
    <2>2. Distinct(merge[e])' /\ Distinct(todo[e]["merge"])'
      BY <1>2, <1>3, <2>1 DEF Distinct, Apart
    <2>3. Apart(merge[e], todo[e]["merge"])' BY <1>2, <1>3, <2>1 DEF Distinct, Apart
    <2>4. ASSUME NEW f \in Executions PROVE Apart(merge[e], Pending(f))'
      <3>1. Apart(Pending(f), delta) BY DEF OnceInv, PendingInv
      <3> QED BY <1>2, <1>3, <1>5, <2>1, <3>1 DEF Apart
    <2> QED BY <1>4, <2>2, <2>3, <2>4 DEF MakingInv
  <1>9. MakingInv(e)'
    BY <1>4, <1>8 DEF MakingInv, Making
  <1>10. ASSUME NEW f \in Executions, f # e PROVE MakingInv(f)'
    BY <1>2, <1>5, <1>10, QuieterMaking DEF OthersKept, Kept
  <1> QED BY <1>6, <1>7, <1>9, <1>10 DEF Once

(* An object of step 2 is copied.                                           *)
LEMMA OnceBackup ==
    ASSUME TypeOK, OnceInv, NoneMisled, NEW e \in Executions, JobInv(e),
           NEW o \in todo[e]["backup"], CopyObject(e, "backup", o)
    PROVE  Once'
  <1>1. /\ UNCHANGED <<inserted, delta, merge, pc, job>>
        /\ todo'[e]["backup"] = todo[e]["backup"] \ {o}
        /\ copied'[e]["backup"] = copied[e]["backup"] \cup {o}
        /\ OthersKept(e) /\ OtherJobsKept(e, "backup")
    BY CopyDoes DEF Jobs
  <1>2. job[e] \in {"merge", "backup", "restore"} /\ "restore" \in Jobs BY DEF TypeOK, Jobs
  <1>3. job[e] = "backup" /\ pc[e] \notin {"new", "scan"}
    BY <1>2 DEF JobInv, Left, NoneMisled
  <1>4. Pending(e)' \subseteq Pending(e) BY <1>1, <1>3 DEF Pending
  <1>5. MakingInv(e)'
    <2>1. MakingInv(e) BY DEF OnceInv
    <2>2. ASSUME Making(e), NEW f \in Executions PROVE Apart(merge[e], Pending(f))'
      <3>1. Apart(merge[e], Pending(f)) BY <2>1, <2>2 DEF MakingInv
      <3>2. Pending(f)' \subseteq Pending(f)
        BY <1>1, <1>4 DEF Pending, OthersKept, Kept
      <3> QED BY <1>1, <3>1, <3>2 DEF Apart
    <2>3. Left(e, "backup")' = Left(e, "backup") BY <1>1 DEF Left
    <2> QED BY <1>1, <1>3, <2>1, <2>2, <2>3 DEF MakingInv, Making, Distinct, Apart
  <1> QED BY <1>1, <1>4, <1>5, QuietStep DEF OtherJobsKept

(* An object of step 3 is copied.                                           *)
LEMMA OnceRestore ==
    ASSUME TypeOK, OnceInv, NEW e \in Executions, JobInv(e),
           NEW o \in todo[e]["restore"], CopyObject(e, "restore", o)
    PROVE  Once'
  <1>1. /\ UNCHANGED <<inserted, merge, pc, job>>
        /\ todo'[e]["restore"] = todo[e]["restore"] \ {o} /\ delta' = delta \cup {o}
        /\ OthersKept(e) /\ OtherJobsKept(e, "restore")
    BY CopyDoes DEF Jobs
  <1>2. job[e] \in {"merge", "backup", "restore"} /\ "restore" \in Jobs BY DEF TypeOK, Jobs
  <1>3. job[e] = "restore" /\ pc[e] \notin {"new", "scan"} BY <1>2 DEF JobInv, Left
  <1>4. /\ Pending(e) = todo[e]["restore"] /\ Pending(e)' = todo[e]["restore"] \ {o}
        /\ \A f \in Executions : f # e => Pending(f)' = Pending(f)
    BY <1>1, <1>3 DEF Pending, OthersKept, Kept
  <1>5. /\ Distinct(delta) /\ Distinct(Pending(e)) /\ Apart(Pending(e), delta)
        /\ \A f \in Executions : f # e => /\ Distinct(Pending(f)) /\ Apart(Pending(f), delta)
                                         /\ Apart(Pending(f), Pending(e))
                                         /\ Apart(Pending(e), Pending(f))
    BY DEF OnceInv, PendingInv
  <1>6. KnownInv'
    <2>1. \A f \in Executions, j \in Jobs : todo'[f][j] \subseteq todo[f][j]
      BY <1>1 DEF OthersKept, OtherJobsKept
    <2>2. Known(todo[e]["restore"]) BY <1>2 DEF OnceInv, KnownInv
    <2>3. Known(delta)' BY <1>1, <2>2 DEF OnceInv, KnownInv, Known
    <2> QED BY <1>1, <2>1, <2>3 DEF OnceInv, KnownInv, Known
  <1>7. Distinct(delta)' BY <1>1, <1>4, <1>5 DEF Distinct, Apart
  <1>8. Distinct(Pending(e))' /\ Apart(Pending(e), delta)'
    BY <1>1, <1>4, <1>5 DEF Distinct, Apart
  <1>9. ASSUME NEW f \in Executions, f # e
        PROVE  /\ Distinct(Pending(f))' /\ Apart(Pending(f), delta)'
               /\ Apart(Pending(f), Pending(e))' /\ Apart(Pending(e), Pending(f))'
    <2>1. /\ Distinct(Pending(f)) /\ Apart(Pending(f), delta) /\ Pending(f)' = Pending(f)
          /\ Apart(Pending(f), Pending(e)) /\ Apart(Pending(e), Pending(f))
      BY <1>4, <1>5, <1>9
    <2> QED BY <1>1, <1>4, <2>1 DEF Distinct, Apart
  <1>10. ASSUME NEW f \in Executions, NEW g \in Executions, f # g, f # e, g # e
         PROVE  Apart(Pending(f), Pending(g))'
    <2>1. Apart(Pending(f), Pending(g)) BY <1>10 DEF OnceInv, PendingInv
    <2>2. Pending(f)' = Pending(f) /\ Pending(g)' = Pending(g) BY <1>4, <1>10
    <2> QED BY <2>1, <2>2 DEF Apart
  <1>11. PendingInv' BY <1>7, <1>8, <1>9, <1>10 DEF PendingInv
  <1>12. ASSUME NEW f \in Executions, f # e PROVE MakingInv(f)'
    <2>1. MakingInv(f) BY DEF OnceInv
    <2>2. Making(f)' <=> Making(f) BY <1>1 DEF Making
    <2>3. ASSUME Making(f), NEW g \in Executions PROVE Apart(merge[f], Pending(g))'
      <3>1. Apart(merge[f], Pending(g)) BY <2>1, <2>3 DEF MakingInv
      <3>2. Pending(g)' \subseteq Pending(g) BY <1>4
      <3> QED BY <1>1, <3>1, <3>2 DEF Apart
    <2>4. ASSUME Making(f) PROVE Apart({o}, merge[f])
      <3>1. Apart(merge[f], Pending(e)) BY <2>1, <2>4 DEF MakingInv
      <3> QED BY <1>4, <3>1 DEF Apart
    <2>5. ASSUME Making(f), job[f] = "backup", pc[f] = "work", NEW x \in delta'
          PROVE  x \in Left(f, "backup") \/ Apart({x}, merge[f])
      BY <1>1, <2>1, <2>4, <2>5 DEF MakingInv
    <2>6. todo'[f] = todo[f] /\ copied'[f] = copied[f] /\ merge'[f] = merge[f]
          /\ pc'[f] = pc[f] /\ job'[f] = job[f]
      BY <1>1, <1>12 DEF OthersKept
    <2> QED BY <2>1, <2>2, <2>3, <2>5, <2>6 DEF MakingInv, Distinct, Apart, Left
  <1>13. MakingInv(e)' BY <1>1, <1>3 DEF MakingInv, Making
  <1> QED BY <1>6, <1>11, <1>12, <1>13 DEF Once

(* A late insert brings rows that no job has seen.                          *)
LEMMA OnceInsert ==
    ASSUME MergerAssumption, TypeOK, OnceInv, NEW p \in Partitions, Insert(p)
    PROVE  Once'
  <1>1. /\ UNCHANGED <<merge, pc, job, todo, copied>>
        /\ \A r \in Rows : PartitionOf[r] = p => r \notin inserted
        /\ \A r \in Rows : PartitionOf[r] = p => r \in inserted'
        /\ inserted \subseteq inserted' /\ delta \subseteq delta'
        /\ \A o \in delta' : o \in delta \/ \E r \in Rows : PartitionOf[r] = p /\ o = Plain(r)
    BY InsertInserts DEF TypeOK
  <1>2. ASSUME NEW o \in delta', o \notin delta
        PROVE  \A r \in o[2] : r \notin inserted /\ r \in inserted' /\ o = Plain(r)
    <2>1. PICK r \in Rows : PartitionOf[r] = p /\ o = Plain(r) BY <1>1, <1>2
    <2> QED BY <1>1, <2>1, PlainTyped
  <1>3. \A f \in Executions : Pending(f)' = Pending(f) BY <1>1 DEF Pending
  <1>4. \A f \in Executions : Known(Pending(f)) /\ Known(merge[f])
    BY DEF OnceInv, KnownInv, Known, Pending, Jobs
  <1>5. Known(delta) BY DEF OnceInv, KnownInv
  <1>6. KnownInv'
    <2>1. Known(delta)' BY <1>1, <1>2, <1>5 DEF Known
    <2> QED BY <1>1, <2>1 DEF OnceInv, KnownInv, Known
  <1>7. Distinct(delta)'
    <2>1. Distinct(delta) BY DEF OnceInv, PendingInv
    <2>2. ASSUME NEW r \in Rows, NEW a \in delta', NEW b \in delta', r \in a[2], r \in b[2]
          PROVE  a = b
      <3>1. a \in delta => r \in inserted BY <1>5, <2>2 DEF Known
      <3>2. b \in delta => r \in inserted BY <1>5, <2>2 DEF Known
      <3>3. a \notin delta => r \notin inserted /\ a = Plain(r) BY <1>2, <2>2
      <3>4. b \notin delta => r \notin inserted /\ b = Plain(r) BY <1>2, <2>2
      <3>5. a \in delta /\ b \in delta => a = b BY <2>1, <2>2 DEF Distinct
      <3> QED BY <3>1, <3>2, <3>3, <3>4, <3>5
    <2> QED BY <2>2 DEF Distinct
  <1>8. ASSUME NEW f \in Executions PROVE Distinct(Pending(f))' /\ Apart(Pending(f), delta)'
    <2>1. /\ Distinct(Pending(f)) /\ Apart(Pending(f), delta) /\ Pending(f)' = Pending(f)
          /\ Known(Pending(f))
      BY <1>3, <1>4 DEF OnceInv, PendingInv
    <2> QED BY <1>2, <2>1 DEF Distinct, Apart, Known
  <1>9. PendingInv'
    <2>1. ASSUME NEW f \in Executions, NEW g \in Executions, f # g
          PROVE  Apart(Pending(f), Pending(g))'
      <3>1. Apart(Pending(f), Pending(g)) BY <2>1 DEF OnceInv, PendingInv
      <3>2. Pending(f)' = Pending(f) /\ Pending(g)' = Pending(g) BY <1>3
      <3> QED BY <3>1, <3>2 DEF Apart
    <2> QED BY <1>7, <1>8, <2>1 DEF PendingInv
  <1>10. ASSUME NEW f \in Executions PROVE MakingInv(f)'
    <2>1. MakingInv(f) /\ Known(merge[f]) BY <1>4 DEF OnceInv
    <2>2. Making(f)' <=> Making(f) BY <1>1 DEF Making
    <2>3. ASSUME NEW o \in delta', o \notin delta PROVE Apart({o}, merge[f])
      BY <1>2, <2>1, <2>3 DEF Apart, Known
    <2>4. ASSUME Making(f), NEW g \in Executions PROVE Apart(merge[f], Pending(g))'
      <3>1. Apart(merge[f], Pending(g)) /\ Pending(g)' = Pending(g)
        BY <1>3, <2>1, <2>4 DEF MakingInv
      <3> QED BY <1>1, <3>1 DEF Apart
    <2>5. Left(f, "backup")' = Left(f, "backup") BY <1>1 DEF Left
    <2> QED BY <1>1, <2>1, <2>2, <2>3, <2>4, <2>5 DEF MakingInv, Distinct, Apart
  <1> QED BY <1>6, <1>9, <1>10 DEF Once

LEMMA OnceActs ==
    ASSUME "Masked" \notin Faults, TypeOK, OnceInv, NoneMisled, NoneMisled',
           NEW e \in Executions, JobInv(e), Acts(e)
    PROVE  Once'
  <1>1. ASSUME NEW j \in Jobs, NEW o \in todo[e][j], CopyObject(e, j, o) PROVE Once'
    <2>1. j \in {"backup", "restore"} BY <1>1, CopyDoes
    <2> QED BY <1>1, <2>1, OnceBackup, OnceRestore
  <1> QED
    BY <1>1, StepCases, OnceScan, OnceScanFails, OnceMerge, OnceDelete, OnceFail,
       OnceSucceeds, OncePasses
    DEF Acts

LEMMA OnceStep ==
    ASSUME "Masked" \notin Faults, IInv, NoneMisled => OnceInv, [Next]_vars, NoneMisled'
    PROVE  OnceInv'
  <1>1. TypeOK /\ ShapeInv /\ \A e \in Executions : JobInv(e) BY DEF IInv
  <1>2. NoneMisled
    <2>1. ASSUME NEW e \in Executions, Acts(e) PROVE NoneMisled
      <3>1. \A f \in Executions : early[f] \subseteq early'[f]
        BY <1>1, <2>1, ObjectsFlow, MergerAssumption DEF Flows, OthersKept, Kept
      <3> QED BY <3>1 DEF NoneMisled, MisledAtBackup
    <2>2. ASSUME UNCHANGED early PROVE NoneMisled BY <2>2 DEF NoneMisled, MisledAtBackup
    <2>3. ASSUME NEW p \in Partitions, Insert(p) PROVE NoneMisled
      BY <1>1, <2>2, <2>3, InsertInserts, MergerAssumption
    <2>4. ASSUME NEW e \in Executions, Start(e) PROVE NoneMisled
      BY <1>1, <2>2, <2>4, StartDoes
    <2>5. CASE UNCHANGED vars BY <2>2, <2>5, UnchangedVars
    <2> QED BY <2>1, <2>3, <2>4, <2>5, NextCases
  <1>3. OnceInv BY <1>2
  <1>4. AloneInv' BY <1>1, <1>3, AloneStep, MergerAssumption DEF OnceInv
  <1>5. ASSUME NEW e \in Executions, Start(e) \/ Acts(e) PROVE Once'
    BY <1>1, <1>2, <1>3, <1>5, OnceStart, OnceActs
  <1>6. ASSUME NEW p \in Partitions, Insert(p) PROVE Once'
    BY <1>1, <1>3, <1>6, OnceInsert, MergerAssumption
  <1>7. ASSUME UNCHANGED vars PROVE Once'
    <2>1. UNCHANGED <<inserted, delta, merge, pc, job, todo, copied>> BY <1>7, UnchangedVars
    <2>2. \A e \in Executions : Pending(e)' = Pending(e) BY <2>1 DEF Pending
    <2>3. KnownInv' /\ PendingInv' BY <1>3, <2>1, <2>2, Quieter
    <2>4. ASSUME NEW f \in Executions PROVE MakingInv(f)'
      BY <1>3, <2>1, <2>2, QuieterMaking
    <2> QED BY <2>3, <2>4 DEF Once
  <1>8. Once' BY <1>5, <1>6, <1>7, NextCases
  <1> QED BY <1>4, <1>8 DEF Once, OnceInv

(* Until an execution is told too early that step 2 is done, and unless a   *)
(* job reports a batch with a failed object as Succeeded, a query of the    *)
(* delta table never counts a row twice: however many merges there are,     *)
(* whichever of their calls fail, and although the Lambdas of a job that    *)
(* was answered may still restore its objects while the next merge runs.    *)
THEOREM RowsCountedOnce == ASSUME "Masked" \notin Faults PROVE Spec => []NeverTwice
  <1>1. IInv /\ (NoneMisled => OnceInv) /\ [Next]_vars => (NoneMisled => OnceInv)'
    BY OnceStep
  <1>2. (NoneMisled => OnceInv) => NeverTwice
    <2> SUFFICES ASSUME OnceInv, NEW r \in Rows PROVE Cardinality(Found(r)) <= 1
      BY DEF NeverTwice, NoneMisled
    <2>1. CASE Found(r) = {} BY <2>1, FS_EmptySet
    <2>2. ASSUME NEW o \in Found(r) PROVE Cardinality(Found(r)) <= 1
      <3>1. \A x \in Found(r) : x = o BY <2>2 DEF OnceInv, PendingInv, Distinct, Found
      <3>2. Found(r) = {o} BY <2>2, <3>1
      <3>3. Cardinality({o}) = 1 BY FS_Singleton, Zenon
      <3>4. 1 <= 1 OBVIOUS
      <3> QED BY <3>2, <3>3, <3>4, Zenon
    <2> QED BY <2>1, <2>2
  <1>3. Init => (NoneMisled => OnceInv) BY OnceInit
  <1> QED BY <1>1, <1>2, <1>3, Inductive, PTL DEF Spec

-----------------------------------------------------------------------------
(* A day that is merged once.  Before the restore nothing at the delta      *)
(* prefix is a merged object, so that the backup holds none and step 5      *)
(* drops no partition that step 4 has added.                                *)
OneMerge == \A e, f \in Executions : e = f

OriginalsInv(e) ==
    /\ \A o \in original[e] \cup Left(e, "backup") : ~IsMerged(o)
    /\ job[e] # "restore" => \A o \in delta : ~IsMerged(o)

LEMMA OriginalsActs ==
    ASSUME MergerAssumption, TypeOK, ShapeInv, NEW e \in Executions, JobInv(e),
           OriginalsInv(e), Acts(e)
    PROVE  OriginalsInv(e)'
  <1>1. \A o : (IsMerged(o))' <=> IsMerged(o) BY DEF IsMerged, Partition
  <1>2. job[e] \in {"merge", "backup", "restore"} /\ job[e] \in Jobs
        /\ "backup" \in Jobs /\ "restore" \in Jobs
    BY DEF TypeOK, Jobs
  <1>3. original'[e] \subseteq original[e] \cup Left(e, "backup")
    BY <1>2, ObjectsFlow DEF Flows, Left
  <1>4. ASSUME NEW o \in Left(e, "backup")' PROVE ~IsMerged(o)
    <2>1. Left(e, "backup")' \subseteq Left(e, "backup") \/ (pc[e] = "scan" /\
             Left(e, "backup")' \subseteq Left(e, "backup") \cup Source(e, "backup")
             /\ (job[e] = "backup" \/ Left(e, "backup")' \subseteq Left(e, "backup")))
      <3>1. CASE Scan(e)
        BY <1>2, <3>1, ScanDoes DEF OtherJobsKept, Left
      <3>2. ASSUME NEW S \in SUBSET Source(e, job[e]), ScanFails(e, S)
            PROVE  /\ pc[e] = "scan"
                   /\ Left(e, "backup")' \subseteq Left(e, "backup") \cup Source(e, "backup")
                   /\ job[e] = "backup" \/ Left(e, "backup")' \subseteq Left(e, "backup")
        BY <1>2, <3>2, ScanFailsDoes DEF OtherJobsKept, Left
      <3>3. ASSUME NEW S \in SUBSET todo[e]["merge"], MergeBatch(e, S)
            PROVE  Left(e, "backup")' = Left(e, "backup")
        BY <1>2, <3>3, MergeDoes DEF OtherJobsKept, Left
      <3>4. ASSUME NEW j \in Jobs, NEW x \in todo[e][j], CopyObject(e, j, x)
            PROVE  Left(e, "backup")' = Left(e, "backup")
        BY <1>2, <3>4, CopyDoes DEF OtherJobsKept, Left
      <3>5. ASSUME NEW j \in Jobs, NEW x \in copied[e][j], DeleteObject(e, j, x)
            PROVE  Left(e, "backup")' \subseteq Left(e, "backup")
        BY <1>2, <3>5, DeleteDoes DEF OtherJobsKept, Left
      <3>6. ASSUME NEW j \in Jobs, NEW x \in Left(e, j), BatchFails(e, j, x)
            PROVE  Left(e, "backup")' \subseteq Left(e, "backup")
        BY <1>2, <3>6, FailDoes DEF OtherJobsKept, Left
      <3>7. CASE JobSucceeds(e) BY <3>7, SucceedsDoes DEF Left
      <3>8. CASE Passes(e) BY <3>8, PassDoes DEF Left
      <3> QED BY <3>1, <3>2, <3>3, <3>4, <3>5, <3>6, <3>7, <3>8, StepCases DEF Acts
    <2>2. \A x \in Left(e, "backup") : ~IsMerged(x) BY DEF OriginalsInv
    <2>3. job[e] = "backup" => \A x \in Source(e, "backup") : ~IsMerged(x)
      BY DEF OriginalsInv, Source
    <2> QED BY <1>4, <2>1, <2>2, <2>3
  <1>5. ASSUME job'[e] # "restore" PROVE delta' \subseteq delta /\ job[e] # "restore"
    <2>1. ASSUME NEW j \in Jobs, NEW o \in todo[e][j], CopyObject(e, j, o)
          PROVE  delta' \subseteq delta /\ job[e] # "restore"
      <3>1. job[e] # "restore" BY <1>5, <2>1, CopyDoes
      <3>2. j # "restore" BY <1>2, <3>1, <2>1 DEF JobInv, Left
      <3> QED BY <2>1, <3>1, <3>2, CopyDoes
    <2>2. \A j \in Jobs : Misled(e, j) => job[e] # "restore"
      BY <1>5 DEF Misled, ToldNothing, Advanced
    <2>3. ToldNothing(e) => job[e] # "restore" BY <1>5 DEF ToldNothing, Advanced
    <2>4. CASE Scan(e) BY <1>5, <2>3, <2>4, ScanDoes
    <2>5. ASSUME NEW S \in SUBSET Source(e, job[e]), ScanFails(e, S)
          PROVE  delta' = delta /\ job[e] # "restore"
      BY <1>5, <2>5, ScanFailsDoes
    <2>6. ASSUME NEW S \in SUBSET todo[e]["merge"], MergeBatch(e, S)
          PROVE  delta' = delta /\ job[e] # "restore"
      BY <1>5, <2>2, <2>6, MergeDoes DEF Kept, Jobs
    <2>7. ASSUME NEW j \in Jobs, NEW x \in copied[e][j], DeleteObject(e, j, x)
          PROVE  delta' \subseteq delta /\ job[e] # "restore"
      BY <1>5, <2>2, <2>7, DeleteDoes DEF Kept
    <2>8. ASSUME NEW j \in Jobs, NEW x \in Left(e, j), BatchFails(e, j, x)
          PROVE  delta' = delta /\ job[e] # "restore"
      BY <1>5, <2>2, <2>8, FailDoes DEF Kept
    <2>9. CASE JobSucceeds(e) BY <1>5, <2>9, SucceedsDoes DEF Advanced
    <2>10. CASE Passes(e) BY <1>5, <2>10, PassDoes
    <2> QED
      BY <2>1, <2>4, <2>5, <2>6, <2>7, <2>8, <2>9, <2>10, StepCases DEF Acts
  <1> QED BY <1>1, <1>3, <1>4, <1>5 DEF OriginalsInv

LEMMA OriginalsStep ==
    ASSUME MergerAssumption, OneMerge, TypeOK, ShapeInv, [Next]_vars, NEW e \in Executions,
           JobInv(e), OriginalsInv(e)
    PROVE  OriginalsInv(e)'
  <1>1. ASSUME NEW p \in Partitions, Insert(p) PROVE OriginalsInv(e)'
    <2>1. \A o \in delta' : o \in delta \/ \E r \in Rows : o = Plain(r)
      BY <1>1, InsertInserts
    <2>2. UNCHANGED <<original, job, todo, copied>> BY <1>1, InsertInserts
    <2>3. \A r \in Rows : ~IsMerged(Plain(r)) BY PlainTyped
    <2>4. Left(e, "backup")' = Left(e, "backup") BY <2>2 DEF Left
    <2> QED BY <2>1, <2>2, <2>3, <2>4 DEF OriginalsInv, IsMerged, Partition
  <1>2. ASSUME UNCHANGED <<delta, original, job, todo, copied>> PROVE OriginalsInv(e)'
    BY <1>2 DEF OriginalsInv, IsMerged, Partition, Left
  <1>3. ASSUME NEW f \in Executions, Start(f) PROVE OriginalsInv(e)'
    BY <1>2, <1>3, StartDoes
  <1>4. ASSUME NEW f \in Executions, Acts(f) PROVE OriginalsInv(e)'
    <2>1. f = e BY DEF OneMerge
    <2> QED BY <1>4, <2>1, OriginalsActs
  <1>5. CASE UNCHANGED vars BY <1>2, <1>5, UnchangedVars
  <1> QED BY <1>1, <1>3, <1>4, <1>5, NextCases

(* A merged object is in no partition of the backup.                        *)
LEMMA BackupEmptied ==
    ASSUME MergerAssumption, IInv, NEW e \in Executions, OriginalsInv(e), pc[e] = "drop",
           ~MisledAtBackup(e)
    PROVE  \A o \in original[e], x \in delta : Partition(o) # Partition(x)
  <1> SUFFICES ASSUME NEW o \in original[e], NEW x \in delta, Partition(o) = Partition(x)
               PROVE  FALSE
    OBVIOUS
  <1>1. ~IsMerged(o) BY DEF OriginalsInv
  <1>2. ~IsMerged(x) BY <1>1 DEF IsMerged
  <1>3. PICK r \in inserted : x = Plain(r) BY <1>2 DEF IInv, ShapeInv, Shaped
  <1>4. r \in Rows /\ Partition(x) = PartitionOf[r] BY <1>3, PlainTyped DEF IInv, TypeOK
  <1>5. ~Meets(r, original[e]) BY <1>3, <1>4 DEF IInv, JobInv
  <1> QED BY <1>4, <1>5 DEF Meets

LEMMA OnlyDropDrops ==
    ASSUME MergerAssumption, TypeOK, [Next]_vars, NEW p \in table \ table'
    PROVE  \E e \in Executions : pc[e] = "drop" /\ p \in PartitionsIn(original[e])
  <1>1. ASSUME NEW e \in Executions, Passes(e)
        PROVE  pc[e] = "drop" /\ p \in PartitionsIn(original[e])
    BY <1>1
    DEF Passes, JobSilent, StateFails, Complete, Notify, UpdateFailed, AddPartitions,
        DropPartitions, DroppedPartitions, Altered, UpdateFails, dataVars
  <1>2. ASSUME NEW e \in Executions, Acts(e) PROVE Passes(e)
    BY <1>2, StepCases, ScanDoes, ScanFailsDoes, MergeDoes, CopyDoes, DeleteDoes, FailDoes,
       SucceedsDoes
    DEF Acts
  <1> QED BY <1>1, <1>2, NextCases, InsertInserts, StartDoes, UnchangedVars

(* "Batch Drop Partitions before Merging" of a day that is merged once      *)
(* drops a partition only when its objects have gone from the delta prefix, *)
(* or when the execution was told too early that step 2 is done: whichever  *)
(* calls fail, unless a job masks it, and whenever logs are inserted.       *)
THEOREM OnlyEmptiedDropped ==
    ASSUME "Masked" \notin Faults, OneMerge PROVE Spec => DropsOnlyEmptied
  <1> DEFINE Originals == \A e \in Executions : OriginalsInv(e)
  <1>1. Init => Originals BY DEF Init, OriginalsInv, Left, Jobs
  <1>2. IInv /\ Originals /\ [Next]_vars => Originals'
    <2> SUFFICES ASSUME IInv, Originals, [Next]_vars PROVE Originals' OBVIOUS
    <2>1. TypeOK /\ ShapeInv /\ \A e \in Executions : JobInv(e) BY DEF IInv
    <2> QED BY <2>1, OriginalsStep, MergerAssumption
  <1>3. IInv /\ Originals /\ [Next]_vars =>
            [\A p \in table \ table' :
                \/ p \notin PartitionsIn(delta)
                \/ \E e \in Executions : pc[e] = "drop" /\ MisledAtBackup(e)]_vars
    <2> SUFFICES ASSUME IInv, Originals, [Next]_vars, NEW p \in table \ table'
                 PROVE  \/ p \notin PartitionsIn(delta)
                        \/ \E e \in Executions : pc[e] = "drop" /\ MisledAtBackup(e)
      OBVIOUS
    <2>1. PICK e \in Executions : pc[e] = "drop" /\ p \in PartitionsIn(original[e])
      BY OnlyDropDrops, MergerAssumption DEF IInv
    <2>2. ASSUME ~MisledAtBackup(e) PROVE p \notin PartitionsIn(delta)
      BY <2>1, <2>2, BackupEmptied, MergerAssumption DEF PartitionsIn
    <2> QED BY <2>1, <2>2
  <1> QED BY <1>1, <1>2, <1>3, Inductive, PTL DEF Spec, DropsOnlyEmptied

(* Where the rows of the backup are, when nothing is inserted during the    *)
(* merge, no statement fails and steps 2 and 3 are not answered too early:  *)
(* until step 3 is done in a merged object that is still to be restored or  *)
(* has been, then in a partition of the catalog.                            *)
In(r, O) == \E o \in O : r \in o[2]
Restored(r) == \E o \in delta : IsMerged(o) /\ r \in o[2]
Added(r) == \E o \in delta : IsMerged(o) /\ r \in o[2] /\ Partition(o) \in table

Moved(e) == Left(e, "backup") = {} /\ Left(e, "restore") = {}

Flow(e) ==
    /\ job[e] = "merge" /\ pc[e] = "work" =>
          \A r \in Rows : In(r, delta) => In(r, todo[e]["merge"]) \/ In(r, merge[e])
    /\ job[e] = "backup" /\ pc[e] \in {"scan", "work"} =>
          \A r \in Rows :
             In(r, delta) \/ In(r, Left(e, "backup")) \/ In(r, original[e]) => In(r, merge[e])
    /\ job[e] = "restore" /\ pc[e] = "work" =>
          merge[e] \subseteq Left(e, "restore") /\ copied[e]["restore"] \subseteq delta
    /\ job[e] = "restore" /\ pc[e] \in {"scan", "work"} =>
          \A r \in Rows : In(r, original[e]) => In(r, merge[e]) \/ Restored(r)
    /\ pc[e] = "add" => Moved(e) /\ \A r \in Rows : In(r, original[e]) => Restored(r)
    /\ pc[e] \in {"drop", "complete"} \/ log[e] = "Succeeded" =>
          Moved(e) /\ \A r \in Rows : In(r, original[e]) => Added(r)

FlowInv(e) ==
    /\ log[e] = "Succeeded" => pc[e] = "ended"
    /\ ~MisledMoving(e) => Flow(e)

Calm == Faults \cap {"Masked", "LateInsert", "QueryError"} = {} /\ OneMerge

LEMMA FlowInsert ==
    ASSUME MergerAssumption, Calm, TypeOK, NEW e \in Executions, FlowInv(e),
           NEW p \in Partitions, Insert(p)
    PROVE  FlowInv(e)'
  <1>1. UNCHANGED <<merge, original, pc, job, todo, copied, early, log>> BY InsertInserts
  <1>2. ~Running(e) BY DEF Insert, Calm
  <1>3. delta \subseteq delta' /\ table \subseteq table' BY InsertInserts
  <1>4. \A r \in Rows : Added(r) => Added(r)' BY <1>3 DEF Added, IsMerged, Partition
  <1>5. pc'[e] \notin {"scan", "work", "add", "drop", "complete"}
    BY <1>1, <1>2 DEF Running
  <1>6. Moved(e)' <=> Moved(e) BY <1>1 DEF Moved, Left
  <1>7. \A r \in Rows : In(r, original[e])' => In(r, original[e]) BY <1>1 DEF In
  <1>8. MisledMoving(e)' <=> MisledMoving(e) BY <1>1 DEF MisledMoving
  <1> QED BY <1>1, <1>4, <1>5, <1>6, <1>7, <1>8 DEF FlowInv, Flow

LEMMA LogFollows ==
    ASSUME MergerAssumption, TypeOK, NEW e \in Executions, JobInv(e), Acts(e),
           log[e] = "Succeeded" => pc[e] = "ended"
    PROVE  log'[e] = "Succeeded" => pc'[e] = "ended"
  <1>1. CASE Passes(e)
    BY <1>1
    DEF Passes, JobSilent, StateFails, Complete, Notify, UpdateFailed, AddPartitions,
        DropPartitions, UpdateFails, Goto, logVars, TypeOK
  <1>2. \A j \in Jobs : Misled(e, j) => pc[e] = "work" BY DEF Misled
  <1>3. ASSUME NEW j \in Jobs, NEW o \in Left(e, j), BatchFails(e, j, o), pc[e] = "ended"
        PROVE  pc'[e] = pc[e]
    BY <1>2, <1>3, FailDoes DEF Kept
  <1>4. ASSUME NEW j \in Jobs, NEW o \in copied[e][j], DeleteObject(e, j, o), pc[e] = "ended"
        PROVE  pc'[e] = pc[e]
    BY <1>2, <1>4, DeleteDoes DEF Kept
  <1>5. ASSUME NEW S \in SUBSET todo[e]["merge"], MergeBatch(e, S), pc[e] = "ended"
        PROVE  pc'[e] = pc[e]
    BY <1>2, <1>5, MergeDoes DEF Kept, Jobs
  <1>6. ASSUME ~Passes(e)
        PROVE  log' = log /\ (pc[e] = "ended" => pc'[e] = "ended")
    <2>1. CASE Scan(e) BY <2>1, ScanDoes
    <2>2. CASE \E S \in SUBSET Source(e, job[e]) : ScanFails(e, S) BY <2>2, ScanFailsDoes
    <2>3. CASE \E S \in SUBSET todo[e]["merge"] : MergeBatch(e, S) BY <1>5, <2>3, MergeDoes
    <2>4. CASE \E j \in Jobs : \E o \in todo[e][j] : CopyObject(e, j, o) BY <2>4, CopyDoes
    <2>5. CASE \E j \in Jobs : \E o \in copied[e][j] : DeleteObject(e, j, o)
      BY <1>4, <2>5, DeleteDoes
    <2>6. CASE \E j \in Jobs : \E o \in Left(e, j) : BatchFails(e, j, o)
      BY <1>3, <2>6, FailDoes
    <2>7. CASE JobSucceeds(e) BY <2>7, SucceedsDoes
    <2> QED BY <1>6, <2>1, <2>2, <2>3, <2>4, <2>5, <2>6, <2>7, StepCases DEF Acts
  <1> QED BY <1>1, <1>6

(* Only the job that the execution has come to has objects in its hands.    *)
LEMMA LeftOfJob ==
    ASSUME TypeOK, NEW e \in Executions, JobInv(e), ~MisledAtBackup(e),
           NEW j \in Jobs, Left(e, j) # {}
    PROVE  j = job[e] /\ pc[e] \notin {"new", "scan"}
  BY DEF TypeOK, JobInv, Left, Jobs

LEMMA FlowIdle ==
    ASSUME NEW e \in Executions, log'[e] # "Succeeded",
           pc'[e] \notin {"scan", "work", "add", "drop", "complete"}
    PROVE  Flow(e)'
  BY DEF Flow

(* A job of step 1 that was answered leaves nothing in a backup.            *)
LEMMA FlowMerged ==
    ASSUME NEW e \in Executions, pc'[e] # "work", pc'[e] # "scan", pc'[e] # "add",
           original'[e] = {}, Moved(e)'
    PROVE  Flow(e)'
  BY DEF Flow, In

LEMMA FlowScan ==
    ASSUME TypeOK, NEW e \in Executions, JobInv(e), ~MisledMoving(e), Flow(e),
           log'[e] # "Succeeded", Scan(e)
    PROVE  Flow(e)'
  <1>1. /\ UNCHANGED <<delta, merge, original, copied>> /\ pc[e] = "scan"
        /\ todo'[e][job[e]] = Source(e, job[e]) /\ OtherJobsKept(e, job[e])
        /\ \/ Source(e, job[e]) = {} /\ ToldNothing(e)
           \/ Source(e, job[e]) # {} /\ pc'[e] = "work" /\ job'[e] = job[e]
    BY ScanDoes
  <1>2. job[e] \in {"merge", "backup", "restore"} /\ job[e] \in Jobs
        /\ "merge" \in Jobs /\ "backup" \in Jobs /\ "restore" \in Jobs
        /\ ~MisledAtBackup(e)
    BY DEF TypeOK, Jobs, MisledMoving, MisledAtBackup
  <1>3. copied[e][job[e]] = {} BY <1>1 DEF JobInv, Left
  <1>4. Left(e, job[e])' = Source(e, job[e]) \/ job'[e] # job[e] BY <1>1, <1>3 DEF Left
  <1>5. \A r \in Rows : Restored(r)' <=> Restored(r)
    BY <1>1 DEF Restored, IsMerged, Partition
  <1>6. CASE job[e] = "merge"
    <2>1. CASE pc'[e] = "work" BY <1>1, <1>6, <2>1 DEF Flow, Source, In, ToldNothing
    <2>2. CASE pc'[e] # "work"
      <3>1. pc'[e] = "complete" BY <1>1, <1>6, <2>2 DEF ToldNothing
      <3>2. Moved(e)' BY <1>1, <1>2, <1>6 DEF Moved, Left, OtherJobsKept, JobInv
      <3> QED BY <1>1, <1>6, <3>1, <3>2, FlowMerged DEF JobInv
    <2> QED BY <2>1, <2>2
  <1>7. CASE job[e] = "backup"
    <2>1. \A r \in Rows : In(r, delta) \/ In(r, original[e]) => In(r, merge[e])
      BY <1>1, <1>7 DEF Flow
    <2>2. CASE pc'[e] = "work" /\ job'[e] = "backup"
      <3>1. Left(e, "backup")' = delta BY <1>1, <1>3, <1>7 DEF Left, Source
      <3> QED BY <1>1, <2>1, <2>2, <3>1 DEF Flow, In
    <2>3. CASE pc'[e] = "scan" /\ job'[e] = "restore"
      BY <1>1, <2>1, <2>3 DEF Flow, In
    <2> QED BY <1>1, <1>7, <2>2, <2>3 DEF ToldNothing, Advanced
  <1>8. CASE job[e] = "restore"
    <2>1. \A r \in Rows : In(r, original[e]) => In(r, merge[e]) \/ Restored(r)
      BY <1>1, <1>8 DEF Flow
    <2>2. Left(e, "restore")' = merge[e] BY <1>1, <1>3, <1>8 DEF Left, Source
    <2>3. CASE pc'[e] = "work" /\ job'[e] = "restore"
      <3>1. copied'[e]["restore"] = {} BY <1>1, <1>3, <1>8
      <3> QED BY <1>1, <1>5, <2>1, <2>2, <2>3, <3>1 DEF Flow, In
    <2>4. CASE pc'[e] = "add" /\ merge[e] = {}
      <3>1. Left(e, "backup")' = {} BY <1>1, <1>2, <1>8 DEF JobInv, OtherJobsKept, Left
      <3>2. Moved(e)' BY <2>2, <2>4, <3>1 DEF Moved
      <3>3. \A r \in Rows : In(r, original[e])' => Restored(r)'
        BY <1>1, <1>5, <2>1, <2>4 DEF In
      <3> QED BY <2>4, <3>2, <3>3 DEF Flow
    <2> QED BY <1>1, <1>8, <2>3, <2>4 DEF ToldNothing, Advanced, Source
  <1> QED BY <1>2, <1>6, <1>7, <1>8

LEMMA FlowMerge ==
    ASSUME TypeOK, NEW e \in Executions, JobInv(e), Flow(e),
           NEW S \in SUBSET todo[e]["merge"], MergeBatch(e, S)
    PROVE  Flow(e)'
  <1>1. PICK p \in Partitions : merge'[e] = merge[e] \cup {<<p, RowsIn(S)>>}
    BY MergeDoes
  <1>2. /\ UNCHANGED <<delta, original, copied>> /\ S # {}
        /\ todo'[e]["merge"] = todo[e]["merge"] \ S
        /\ OtherJobsKept(e, "merge")
        /\ Kept(e) \/ Misled(e, "merge")
    BY MergeDoes
  <1>3. job[e] = "merge" /\ pc[e] # "scan" /\ original'[e] = {} BY <1>2 DEF JobInv, Left
  <1>4. "backup" \in Jobs /\ "restore" \in Jobs BY DEF Jobs
  <1>5. Moved(e)' BY <1>2, <1>3, <1>4 DEF JobInv, OtherJobsKept, Moved, Left
  <1>6. CASE pc'[e] = "work"
    <2>1. Kept(e) BY <1>2, <1>3, <1>6 DEF Misled, ToldNothing
    <2>2. ASSUME NEW r \in Rows, In(r, delta)
          PROVE  In(r, todo'[e]["merge"]) \/ In(r, merge'[e])
      <3>1. In(r, todo[e]["merge"]) \/ In(r, merge[e])
        BY <1>3, <1>6, <2>1, <2>2 DEF Flow, Kept
      <3>2. In(r, S) => r \in RowsIn(S) BY DEF In, RowsIn
      <3>3. <<p, RowsIn(S)>> \in merge'[e] /\ <<p, RowsIn(S)>>[2] = RowsIn(S) BY <1>1
      <3>4. r \in RowsIn(S) => In(r, merge'[e]) BY <3>3, Zenon DEF In
      <3>5. In(r, merge[e]) => In(r, merge'[e]) BY <1>1 DEF In
      <3>6. In(r, todo[e]["merge"]) => In(r, todo'[e]["merge"]) \/ In(r, S) BY <1>2 DEF In
      <3> QED BY <3>1, <3>2, <3>4, <3>5, <3>6
    <2> QED BY <1>2, <1>3, <1>5, <1>6, <2>1, <2>2 DEF Flow, Kept, In
  <1>7. CASE pc'[e] # "work"
    <2>1. pc'[e] # "scan" /\ pc'[e] # "add"
      BY <1>2, <1>3, <1>7 DEF Kept, Misled, ToldNothing, JobInv
    <2> QED BY <1>3, <1>5, <1>7, <2>1, FlowMerged
  <1> QED BY <1>6, <1>7

LEMMA FlowCopy ==
    ASSUME TypeOK, NEW e \in Executions, JobInv(e), ~MisledMoving(e), Flow(e),
           NEW j \in Jobs, NEW o \in todo[e][j], CopyObject(e, j, o)
    PROVE  Flow(e)'
  <1>1. /\ UNCHANGED <<table, merge, pc, job, log>> /\ j \in {"backup", "restore"}
        /\ todo'[e][j] = todo[e][j] \ {o} /\ copied'[e][j] = copied[e][j] \cup {o}
        /\ j = "backup" => delta' = delta /\ original'[e] = original[e] \cup {o}
        /\ j = "restore" => delta' = delta \cup {o} /\ original'[e] = original[e]
        /\ OtherJobsKept(e, j)
    BY CopyDoes
  <1>2. ~MisledAtBackup(e) /\ o \in Left(e, j) /\ Left(e, j)' = Left(e, j)
    BY <1>1 DEF MisledMoving, MisledAtBackup, Left
  <1>3. job[e] = j /\ pc[e] \notin {"new", "scan"} BY <1>2, LeftOfJob
  <1>4. ~Moved(e) BY <1>1, <1>2 DEF Moved
  <1>5. pc[e] \notin {"add", "drop", "complete"} /\ log[e] # "Succeeded" BY <1>4 DEF Flow
  <1>6. CASE pc[e] # "work" BY <1>1, <1>3, <1>5, <1>6, FlowIdle
  <1>7. CASE pc[e] = "work" /\ j = "backup"
    <2>1. Left(e, "backup")' = Left(e, "backup") BY <1>2, <1>7
    <2>2. \A r \in Rows : In(r, original[e])' =>
              In(r, original[e]) \/ In(r, Left(e, "backup"))
      BY <1>1, <1>2, <1>7 DEF In
    <2>3. \A r \in Rows : /\ In(r, delta)' => In(r, delta)
                          /\ In(r, Left(e, "backup"))' => In(r, Left(e, "backup"))
                          /\ In(r, merge[e]) => In(r, merge[e])'
      BY <1>1, <1>7, <2>1 DEF In
    <2>4. \A r \in Rows :
             In(r, delta) \/ In(r, Left(e, "backup")) \/ In(r, original[e]) => In(r, merge[e])
      BY <1>3, <1>7 DEF Flow
    <2>5. ASSUME NEW r \in Rows,
                 In(r, delta)' \/ In(r, Left(e, "backup"))' \/ In(r, original[e])'
          PROVE  In(r, merge[e])'
      <3>1. In(r, delta) \/ In(r, Left(e, "backup")) \/ In(r, original[e])
        BY <2>2, <2>3, <2>5
      <3> QED BY <2>3, <2>4, <3>1
    <2>6. /\ job'[e] = "backup" /\ pc'[e] = "work" /\ log'[e] # "Succeeded"
      BY <1>1, <1>3, <1>5, <1>7
    <2> QED BY <2>5, <2>6 DEF Flow
  <1>8. CASE pc[e] = "work" /\ j = "restore"
    <2>1. \A r \in Rows : Restored(r) => Restored(r)'
      BY <1>1, <1>8 DEF Restored, IsMerged, Partition
    <2>2. \A r \in Rows : /\ In(r, original[e])' => In(r, original[e])
                          /\ In(r, merge[e]) => In(r, merge[e])'
      BY <1>1, <1>8 DEF In
    <2>3. merge'[e] \subseteq Left(e, "restore")' /\ copied'[e]["restore"] \subseteq delta'
      BY <1>1, <1>2, <1>3, <1>8 DEF Flow
    <2> QED BY <1>1, <1>3, <1>5, <1>8, <2>1, <2>2, <2>3 DEF Flow
  <1> QED BY <1>1, <1>6, <1>7, <1>8

LEMMA FlowDelete ==
    ASSUME TypeOK, ShapeInv, NEW e \in Executions, JobInv(e), ~MisledMoving(e)', Flow(e),
           ~MisledMoving(e), NEW j \in Jobs, NEW o \in copied[e][j], DeleteObject(e, j, o)
    PROVE  Flow(e)'
  <1>1. /\ UNCHANGED <<table, original, todo, log>>
        /\ j = "backup" => delta' = delta \ {o} /\ merge'[e] = merge[e]
        /\ j # "backup" => delta' = delta /\ merge'[e] = merge[e] \ {o}
        /\ copied'[e][j] = copied[e][j] \ {o} /\ OtherJobsKept(e, j)
        /\ Kept(e) \/ Misled(e, j)
    BY DeleteDoes
  <1>2. j \in {"backup", "restore"} BY DEF JobInv, Jobs
  <1>3. Kept(e) BY <1>1, <1>2 DEF Misled, MisledMoving
  <1>4. ~MisledAtBackup(e) /\ o \in Left(e, j) /\ Left(e, j)' \subseteq Left(e, j)
    BY <1>1 DEF MisledMoving, MisledAtBackup, Left
  <1>5. job[e] = j /\ pc[e] \notin {"new", "scan"} BY <1>4, LeftOfJob
  <1>6. ~Moved(e) BY <1>2, <1>4 DEF Moved
  <1>7. pc[e] \notin {"add", "drop", "complete"} /\ log[e] # "Succeeded" BY <1>6 DEF Flow
  <1>8. CASE pc[e] # "work" BY <1>1, <1>3, <1>5, <1>7, <1>8, FlowIdle DEF Kept
  <1>9. CASE pc[e] = "work" /\ j = "backup"
    <2>1. \A r \in Rows : /\ In(r, delta)' => In(r, delta)
                          /\ In(r, Left(e, "backup"))' => In(r, Left(e, "backup"))
                          /\ In(r, original[e])' => In(r, original[e])
                          /\ In(r, merge[e]) => In(r, merge[e])'
      BY <1>1, <1>4, <1>9 DEF In
    <2>2. \A r \in Rows :
             In(r, delta) \/ In(r, Left(e, "backup")) \/ In(r, original[e]) => In(r, merge[e])
      BY <1>5, <1>9 DEF Flow
    <2>3. ASSUME NEW r \in Rows,
                 In(r, delta)' \/ In(r, Left(e, "backup"))' \/ In(r, original[e])'
          PROVE  In(r, merge[e])'
      <3>1. In(r, delta) \/ In(r, Left(e, "backup")) \/ In(r, original[e])
        BY <2>1, <2>3
      <3> QED BY <2>1, <2>2, <3>1
    <2>4. /\ job'[e] = "backup" /\ pc'[e] = "work" /\ log'[e] # "Succeeded"
      BY <1>1, <1>3, <1>5, <1>7, <1>9 DEF Kept
    <2> QED BY <2>3, <2>4 DEF Flow
  <1>10. CASE pc[e] = "work" /\ j = "restore"
    <2>1. \A r \in Rows : Restored(r) => Restored(r)'
      BY <1>1, <1>10 DEF Restored, IsMerged, Partition
    <2>2. \A r \in Rows : In(r, original[e])' => In(r, original[e]) BY <1>1 DEF In
    <2>3. ASSUME NEW r \in Rows, In(r, merge[e]) PROVE In(r, merge[e])' \/ Restored(r)
      <3>1. PICK x \in merge[e] : r \in x[2] BY <2>3 DEF In
      <3>2. CASE x = o
        <4>1. o \in delta /\ IsMerged(o) BY <1>5, <1>10, <3>1, <3>2 DEF Flow, ShapeInv
        <4> QED BY <3>1, <3>2, <4>1 DEF Restored
      <3>3. CASE x # o BY <1>1, <1>10, <3>1, <3>3 DEF In
      <3> QED BY <3>2, <3>3
    <2>4. merge'[e] \subseteq Left(e, "restore")' /\ copied'[e]["restore"] \subseteq delta'
      BY <1>1, <1>5, <1>10 DEF Flow, Left
    <2> QED BY <1>1, <1>3, <1>5, <1>7, <1>10, <2>1, <2>2, <2>3, <2>4 DEF Flow, Kept
  <1> QED BY <1>2, <1>8, <1>9, <1>10

LEMMA FlowFail ==
    ASSUME TypeOK, "Masked" \notin Faults, NEW e \in Executions, JobInv(e),
           ~MisledMoving(e)', ~MisledMoving(e), Flow(e),
           log[e] = "Succeeded" => pc[e] = "ended",
           NEW j \in Jobs, NEW o \in Left(e, j), BatchFails(e, j, o)
    PROVE  Flow(e)'
  <1>1. /\ UNCHANGED <<original, log>> /\ OtherJobsKept(e, j)
        /\ todo'[e][j] = todo[e][j] \ {o} /\ copied'[e][j] = copied[e][j] \ {o}
    BY FailDoes
  <1>2. \/ /\ job'[e] = job[e]
           /\ IF pc[e] = "work" /\ job[e] = j THEN pc'[e] = "notify" ELSE pc'[e] = pc[e]
        \/ Misled(e, j)
    BY FailDoes
  <1>3. ~MisledAtBackup(e) BY DEF MisledMoving, MisledAtBackup
  <1>4. job[e] = j /\ pc[e] \notin {"new", "scan"} BY <1>3, LeftOfJob
  <1>5. CASE j = "merge"
    <2>1. pc'[e] # "work" /\ pc'[e] # "scan" /\ pc'[e] # "add"
      BY <1>2, <1>4, <1>5 DEF Misled, ToldNothing, JobInv
    <2>2. "backup" \in Jobs /\ "restore" \in Jobs BY DEF Jobs
    <2>3. Moved(e)' BY <1>1, <1>4, <1>5, <2>2 DEF JobInv, OtherJobsKept, Moved, Left
    <2> QED BY <1>1, <1>4, <1>5, <2>1, <2>3, FlowMerged DEF JobInv
  <1>6. CASE j # "merge"
    <2>1. ~Moved(e) BY <1>6 DEF Moved, Jobs
    <2>2. pc[e] \notin {"add", "drop", "complete"} /\ log[e] # "Succeeded" BY <2>1 DEF Flow
    <2>3. ~Misled(e, j) BY <1>6 DEF Misled, MisledMoving, Jobs
    <2>4. pc'[e] \notin {"scan", "work", "add", "drop", "complete"}
      BY <1>2, <1>4, <2>2, <2>3
    <2> QED BY <1>1, <2>2, <2>4, FlowIdle
  <1> QED BY <1>5, <1>6

LEMMA FlowSucceeds ==
    ASSUME TypeOK, NEW e \in Executions, JobInv(e), ~MisledMoving(e), Flow(e),
           log'[e] # "Succeeded", JobSucceeds(e)
    PROVE  Flow(e)'
  <1>1. /\ UNCHANGED <<delta, merge, original, todo, copied>> /\ pc[e] = "work"
        /\ Left(e, job[e]) = {} /\ Advanced(e)
    BY SucceedsDoes
  <1>2. \A i \in Jobs : Left(e, i)' = Left(e, i) BY <1>1 DEF Left
  <1>3. \A r \in Rows : Restored(r)' <=> Restored(r)
    BY <1>1 DEF Restored, IsMerged, Partition
  <1>4. CASE job[e] = "merge"
    <2>1. job'[e] = "backup" /\ pc'[e] = "scan" BY <1>1, <1>4 DEF Advanced
    <2>2. \A r \in Rows : In(r, delta) => In(r, merge[e])
      BY <1>1, <1>4 DEF Flow, Left, In
    <2>3. original[e] = {} /\ Left(e, "backup")' = {}
      BY <1>2, <1>4 DEF JobInv, Jobs
    <2> QED BY <1>1, <2>1, <2>2, <2>3 DEF Flow, In
  <1>5. CASE job[e] = "backup"
    <2>1. job'[e] = "restore" /\ pc'[e] = "scan" BY <1>1, <1>5 DEF Advanced
    <2> QED BY <1>1, <1>5, <2>1 DEF Flow, In
  <1>6. CASE job[e] = "restore"
    <2>1. pc'[e] = "add" BY <1>1, <1>6 DEF Advanced
    <2>2. merge[e] = {} BY <1>1, <1>6 DEF Flow
    <2>3. \A r \in Rows : In(r, original[e])' => Restored(r)'
      BY <1>1, <1>3, <1>6, <2>2 DEF Flow, In
    <2>4. Moved(e)'
      BY <1>1, <1>2, <1>6 DEF Moved, JobInv, Jobs, MisledMoving, MisledAtBackup
    <2> QED BY <2>1, <2>3, <2>4 DEF Flow
  <1> QED BY <1>1, <1>4, <1>5, <1>6 DEF Advanced

LEMMA FlowPasses ==
    ASSUME TypeOK, Calm, NEW e \in Executions, Flow(e),
           log[e] = "Succeeded" => pc[e] = "ended",
           pc[e] = "drop" =>
              \A o \in original[e], x \in delta : Partition(o) # Partition(x),
           Passes(e)
    PROVE  Flow(e)'
  <1> USE DEF Goto, dataVars, jobVars, moveVars, logVars
  <1>1. /\ UNCHANGED <<delta, merge, original, job, todo, copied>>
        /\ pc[e] \notin {"new", "unanswered", "ended"}
    BY PassDoes
  <1>2. Moved(e)' <=> Moved(e) BY <1>1 DEF Moved, Left
  <1>3. \A r \in Rows : In(r, original[e])' => In(r, original[e]) BY <1>1 DEF In
  <1>4. log[e] # "Succeeded" BY <1>1
  <1>5. CASE JobSilent(e) \/ StateFails(e) \/ Notify(e) \/ UpdateFailed(e)
    <2>1. pc'[e] \in {"unanswered", "ended", "fail"} /\ log'[e] # "Succeeded"
      BY <1>4, <1>5 DEF JobSilent, StateFails, Notify, UpdateFailed, TypeOK
    <2> QED BY <2>1, FlowIdle
  <1>6. CASE Complete(e)
    <2>1. table' = table /\ pc[e] = "complete" /\ pc'[e] = "ended"
      BY <1>6 DEF Complete, TypeOK
    <2>2. \A r \in Rows : Added(r) => Added(r)' BY <1>1, <2>1 DEF Added, IsMerged, Partition
    <2> QED BY <1>2, <1>3, <2>1, <2>2 DEF Flow
  <1>7. ASSUME NEW P \in SUBSET Partitions, AddPartitions(e, P) PROVE Flow(e)'
    <2>1. /\ pc[e] = "add" /\ pc'[e] = "drop" /\ table' = table \cup PartitionsIn(delta)
      BY <1>7 DEF AddPartitions, AddedPartitions, Altered, Calm, TypeOK
    <2>2. \A r \in Rows : Restored(r) => Added(r)'
      BY <1>1, <2>1 DEF Restored, Added, IsMerged, Partition, PartitionsIn
    <2> QED BY <1>2, <1>3, <2>1, <2>2 DEF Flow
  <1>8. ASSUME NEW P \in SUBSET Partitions, DropPartitions(e, P) PROVE Flow(e)'
    <2>1. /\ pc[e] = "drop" /\ pc'[e] = "complete"
          /\ table' = table \ P /\ P \subseteq PartitionsIn(original[e])
      BY <1>8 DEF DropPartitions, DroppedPartitions, Altered, TypeOK
    <2>2. \A r \in Rows : Added(r) => Added(r)'
      BY <1>1, <2>1 DEF Added, IsMerged, Partition, PartitionsIn
    <2> QED BY <1>2, <1>3, <2>1, <2>2 DEF Flow
  <1>9. ~ \E P \in SUBSET Partitions : UpdateFails(e, P) BY DEF Calm, UpdateFails
  <1> QED BY <1>5, <1>6, <1>7, <1>8, <1>9 DEF Passes

LEMMA FlowActs ==
    ASSUME MergerAssumption, Calm, IInv, NEW e \in Executions, OriginalsInv(e), FlowInv(e),
           Acts(e)
    PROVE  FlowInv(e)'
  <1>1. TypeOK /\ ShapeInv /\ JobInv(e) BY DEF IInv
  <1>2. log[e] = "Succeeded" => pc[e] = "ended" BY DEF FlowInv
  <1>3. log'[e] = "Succeeded" => pc'[e] = "ended" BY <1>1, <1>2, LogFollows
  <1> SUFFICES ASSUME ~MisledMoving(e)' PROVE Flow(e)' BY <1>3 DEF FlowInv
  <1>4. ~MisledMoving(e)
    BY <1>1, ObjectsFlow DEF Flows, MisledMoving
  <1>5. Flow(e) /\ "Masked" \notin Faults BY <1>4 DEF FlowInv, Calm
  <1>6. pc[e] = "drop" => \A o \in original[e], x \in delta : Partition(o) # Partition(x)
    BY <1>4, BackupEmptied DEF MisledMoving, MisledAtBackup
  <1>7. CASE Scan(e)
    <2>1. log' = log /\ pc[e] = "scan" BY <1>1, <1>7, ScanDoes
    <2> QED BY <1>1, <1>2, <1>4, <1>5, <1>7, <2>1, FlowScan
  <1>8. ~ \E S \in SUBSET Source(e, job[e]) : ScanFails(e, S) BY DEF ScanFails, Calm
  <1>9. CASE JobSucceeds(e)
    <2>1. log' = log /\ pc[e] = "work" BY <1>1, <1>9, SucceedsDoes
    <2> QED BY <1>1, <1>2, <1>4, <1>5, <1>9, <2>1, FlowSucceeds
  <1>10. CASE \E S \in SUBSET todo[e]["merge"] : MergeBatch(e, S)
    BY <1>1, <1>5, <1>10, FlowMerge
  <1>11. CASE \E j \in Jobs : \E o \in todo[e][j] : CopyObject(e, j, o)
    BY <1>1, <1>4, <1>5, <1>11, FlowCopy
  <1>12. CASE \E j \in Jobs : \E o \in copied[e][j] : DeleteObject(e, j, o)
    BY <1>1, <1>4, <1>5, <1>12, FlowDelete
  <1>13. CASE \E j \in Jobs : \E o \in Left(e, j) : BatchFails(e, j, o)
    BY <1>1, <1>2, <1>4, <1>5, <1>13, FlowFail
  <1>14. CASE Passes(e) BY <1>1, <1>2, <1>5, <1>6, <1>14, FlowPasses
  <1> QED
    BY <1>7, <1>8, <1>9, <1>10, <1>11, <1>12, <1>13, <1>14, StepCases DEF Acts

LEMMA FlowStutter ==
    ASSUME NEW e \in Executions, FlowInv(e),
           UNCHANGED <<delta, table, merge, original, job, todo, copied, early>>,
           \/ UNCHANGED <<pc, log>>
           \/ job[e] = "merge" /\ pc'[e] = "scan" /\ log'[e] = "Running"
    PROVE  FlowInv(e)'
  <1>1. \A r \in Rows : (Restored(r)' <=> Restored(r)) /\ (Added(r)' <=> Added(r))
    BY DEF Restored, Added, IsMerged, Partition
  <1>2. CASE UNCHANGED <<pc, log>>
    BY <1>1, <1>2 DEF FlowInv, Flow, In, Left, Moved, MisledMoving
  <1>3. CASE pc'[e] = "scan" /\ log'[e] = "Running" /\ job[e] = "merge"
    BY <1>3 DEF FlowInv, Flow
  <1> QED BY <1>2, <1>3

(* When nothing is inserted during the merge of a day and no statement      *)
(* fails, an execution recorded as Succeeded leaves every row where a query *)
(* finds it, unless it was told too early that step 2 or 3 is done:         *)
(* whichever S3 calls and states without a Catch fail, and whatever step 1  *)
(* was told.                                                                *)
THEOREM SucceededIsVisible == ASSUME Calm PROVE Spec => []SucceededVisible
  <1> DEFINE FlowsInv == \A e \in Executions : OriginalsInv(e) /\ FlowInv(e)
  <1>1. Init => FlowsInv
    BY DEF Init, OriginalsInv, FlowInv, Flow, Left, Jobs
  <1>2. IInv /\ FlowsInv /\ [Next]_vars => FlowsInv'
    <2> SUFFICES ASSUME IInv, FlowsInv, [Next]_vars, NEW e \in Executions
                 PROVE  OriginalsInv(e)' /\ FlowInv(e)'
      OBVIOUS
    <2>1. TypeOK /\ ShapeInv /\ JobInv(e) /\ OriginalsInv(e) /\ FlowInv(e) BY DEF IInv
    <2>2. OriginalsInv(e)' BY <2>1, OriginalsStep, MergerAssumption DEF Calm
    <2>3. \A f \in Executions : f = e BY DEF Calm, OneMerge
    <2>4. ASSUME Start(e) PROVE FlowInv(e)'
      <3>1. /\ UNCHANGED <<delta, table, merge, original, job, todo, copied, early>>
            /\ pc[e] = "new" /\ pc'[e] = "scan" /\ log'[e] = "Running"
        BY <2>1, <2>4, StartDoes
      <3>2. job[e] = "merge" BY <2>1, <3>1 DEF JobInv
      <3> QED BY <2>1, <3>1, <3>2, FlowStutter
    <2>5. ASSUME Acts(e) PROVE FlowInv(e)'
      BY <2>1, <2>5, FlowActs, MergerAssumption
    <2>6. ASSUME NEW p \in Partitions, Insert(p) PROVE FlowInv(e)'
      BY <2>1, <2>6, FlowInsert, MergerAssumption
    <2>7. ASSUME UNCHANGED vars PROVE FlowInv(e)'
      BY <2>1, <2>7, FlowStutter, UnchangedVars
    <2> QED BY <2>2, <2>3, <2>4, <2>5, <2>6, <2>7, NextCases
  <1>3. IInv /\ FlowsInv => SucceededVisible
    <2> SUFFICES ASSUME IInv, FlowsInv,
                        \A e \in Executions : log[e] = "Succeeded" /\ ~MisledMoving(e),
                        NEW r \in inserted
                 PROVE  Visible(r)
      BY DEF SucceededVisible
    <2>1. r \in Rows BY DEF IInv, TypeOK
    <2>2. CASE Saved(r)
      <3>1. PICK e \in Executions : In(r, original[e]) BY <2>2 DEF Saved, In
      <3>2. Added(r) BY <2>1, <3>1 DEF FlowInv, Flow
      <3> QED BY <3>2 DEF Added, Visible, Found
    <2>3. CASE ~Saved(r)
      <3>1. ~Excused(r) BY DEF Excused, MisledMoving, MisledAtBackup
      <3>2. Plain(r) \in delta /\ PartitionOf[r] \in table
        BY <2>3, <3>1 DEF IInv, RowsInv
      <3> QED BY <2>1, <3>2, PlainTyped, MergerAssumption DEF Visible, Found
    <2> QED BY <2>2, <2>3
  <1>4. "Masked" \notin Faults BY DEF Calm
  <1> QED BY <1>1, <1>2, <1>3, <1>4, Inductive, PTL DEF Spec
=============================================================================
