----------------------------- MODULE LogMerger -----------------------------
(***************************************************************************)
(* The LogMerger state machine of the Light Engine.  For one day of the    *)
(* delta table (the day the execution starts minus the age to merge), it   *)
(*   1. merges the day's objects into archive/<execution>/merge,           *)
(*   2. moves the day's objects to archive/<execution>/original,           *)
(*   3. moves the merged objects back to the delta prefix,                 *)
(*   4. adds the partitions it finds at the delta prefix, and              *)
(*   5. drops the partitions it finds under archive/<execution>/original.  *)
(* Steps 1 to 3 are object migration jobs, steps 4 and 5 are               *)
(* batch_update_partition of the ETL helper.                               *)
(*                                                                         *)
(* A job is taken by what ObjectMigration was shown to promise (module     *)
(* MigrationTask): it is answered hasObjects = True only after every batch *)
(* was handled, but a migration Lambda that misreads the total makes it    *)
(* answer hasObjects = False while objects are still to be moved, or leaves*)
(* it unanswered.  Steps 2 and 3 do not look at hasObjects: the execution  *)
(* goes on, and so do the Lambdas of the job.                              *)
(*                                                                         *)
(* An object is a pair of its partition and the rows it contains: within a *)
(* partition its file name follows from the rows that were merged into it. *)
(***************************************************************************)
EXTENDS Naturals, FiniteSets

CONSTANTS
    Rows,        \* log records, one object each when they are inserted
    Partitions,  \* of the day in the delta table
    PartitionOf, \* the partition a row is inserted into
    MergedOf,    \* prefix_converter with partitionInfo
    Executions,  \* of the state machine for this day, one after the other
    MaxEarly,    \* bound on the jobs that are answered too early
    Faults       \* what the environment may do, see FaultKinds

(***************************************************************************)
(* S3Error:    an S3 call of a job raises; the job fails.                  *)
(* Masked:     a copy or delete of steps 2 and 3 raises, a later object of *)
(*             its batch does not, and the batch is Succeeded.             *)
(* EarlyTotal: a migration Lambda compares with the total before the       *)
(*             scanner has written it, or with a stale one.                *)
(* QueryError: a Lambda fails, or an ALTER TABLE of steps 4 and 5 does.    *)
(* LateInsert: LogProcessor inserts late logs of the day during a merge.   *)
(* ServiceError: a state without a Catch fails, after its retries.         *)
(***************************************************************************)
FaultKinds ==
    {"S3Error", "Masked", "EarlyTotal", "QueryError", "LateInsert", "ServiceError"}

(* Converting a converted prefix changes nothing; __execution_name__ of a  *)
(* merged partition is not the name of an execution of LogProcessor.       *)
ASSUME MergerAssumption ==
    /\ IsFiniteSet(Rows)
    /\ PartitionOf \in [Rows -> Partitions]
    /\ MergedOf \in [Partitions -> Partitions]
    /\ \A p \in Partitions : MergedOf[MergedOf[p]] = MergedOf[p]
    /\ \A r \in Rows : MergedOf[PartitionOf[r]] # PartitionOf[r]
    /\ Faults \subseteq FaultKinds

VARIABLES
    inserted, \* rows LogProcessor has inserted
    delta,    \* objects at the delta prefix
    table,    \* partitions of the delta table in the Glue catalog
    merge,    \* objects under archive/<execution>/merge
    original, \* objects under archive/<execution>/original
    pc,       \* state of each execution
    job,      \* the step whose migration job it waits for
    todo,     \* objects of each of its jobs, listed and not handled yet
    copied,   \* objects of each job, copied and not deleted yet
    early,    \* jobs answered hasObjects = False although objects were listed
    log,      \* ETL log, item of the state machine: status
    notified  \* executions whose failure was published to SNS

dataVars == <<inserted, delta, table, merge, original>>
moveVars == <<todo, copied>>
jobVars  == <<job, moveVars, early>>
logVars  == <<log, notified>>
vars == <<dataVars, pc, jobVars, logVars>>

Object == Partitions \X SUBSET Rows
Partition(o) == o[1]
RowsIn(O) == UNION {o[2] : o \in O}
PartitionsIn(O) == {Partition(o) : o \in O}

Jobs == {"merge", "backup", "restore"}
Steps == {"new", "scan", "work", "unanswered", "add", "drop", "complete", "notify",
          "fail", "ended"}

TypeOK ==
    /\ inserted \subseteq Rows
    /\ delta \subseteq Object
    /\ table \subseteq Partitions
    /\ merge \in [Executions -> SUBSET Object]
    /\ original \in [Executions -> SUBSET Object]
    /\ pc \in [Executions -> Steps]
    /\ job \in [Executions -> Jobs]
    /\ todo \in [Executions -> [Jobs -> SUBSET Object]]
    /\ copied \in [Executions -> [Jobs -> SUBSET Object]]
    /\ early \in [Executions -> SUBSET Jobs]
    /\ log \in [Executions -> {"None", "Running", "Succeeded", "Failed"}]
    /\ notified \subseteq Executions

Init ==
    /\ inserted = {} /\ delta = {} /\ table = {}
    /\ merge = [e \in Executions |-> {}]
    /\ original = [e \in Executions |-> {}]
    /\ pc = [e \in Executions |-> "new"]
    /\ job = [e \in Executions |-> "merge"]
    /\ todo = [e \in Executions |-> [j \in Jobs |-> {}]]
    /\ copied = [e \in Executions |-> [j \in Jobs |-> {}]]
    /\ early = [e \in Executions |-> {}]
    /\ log = [e \in Executions |-> "None"]
    /\ notified = {}

Goto(e, step) == pc' = [pc EXCEPT ![e] = step]

(* One whose job is never answered waits for ever and does nothing more.   *)
Running(e) == pc[e] \notin {"new", "unanswered", "ended"}
-----------------------------------------------------------------------------
(* INSERT INTO of LogProcessor writes a partition of its own.              *)
Insert(p) ==
    LET new == {r \in Rows : PartitionOf[r] = p}
    IN  /\ new # {} /\ new \cap inserted = {}
        /\ (\E e \in Executions : Running(e)) => "LateInsert" \in Faults
        /\ inserted' = inserted \cup new
        /\ delta' = delta \cup {<<p, {r}>> : r \in new}
        /\ table' = table \cup {p}
        /\ UNCHANGED <<merge, original, pc, jobVars, logVars>>

(* The schedule, once for a day unless it fires more often than daily.     *)
Start(e) ==
    /\ pc[e] = "new"
    /\ ~ \E f \in Executions : Running(f)
    /\ Goto(e, "scan")
    /\ log' = [log EXCEPT ![e] = "Running"]
    /\ UNCHANGED <<dataVars, jobVars, notified>>

(* The jobs of steps 1 to 3: what they list, and what is left of it.       *)
Source(e, j) == IF j = "restore" THEN merge[e] ELSE delta
Left(e, j) == todo[e][j] \cup copied[e][j]

NextStep(e) ==
    CASE job[e] = "merge"   -> job' = [job EXCEPT ![e] = "backup"] /\ Goto(e, "scan")
      [] job[e] = "backup"  -> job' = [job EXCEPT ![e] = "restore"] /\ Goto(e, "scan")
      [] job[e] = "restore" -> UNCHANGED job /\ Goto(e, "add")

(* hasObjects = False.  "Delta has Data?" looks at the answer of step 1    *)
(* only.                                                                   *)
NoObjects(e) == IF job[e] = "merge" THEN Goto(e, "complete") /\ UNCHANGED job ELSE NextStep(e)

(* The listing; the scanner answers when it is empty.                      *)
Scan(e) ==
    /\ pc[e] = "scan"
    /\ todo' = [todo EXCEPT ![e][job[e]] = Source(e, job[e])]
    /\ IF Source(e, job[e]) = {} THEN NoObjects(e) ELSE Goto(e, "work") /\ UNCHANGED job
    /\ UNCHANGED <<dataVars, copied, early, logVars>>

(* The scanning Lambda fails after it has sent some of the batches.        *)
ScanFails(e, S) ==
    /\ "QueryError" \in Faults
    /\ pc[e] = "scan"
    /\ todo' = [todo EXCEPT ![e][job[e]] = S]
    /\ Goto(e, "notify")
    /\ UNCHANGED <<dataVars, job, copied, early, logVars>>

(* Only the job that the execution waits for can be answered.              *)
Waits(e, j) == pc[e] = "work" /\ job[e] = j

(* A Lambda that has handled its batch finds 0 Succeeded = 0 in all.       *)
Misleads(e, j) ==
    /\ "EarlyTotal" \in Faults
    /\ Waits(e, j)
    /\ Cardinality({a \in Executions \X Jobs : a[2] \in early[a[1]]}) < MaxEarly
    /\ early' = [early EXCEPT ![e] = @ \cup {j}]
    /\ NoObjects(e)

ComparesEarly(e, j) == UNCHANGED <<pc, job, early>> \/ Misleads(e, j)

(* The migration Lambdas go on with the messages they have once their job  *)
(* was answered, whatever the execution does meanwhile.                    *)
AfterMergeDeleted(S) == delta \ S
AfterMerge(S) == delta

(* A batch of step 1: objects of one converted partition, at most 256 MiB  *)
(* or a single larger one.  deleteOnSuccess is false.                      *)
MergeBatch(e, S) ==
    /\ S # {} /\ S \subseteq todo[e]["merge"] \cap delta
    /\ \E p \in Partitions :
         /\ \A o \in S : MergedOf[Partition(o)] = p
         /\ merge' = [merge EXCEPT ![e] = @ \cup {<<p, RowsIn(S)>>}]
    /\ delta' = AfterMerge(S)
    /\ todo' = [todo EXCEPT ![e]["merge"] = @ \ S]
    /\ ComparesEarly(e, "merge")
    /\ UNCHANGED <<inserted, table, original, copied, logVars>>

(* An object of steps 2 and 3 is copied, then deleted.                     *)
CopyObject(e, j, o) ==
    /\ j # "merge"
    /\ o \in todo[e][j] \cap Source(e, j)
    /\ IF j = "backup"
       THEN original' = [original EXCEPT ![e] = @ \cup {o}] /\ UNCHANGED delta
       ELSE delta' = delta \cup {o} /\ UNCHANGED original
    /\ todo' = [todo EXCEPT ![e][j] = @ \ {o}]
    /\ copied' = [copied EXCEPT ![e][j] = @ \cup {o}]
    /\ UNCHANGED <<inserted, table, merge, pc, job, early, logVars>>

DeleteObject(e, j, o) ==
    /\ o \in copied[e][j]
    /\ IF j = "backup"
       THEN delta' = delta \ {o} /\ UNCHANGED merge
       ELSE merge' = [merge EXCEPT ![e] = @ \ {o}] /\ UNCHANGED delta
    /\ copied' = [copied EXCEPT ![e][j] = @ \ {o}]
    /\ ComparesEarly(e, j)
    /\ UNCHANGED <<inserted, table, original, todo, logVars>>

AfterFailureSilent(e, j) == IF Waits(e, j) THEN "fail" ELSE pc[e]
AfterFailure(e, j) == IF Waits(e, j) THEN "notify" ELSE pc[e]

(* An object of a batch fails, because it is gone or S3 raises.  The Lambda*)
(* of the failed batch makes the comparison, then answers that the task has*)
(* failed; the other Lambdas go on while the execution ends.               *)
BatchFails(e, j, o) ==
    /\ o \in Left(e, j)
    /\ o \in Source(e, j) => "S3Error" \in Faults
    /\ todo' = [todo EXCEPT ![e][j] = @ \ {o}]
    /\ copied' = [copied EXCEPT ![e][j] = @ \ {o}]
    /\ \/ Goto(e, AfterFailure(e, j)) /\ UNCHANGED <<job, early>>
       \/ /\ "Masked" \in Faults
          /\ j # "merge" /\ todo[e][j] \ {o} # {}
          /\ UNCHANGED <<pc, job, early>>
       \/ Misleads(e, j)
    /\ UNCHANGED <<dataVars, logVars>>

(* All have handled their batches, and none has found its count equal to   *)
(* the total it read: the task has no time out.                            *)
JobSilent(e) ==
    /\ "EarlyTotal" \in Faults
    /\ pc[e] = "work"
    /\ Left(e, job[e]) = {}
    /\ Goto(e, "unanswered")
    /\ UNCHANGED <<dataVars, jobVars, logVars>>

JobDoneBeforeDelete(e) == todo[e][job[e]] = {}
JobDone(e) == Left(e, job[e]) = {}

JobSucceeds(e) ==
    /\ pc[e] = "work"
    /\ JobDone(e)
    /\ NextStep(e)
    /\ UNCHANGED <<dataVars, moveVars, early, logVars>>

(* batch_update_partition: an ALTER TABLE that fails shows only in the     *)
(* status of the result, which the state machine discards.                 *)
Altered(listing, P) ==
    /\ P \subseteq PartitionsIn(listing)
    /\ P # PartitionsIn(listing) => "QueryError" \in Faults

AddedFromOriginal(e) == original[e]
AddedPartitions(e) == delta

AddPartitions(e, P) ==
    /\ pc[e] = "add"
    /\ Altered(AddedPartitions(e), P)
    /\ table' = table \cup P
    /\ Goto(e, "drop")
    /\ UNCHANGED <<inserted, delta, merge, original, jobVars, logVars>>

DroppedMergedToo(e) == original[e] \cup delta
DroppedPartitions(e) == original[e]

DropPartitions(e, P) ==
    /\ pc[e] = "drop"
    /\ Altered(DroppedPartitions(e), P)
    /\ table' = table \ P
    /\ Goto(e, "complete")
    /\ UNCHANGED <<inserted, delta, merge, original, jobVars, logVars>>

(* The Lambda of step 4 or 5 fails after some statements.                  *)
UpdateFails(e, P) ==
    /\ "QueryError" \in Faults
    /\ \/ pc[e] = "add" /\ P \subseteq PartitionsIn(AddedPartitions(e)) /\ table' = table \cup P
       \/ pc[e] = "drop" /\ P \subseteq PartitionsIn(DroppedPartitions(e)) /\ table' = table \ P
    /\ Goto(e, "notify")
    /\ UNCHANGED <<inserted, delta, merge, original, jobVars, logVars>>

Complete(e) ==
    /\ pc[e] = "complete"
    /\ log' = [log EXCEPT ![e] = "Succeeded"]
    /\ Goto(e, "ended")
    /\ UNCHANGED <<dataVars, jobVars, notified>>

Notify(e) ==
    /\ pc[e] = "notify"
    /\ notified' = notified \cup {e}
    /\ Goto(e, "fail")
    /\ UNCHANGED <<dataVars, jobVars, log>>

UpdateFailed(e) ==
    /\ pc[e] = "fail"
    /\ log' = [log EXCEPT ![e] = "Failed"]
    /\ Goto(e, "ended")
    /\ UNCHANGED <<dataVars, jobVars, notified>>

(* The put of the item, the conversion of the date before step 1, and the  *)
(* last states have no Catch.                                              *)
StateFails(e) ==
    /\ "ServiceError" \in Faults
    /\ \/ pc[e] \in {"complete", "notify", "fail"}
       \/ pc[e] = "scan" /\ job[e] = "merge"
    /\ Goto(e, "ended")
    /\ UNCHANGED <<dataVars, jobVars, logVars>>

Work(e) ==
    \/ Scan(e)
    \/ \E S \in SUBSET Source(e, job[e]) : ScanFails(e, S)
    \/ \E S \in SUBSET todo[e]["merge"] : MergeBatch(e, S)
    \/ \E j \in Jobs :
          \/ \E o \in todo[e][j] : CopyObject(e, j, o)
          \/ \E o \in copied[e][j] : DeleteObject(e, j, o)
          \/ \E o \in Left(e, j) : BatchFails(e, j, o)
    \/ JobSucceeds(e)
    \/ \E P \in SUBSET Partitions :
          AddPartitions(e, P) \/ DropPartitions(e, P) \/ UpdateFails(e, P)
    \/ Complete(e) \/ Notify(e) \/ UpdateFailed(e)

Next ==
    \/ \E p \in Partitions : Insert(p)
    \/ \E e \in Executions :
          Start(e) \/ Work(e) \/ JobSilent(e) \/ StateFails(e)

Spec == Init /\ [][Next]_vars

(* An execution that runs, and the Lambdas of its job, take their next step.*)
FairSpec == Spec /\ \A e \in Executions : WF_vars(Work(e))
-----------------------------------------------------------------------------
(* Properties. *)

(* The objects in which a query of the delta table finds a row.            *)
Found(r) == {o \in delta : r \in o[2] /\ Partition(o) \in table}
Visible(r) == Found(r) # {}

(* Told too early that there was nothing to back up: step 5 will drop the  *)
(* partitions of the objects that have been moved so far.                  *)
MisledAtBackup(e) == "backup" \in early[e]
MisledMoving(e) == early[e] \cap {"backup", "restore"} # {}

(* A row that was inserted can be queried, or an object under              *)
(* archive/<execution>/original, where step 2 keeps its backup, contains   *)
(* it: whatever fails, unless a job masks the failure of an object.  What  *)
(* an early answer can hide is a partition that step 2 was at work on.     *)
BackedUp ==
    \A r \in inserted :
        \/ Visible(r)
        \/ \E e \in Executions : r \in RowsIn(original[e])
        \/ \E e \in Executions :
              MisledAtBackup(e) /\ PartitionOf[r] \in PartitionsIn(original[e])

(* No query counts a row twice at any moment: the merged objects are not   *)
(* seen before the objects they were merged from have gone.  It holds until*)
(* the first execution whose step 2 is answered before it is done.         *)
NeverTwice ==
    \/ \E e \in Executions : MisledAtBackup(e)
    \/ \A r \in Rows : Cardinality(Found(r)) <= 1

(* When every execution has ended and is recorded as Succeeded, every row  *)
(* can be queried, unless step 2 or 3 was answered before it was done.     *)
SucceededVisible ==
    (\A e \in Executions : log[e] = "Succeeded" /\ ~MisledMoving(e)) =>
        \A r \in inserted : Visible(r)

(* "Batch Drop Partitions before Merging": a partition is dropped only     *)
(* when its objects have gone from the delta prefix, or by an execution    *)
(* whose step 2 was answered before it was done.                           *)
DropsOnlyEmptied ==
    [][\A p \in table \ table' :
          \/ p \notin PartitionsIn(delta)
          \/ \E e \in Executions : pc[e] = "drop" /\ MisledAtBackup(e)]_vars

(* The rows a merge has made invisible can be queried again when it ends,  *)
(* or its failure is published; and it ends.  An early comparison in step 2*)
(* or 3, or one that leaves a job unanswered, breaks this, nothing else.   *)
RowsPublished ==
    \A e \in Executions, r \in Rows :
        (Running(e) /\ r \in inserted) ~>
            \/ Visible(r) /\ ~Running(e)
            \/ e \in notified
            \/ MisledMoving(e) \/ pc[e] = "unanswered"
=============================================================================
