---------------------------- MODULE LogProcessor ----------------------------
(***************************************************************************)
(* The LogProcessor state machine of the Light Engine, started by a        *)
(* schedule (rate(5 minutes) unless configured otherwise): it moves the    *)
(* log objects of a pipeline from the staging prefix to archive/<execution>*)
(* with an object migration job, creates a temporary table over them,      *)
(* inserts its rows into the delta table (partition                        *)
(* __execution_name__=<execution>), drops the temporary table, measures    *)
(* the KPIs and writes the outcome to the ETL log table.                   *)
(*                                                                         *)
(* The job is taken by what ObjectMigration was shown to promise (module   *)
(* MigrationTask): it is answered hasObjects = True only after every batch *)
(* was moved; when a migration Lambda misreads the total it is answered    *)
(* hasObjects = False although objects were listed and are still being     *)
(* moved, or it is not answered at all.  An execution is one started by    *)
(* the schedule; nothing keeps a second one from starting while the first  *)
(* is running.                                                             *)
(***************************************************************************)
EXTENDS Naturals, FiniteSets

CONSTANTS
    Objects,        \* log objects that will arrive at the staging prefix
    Executions,     \* executions of the state machine
    MaxRecords,     \* the job's maxRecords (15000 in the stack)
    MaxRetries,     \* retries of the INSERT query (2 in the stack)
    Faults          \* what the environment may do, see FaultKinds

(***************************************************************************)
(* Overlap:       the schedule fires while an execution is still running.  *)
(* S3Error:       an S3 call of the job raises.                            *)
(* Masked:        that, or a missing object, happens before a later object *)
(*                of the batch is moved, and the batch is Succeeded.       *)
(* EarlyTotal:    a migration Lambda compares with the total before the    *)
(*                scanner has written it, or with a stale one.             *)
(* QueryError:    a Lambda or an Athena query fails.                       *)
(* PartialInsert: a failed INSERT leaves some of its files behind.         *)
(* ServiceError:  a DynamoDB or SNS call of the state machine fails, after *)
(*                its retries.                                             *)
(***************************************************************************)
FaultKinds == {"Overlap", "S3Error", "Masked", "EarlyTotal", "QueryError",
               "PartialInsert", "ServiceError"}

ASSUME ProcessorAssumption ==
    /\ IsFiniteSet(Objects)
    /\ MaxRecords \in Nat \ {0}
    /\ MaxRetries \in Nat
    /\ Faults \subseteq FaultKinds

VARIABLES
    arrived,  \* objects that arrived
    staging,  \* objects at the staging prefix
    archive,  \* objects under archive/<execution>
    pc,       \* state of each execution
    listed,   \* objects its scanner listed
    todo,     \* listed objects its job has not copied yet
    copied,   \* objects copied but not deleted yet
    answer,   \* what its job was answered with: $.results.staging
    tmp,      \* does its temporary table exist
    errors,   \* is $.errors present
    retries,  \* of its INSERT query
    copies,   \* files of an object's rows in its partition of the delta table
    log,      \* ETL log, item of the state machine: status
    notified  \* executions whose failure was published to SNS

objVars  == <<arrived, staging, archive>>
moveVars == <<listed, todo, copied>>
jobVars  == <<moveVars, answer>>
dataVars == <<tmp, errors, retries, copies>>
logVars  == <<log, notified>>
vars == <<objVars, jobVars, pc, dataVars, logVars>>

Steps == {"new", "scan", "move", "unanswered", "format", "create", "insert", "drop",
          "choice", "kpi", "complete", "notify", "fail", "ended"}
Answers == {"None", "HasObjects", "NoObjects"}

TypeOK ==
    /\ arrived \subseteq Objects
    /\ staging \subseteq Objects
    /\ archive \in [Executions -> SUBSET Objects]
    /\ pc \in [Executions -> Steps]
    /\ listed \in [Executions -> SUBSET Objects]
    /\ todo \in [Executions -> SUBSET Objects]
    /\ copied \in [Executions -> SUBSET Objects]
    /\ answer \in [Executions -> Answers]
    /\ tmp \in [Executions -> BOOLEAN]
    /\ errors \in [Executions -> BOOLEAN]
    /\ retries \in [Executions -> 0..MaxRetries]
    /\ copies \in [Executions -> [Objects -> Nat]]
    /\ log \in [Executions -> {"None", "Running", "Succeeded", "Failed"}]
    /\ notified \subseteq Executions

Init ==
    /\ arrived = {} /\ staging = {}
    /\ archive = [e \in Executions |-> {}]
    /\ pc = [e \in Executions |-> "new"]
    /\ listed = [e \in Executions |-> {}]
    /\ todo = [e \in Executions |-> {}]
    /\ copied = [e \in Executions |-> {}]
    /\ answer = [e \in Executions |-> "None"]
    /\ tmp = [e \in Executions |-> FALSE]
    /\ errors = [e \in Executions |-> FALSE]
    /\ retries = [e \in Executions |-> 0]
    /\ copies = [e \in Executions |-> [o \in Objects |-> 0]]
    /\ log = [e \in Executions |-> "None"]
    /\ notified = {}

Goto(e, step) == pc' = [pc EXCEPT ![e] = step]
Answered(e, what) == answer' = [answer EXCEPT ![e] = what]

(* A query or a Lambda of the state machine may fail.                      *)
Fallible == "QueryError" \in Faults

-----------------------------------------------------------------------------
(* The log agents, or the replication of a source bucket.                  *)
Arrive(o) ==
    /\ o \notin arrived
    /\ arrived' = arrived \cup {o}
    /\ staging' = staging \cup {o}
    /\ UNCHANGED <<archive, pc, jobVars, dataVars, logVars>>

(* The schedule starts an execution, which first puts its own item.  One   *)
(* whose job is never answered waits for ever and does nothing more.       *)
Running(e) == pc[e] \notin {"new", "unanswered", "ended"}

MayStart(e) ==
    /\ pc[e] = "new"
    /\ (\E f \in Executions : Running(f)) => "Overlap" \in Faults

Start(e) ==
    /\ MayStart(e)
    /\ Goto(e, "scan")
    /\ log' = [log EXCEPT ![e] = "Running"]
    /\ UNCHANGED <<objVars, jobVars, dataVars, notified>>

(* Step 1, the scanner: list_all_objects stops at maxRecords; an empty     *)
(* listing is answered with hasObjects = False ("Staging has Data?").      *)
ListAtMost(S) ==
    /\ S \subseteq staging
    /\ Cardinality(S) <= MaxRecords
    /\ S = staging \/ Cardinality(S) = MaxRecords

Scan(e, S) ==
    /\ pc[e] = "scan"
    /\ ListAtMost(S)
    /\ listed' = [listed EXCEPT ![e] = S]
    /\ todo' = [todo EXCEPT ![e] = S]
    /\ IF S = {}
       THEN Answered(e, "NoObjects") /\ Goto(e, "complete")
       ELSE Goto(e, "move") /\ UNCHANGED answer
    /\ UNCHANGED <<objVars, copied, dataVars, logVars>>

(* The scanning Lambda fails after it has sent some of the batches.        *)
ScanFails(e, S) ==
    /\ pc[e] = "scan"
    /\ Fallible
    /\ Cardinality(S) <= MaxRecords
    /\ listed' = [listed EXCEPT ![e] = S]
    /\ todo' = [todo EXCEPT ![e] = S]
    /\ Goto(e, "notify")
    /\ UNCHANGED <<objVars, copied, answer, dataVars, logVars>>

(* Step 1, the migration Lambdas.  They go on with the messages they have  *)
(* once the job was answered and the execution has gone on.                *)
Copy(e, o) ==
    /\ o \in todo[e] \cap staging
    /\ archive' = [archive EXCEPT ![e] = @ \cup {o}]
    /\ todo' = [todo EXCEPT ![e] = @ \ {o}]
    /\ copied' = [copied EXCEPT ![e] = @ \cup {o}]
    /\ UNCHANGED <<arrived, staging, pc, listed, answer, dataVars, logVars>>

Delete(e, o) ==
    /\ o \in copied[e]
    /\ staging' = staging \ {o}
    /\ copied' = [copied EXCEPT ![e] = @ \ {o}]
    /\ UNCHANGED <<arrived, archive, pc, listed, todo, answer, dataVars, logVars>>

JobFailsQuietly(e) == Goto(e, IF pc[e] = "move" THEN "fail" ELSE pc[e])
JobFails(e) == Goto(e, IF pc[e] = "move" THEN "notify" ELSE pc[e])

(* 0 Succeeded = 0 in all: success with hasObjects = False, "Staging has   *)
(* Data?" ends the execution, and the other Lambdas go on moving.          *)
Misleads(e) ==
    /\ "EarlyTotal" \in Faults
    /\ pc[e] = "move"
    /\ Answered(e, "NoObjects") /\ Goto(e, "complete")

(* A Lambda that has handled its batch compares too early.                 *)
JobMisleads(e) ==
    /\ Misleads(e)
    /\ todo[e] \cup copied[e] # listed[e]
    /\ UNCHANGED <<objVars, moveVars, dataVars, logVars>>

(* All have handled their batches, and none has found its count equal to   *)
(* the total it read: the task has no time out.                            *)
JobSilent(e) ==
    /\ "EarlyTotal" \in Faults
    /\ pc[e] = "move"
    /\ todo[e] = {} /\ copied[e] = {}
    /\ Goto(e, "unanswered")
    /\ UNCHANGED <<objVars, jobVars, dataVars, logVars>>

(* The object is gone (another execution moved it), or S3 raises.  The     *)
(* Lambda of the failed batch makes the comparison before it answers that  *)
(* the task has failed.                                                    *)
MoveFails(e, o) ==
    /\ \/ o \in todo[e] /\ (o \notin staging \/ "S3Error" \in Faults)
       \/ o \in copied[e] /\ "S3Error" \in Faults
    /\ todo' = [todo EXCEPT ![e] = @ \ {o}]
    /\ copied' = [copied EXCEPT ![e] = @ \ {o}]
    /\ \/ JobFails(e) /\ UNCHANGED answer
       \/ "Masked" \in Faults /\ todo[e] \ {o} # {} /\ UNCHANGED <<pc, answer>>
       \/ Misleads(e)
    /\ UNCHANGED <<objVars, listed, dataVars, logVars>>

JobDoneEarly(e) == todo[e] = {}
JobDoneWhenAllMoved(e) == copied[e] = {} /\ listed[e] \subseteq archive[e]
JobDone(e) == todo[e] = {} /\ copied[e] = {}

JobSucceeds(e) ==
    /\ pc[e] = "move"
    /\ JobDone(e)
    /\ Answered(e, "HasObjects") /\ Goto(e, "format")
    /\ UNCHANGED <<objVars, moveVars, dataVars, logVars>>

(* Step 2: check_glue_environment, execution_input_formatter.              *)
Format(e) ==
    /\ pc[e] = "format"
    /\ \/ Goto(e, "create")
       \/ Fallible /\ Goto(e, "notify")
    /\ UNCHANGED <<objVars, jobVars, dataVars, logVars>>

(* Step 3.1.  A failed step may have created the table nevertheless.       *)
CreateTmpTable(e) ==
    /\ pc[e] = "create"
    /\ Goto(e, "insert")
    /\ tmp' = [tmp EXCEPT ![e] = TRUE]
    /\ UNCHANGED <<objVars, jobVars, errors, retries, copies, logVars>>

CreateTmpTableFails(e, created) ==
    /\ pc[e] = "create"
    /\ Fallible
    /\ Goto(e, "drop")
    /\ tmp' = [tmp EXCEPT ![e] = created]
    /\ errors' = [errors EXCEPT ![e] = TRUE]
    /\ UNCHANGED <<objVars, jobVars, retries, copies, logVars>>

(* Step 3.2, the AthenaWorkflow state machine: the query reads what is     *)
(* under archive/<execution>.                                              *)
Write(e, S) ==
    copies' = [copies EXCEPT ![e] = [o \in Objects |-> @[o] + IF o \in S THEN 1 ELSE 0]]

Insert(e) ==
    /\ pc[e] = "insert"
    /\ Write(e, archive[e])
    /\ Goto(e, "drop")
    /\ UNCHANGED <<objVars, jobVars, tmp, errors, retries, logVars>>

(* The query fails and is retried, whatever files it has left.             *)
InsertRetriedForever(e, S) ==
    /\ pc[e] = "insert"
    /\ Fallible
    /\ S # {} => "PartialInsert" \in Faults
    /\ Write(e, S)
    /\ retries' = [retries EXCEPT ![e] = @ + 1]
    /\ UNCHANGED <<objVars, jobVars, pc, tmp, errors, logVars>>
InsertRetried(e, S) ==
    /\ pc[e] = "insert"
    /\ Fallible
    /\ retries[e] < MaxRetries
    /\ S # {} => "PartialInsert" \in Faults
    /\ Write(e, S)
    /\ retries' = [retries EXCEPT ![e] = @ + 1]
    /\ UNCHANGED <<objVars, jobVars, pc, tmp, errors, logVars>>

(* The last attempt fails; or the query succeeds and writing its status to *)
(* the ETL log does not; or the step times out before or after the commit. *)
InsertFails(e, S) ==
    /\ pc[e] = "insert"
    /\ Fallible
    /\ S \notin {{}, archive[e]} => "PartialInsert" \in Faults
    /\ Write(e, S)
    /\ errors' = [errors EXCEPT ![e] = TRUE]
    /\ Goto(e, "drop")
    /\ UNCHANGED <<objVars, jobVars, tmp, retries, logVars>>

(* Step 3.3, after a success as well as after an error of 3.1 or 3.2.      *)
DropTmpTable(e) ==
    /\ pc[e] = "drop"
    /\ \/ tmp' = [tmp EXCEPT ![e] = FALSE] /\ Goto(e, "choice")
       \/ Fallible /\ UNCHANGED tmp /\ Goto(e, "notify")
    /\ UNCHANGED <<objVars, jobVars, errors, retries, copies, logVars>>

(* "Has errors or need aggregate?": the formatter always sets aggregate.   *)
AfterDropIgnoresErrors(e) == "kpi"
AfterDrop(e) == IF errors[e] THEN "notify" ELSE "kpi"

Choice(e) ==
    /\ pc[e] = "choice"
    /\ Goto(e, AfterDrop(e))
    /\ UNCHANGED <<objVars, jobVars, dataVars, logVars>>

(* Step 3.4, one query after the other. *)
MeasureKPIs(e) ==
    /\ pc[e] = "kpi"
    /\ \/ Goto(e, "complete")
       \/ Fallible /\ Goto(e, "notify")
    /\ UNCHANGED <<objVars, jobVars, dataVars, logVars>>

Complete(e) ==
    /\ pc[e] = "complete"
    /\ log' = [log EXCEPT ![e] = "Succeeded"]
    /\ Goto(e, "ended")
    /\ UNCHANGED <<objVars, jobVars, dataVars, notified>>

Notify(e) ==
    /\ pc[e] = "notify"
    /\ notified' = notified \cup {e}
    /\ Goto(e, "fail")
    /\ UNCHANGED <<objVars, jobVars, dataVars, log>>

UpdateFailed(e) ==
    /\ pc[e] = "fail"
    /\ log' = [log EXCEPT ![e] = "Failed"]
    /\ Goto(e, "ended")
    /\ UNCHANGED <<objVars, jobVars, dataVars, notified>>

(* These four states have no Catch: when one fails the execution ends.     *)
StateFails(e) ==
    /\ "ServiceError" \in Faults
    /\ MayStart(e) \/ pc[e] \in {"complete", "notify", "fail"}
    /\ Goto(e, "ended")
    /\ UNCHANGED <<objVars, jobVars, dataVars, logVars>>

Work(e) ==
    \/ \E S \in SUBSET staging : Scan(e, S) \/ ScanFails(e, S)
    \/ \E o \in Objects : Copy(e, o) \/ Delete(e, o) \/ MoveFails(e, o)
    \/ JobSucceeds(e)
    \/ Format(e)
    \/ CreateTmpTable(e)
    \/ \E created \in BOOLEAN : CreateTmpTableFails(e, created)
    \/ Insert(e)
    \/ \E S \in SUBSET archive[e] : InsertRetried(e, S) \/ InsertFails(e, S)
    \/ DropTmpTable(e) \/ Choice(e) \/ MeasureKPIs(e)
    \/ Complete(e) \/ Notify(e) \/ UpdateFailed(e)

Next ==
    \/ \E o \in Objects : Arrive(o)
    \/ \E e \in Executions :
          Start(e) \/ Work(e) \/ JobMisleads(e) \/ JobSilent(e) \/ StateFails(e)

Spec == Init /\ [][Next]_vars

(* An execution that runs, and the Lambdas of its job, take their next step.*)
FairSpec == Spec /\ \A e \in Executions : WF_vars(Work(e))
-----------------------------------------------------------------------------
(* Properties. *)

Loaded(o) == \E e \in Executions : copies[e][o] > 0
Reported(o) == \E e \in notified : o \in archive[e]
UnderWay(o) == o \in staging \/ \E e \in Executions : o \in archive[e] /\ Running(e)

(* An execution that was told there was nothing to load while its job was  *)
(* at work, and one that is told nothing: what the early comparison does.  *)
Misled(e) == answer[e] = "NoObjects" /\ listed[e] # {}
Stranded(e) == Misled(e) \/ pc[e] = "unanswered"

(* An object that has left the staging prefix is in the hands of a running *)
(* execution, or its rows are in the delta table, or the failure of the    *)
(* execution whose archive holds it was published: the next execution does *)
(* not look into archive/<execution>, so nobody else would ever load it.   *)
(* What does get forgotten was moved by the job of an execution that was   *)
(* misled or never answered, and by nothing else.                          *)
NothingForgotten ==
    \A o \in arrived :
        \/ UnderWay(o) \/ Loaded(o) \/ Reported(o)
        \/ \E e \in Executions : o \in archive[e] /\ Stranded(e)

(* An execution recorded as Succeeded has loaded all that lies under its   *)
(* archive prefix, which is only kept for a few days, unless its job told  *)
(* it too early that there was nothing.                                    *)
SucceededLoaded ==
    \A e \in Executions : log[e] = "Succeeded" /\ ~Misled(e) =>
        \A o \in archive[e] : copies[e][o] > 0

(* No row is in the delta table twice, whichever queries, steps and S3     *)
(* calls fail and however early a job is answered, as long as executions   *)
(* do not overlap.                                                         *)
LoadedOnce ==
    \A o \in Objects :
        /\ \A e \in Executions : copies[e][o] <= 1
        /\ Cardinality({e \in Executions : copies[e][o] > 0}) <= 1

(* What a scanner has listed is loaded, or the failure published, or the   *)
(* execution ends and leaves it to others: at the staging prefix, or with  *)
(* the overlapping execution that took it away; or the execution is        *)
(* stranded by an early comparison.                                        *)
LeftToOthers(e, o) ==
    o \in staging \/ \E f \in Executions \ {e} : o \in archive[f]

ListedHandled ==
    \A e \in Executions, o \in Objects :
        (o \in listed[e]) ~>
            \/ copies[e][o] > 0
            \/ e \in notified
            \/ pc[e] = "ended" /\ LeftToOthers(e, o)
            \/ Stranded(e)
=============================================================================
