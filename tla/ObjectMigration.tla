-------------------------- MODULE ObjectMigration --------------------------
(***************************************************************************)
(* The object migration job of the Light Engine: a Step Functions task     *)
(* starts the scanning Lambda with a task token; the scanner lists the     *)
(* objects under a prefix, packs them into batches, and for each batch     *)
(* sends one SQS message and writes one subtask item to the ETL log table; *)
(* each message starts one migration Lambda, which moves the objects,      *)
(* writes its status, counts the subtasks that succeeded, compares the     *)
(* count with the total in the scanner's own ("parent") item, and answers  *)
(* the task token when they agree or when its batch failed.                *)
(*                                                                         *)
(* One action is one call to S3, DynamoDB, SQS or Step Functions: between  *)
(* two calls any other Lambda may run.                                     *)
(***************************************************************************)
EXTENDS Naturals, FiniteSets

CONSTANTS
    Batches,          \* the batches migration_task_generator can form
    EmptyScan,        \* the message sent when no object was found
    BatchLen,         \* objects in a batch (all of one length)
    Merged,           \* the batches whose message says merge = True
    Workers,          \* concurrent invocations of the migration Lambda
    MaxReceiveCount,  \* of the queue's redrive policy (3 in the stack)
    DeleteOnSuccess,  \* the job's deleteOnSuccess parameter
    Faults,           \* what the environment may do, see FaultKinds
    MaxAccidents      \* bound on crashes and duplicate deliveries

(***************************************************************************)
(* EarlyDelivery: SQS delivers a message before the scanner has returned.  *)
(* StaleRead:     the eventually consistent get of the parent item returns *)
(*                the item as it was before the total was written.         *)
(* S3Error:       an S3 call raises.                                       *)
(* Crash:         a migration Lambda stops (time out, exception).          *)
(* ScanCrash:     the scanning Lambda stops.                               *)
(* Duplicate:     SQS delivers a message again while a Lambda works on it. *)
(* CallbackError: a call to Step Functions is throttled or fails.          *)
(***************************************************************************)
FaultKinds == {"EarlyDelivery", "StaleRead", "S3Error", "Crash",
               "ScanCrash", "Duplicate", "CallbackError"}

ASSUME MigrationAssumption ==
    /\ IsFiniteSet(Batches)
    /\ EmptyScan \notin Batches
    /\ BatchLen \in Nat \ {0}
    /\ Merged \subseteq Batches
    /\ MaxReceiveCount \in Nat \ {0}
    /\ DeleteOnSuccess \in BOOLEAN
    /\ Faults \subseteq FaultKinds
    /\ MaxAccidents \in Nat

Messages == Batches \cup {EmptyScan}
Object == Batches \X (1..BatchLen)
ObjectsOf(b) == {b} \X (1..BatchLen)

(* A single-object batch degenerates into a copy even when merge is True.  *)
Merges(m) == m \in Merged /\ BatchLen > 1

VARIABLES
    scanPc,       \* where lambda_handler of the scanner is
    found,        \* the batches that the listed objects form
    sent,         \* the batches whose message was sent
    writing,      \* the batch between send_message and put
    parentStatus, \* ETL log, scanner's item: status
    parentTotal,  \* ETL log, scanner's item: totalSubTask
    misread,      \* history: a Lambda found 0 = 0 too early, see Misreads
    subStatus,    \* ETL log, subtask items: status ("None": no item)
    linked,       \* ETL log: the subtask items that have parentTaskId
    visible,      \* messages a receive can return
    inFlight,     \* messages received and neither deleted nor timed out
    dead,         \* messages in the dead-letter queue
    receives,     \* ApproximateReceiveCount
    pc, msg, idx, status, counted, total, \* locals of each migration Lambda
    accidents,    \* crashes and duplicate deliveries so far
    src, dst,     \* objects at the source / at the destination
    token         \* what Step Functions was told for the task token

scanVars   == <<scanPc, found, sent, writing>>
parentVars == <<parentStatus, parentTotal, misread>>
subVars    == <<subStatus, linked>>
queueVars  == <<visible, inFlight, dead, receives>>
workerVars == <<pc, msg, idx, status, counted, total, accidents>>
objVars    == <<src, dst>>
vars == <<scanVars, parentVars, subVars, queueVars, workerVars, objVars, token>>

ScanPcs == {"put", "list", "send", "putSubtask", "sendEmpty", "done", "crashed"}
WorkerPcs == {"idle", "copy", "delete", "download", "upload", "batchDelete",
              "update", "query", "get", "complete", "success", "failure",
              "return"}
Outcomes == {"HasObjects", "NoObjects", "Failed"}

TypeOK ==
    /\ scanPc \in ScanPcs
    /\ found \subseteq Batches
    /\ sent \subseteq Batches
    /\ writing \in Messages
    /\ parentStatus \in {"None", "Running", "Succeeded"}
    /\ parentTotal \in Nat
    /\ misread \in BOOLEAN
    /\ subStatus \in [Batches -> {"None", "Running", "Succeeded", "Failed"}]
    /\ linked \subseteq Batches
    /\ visible \subseteq Messages
    /\ inFlight \subseteq Messages
    /\ dead \subseteq Messages
    /\ receives \in [Messages -> 0..MaxReceiveCount]
    /\ pc \in [Workers -> WorkerPcs]
    /\ msg \in [Workers -> Messages]
    /\ idx \in [Workers -> 1..BatchLen]
    /\ status \in [Workers -> {"Running", "Succeeded", "Failed"}]
    /\ counted \in [Workers -> SUBSET Batches]
    /\ total \in [Workers -> Nat]
    /\ accidents \in 0..MaxAccidents
    /\ src \subseteq Object
    /\ dst \subseteq Object
    /\ token \in {"Pending"} \cup Outcomes

Init ==
    /\ scanPc = "put"
    /\ found = {} /\ sent = {} /\ writing = EmptyScan
    /\ parentStatus = "None" /\ parentTotal = 0 /\ misread = FALSE
    /\ subStatus = [b \in Batches |-> "None"] /\ linked = {}
    /\ visible = {} /\ inFlight = {} /\ dead = {}
    /\ receives = [m \in Messages |-> 0]
    /\ pc = [w \in Workers |-> "idle"]
    /\ msg = [w \in Workers |-> EmptyScan]
    /\ idx = [w \in Workers |-> 1]
    /\ status = [w \in Workers |-> "Running"]
    /\ counted = [w \in Workers |-> {}]
    /\ total = [w \in Workers |-> 0]
    /\ accidents = 0
    /\ src = {} /\ dst = {}
    /\ token = "Pending"

(* Step Functions takes the first answer.                                  *)
FirstAnswer(outcome) == token' = IF token = "Pending" THEN outcome ELSE token

(* send_callback swallows every error, that of an answer given too late as *)
(* well as that of one that never reached Step Functions.                  *)
Answer(outcome) ==
    \/ FirstAnswer(outcome)
    \/ "CallbackError" \in Faults /\ UNCHANGED token

-----------------------------------------------------------------------------
(* The scanning Lambda. *)

(* AWS_DDB_ETL_LOG.put of the parent item with totalSubTask 0. *)
PutParent ==
    /\ scanPc = "put"
    /\ scanPc' = "list"
    /\ parentStatus' = "Running" /\ parentTotal' = 0
    /\ UNCHANGED <<found, sent, writing, misread, subVars, queueVars, workerVars,
                   objVars, token>>

(* list_all_objects: the listing fixes the batches. *)
ListObjects(S) ==
    /\ scanPc = "list"
    /\ scanPc' = "send"
    /\ found' = S
    /\ src' = S \X (1..BatchLen)
    /\ UNCHANGED <<sent, writing, parentVars, subVars, queueVars, workerVars,
                   dst, token>>

(* migration_task_writer, first call: the message is sent ... *)
SendMessage(b) ==
    /\ scanPc = "send"
    /\ b \in found \ sent
    /\ scanPc' = "putSubtask"
    /\ sent' = sent \cup {b}
    /\ writing' = b
    /\ visible' = visible \cup {b}
    /\ UNCHANGED <<found, parentVars, subVars, inFlight, dead, receives,
                   workerVars, objVars, token>>

(* ... second call: and only then its item is put, replacing whatever item *)
(* a migration Lambda may have upserted in between.                        *)
PutSubtask ==
    /\ scanPc = "putSubtask"
    /\ scanPc' = "send"
    /\ writing' = EmptyScan
    /\ subStatus' = [subStatus EXCEPT ![writing] = "Running"]
    /\ linked' = linked \cup {writing}
    /\ UNCHANGED <<found, sent, parentVars, queueVars, workerVars, objVars,
                   token>>

(* What is written to the parent: the number of messages sent. *)
TaskCountMissesOne == IF sent = {} THEN 0 ELSE Cardinality(sent) - 1
TaskCount == Cardinality(sent)

(* The update of totalSubTask after the generator has returned; with no    *)
(* task one message without data goes out to trigger the callback.         *)
UpdateTotal ==
    /\ scanPc = "send"
    /\ sent = found
    /\ parentTotal' = TaskCount
    /\ scanPc' = IF TaskCount = 0 THEN "sendEmpty" ELSE "done"
    /\ UNCHANGED <<found, sent, writing, parentStatus, misread, subVars, queueVars,
                   workerVars, objVars, token>>

SendEmpty ==
    /\ scanPc = "sendEmpty"
    /\ scanPc' = "done"
    /\ visible' = visible \cup {EmptyScan}
    /\ UNCHANGED <<found, sent, writing, parentVars, subVars, inFlight, dead,
                   receives, workerVars, objVars, token>>

(* The invocation fails, and with it the Step Functions task. *)
ScanCrash ==
    /\ "ScanCrash" \in Faults
    /\ scanPc \notin {"done", "crashed"}
    /\ scanPc' = "crashed"
    /\ FirstAnswer("Failed")
    /\ UNCHANGED <<found, sent, writing, parentVars, subVars, queueVars,
                   workerVars, objVars>>

Scanner ==
    \/ PutParent
    \/ \E S \in SUBSET Batches : ListObjects(S)
    \/ \E b \in Batches : SendMessage(b)
    \/ PutSubtask
    \/ UpdateTotal
    \/ SendEmpty
-----------------------------------------------------------------------------
(* The queue. *)

(* Crashes and duplicates each use up one receive of a message. *)
Accident == accidents < MaxAccidents /\ accidents' = accidents + 1

Busy(m) == \E w \in Workers : pc[w] # "idle" /\ msg[w] = m

(* A message that was received and not deleted becomes visible again; the  *)
(* visibility timeout equals the Lambda timeout, so that only a duplicate  *)
(* delivery finds the first Lambda still at work.                          *)
VisibilityTimeout(m) ==
    /\ m \in inFlight
    /\ IF Busy(m)
       THEN "Duplicate" \in Faults /\ Accident
       ELSE UNCHANGED accidents
    /\ inFlight' = inFlight \ {m}
    /\ visible' = visible \cup {m}
    /\ UNCHANGED <<scanVars, parentVars, subVars, dead, receives, pc, msg, idx,
                   status, counted, total, objVars, token>>

(* The redrive policy: nothing reads the dead-letter queue. *)
Redrive(m) ==
    /\ m \in visible
    /\ receives[m] = MaxReceiveCount
    /\ visible' = visible \ {m}
    /\ dead' = dead \cup {m}
    /\ UNCHANGED <<scanVars, parentVars, subVars, inFlight, receives,
                   workerVars, objVars, token>>

-----------------------------------------------------------------------------
(* The migration Lambda. *)

Goto(w, step) == pc' = [pc EXCEPT ![w] = step]
Obj(w) == <<msg[w], idx[w]>>

(* A message without data is neither copied nor recorded. *)
FirstStepIgnoresEmpty(m) ==
    CASE m = EmptyScan -> "return" [] Merges(m) -> "download" [] OTHER -> "copy"
FirstStep(m) ==
    CASE m = EmptyScan -> "query" [] Merges(m) -> "download" [] OTHER -> "copy"

Deliverable(m) == m \in visible /\ receives[m] < MaxReceiveCount

(* The batch size of the event source is 1: one message per invocation. *)
Receive(w, m) ==
    /\ pc[w] = "idle"
    /\ Deliverable(m)
    /\ scanPc \in {"done", "crashed"} \/ "EarlyDelivery" \in Faults
    /\ visible' = visible \ {m}
    /\ inFlight' = inFlight \cup {m}
    /\ receives' = [receives EXCEPT ![m] = @ + 1]
    /\ msg' = [msg EXCEPT ![w] = m]
    /\ Goto(w, FirstStep(m))
    /\ UNCHANGED <<scanVars, parentVars, subVars, dead, idx, status, counted,
                   total, accidents, objVars, token>>

(* batch_copy_objects: the loop goes on after a failure, and status is     *)
(* that of the task handled last.                                          *)
NextObjectPastEnd(w, outcome) ==
    /\ status' = [status EXCEPT ![w] = outcome]
    /\ IF idx[w] <= BatchLen
       THEN idx' = [idx EXCEPT ![w] = @ + 1] /\ Goto(w, "copy")
       ELSE idx' = [idx EXCEPT ![w] = 1] /\ Goto(w, "update")
NextObject(w, outcome) ==
    /\ status' = [status EXCEPT ![w] = outcome]
    /\ IF idx[w] < BatchLen
       THEN idx' = [idx EXCEPT ![w] = @ + 1] /\ Goto(w, "copy")
       ELSE idx' = [idx EXCEPT ![w] = 1] /\ Goto(w, "update")

CopyObjectDeletesFirst(w) ==
    /\ pc[w] = "copy"
    /\ Obj(w) \in src
    /\ src' = src \ {Obj(w)}
    /\ Goto(w, "delete")
    /\ UNCHANGED <<scanVars, parentVars, subVars, queueVars, msg, idx, status,
                   counted, total, accidents, dst, token>>
CopyObject(w) ==
    /\ pc[w] = "copy"
    /\ Obj(w) \in src
    /\ dst' = dst \cup {Obj(w)}
    /\ IF DeleteOnSuccess
       THEN Goto(w, "delete") /\ UNCHANGED <<idx, status>>
       ELSE NextObject(w, "Succeeded")
    /\ UNCHANGED <<scanVars, parentVars, subVars, queueVars, msg, counted,
                   total, accidents, src, token>>

DeleteObject(w) ==
    /\ pc[w] = "delete"
    /\ src' = src \ {Obj(w)}
    /\ NextObject(w, "Succeeded")
    /\ UNCHANGED <<scanVars, parentVars, subVars, queueVars, msg, counted,
                   total, accidents, dst, token>>

(* The copy raises, NoSuchKey when the object is gone, or the delete does. *)
ObjectFails(w) ==
    /\ \/ pc[w] = "copy" /\ (Obj(w) \notin src \/ "S3Error" \in Faults)
       \/ pc[w] = "delete" /\ "S3Error" \in Faults
    /\ NextObject(w, "Failed")
    /\ UNCHANGED <<scanVars, parentVars, subVars, queueVars, msg, counted,
                   total, accidents, objVars, token>>

(* merge_objects: download all, upload the merged object, delete all.      *)
(* An exception anywhere gives FAILED.                                     *)
Download(w) ==
    /\ pc[w] = "download"
    /\ ObjectsOf(msg[w]) \subseteq src
    /\ Goto(w, "upload")
    /\ UNCHANGED <<scanVars, parentVars, subVars, queueVars, msg, idx, status,
                   counted, total, accidents, objVars, token>>

Upload(w) ==
    /\ pc[w] = "upload"
    /\ dst' = dst \cup ObjectsOf(msg[w])
    /\ IF DeleteOnSuccess
       THEN Goto(w, "batchDelete") /\ UNCHANGED status
       ELSE Goto(w, "update") /\ status' = [status EXCEPT ![w] = "Succeeded"]
    /\ UNCHANGED <<scanVars, parentVars, subVars, queueVars, msg, idx,
                   counted, total, accidents, src, token>>

(* delete_objects reports keys it could not delete in its response; they   *)
(* are counted and the batch succeeds all the same.                        *)
BatchDelete(w, kept) ==
    /\ pc[w] = "batchDelete"
    /\ kept # {} => "S3Error" \in Faults
    /\ src' = src \ (ObjectsOf(msg[w]) \ kept)
    /\ status' = [status EXCEPT ![w] = "Succeeded"]
    /\ Goto(w, "update")
    /\ UNCHANGED <<scanVars, parentVars, subVars, queueVars, msg, idx,
                   counted, total, accidents, dst, token>>

MergeFails(w) ==
    /\ \/ pc[w] = "download" /\ ~ (ObjectsOf(msg[w]) \subseteq src)
       \/ pc[w] \in {"download", "upload", "batchDelete"} /\ "S3Error" \in Faults
    /\ status' = [status EXCEPT ![w] = "Failed"]
    /\ Goto(w, "update")
    /\ UNCHANGED <<scanVars, parentVars, subVars, queueVars, msg, idx,
                   counted, total, accidents, objVars, token>>

(* The update is an upsert: it does not set parentTaskId. *)
UpdateSubtask(w) ==
    /\ pc[w] = "update"
    /\ subStatus' = [subStatus EXCEPT ![msg[w]] = status[w]]
    /\ Goto(w, "query")
    /\ UNCHANGED <<scanVars, parentVars, linked, queueVars, msg, idx, status,
                   counted, total, accidents, objVars, token>>

(* get_subtask_status_count, the query by parentTaskId and status. *)
SubtasksOfAnyStatus == linked
SucceededSubtasks == {b \in linked : subStatus[b] = "Succeeded"}

QuerySubtasks(w) ==
    /\ pc[w] = "query"
    /\ counted' = [counted EXCEPT ![w] = SucceededSubtasks]
    /\ Goto(w, "get")
    /\ UNCHANGED <<scanVars, parentVars, subVars, queueVars, msg, idx, status,
                   total, accidents, objVars, token>>

(* get_subtask_status_count, the get of the parent, and the comparison in  *)
(* check_parent_task_completion.                                           *)
AllOtherSubtasksCounted(S, n) == Cardinality(S) + 1 >= n
AllSubtasksCounted(S, n) == Cardinality(S) = n

AfterCheckSilent(w) == "return"
AfterCheck(w) == IF status[w] = "Failed" THEN "failure" ELSE "return"

(* The comparison 0 = 0 of a Lambda that reads the total before the scanner*)
(* has written it, or as it was before that.                               *)
Misreads(w, n) ==
    /\ n = 0 /\ counted[w] = {}
    /\ scanPc \notin {"sendEmpty", "done"} \/ n # parentTotal

GetParent(w, n) ==
    /\ pc[w] = "get"
    /\ n = parentTotal \/ (n = 0 /\ "StaleRead" \in Faults)
    /\ misread' = (misread \/ Misreads(w, n))
    /\ total' = [total EXCEPT ![w] = n]
    /\ Goto(w, IF AllSubtasksCounted(counted[w], n) THEN "complete" ELSE AfterCheck(w))
    /\ UNCHANGED <<scanVars, parentStatus, parentTotal, subVars, queueVars, msg,
                   idx, status, counted, accidents, objVars, token>>

UpdateParent(w) ==
    /\ pc[w] = "complete"
    /\ parentStatus' = "Succeeded"
    /\ Goto(w, "success")
    /\ UNCHANGED <<scanVars, parentTotal, misread, subVars, queueVars, msg, idx,
                   status, counted, total, accidents, objVars, token>>

SendSuccess(w) ==
    /\ pc[w] = "success"
    /\ Answer(IF total[w] = 0 THEN "NoObjects" ELSE "HasObjects")
    /\ Goto(w, AfterCheck(w))
    /\ UNCHANGED <<scanVars, parentVars, subVars, queueVars, msg, idx, status,
                   counted, total, accidents, objVars>>

SendFailure(w) ==
    /\ pc[w] = "failure"
    /\ Answer("Failed")
    /\ Goto(w, "return")
    /\ UNCHANGED <<scanVars, parentVars, subVars, queueVars, msg, idx, status,
                   counted, total, accidents, objVars>>

(* The next invocation starts with fresh locals. *)
Reset(w) ==
    /\ Goto(w, "idle")
    /\ msg' = [msg EXCEPT ![w] = EmptyScan]
    /\ idx' = [idx EXCEPT ![w] = 1]
    /\ status' = [status EXCEPT ![w] = "Running"]
    /\ counted' = [counted EXCEPT ![w] = {}]
    /\ total' = [total EXCEPT ![w] = 0]

(* A handler that returns has its message deleted, FAILED or not. *)
Return(w) ==
    /\ pc[w] = "return"
    /\ Reset(w)
    /\ visible' = visible \ {msg[w]}
    /\ inFlight' = inFlight \ {msg[w]}
    /\ UNCHANGED <<scanVars, parentVars, subVars, dead, receives, accidents,
                   objVars, token>>

Crash(w) ==
    /\ "Crash" \in Faults
    /\ pc[w] # "idle"
    /\ Accident
    /\ Reset(w)
    /\ UNCHANGED <<scanVars, parentVars, subVars, queueVars, objVars, token>>

Worker(w) ==
    \/ CopyObject(w) \/ DeleteObject(w) \/ ObjectFails(w)
    \/ Download(w) \/ Upload(w) \/ MergeFails(w)
    \/ \E kept \in SUBSET ObjectsOf(msg[w]) : BatchDelete(w, kept)
    \/ UpdateSubtask(w) \/ QuerySubtasks(w)
    \/ \E n \in {0, parentTotal} : GetParent(w, n)
    \/ UpdateParent(w) \/ SendSuccess(w) \/ SendFailure(w) \/ Return(w)

Deliver(m) == \E w \in Workers : Receive(w, m)

Next ==
    \/ Scanner \/ ScanCrash
    \/ \E m \in Messages : VisibilityTimeout(m) \/ Redrive(m) \/ Deliver(m)
    \/ \E w \in Workers : Worker(w) \/ Crash(w)

Spec == Init /\ [][Next]_vars

(* A Lambda that runs makes its next call; SQS keeps offering a message    *)
(* until it is deleted or dead.                                            *)
Fairness ==
    /\ WF_vars(Scanner)
    /\ \A w \in Workers : WF_vars(Worker(w))
    /\ \A m \in Messages :
          WF_vars(VisibilityTimeout(m)) /\ WF_vars(Redrive(m)) /\ WF_vars(Deliver(m))

FairSpec == Spec /\ Fairness
-----------------------------------------------------------------------------
(* Properties. *)

(* A batch is settled when what its Succeeded status vouches for is at the *)
(* destination: all of a merged batch, the last object of a copied one.    *)
Last(b) == <<b, BatchLen>>
Vouched(b) == IF Merges(b) THEN ObjectsOf(b) ELSE {Last(b)}
Settled == {b \in Batches : Vouched(b) \subseteq dst}

(* No object is lost: whatever fails, crashes or is delivered twice, an    *)
(* object that was listed is at the source or at the destination, because  *)
(* batch_copy_objects and merge_objects delete only what they have copied. *)
NoObjectLost == found \X (1..BatchLen) \subseteq src \cup dst

(* When Step Functions is told hasObjects = True, every batch of the       *)
(* listing, not only the ones some Lambda had seen, has been moved as far  *)
(* as its status vouches for it.                                           *)
HasObjectsTruthful == token = "HasObjects" => found \subseteq Settled

(* Step Functions is told hasObjects = False for a listing with objects    *)
(* only when a Lambda compared nothing with nothing too early: never after *)
(* the total was written and read, whatever else fails.                    *)
NoObjectsTruthful == token = "NoObjects" => found = {} \/ misread

(* "All of migration subtasks are completed" (check_parent_task_completion)*)
(* is what the scanner's item says when its status is Succeeded, with the  *)
(* same exception.                                                         *)
ParentTruthful == parentStatus = "Succeeded" => found \subseteq Settled \/ misread

(* Once the job was answered with hasObjects = True the workflow goes on   *)
(* to read the destination: no migration Lambda of the job may still be    *)
(* moving objects.                                                         *)
QuietAfterSuccess == [][token = "HasObjects" => UNCHANGED objVars]_vars

(* The task waits for the token without a time out: it must be answered,   *)
(* whichever Lambda crashes or is given a message twice.  Two such events  *)
(* are too many: a second delivery that ends first takes the message away, *)
(* and when the first Lambda then crashes before it answers nobody does.   *)
TokenResolved ==
    (scanPc = "list") ~> (token # "Pending" \/ accidents > 1)

(* A Lambda that recorded a failed batch gets the task answered, even when *)
(* it started before the scanner had returned.                             *)
FailureAnswered ==
    \A b \in Batches : (subStatus[b] = "Failed") ~> (token # "Pending")

(* The promise of the job, see MigrationTask. *)
Promise == INSTANCE MigrationTask WITH
    listed <- found,
    settled <- Settled \cap found
PromiseSpec == Promise!Spec
=============================================================================
