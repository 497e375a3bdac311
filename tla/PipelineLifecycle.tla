------------------------- MODULE PipelineLifecycle -------------------------
(* The life of one pipeline: the API calls that create, change and delete it,  *)
(* the two state machines each of them starts (the parent that waits for a     *)
(* task token and the child that drives CloudFormation and answers it), the    *)
(* alarm that throttles its log processor and the call that resumes it.        *)
(*                                                                             *)
(* A pipeline is a row of a DynamoDB table (item).  Its resources are one      *)
(* CloudFormation stack, which only the child flows touch.  Nothing in the     *)
(* code makes the row and the stack change together: every write of the row is *)
(* unconditional, and every call starts its flow before it writes the row.     *)
EXTENDS Integers, FiniteSets

CONSTANTS
    Calls,         \* invocations of the API and of the alarm, one operation each
    Kinds,         \* the pipelines considered: "svc" (service), "app" (application)
    Careful,       \* TRUE: one operator, who acts on what the console shows
    Faults,        \* what may go wrong, see FaultNames
    MaxAccidents   \* bound on the number of faults of one behaviour

FaultNames == {"StartFails", "UpdateFails", "StopFails", "QueryFails",
               "StackFails", "NotifyFails", "CallDies", "Slow"}

ASSUME LifecycleAssumption ==
    /\ IsFiniteSet(Calls)
    /\ Kinds \subseteq {"svc", "app"}
    /\ Careful \in BOOLEAN
    /\ Faults \subseteq FaultNames
    /\ MaxAccidents \in Nat

VARIABLES
    kind,         \* of this pipeline
    item,         \* its row: status, stackId, logProcessorLastConcurrency
    stack,        \* status of its CloudFormation stack
    role,         \* the buffer access role of an application pipeline
    concurrency,  \* reserved concurrency of its log processor, 0 or 1 for any other
    ingestions,   \* ingestions of an application pipeline that are not INACTIVE
    call,         \* the calls: operation, progress and the row as they read it
    flow,         \* the parent and child executions a call has started
    accidents

vars == <<kind, item, stack, role, concurrency, ingestions, call, flow, accidents>>

Statuses == {"none", "CREATING", "ACTIVE", "UPDATING", "PAUSED", "ERROR",
             "DELETING", "INACTIVE"}
Transitional == {"CREATING", "UPDATING", "DELETING"}

InProgress == {"CREATE_IN_PROGRESS", "UPDATE_IN_PROGRESS", "DELETE_IN_PROGRESS"}
Usable == {"CREATE_COMPLETE", "UPDATE_COMPLETE", "UPDATE_ROLLBACK_COMPLETE"}
StackStatuses == {"none", "ROLLBACK_COMPLETE", "DELETE_FAILED", "DELETE_COMPLETE"}
                    \cup InProgress \cup Usable

(* What a helper call or a query reports: a status, and the stackId or none.   *)
Ids == {"", "arn"}
Results == [status : {""} \cup StackStatuses \cup {"CREATE_FAILED"}, id : Ids]
NoResult == [status |-> "", id |-> ""]

Items == [status : Statuses, stackId : Ids, last : {0, 1}]
NoItem == [status |-> "none", stackId |-> "", last |-> 1]

Operations == {"create", "update", "delete", "ingest", "pause", "resume"}
CallPcs == {"idle", "begun", "ready", "started", "done", "refused", "failed"}
ParentPcs == {"none", "waiting", "update", "done", "failed"}
ChildPcs == {"none", "start", "wait", "query", "notify", "end", "failed"}
FlowActions == {"START", "UPDATE", "STOP"}

NoCall == [op |-> "create", pc |-> "idle", read |-> NoItem]
NoFlow == [action |-> "START", parent |-> "none", child |-> "none",
           result |-> NoResult]

TypeOK ==
    /\ kind \in Kinds
    /\ item \in Items
    /\ stack \in StackStatuses
    /\ role \in {"none", "kept", "deleted"}
    /\ concurrency \in {0, 1}
    /\ ingestions \subseteq Calls
    /\ call \in [Calls -> [op : Operations, pc : CallPcs, read : Items]]
    /\ flow \in [Calls -> [action : FlowActions, parent : ParentPcs,
                           child : ChildPcs, result : Results]]
    /\ accidents \in 0..MaxAccidents

Init ==
    /\ kind \in Kinds
    /\ item = NoItem
    /\ stack = "none"
    /\ role = "none"
    /\ concurrency = 1
    /\ ingestions = {}
    /\ call = [c \in Calls |-> NoCall]
    /\ flow = [c \in Calls |-> NoFlow]
    /\ accidents = 0

Accident(fault) ==
    /\ fault \in Faults
    /\ accidents < MaxAccidents
    /\ accidents' = accidents + 1

InCall(c) == call[c].pc \in {"begun", "ready", "started"}
Ended == {"done", "refused", "failed"}
Goto(c, pc) ==
    call' = [call EXCEPT ![c] = [op |-> @.op, pc |-> pc,
                                 read |-> IF pc \in Ended THEN NoItem ELSE @.read]]

-----------------------------------------------------------------------------
(* Starting a flow.  The name of a service pipeline's execution is             *)
(* <id>-<action>: the same request again is answered with the execution that   *)
(* runs, and refused once that has ended.  An application pipeline's           *)
(* executions have a random part in their names.                               *)
Named(action) ==
    {d \in Calls : flow[d].action = action /\ flow[d].parent # "none"}

NewFlow(c, action) ==
    flow' = [flow EXCEPT ![c] = [action |-> action, parent |-> "waiting",
                                 child |-> "start", result |-> NoResult]]

StartExecution(c, action) ==
    IF kind = "app" \/ Named(action) = {}
    THEN NewFlow(c, action) /\ Goto(c, "started")
    ELSE /\ UNCHANGED flow
         /\ IF \E d \in Named(action) : flow[d].parent \in {"done", "failed"}
            THEN Goto(c, "failed")
            ELSE Goto(c, "started")

-----------------------------------------------------------------------------
(* The API calls.  Begin is the first read of the row with the checks on it.   *)

(* What lets an operation go on, in the code.  The handler of the alarm does   *)
(* not look at the row or at the concurrency before it goes on.                *)
Accepts(op) ==
    CASE op = "create" -> item.status = "none" /\ \A c \in Calls : call[c].pc = "idle"
      [] op = "update" -> kind = "app" /\ item.status = "ACTIVE"
      [] op = "delete" -> item.status # "none"
                          /\ (kind = "svc" => item.status \notin {"INACTIVE", "DELETING"})
      [] op = "ingest" -> kind = "app" /\ item.status # "none"
      [] op = "pause"  -> TRUE
      [] op = "resume" -> item.status = "PAUSED"

(* An alarm is raised by the failures of a log processor, so by a stack that   *)
(* has one.  Lambda may deliver it twice, and runs the handler again a minute  *)
(* or more after it failed: each run of it is a call of its own.               *)
Raised(op) == op = "pause" => stack \in Usable \cup {"UPDATE_IN_PROGRESS"}

(* A flow that is going to write the row, unless it fails.                     *)
Running(c) ==
    flow[c].child \in {"start", "wait", "query", "notify"} \/ flow[c].parent = "update"

(* What a careful operator does: one call at a time, Delete when the pipeline  *)
(* is ACTIVE or ERROR and a new log source when it is ACTIVE, as the console   *)
(* offers them, and Resume neither after a Delete nor while an update or an    *)
(* alarm is being handled.  An alarm takes minutes of failing invocations: it  *)
(* does not come before the row shows the result of the creation, nor while    *)
(* the pipeline is being resumed or paused.                                    *)
Offers(op) ==
    /\ op # "pause" => \A c \in Calls : InCall(c) => call[c].op = "pause"
    /\ op = "pause" => /\ item.status \notin {"none", "CREATING"}
                       /\ \A c \in Calls : InCall(c) => call[c].op \notin {"pause", "resume"}
    /\ op = "delete" => item.status \in {"ACTIVE", "ERROR"}
    /\ op = "ingest" => item.status = "ACTIVE"
    /\ op = "resume" => \A c \in Calls : /\ call[c].op # "delete"
                                         /\ ~InCall(c) /\ ~Running(c)

Begin(c, op) ==
    /\ call[c].pc = "idle"
    /\ Accepts(op) /\ Raised(op)
    /\ Careful => Offers(op)
    /\ call' = [call EXCEPT ![c] = [op |-> op, pc |-> "begun", read |-> item]]
    /\ UNCHANGED <<kind, item, stack, role, concurrency, ingestions, flow, accidents>>

(* create_service_pipeline and put_app_pipeline of a new pipeline: create the  *)
(* buffer role, start the flow, and only then put the row.                     *)
CreateExec(c) ==
    /\ call[c].op = "create" /\ call[c].pc = "begun"
    /\ role' = IF kind = "app" THEN "kept" ELSE "none"
    /\ StartExecution(c, "START")
    /\ UNCHANGED <<kind, item, stack, concurrency, ingestions, accidents>>

CreatePut(c) ==
    /\ call[c].op = "create" /\ call[c].pc = "started"
    /\ item' = [status |-> "CREATING", stackId |-> "", last |-> 1]
    /\ Goto(c, "done")
    /\ UNCHANGED <<kind, stack, role, concurrency, ingestions, flow, accidents>>

(* update_app_pipeline: starts the flow, then puts the whole row as it was     *)
(* read, with the status UPDATING and the concurrency of the request.          *)
UpdateExec(c) ==
    /\ call[c].op = "update" /\ call[c].pc = "begun"
    /\ StartExecution(c, "UPDATE")
    /\ UNCHANGED <<kind, item, stack, role, concurrency, ingestions, accidents>>

UpdatePut(c) ==
    /\ call[c].op = "update" /\ call[c].pc = "started"
    /\ item' = [call[c].read EXCEPT !.status = "UPDATING", !.last = 1]
    /\ Goto(c, "done")
    /\ UNCHANGED <<kind, stack, role, concurrency, ingestions, flow, accidents>>

(* The same, without the look at the ingestions.                               *)
DeleteCheckNothing(c) ==
    /\ call[c].op = "delete" /\ call[c].pc = "begun"
    /\ Goto(c, "ready")
    /\ role' = IF kind = "app" THEN "deleted" ELSE role
    /\ UNCHANGED <<kind, item, stack, concurrency, ingestions, flow, accidents>>

(* The same, with the role deleted before the look at the ingestions.          *)
DeleteCheckLate(c) ==
    /\ call[c].op = "delete" /\ call[c].pc = "begun"
    /\ Goto(c, IF kind = "app" /\ ingestions # {} THEN "refused" ELSE "ready")
    /\ role' = IF kind = "app" THEN "deleted" ELSE role
    /\ UNCHANGED <<kind, item, stack, concurrency, ingestions, flow, accidents>>

(* delete_app_pipeline: refused while the pipeline has ingestions; deletes the *)
(* role.                                                                       *)
DeleteCheck(c) ==
    /\ call[c].op = "delete" /\ call[c].pc = "begun"
    /\ IF kind = "app" /\ ingestions # {}
       THEN Goto(c, "refused") /\ UNCHANGED role
       ELSE /\ Goto(c, "ready")
            /\ role' = IF kind = "app" THEN "deleted" ELSE role
    /\ UNCHANGED <<kind, item, stack, concurrency, ingestions, flow, accidents>>

(* Only a row with a stackId has a stack to delete.                            *)
DeleteExec(c) ==
    /\ call[c].op = "delete" /\ call[c].pc = "ready"
    /\ IF call[c].read.stackId # ""
       THEN StartExecution(c, "STOP")
       ELSE Goto(c, "started") /\ UNCHANGED flow
    /\ UNCHANGED <<kind, item, stack, role, concurrency, ingestions, accidents>>

(* Without a stack a service pipeline is INACTIVE at once, an application      *)
(* pipeline is DELETING all the same.                                          *)
DeleteWrite(c) ==
    /\ call[c].op = "delete" /\ call[c].pc = "started"
    /\ item' = [item EXCEPT !.status =
                   IF kind = "svc" /\ call[c].read.stackId = "" THEN "INACTIVE"
                                                            ELSE "DELETING"]
    /\ Goto(c, "done")
    /\ UNCHANGED <<kind, stack, role, concurrency, ingestions, flow, accidents>>

(* create_app_log_ingestion reads the pipeline and saves the ingestion;        *)
(* delete_app_log_ingestion makes it INACTIVE.                                 *)
Ingest(c) ==
    /\ call[c].op = "ingest" /\ call[c].pc = "begun"
    /\ ingestions' = ingestions \cup {c}
    /\ Goto(c, "done")
    /\ UNCHANGED <<kind, item, stack, role, concurrency, flow, accidents>>

StopIngestion(c) ==
    /\ c \in ingestions
    /\ ingestions' = ingestions \ {c}
    /\ UNCHANGED <<kind, item, stack, role, concurrency, call, flow, accidents>>

-----------------------------------------------------------------------------
(* The alarm of a log processor: remember its concurrency, set it to zero, set *)
(* the status (and send a mail).  Each is an error when the log processor has  *)
(* been deleted with the stack, and the row is left alone when there is none.  *)
Row(changed) == item' = IF item.status = "none" THEN item ELSE changed

PauseRemember(c) ==
    /\ call[c].op = "pause" /\ call[c].pc = "begun"
    /\ IF stack = "DELETE_COMPLETE"
       THEN Goto(c, "failed") /\ UNCHANGED item
       ELSE Goto(c, "ready") /\ Row([item EXCEPT !.last = concurrency])
    /\ UNCHANGED <<kind, stack, role, concurrency, ingestions, flow, accidents>>

Throttle(c) ==
    /\ call[c].op = "pause" /\ call[c].pc = "ready"
    /\ IF stack = "DELETE_COMPLETE"
       THEN Goto(c, "failed") /\ UNCHANGED concurrency
       ELSE Goto(c, "started") /\ concurrency' = 0
    /\ UNCHANGED <<kind, item, stack, role, ingestions, flow, accidents>>

PauseWrite(c) ==
    /\ call[c].op = "pause" /\ call[c].pc = "started"
    /\ Row([item EXCEPT !.status = "PAUSED"])
    /\ Goto(c, "done")
    /\ UNCHANGED <<kind, stack, role, concurrency, ingestions, flow, accidents>>

(* The same, without the restoration.                                          *)
RestoreNothing(c) ==
    /\ call[c].op = "resume" /\ call[c].pc = "begun"
    /\ Goto(c, "ready")
    /\ UNCHANGED <<kind, item, stack, role, concurrency, ingestions, flow, accidents>>

(* resume_app_pipeline: restore the concurrency that was read (an error when   *)
(* the log processor has been deleted with the stack), set the status.         *)
Restore(c) ==
    /\ call[c].op = "resume" /\ call[c].pc = "begun"
    /\ IF stack = "DELETE_COMPLETE"
       THEN Goto(c, "failed") /\ UNCHANGED concurrency
       ELSE Goto(c, "ready") /\ concurrency' = call[c].read.last
    /\ UNCHANGED <<kind, item, stack, role, ingestions, flow, accidents>>

ResumeWrite(c) ==
    /\ call[c].op = "resume" /\ call[c].pc = "ready"
    /\ item' = [item EXCEPT !.status = "ACTIVE"]
    /\ Goto(c, "done")
    /\ UNCHANGED <<kind, stack, role, concurrency, ingestions, flow, accidents>>

(* An invocation, of the API or of the alarm's handler, ends anywhere: its     *)
(* timeout, or an error of a service it calls.                                 *)
CallDies(c) ==
    /\ InCall(c)
    /\ Accident("CallDies")
    /\ Goto(c, "failed")
    /\ UNCHANGED <<kind, item, stack, role, concurrency, ingestions, flow>>

-----------------------------------------------------------------------------
(* The child flow: one call of cfnHelper, then a query every 15 seconds until  *)
(* the stack is not *_IN_PROGRESS any more, then the answer to the parent.     *)

Answer(c, result) ==
    flow' = [flow EXCEPT ![c] = [@ EXCEPT !.child = "notify", !.result = result]]
ChildTo(c, pc) == flow' = [flow EXCEPT ![c].child = pc]

(* StartState: a failure is reported as CREATE_FAILED, without a stackId.      *)
StartStack(c) ==
    /\ flow[c].child = "start" /\ flow[c].action = "START"
    /\ \/ /\ stack' = "CREATE_IN_PROGRESS"
          /\ ChildTo(c, "wait")
          /\ UNCHANGED accidents
       \/ /\ Accident("StartFails")
          /\ Answer(c, [status |-> "CREATE_FAILED", id |-> ""])
          /\ UNCHANGED stack
    /\ UNCHANGED <<kind, item, role, concurrency, ingestions, call>>

(* UpdateState: after a failure stack_id is not bound, the helper returns an   *)
(* empty object and the choice that follows fails the child.                   *)
UpdateStack(c) ==
    /\ flow[c].child = "start" /\ flow[c].action = "UPDATE"
    /\ \/ /\ stack \in Usable
          /\ stack' = "UPDATE_IN_PROGRESS"
          /\ ChildTo(c, "wait")
          /\ UNCHANGED accidents
       \/ /\ stack \notin Usable
          /\ ChildTo(c, "failed")
          /\ UNCHANGED <<stack, accidents>>
       \/ /\ Accident("UpdateFails")
          /\ ChildTo(c, "failed")
          /\ UNCHANGED stack
    /\ UNCHANGED <<kind, item, role, concurrency, ingestions, call>>

(* StopState: a failure is reported as DELETE_FAILED, without a stackId.       *)
(* CloudFormation refuses to delete a stack that is being updated, and has     *)
(* nothing to do for one that is gone.                                         *)
StopStack(c) ==
    /\ flow[c].child = "start" /\ flow[c].action = "STOP"
    /\ \/ /\ stack # "UPDATE_IN_PROGRESS"
          /\ stack' = IF stack \in {"none", "DELETE_COMPLETE"} THEN stack
                                                            ELSE "DELETE_IN_PROGRESS"
          /\ ChildTo(c, "wait")
          /\ UNCHANGED accidents
       \/ /\ stack = "UPDATE_IN_PROGRESS"
          /\ Answer(c, [status |-> "DELETE_FAILED", id |-> ""])
          /\ UNCHANGED <<stack, accidents>>
       \/ /\ Accident("StopFails")
          /\ Answer(c, [status |-> "DELETE_FAILED", id |-> ""])
          /\ UNCHANGED stack
    /\ UNCHANGED <<kind, item, role, concurrency, ingestions, call>>

(* 15 seconds are longer than a call or a step of another flow takes, unless   *)
(* something is slow.                                                          *)
Quick ==
    /\ \A c \in Calls : ~InCall(c)
    /\ \A c \in Calls : /\ flow[c].parent # "update"
                        /\ flow[c].child \in {"none", "wait", "end", "failed"}

WaitElapses(c) ==
    /\ flow[c].child = "wait"
    /\ "Slow" \in Faults \/ Quick
    /\ ChildTo(c, "query")
    /\ UNCHANGED <<kind, item, stack, role, concurrency, ingestions, call, accidents>>

(* After an update the stack is asked for by its name, which a deleted stack   *)
(* has no more.                                                                *)
Found(c) ==
    stack # "none" /\ (flow[c].action = "UPDATE" => stack # "DELETE_COMPLETE")

(* QueryState as below, but asking once instead of until the stack is at rest. *)
QueryOnce(c) ==
    /\ flow[c].child = "query"
    /\ Answer(c, [status |-> stack, id |-> "arn"])
    /\ UNCHANGED <<kind, item, stack, role, concurrency, ingestions, call, accidents>>

(* QueryState.  A failed query leaves stack_id unbound and fails the child.    *)
Query(c) ==
    /\ flow[c].child = "query"
    /\ \/ Found(c) /\ stack \in InProgress /\ ChildTo(c, "wait") /\ UNCHANGED accidents
       \/ /\ Found(c) /\ stack \notin InProgress
          /\ Answer(c, [status |-> stack, id |-> "arn"])
          /\ UNCHANGED accidents
       \/ ~Found(c) /\ ChildTo(c, "failed") /\ UNCHANGED accidents
       \/ Accident("QueryFails") /\ ChildTo(c, "failed")
    /\ UNCHANGED <<kind, item, stack, role, concurrency, ingestions, call>>

(* sfnHelper answers the parent; when that fails it only logs the error.       *)
Notify(c) ==
    /\ flow[c].child = "notify"
    /\ \/ /\ flow' = [flow EXCEPT ![c].child = "end", ![c].parent = "update"]
          /\ UNCHANGED accidents
       \/ /\ Accident("NotifyFails")
          /\ ChildTo(c, "end")
    /\ UNCHANGED <<kind, item, stack, role, concurrency, ingestions, call>>

-----------------------------------------------------------------------------
(* The parent flow's step Update Status.                                       *)
(* The same with a status of CloudFormation passed on, with *_COMPLETE taken    *)
(* for a success whatever it ends, and with any DELETE_* taken for one.         *)
StatusOfRaw(stackStatus) ==
    IF stackStatus = "CREATE_COMPLETE" THEN "ACTIVE" ELSE stackStatus
StatusOfAnyComplete(stackStatus) ==
    IF stackStatus \in {"CREATE_COMPLETE", "ROLLBACK_COMPLETE", "DELETE_COMPLETE"} THEN "ACTIVE"
    ELSE "ERROR"
StatusOfAnyDelete(stackStatus) ==
    CASE stackStatus = "CREATE_COMPLETE" -> "ACTIVE"
      [] stackStatus \in {"DELETE_COMPLETE", "DELETE_FAILED"} -> "INACTIVE"
      [] OTHER -> "ERROR"

StatusOf(stackStatus) ==
    CASE stackStatus = "CREATE_COMPLETE" -> "ACTIVE"
      [] stackStatus = "UPDATE_COMPLETE" /\ kind = "app" -> "ACTIVE"
      [] stackStatus = "DELETE_COMPLETE" -> "INACTIVE"
      [] OTHER -> "ERROR"

(* The error text of an ERROR is asked for by stackId: without one the step    *)
(* fails, and so it does when the row is not there.                            *)
StepRaises(c) ==
    \/ item.status = "none"
    \/ StatusOf(flow[c].result.status) = "ERROR" /\ flow[c].result.id = ""

(* The same, with an ERROR only logged.                                        *)
UpdateStatusOfSuccess(c) ==
    /\ flow[c].parent = "update"
    /\ flow' = [flow EXCEPT ![c].parent = "done"]
    /\ item' = IF StatusOf(flow[c].result.status) = "ERROR" THEN item
               ELSE [item EXCEPT !.status = StatusOf(flow[c].result.status),
                                 !.stackId = flow[c].result.id]
    /\ UNCHANGED <<kind, stack, role, concurrency, ingestions, call, accidents>>

UpdateStatus(c) ==
    /\ flow[c].parent = "update"
    /\ IF StepRaises(c)
       THEN /\ flow' = [flow EXCEPT ![c].parent = "failed"]
            /\ UNCHANGED item
       ELSE /\ flow' = [flow EXCEPT ![c].parent = "done"]
            /\ item' = [item EXCEPT !.status = StatusOf(flow[c].result.status),
                                    !.stackId = flow[c].result.id]
    /\ UNCHANGED <<kind, stack, role, concurrency, ingestions, call, accidents>>

-----------------------------------------------------------------------------
(* CloudFormation.                                                             *)
Done(status) ==
    CASE status = "CREATE_IN_PROGRESS" -> "CREATE_COMPLETE"
      [] status = "UPDATE_IN_PROGRESS" -> "UPDATE_COMPLETE"
      [] status = "DELETE_IN_PROGRESS" -> "DELETE_COMPLETE"
Undone(status) ==
    CASE status = "CREATE_IN_PROGRESS" -> "ROLLBACK_COMPLETE"
      [] status = "UPDATE_IN_PROGRESS" -> "UPDATE_ROLLBACK_COMPLETE"
      [] status = "DELETE_IN_PROGRESS" -> "DELETE_FAILED"

StackEnds ==
    /\ stack \in InProgress
    /\ \/ stack' = Done(stack) /\ UNCHANGED accidents
       \/ Accident("StackFails") /\ stack' = Undone(stack)
    /\ UNCHANGED <<kind, item, role, concurrency, ingestions, call, flow>>

-----------------------------------------------------------------------------
CallStep(c) ==
    \/ CreateExec(c) \/ CreatePut(c) \/ UpdateExec(c) \/ UpdatePut(c)
    \/ DeleteCheck(c) \/ DeleteExec(c) \/ DeleteWrite(c) \/ Ingest(c)
    \/ PauseRemember(c) \/ Throttle(c) \/ PauseWrite(c)
    \/ Restore(c) \/ ResumeWrite(c)

FlowStep(c) ==
    \/ StartStack(c) \/ UpdateStack(c) \/ StopStack(c)
    \/ WaitElapses(c) \/ Query(c) \/ Notify(c) \/ UpdateStatus(c)

Next ==
    \/ \E c \in Calls :
          \/ \E op \in Operations : Begin(c, op)
          \/ CallStep(c) \/ CallDies(c) \/ StopIngestion(c) \/ FlowStep(c)
    \/ StackEnds

Spec == Init /\ [][Next]_vars

(* A call that has begun runs to its end, Step Functions takes the next step   *)
(* of every execution, CloudFormation ends what it has begun.  Nobody has to   *)
(* make a call.                                                                *)
Fairness ==
    /\ \A c \in Calls : WF_vars(CallStep(c)) /\ WF_vars(FlowStep(c))
    /\ WF_vars(StackEnds)

FairSpec == Spec /\ Fairness
-----------------------------------------------------------------------------
(* A flow that will never write the row: its child failed, or could not answer *)
(* (the parent waits for its token without a timeout), or its last step raised.*)
Dead(c) ==
    \/ flow[c].child = "failed"
    \/ flow[c].child = "end" /\ flow[c].parent = "waiting"
    \/ flow[c].parent = "failed"

(* A call died after it started its flow and before it wrote the row: the row  *)
(* does not say what is going on, and the next call is accepted all the same.  *)
Torn == \E c \in Calls : call[c].pc = "failed" /\ flow[c].parent # "none"

(* An application pipeline is INACTIVE only when its stack has been deleted,   *)
(* in whatever order the calls, the flows and the faults come: the statuses of *)
(* app_pipe_flow.py are written from what a query of the stack returned.       *)
InactiveMeansDeleted ==
    kind = "app" /\ item.status = "INACTIVE" => stack = "DELETE_COMPLETE"

(* A pipeline shown as ACTIVE has a stack that works, unless a deletion of it  *)
(* has been started.                                                           *)
ActiveWorks ==
    item.status = "ACTIVE" /\ (\A c \in Calls : flow[c].parent # "none" => flow[c].action # "STOP")
        => stack \in Usable \cup {"UPDATE_IN_PROGRESS"}

(* An application pipeline shown as ACTIVE has the role its agents write to    *)
(* its buffer with, whether deletions were refused or went through: it lacks   *)
(* the role only while a call to delete it is between the deletion of the role *)
(* and the write of the row, or once such a call died, or any call was torn.   *)
RoleKept ==
    /\ kind = "app" /\ item.status = "ACTIVE" /\ ~Torn
    /\ \A c \in Calls : call[c].op = "delete" => call[c].pc \in {"begun", "refused", "done"}
    => role = "kept"

(* No stack is left that the console cannot delete: when the row is INACTIVE   *)
(* or was never written there is no stack, unless a call was torn.             *)
NoOrphan ==
    item.status \in {"none", "INACTIVE"} /\ ~Torn /\ (\A c \in Calls : ~InCall(c))
        => stack \in {"none", "DELETE_COMPLETE"}

(* A deletion that has been carried out is not undone by what else was going   *)
(* on, an update, a throttling alarm or a call to resume.                      *)
DeleteSticks ==
    ~Torn =>
        \A c \in Calls : flow[c].action = "STOP" /\ flow[c].parent = "done"
            => item.status \in {"INACTIVE", "ERROR", "DELETING"}

(* A pipeline that is gone has no ingestion left that still points at it.      *)
NoIngestionLeft == item.status = "INACTIVE" /\ ~Torn => ingestions = {}

(* An alarm's handler died: before or after it throttled the log processor.    *)
HalfPaused == \E c \in Calls : call[c].op = "pause" /\ call[c].pc = "failed"

(* A service pipeline is not shown as ACTIVE with its log processor throttled, *)
(* unless a handler of an alarm died before it wrote the row, or one ran again *)
(* on the throttled log processor, so that the row remembers zero.             *)
Unthrottled ==
    /\ kind = "svc" /\ item.status = "ACTIVE"
    /\ ~HalfPaused /\ item.last > 0 /\ \A c \in Calls : ~InCall(c)
    => concurrency > 0

(* A pipeline leaves CREATING, UPDATING and DELETING, unless a flow died or a  *)
(* call was torn.                                                              *)
Settles ==
    item.status \in Transitional
        ~> (item.status \notin Transitional \/ Torn \/ \E c \in Calls : Dead(c))

(* What a parent flow may rely on, whatever goes wrong: it is answered at most *)
(* once, and with a status that is final.                                      *)
Task == INSTANCE SubStackTask WITH
    Tasks <- Calls,
    Final <- (StackStatuses \ (InProgress \cup {"none"})) \cup {"CREATE_FAILED"},
    task <- [c \in Calls |-> CASE flow[c].parent = "none" -> "idle"
                               [] flow[c].parent = "waiting" -> "asked"
                               [] OTHER -> "answered"],
    answer <- [c \in Calls |-> IF flow[c].parent \in {"none", "waiting"}
                               THEN "" ELSE flow[c].result.status]

AnswersOnce == Task!Spec
=============================================================================
