----------------------- MODULE PipelineConsoleProofs -----------------------
(* Proofs about PipelineLifecycle, continued: what the console shows agrees    *)
(* with the stack, the role, the ingestions and the concurrency.  The layers   *)
(* of the inductive invariant: Built holds whatever happens, Orderly when the  *)
(* operator is careful, Throttled and, as long as no call was torn, Calm on top *)
(* of Orderly.                                                                 *)
EXTENDS PipelineLifecycleProofs

-----------------------------------------------------------------------------
(* A step, field by field, for the call c it is of.                            *)
CallBecomes(c, op, pc) ==
    /\ call'[c].op = op /\ call'[c].pc = pc
    /\ call'[c].read = IF pc \in Ended THEN NoItem ELSE call[c].read

FlowBecomes(c, action, parent, child, status, id) ==
    /\ flow'[c].action = action
    /\ flow'[c].parent = parent /\ flow'[c].child = child
    /\ flow'[c].result.status = status /\ flow'[c].result.id = id
ChildBecomes(c, child) ==
    FlowBecomes(c, flow[c].action, flow[c].parent, child,
                flow[c].result.status, flow[c].result.id)
Answers(c, status, id) ==
    FlowBecomes(c, flow[c].action, flow[c].parent, "notify", status, id)
ParentBecomes(c, parent, child) ==
    FlowBecomes(c, flow[c].action, parent, child,
                flow[c].result.status, flow[c].result.id)

RowBecomes(status, id, last) ==
    item'.status = status /\ item'.stackId = id /\ item'.last = last

OthersStay(c) == \A d \in Calls : d # c => call'[d] = call[d] /\ flow'[d] = flow[d]

LEMMA Typed ==
    ASSUME TypeOK
    PROVE  /\ call \in [Calls -> Calling] /\ flow \in [Calls -> Flows] /\ item \in Items
           /\ \A c \in Calls : call[c].read \in Items
  BY DEF TypeOK, Calling, Flows

LEMMA Blank == /\ NoItem.status = "none" /\ NoItem.stackId = "" /\ NoItem.last = 1
               /\ NoResult.status = "" /\ NoResult.id = ""
               /\ NoFlow.action = "START" /\ NoFlow.parent = "none"
               /\ NoFlow.child = "none" /\ NoFlow.result = NoResult
  BY DEF NoItem, NoResult, NoFlow

LEMMA GotoEffect ==
    ASSUME TypeOK, NEW c \in Calls, NEW pc, Goto(c, pc)
    PROVE  /\ CallBecomes(c, call[c].op, pc)
           /\ \A d \in Calls : d # c => call'[d] = call[d]
  BY Typed DEF Goto, CallBecomes

LEMMA AnswerEffect ==
    ASSUME TypeOK, NEW c \in Calls, NEW status, NEW id,
           Answer(c, [status |-> status, id |-> id])
    PROVE  Answers(c, status, id) /\ \A d \in Calls : d # c => flow'[d] = flow[d]
  BY Typed DEF Answer, Answers, FlowBecomes, Flows

LEMMA ChildToEffect ==
    ASSUME TypeOK, NEW c \in Calls, NEW pc, ChildTo(c, pc)
    PROVE  ChildBecomes(c, pc) /\ \A d \in Calls : d # c => flow'[d] = flow[d]
  BY Typed DEF ChildTo, ChildBecomes, FlowBecomes, Flows

LEMMA ParentToEffect ==
    ASSUME TypeOK, NEW c \in Calls, NEW pc, flow' = [flow EXCEPT ![c].parent = pc]
    PROVE  /\ ParentBecomes(c, pc, flow[c].child)
           /\ \A d \in Calls : d # c => flow'[d] = flow[d]
  BY Typed DEF ParentBecomes, FlowBecomes, Flows

LEMMA NewFlowEffect ==
    ASSUME TypeOK, NEW c \in Calls, NEW action, NewFlow(c, action)
    PROVE  /\ FlowBecomes(c, action, "waiting", "start", "", "")
           /\ \A d \in Calls : d # c => flow'[d] = flow[d]
  BY Typed, Blank DEF NewFlow, FlowBecomes

(* Starting a flow starts it, or finds that a service pipeline has had it.     *)
Starts(c, op, action) ==
    \/ /\ FlowBecomes(c, action, "waiting", "start", "", "")
       /\ CallBecomes(c, op, "started")
    \/ /\ UNCHANGED flow /\ kind # "app"
       /\ CallBecomes(c, op, "started") \/ CallBecomes(c, op, "failed")

LEMMA StartEffect ==
    ASSUME TypeOK, NEW c \in Calls, NEW action, StartExecution(c, action)
    PROVE  Starts(c, call[c].op, action) /\ OthersStay(c)
  BY GotoEffect, NewFlowEffect DEF StartExecution, Starts, OthersStay

-----------------------------------------------------------------------------
(* What each action does, in these terms.                                      *)
BeginDoes(c, op) ==
    /\ call[c].pc = "idle" /\ Accepts(op) /\ Raised(op) /\ (Careful => Offers(op))
    /\ call'[c].op = op /\ call'[c].pc = "begun" /\ call'[c].read = item
    /\ UNCHANGED <<kind, item, stack, role, concurrency, ingestions, flow>>
LEMMA BeginEffect ==
    ASSUME TypeOK, NEW c \in Calls, NEW op \in Operations, Begin(c, op)
    PROVE  BeginDoes(c, op) /\ OthersStay(c)
  BY Typed DEF Begin, BeginDoes, OthersStay

CreateExecDoes(c) ==
    /\ call[c].op = "create" /\ call[c].pc = "begun"
    /\ role' = IF kind = "app" THEN "kept" ELSE "none"
    /\ Starts(c, "create", "START")
    /\ UNCHANGED <<kind, item, stack, concurrency, ingestions>>
LEMMA CreateExecEffect ==
    ASSUME TypeOK, NEW c \in Calls, CreateExec(c)
    PROVE  CreateExecDoes(c) /\ OthersStay(c)
  BY StartEffect DEF CreateExec, CreateExecDoes, OthersStay

CreatePutDoes(c) ==
    /\ call[c].op = "create" /\ call[c].pc = "started"
    /\ RowBecomes("CREATING", "", 1)
    /\ CallBecomes(c, "create", "done")
    /\ UNCHANGED <<kind, stack, role, concurrency, ingestions, flow>>
LEMMA CreatePutEffect ==
    ASSUME TypeOK, NEW c \in Calls, CreatePut(c)
    PROVE  CreatePutDoes(c) /\ OthersStay(c)
  BY GotoEffect DEF CreatePut, RowBecomes, CreatePutDoes, OthersStay

UpdateExecDoes(c) ==
    /\ call[c].op = "update" /\ call[c].pc = "begun"
    /\ Starts(c, "update", "UPDATE")
    /\ UNCHANGED <<kind, item, stack, role, concurrency, ingestions>>
LEMMA UpdateExecEffect ==
    ASSUME TypeOK, NEW c \in Calls, UpdateExec(c)
    PROVE  UpdateExecDoes(c) /\ OthersStay(c)
  BY StartEffect DEF UpdateExec, UpdateExecDoes, OthersStay

UpdatePutDoes(c) ==
    /\ call[c].op = "update" /\ call[c].pc = "started"
    /\ RowBecomes("UPDATING", call[c].read.stackId, 1)
    /\ CallBecomes(c, "update", "done")
    /\ UNCHANGED <<kind, stack, role, concurrency, ingestions, flow>>
LEMMA UpdatePutEffect ==
    ASSUME TypeOK, NEW c \in Calls, UpdatePut(c)
    PROVE  UpdatePutDoes(c) /\ OthersStay(c)
  BY Typed, GotoEffect DEF UpdatePut, RowBecomes, Items, UpdatePutDoes, OthersStay

DeleteCheckDoes(c) ==
    /\ call[c].op = "delete" /\ call[c].pc = "begun"
    /\ \/ /\ kind = "app" /\ ingestions # {} /\ UNCHANGED role
          /\ CallBecomes(c, "delete", "refused")
       \/ /\ kind = "app" => ingestions = {}
          /\ role' = IF kind = "app" THEN "deleted" ELSE role
          /\ CallBecomes(c, "delete", "ready")
    /\ UNCHANGED <<kind, item, stack, concurrency, ingestions, flow>>
LEMMA DeleteCheckEffect ==
    ASSUME TypeOK, NEW c \in Calls, DeleteCheck(c)
    PROVE  DeleteCheckDoes(c) /\ OthersStay(c)
  BY GotoEffect DEF DeleteCheck, DeleteCheckDoes, OthersStay

DeleteExecDoes(c) ==
    /\ call[c].op = "delete" /\ call[c].pc = "ready"
    /\ \/ call[c].read.stackId # "" /\ Starts(c, "delete", "STOP")
       \/ /\ call[c].read.stackId = "" /\ UNCHANGED flow
          /\ CallBecomes(c, "delete", "started")
    /\ UNCHANGED <<kind, item, stack, role, concurrency, ingestions>>
LEMMA DeleteExecEffect ==
    ASSUME TypeOK, NEW c \in Calls, DeleteExec(c)
    PROVE  DeleteExecDoes(c) /\ OthersStay(c)
  BY GotoEffect, StartEffect DEF DeleteExec, DeleteExecDoes, OthersStay

DeleteWriteDoes(c) ==
    /\ call[c].op = "delete" /\ call[c].pc = "started"
    /\ \/ /\ kind = "svc" /\ call[c].read.stackId = ""
          /\ RowBecomes("INACTIVE", item.stackId, item.last)
       \/ /\ ~(kind = "svc" /\ call[c].read.stackId = "")
          /\ RowBecomes("DELETING", item.stackId, item.last)
    /\ CallBecomes(c, "delete", "done")
    /\ UNCHANGED <<kind, stack, role, concurrency, ingestions, flow>>
LEMMA DeleteWriteEffect ==
    ASSUME TypeOK, NEW c \in Calls, DeleteWrite(c)
    PROVE  DeleteWriteDoes(c) /\ OthersStay(c)
  BY Typed, GotoEffect DEF DeleteWrite, RowBecomes, Items, DeleteWriteDoes, OthersStay

IngestDoes(c) ==
    /\ call[c].op = "ingest" /\ call[c].pc = "begun"
    /\ ingestions' = ingestions \cup {c}
    /\ CallBecomes(c, "ingest", "done")
    /\ UNCHANGED <<kind, item, stack, role, concurrency, flow>>
LEMMA IngestEffect ==
    ASSUME TypeOK, NEW c \in Calls, Ingest(c)
    PROVE  IngestDoes(c) /\ OthersStay(c)
  BY GotoEffect DEF Ingest, IngestDoes, OthersStay

PauseRememberDoes(c) ==
    /\ call[c].op = "pause" /\ call[c].pc = "begun"
    /\ \/ UNCHANGED item /\ CallBecomes(c, "pause", "failed")
       \/ item.status = "none" /\ UNCHANGED item /\ CallBecomes(c, "pause", "ready")
       \/ /\ item.status # "none" /\ RowBecomes(item.status, item.stackId, concurrency)
          /\ CallBecomes(c, "pause", "ready")
    /\ UNCHANGED <<kind, stack, role, concurrency, ingestions, flow>>
LEMMA PauseRememberEffect ==
    ASSUME TypeOK, NEW c \in Calls, PauseRemember(c)
    PROVE  PauseRememberDoes(c) /\ OthersStay(c)
  BY Typed, GotoEffect DEF PauseRemember, Row, RowBecomes, Items, PauseRememberDoes, OthersStay

ThrottleDoes(c) ==
    /\ call[c].op = "pause" /\ call[c].pc = "ready"
    /\ \/ CallBecomes(c, "pause", "failed") /\ UNCHANGED concurrency
       \/ CallBecomes(c, "pause", "started") /\ concurrency' = 0
    /\ UNCHANGED <<kind, item, stack, role, ingestions, flow>>
LEMMA ThrottleEffect ==
    ASSUME TypeOK, NEW c \in Calls, Throttle(c)
    PROVE  ThrottleDoes(c) /\ OthersStay(c)
  BY GotoEffect DEF Throttle, ThrottleDoes, OthersStay

PauseWriteDoes(c) ==
    /\ call[c].op = "pause" /\ call[c].pc = "started"
    /\ \/ item.status = "none" /\ UNCHANGED item
       \/ item.status # "none" /\ RowBecomes("PAUSED", item.stackId, item.last)
    /\ CallBecomes(c, "pause", "done")
    /\ UNCHANGED <<kind, stack, role, concurrency, ingestions, flow>>
LEMMA PauseWriteEffect ==
    ASSUME TypeOK, NEW c \in Calls, PauseWrite(c)
    PROVE  PauseWriteDoes(c) /\ OthersStay(c)
  BY Typed, GotoEffect DEF PauseWrite, Row, RowBecomes, Items, PauseWriteDoes, OthersStay

RestoreDoes(c) ==
    /\ call[c].op = "resume" /\ call[c].pc = "begun"
    /\ \/ CallBecomes(c, "resume", "failed") /\ UNCHANGED concurrency
       \/ CallBecomes(c, "resume", "ready") /\ concurrency' = call[c].read.last
    /\ UNCHANGED <<kind, item, stack, role, ingestions, flow>>
LEMMA RestoreEffect ==
    ASSUME TypeOK, NEW c \in Calls, Restore(c)
    PROVE  RestoreDoes(c) /\ OthersStay(c)
  BY GotoEffect DEF Restore, RestoreDoes, OthersStay

ResumeWriteDoes(c) ==
    /\ call[c].op = "resume" /\ call[c].pc = "ready"
    /\ RowBecomes("ACTIVE", item.stackId, item.last)
    /\ CallBecomes(c, "resume", "done")
    /\ UNCHANGED <<kind, stack, role, concurrency, ingestions, flow>>
LEMMA ResumeWriteEffect ==
    ASSUME TypeOK, NEW c \in Calls, ResumeWrite(c)
    PROVE  ResumeWriteDoes(c) /\ OthersStay(c)
  BY Typed, GotoEffect DEF ResumeWrite, RowBecomes, Items, ResumeWriteDoes, OthersStay

CallDiesDoes(c) ==
    /\ InCall(c)
    /\ CallBecomes(c, call[c].op, "failed")
    /\ UNCHANGED <<kind, item, stack, role, concurrency, ingestions, flow>>
LEMMA CallDiesEffect ==
    ASSUME TypeOK, NEW c \in Calls, CallDies(c)
    PROVE  CallDiesDoes(c) /\ OthersStay(c)
  BY GotoEffect DEF CallDies, CallDiesDoes, OthersStay

StartStackDoes(c) ==
    /\ flow[c].child = "start" /\ flow[c].action = "START"
    /\ \/ stack' = "CREATE_IN_PROGRESS" /\ ChildBecomes(c, "wait")
       \/ UNCHANGED stack /\ Answers(c, "CREATE_FAILED", "")
    /\ UNCHANGED <<kind, item, role, concurrency, ingestions, call>>
LEMMA StartStackEffect ==
    ASSUME TypeOK, NEW c \in Calls, StartStack(c)
    PROVE  StartStackDoes(c) /\ OthersStay(c)
  BY AnswerEffect, ChildToEffect DEF StartStack, StartStackDoes, OthersStay

UpdateStackDoes(c) ==
    /\ flow[c].child = "start" /\ flow[c].action = "UPDATE"
    /\ \/ /\ stack \in Usable /\ stack' = "UPDATE_IN_PROGRESS"
          /\ ChildBecomes(c, "wait")
       \/ UNCHANGED stack /\ ChildBecomes(c, "failed")
    /\ UNCHANGED <<kind, item, role, concurrency, ingestions, call>>
LEMMA UpdateStackEffect ==
    ASSUME TypeOK, NEW c \in Calls, UpdateStack(c)
    PROVE  UpdateStackDoes(c) /\ OthersStay(c)
  BY ChildToEffect DEF UpdateStack, UpdateStackDoes, OthersStay

StopStackDoes(c) ==
    /\ flow[c].child = "start" /\ flow[c].action = "STOP"
    /\ \/ /\ \/ stack \in {"none", "DELETE_COMPLETE"} /\ UNCHANGED stack
             \/ stack \notin {"none", "DELETE_COMPLETE"} /\ stack' = "DELETE_IN_PROGRESS"
          /\ ChildBecomes(c, "wait")
       \/ UNCHANGED stack /\ Answers(c, "DELETE_FAILED", "")
    /\ UNCHANGED <<kind, item, role, concurrency, ingestions, call>>
LEMMA StopStackEffect ==
    ASSUME TypeOK, NEW c \in Calls, StopStack(c)
    PROVE  StopStackDoes(c) /\ OthersStay(c)
  BY AnswerEffect, ChildToEffect DEF StopStack, StopStackDoes, OthersStay

WaitElapsesDoes(c) ==
    /\ flow[c].child = "wait" /\ ("Slow" \in Faults \/ Quick)
    /\ ChildBecomes(c, "query")
    /\ UNCHANGED <<kind, item, stack, role, concurrency, ingestions, call>>
LEMMA WaitElapsesEffect ==
    ASSUME TypeOK, NEW c \in Calls, WaitElapses(c)
    PROVE  WaitElapsesDoes(c) /\ OthersStay(c)
  BY ChildToEffect DEF WaitElapses, WaitElapsesDoes, OthersStay

QueryDoes(c) ==
    /\ flow[c].child = "query"
    /\ \/ Found(c) /\ stack \notin InProgress /\ Answers(c, stack, "arn")
       \/ ChildBecomes(c, "wait") \/ ChildBecomes(c, "failed")
    /\ UNCHANGED <<kind, item, stack, role, concurrency, ingestions, call>>
LEMMA QueryEffect ==
    ASSUME TypeOK, NEW c \in Calls, Query(c)
    PROVE  QueryDoes(c) /\ OthersStay(c)
  BY AnswerEffect, ChildToEffect DEF Query, QueryDoes, OthersStay

NotifyDoes(c) ==
    /\ flow[c].child = "notify"
    /\ ParentBecomes(c, "update", "end") \/ ChildBecomes(c, "end")
    /\ UNCHANGED <<kind, item, stack, role, concurrency, ingestions, call>>
LEMMA NotifyEffect ==
    ASSUME TypeOK, NEW c \in Calls, Notify(c)
    PROVE  NotifyDoes(c) /\ OthersStay(c)
  <1>1. ASSUME flow' = [flow EXCEPT ![c].child = "end", ![c].parent = "update"]
        PROVE  ParentBecomes(c, "update", "end") /\ \A d \in Calls : d # c => flow'[d] = flow[d]
    BY <1>1, Typed DEF ParentBecomes, FlowBecomes, Flows
  <1> QED BY <1>1, ChildToEffect DEF Notify, NotifyDoes, OthersStay

UpdateStatusDoes(c) ==
    /\ flow[c].parent = "update"
    /\ \/ /\ StepRaises(c) /\ UNCHANGED item
          /\ ParentBecomes(c, "failed", flow[c].child)
       \/ /\ ~StepRaises(c)
          /\ RowBecomes(StatusOf(flow[c].result.status), flow[c].result.id, item.last)
          /\ ParentBecomes(c, "done", flow[c].child)
    /\ UNCHANGED <<kind, stack, role, concurrency, ingestions, call>>
LEMMA UpdateStatusEffect ==
    ASSUME TypeOK, NEW c \in Calls, UpdateStatus(c)
    PROVE  UpdateStatusDoes(c) /\ OthersStay(c)
  BY Typed, ParentToEffect DEF UpdateStatus, RowBecomes, Items, UpdateStatusDoes, OthersStay

StopIngestionDoes(c) ==
    /\ ingestions' = ingestions \ {c}
    /\ UNCHANGED <<kind, item, stack, role, concurrency, call, flow>>
LEMMA StopIngestionEffect ==
    ASSUME TypeOK, NEW c \in Calls, StopIngestion(c)
    PROVE  StopIngestionDoes(c) /\ OthersStay(c)
  BY DEF StopIngestion, StopIngestionDoes, OthersStay

StackEndsDoes ==
    /\ stack \in InProgress
    /\ stack' \in {Done(stack), Undone(stack)}
    /\ UNCHANGED <<kind, item, role, concurrency, ingestions, call, flow>>
LEMMA StackEndsEffect ==
    ASSUME TypeOK, StackEnds
    PROVE  StackEndsDoes
  BY DEF StackEnds, StackEndsDoes

(* Every step does one of these, or nothing.                                   *)
Does(c) ==
    \/ \E op \in Operations : BeginDoes(c, op)
    \/ CreateExecDoes(c) \/ CreatePutDoes(c) \/ UpdateExecDoes(c) \/ UpdatePutDoes(c)
    \/ DeleteCheckDoes(c) \/ DeleteExecDoes(c) \/ DeleteWriteDoes(c) \/ IngestDoes(c)
    \/ PauseRememberDoes(c) \/ ThrottleDoes(c) \/ PauseWriteDoes(c) \/ RestoreDoes(c)
    \/ ResumeWriteDoes(c) \/ CallDiesDoes(c) \/ StartStackDoes(c) \/ UpdateStackDoes(c)
    \/ StopStackDoes(c) \/ WaitElapsesDoes(c) \/ QueryDoes(c) \/ NotifyDoes(c)
    \/ UpdateStatusDoes(c) \/ StopIngestionDoes(c)

LEMMA StepDoes ==
    ASSUME TypeOK, [Next]_vars
    PROVE  \/ UNCHANGED vars \/ StackEndsDoes
           \/ \E c \in Calls : Does(c) /\ OthersStay(c)
  <1>1. ASSUME NEW c \in Calls, NEW op \in Operations, Begin(c, op)
        PROVE  Does(c) /\ OthersStay(c)
    BY <1>1, BeginEffect DEF Does
  <1>2. ASSUME NEW c \in Calls, CallStep(c) PROVE Does(c) /\ OthersStay(c)
    BY <1>2,
       CreateExecEffect, CreatePutEffect, UpdateExecEffect, UpdatePutEffect,
       DeleteCheckEffect, DeleteExecEffect, DeleteWriteEffect, IngestEffect,
       PauseRememberEffect, ThrottleEffect, PauseWriteEffect, RestoreEffect,
       ResumeWriteEffect
    DEF CallStep, Does
  <1>3. ASSUME NEW c \in Calls, FlowStep(c) PROVE Does(c) /\ OthersStay(c)
    BY <1>3,
       StartStackEffect, UpdateStackEffect, StopStackEffect,
       WaitElapsesEffect, QueryEffect, NotifyEffect, UpdateStatusEffect
    DEF FlowStep, Does
  <1>4. ASSUME NEW c \in Calls, CallDies(c) \/ StopIngestion(c) PROVE Does(c) /\ OthersStay(c)
    BY <1>4, CallDiesEffect, StopIngestionEffect DEF Does
  <1> QED BY <1>1, <1>2, <1>3, <1>4, StackEndsEffect DEF Next

-----------------------------------------------------------------------------
(* What holds whatever the calls, the faults and the operator do.              *)
HasFlow(c) == flow[c].parent # "none"
Opened(c) == call[c].pc # "idle"
Unborn == {"none", "CREATE_IN_PROGRESS", "ROLLBACK_COMPLETE"}
Deletion == {"DELETE_IN_PROGRESS", "DELETE_COMPLETE", "DELETE_FAILED"}
Starter(c) == flow[c].action = "START" /\ HasFlow(c)
Stopper(c) == flow[c].action = "STOP" /\ HasFlow(c)

(* A flow belongs to a call that has come past its start.                      *)
FlowFits(c) ==
    /\ HasFlow(c) => /\ call[c].pc \in {"started", "done", "failed"}
                     /\ \/ call[c].op = "create" /\ flow[c].action = "START"
                        \/ call[c].op = "update" /\ flow[c].action = "UPDATE"
                        \/ call[c].op = "delete" /\ flow[c].action = "STOP"
    /\ ~HasFlow(c) => /\ flow[c].action = "START" /\ flow[c].child = "none"
                      /\ flow[c].result.status = "" /\ flow[c].result.id = ""
    /\ flow[c].child \in {"start", "wait", "query", "notify"} => flow[c].parent = "waiting"
    /\ flow[c].child = "start" => flow[c].result.status = ""
(* Whoever knows the stack's id has it from a stack that was created, and      *)
(* whoever does not has no status of it.                                       *)
Knows(c) ==
    /\ call[c].read.stackId # "" => stack # "none"
    /\ flow[c].result.id # "" => stack # "none"
    /\ flow[c].action = "STOP" => stack # "none"
    /\ flow[c].result.id = "" =>
          flow[c].result.status \in {"", "CREATE_FAILED", "DELETE_FAILED"}
(* A call or an answer that needs a stack that has worked has seen one.        *)
SawWork(c) ==
    /\ call[c].op \in {"update", "pause", "resume"} /\ InCall(c) => stack \notin Unborn
    /\ flow[c].result.status \in Usable => stack \notin Unborn
(* A flow that stops the stack reports nothing but how that went.              *)
Deletes(c) ==
    flow[c].action = "STOP" =>
        /\ flow[c].child \in {"wait", "query"} \/ flow[c].result.id # "" => stack \in Deletion
        /\ flow[c].result.status \in {"", "DELETE_COMPLETE", "DELETE_FAILED"}
(* The row is there once the call to create it is done, and not before.        *)
Creates(c) ==
    /\ call[c].op = "create" /\ InCall(c) => item.status = "none"
    /\ call[c].op = "create" /\ call[c].pc = "done" => item.status # "none"
    /\ call[c].op \notin {"create", "pause"} /\ Opened(c) => item.status # "none"

BuiltFor(c) == FlowFits(c) /\ Knows(c) /\ SawWork(c) /\ Deletes(c) /\ Creates(c)

(* What the row says of the stack, and which flows have made it what it is.    *)
RowFits ==
    /\ item.stackId # "" => stack # "none"
    /\ item.status \in {"ACTIVE", "PAUSED", "UPDATING"} => stack \notin Unborn
Made ==
    /\ stack # "none" => \E c \in Calls : Starter(c)
    /\ stack \in Deletion => \E c \in Calls : Stopper(c)
Creator(c) == call[c].op = "create" /\ Opened(c)
CreateOnly == \A c, d \in Calls : Creator(c) /\ Creator(d) => c = d

Built == (\A c \in Calls : BuiltFor(c)) /\ RowFits /\ Made /\ CreateOnly

LEMMA InitBuilt == ASSUME Init PROVE Built
  <1>1. \A c \in Calls : /\ call[c].pc = "idle" /\ call[c].read.stackId = ""
                         /\ flow[c].action = "START" /\ flow[c].child = "none"
                         /\ flow[c].parent = "none" /\ flow[c].result.status = ""
                         /\ flow[c].result.id = ""
    BY Blank DEF Init, NoCall
  <1>2. item.status = "none" /\ item.stackId = "" /\ stack = "none"
    BY Blank DEF Init
  <1>3. \A c \in Calls : BuiltFor(c)
    BY <1>1, <1>2
    DEF BuiltFor, FlowFits, Knows, SawWork, Deletes, Creates, HasFlow, Opened, InCall, Usable
  <1>4. RowFits BY <1>2 DEF RowFits
  <1>5. Made BY <1>2 DEF Made, Deletion
  <1>6. CreateOnly BY <1>1 DEF CreateOnly, Creator, Opened
  <1> QED BY <1>3, <1>4, <1>5, <1>6 DEF Built

(* The stack only goes on: it is created, works and is deleted, in this order. *)
StackOnward ==
    /\ stack # "none" => stack' # "none"
    /\ stack \notin Unborn => stack' \notin Unborn
    /\ stack \in Deletion => stack' \in Deletion
    /\ stack = "DELETE_COMPLETE" => stack' = "DELETE_COMPLETE"
LEMMA StackGoesOn ==
    ASSUME NEW c \in Calls, Does(c), Starting(c) => stack = "none"
    PROVE  StackOnward
  BY DEF Does, StackOnward, Unborn, Deletion, Usable, Starting, BeginDoes,
         CreateExecDoes, CreatePutDoes, UpdateExecDoes, UpdatePutDoes,
         DeleteCheckDoes, DeleteExecDoes, DeleteWriteDoes, IngestDoes,
         PauseRememberDoes, ThrottleDoes, PauseWriteDoes, RestoreDoes,
         ResumeWriteDoes, CallDiesDoes, StopIngestionDoes, StartStackDoes,
         UpdateStackDoes, StopStackDoes, WaitElapsesDoes, QueryDoes, NotifyDoes,
         UpdateStatusDoes

(* The request to delete the stack is carried out, or refused.                 *)
LEMMA StopStackEnds ==
    ASSUME NEW c \in Calls, StopStackDoes(c), stack # "none"
    PROVE  \/ stack' \in Deletion /\ ChildBecomes(c, "wait")
           \/ UNCHANGED stack /\ Answers(c, "DELETE_FAILED", "")
  <1>1. CASE UNCHANGED stack /\ Answers(c, "DELETE_FAILED", "") BY <1>1
  <1>2. CASE stack \in {"none", "DELETE_COMPLETE"} /\ UNCHANGED stack /\ ChildBecomes(c, "wait")
    BY <1>2 DEF Deletion
  <1>3. CASE stack' = "DELETE_IN_PROGRESS" /\ ChildBecomes(c, "wait") BY <1>3 DEF Deletion
  <1> QED BY <1>1, <1>2, <1>3 DEF StopStackDoes

(* The row is put by the call that creates the pipeline, and stays.            *)
RowStays(c) ==
    /\ item.status # "none" => item'.status # "none"
    /\ item.status = "none" => item'.status = "none" \/ CreatePutDoes(c)
LEMMA RowIsPutOnce ==
    ASSUME NEW c \in Calls, Creates(c), Does(c) PROVE RowStays(c)
  <1>1. \A status : StatusOf(status) # "none" BY DEF StatusOf
  <1>2. CASE item' = item \/ CreatePutDoes(c)
    BY <1>2 DEF RowStays, CreatePutDoes, RowBecomes
  <1>3. CASE UpdateStatusDoes(c)
    BY <1>1, <1>3 DEF UpdateStatusDoes, StepRaises, RowStays, RowBecomes
  <1>4. CASE \/ UpdatePutDoes(c) \/ DeleteWriteDoes(c) \/ PauseRememberDoes(c)
             \/ PauseWriteDoes(c) \/ ResumeWriteDoes(c)
    BY <1>4 DEF UpdatePutDoes, DeleteWriteDoes, PauseRememberDoes, PauseWriteDoes,
                ResumeWriteDoes, RowStays, RowBecomes, Creates, Opened
  <1> QED BY <1>2, <1>3, <1>4 DEF Does, BeginDoes,
         CreateExecDoes, CreatePutDoes, UpdateExecDoes, UpdatePutDoes,
         DeleteCheckDoes, DeleteExecDoes, DeleteWriteDoes, IngestDoes,
         PauseRememberDoes, ThrottleDoes, PauseWriteDoes, RestoreDoes,
         ResumeWriteDoes, CallDiesDoes, StopIngestionDoes, StartStackDoes,
         UpdateStackDoes, StopStackDoes, WaitElapsesDoes, QueryDoes, NotifyDoes,
         UpdateStatusDoes

(* The call a step is of.                                                      *)
LEMMA BuiltMover ==
    ASSUME NEW c \in Calls, BuiltFor(c), RowFits, StackOnward, Does(c),
           \A d \in Calls : Creates(d), CreateOnly
    PROVE  BuiltFor(c)'
  <1> USE Blank DEF BuiltFor, FlowFits, Knows, SawWork, Deletes, Creates, HasFlow, Opened,
                   InCall, CallBecomes, FlowBecomes, ChildBecomes, Answers, ParentBecomes,
                   RowBecomes, Starts, RowFits, StackOnward, Ended
  <1>0. CASE \E op \in Operations : BeginDoes(c, op)
    <2>1. PICK op \in Operations : BeginDoes(c, op) BY <1>0
    <2>2. /\ op = "create" => item.status = "none"
          /\ op = "update" => item.status = "ACTIVE"
          /\ op = "resume" => item.status = "PAUSED"
          /\ op = "pause" => stack \in Usable \cup {"UPDATE_IN_PROGRESS"}
      BY <2>1 DEF BeginDoes, Accepts, Raised
    <2>a. op \notin {"create", "pause"} => item.status # "none"
      <3>1. Accepts(op) BY <2>1 DEF BeginDoes
      <3>2. CASE op = "update" BY <3>1, <3>2 DEF Accepts
      <3>3. CASE op = "resume" BY <3>1, <3>3 DEF Accepts
      <3>5. CASE op = "ingest" BY <3>1, <3>5 DEF Accepts
      <3>6. CASE op = "delete" BY <3>1, <3>6 DEF Accepts
      <3> QED BY <3>2, <3>3, <3>5, <3>6 DEF Operations
    <2>3. /\ call[c].pc = "idle" /\ call'[c].op = op /\ call'[c].pc = "begun"
          /\ call'[c].read = item /\ UNCHANGED <<item, stack, flow>>
      BY <2>1 DEF BeginDoes
    <2>4. stack \in Usable \cup {"UPDATE_IN_PROGRESS"} => stack \notin Unborn
      BY DEF Usable, Unborn
    <2>5. FlowFits(c)' BY <2>3
    <2>6. Knows(c)' BY <2>3
    <2>7. SawWork(c)' BY <2>2, <2>3, <2>4
    <2>8. Deletes(c)' BY <2>3
    <2>9. Creates(c)' BY <2>2, <2>3, <2>a
    <2> QED BY <2>5, <2>6, <2>7, <2>8, <2>9
  <1>1. CASE CreateExecDoes(c) BY <1>1 DEF CreateExecDoes
  <1>2. CASE CreatePutDoes(c) BY <1>2 DEF CreatePutDoes
  <1>3. CASE UpdateExecDoes(c) BY <1>3 DEF UpdateExecDoes
  <1>4. CASE UpdatePutDoes(c) BY <1>4 DEF UpdatePutDoes
  <1>5. CASE DeleteCheckDoes(c) BY <1>5 DEF DeleteCheckDoes
  <1>6. CASE DeleteExecDoes(c) BY <1>6 DEF DeleteExecDoes
  <1>7. CASE DeleteWriteDoes(c) BY <1>7 DEF DeleteWriteDoes
  <1>8. CASE IngestDoes(c) BY <1>8 DEF IngestDoes
  <1>9. CASE PauseRememberDoes(c) BY <1>9 DEF PauseRememberDoes
  <1>10. CASE ThrottleDoes(c) BY <1>10 DEF ThrottleDoes
  <1>11. CASE PauseWriteDoes(c) BY <1>11 DEF PauseWriteDoes
  <1>12. CASE RestoreDoes(c) BY <1>12 DEF RestoreDoes
  <1>13. CASE ResumeWriteDoes(c) BY <1>13 DEF ResumeWriteDoes
  <1>14. CASE CallDiesDoes(c) BY <1>14 DEF CallDiesDoes
  <1>15. CASE StopIngestionDoes(c) BY <1>15 DEF StopIngestionDoes
  <1>16. CASE StartStackDoes(c)
    <2>1. /\ flow[c].action = "START" /\ flow[c].child = "start" /\ HasFlow(c)
          /\ flow[c].result.status = "" /\ call[c].op = "create"
          /\ UNCHANGED <<item, call>>
      BY <1>16 DEF StartStackDoes
    <2>2. CASE stack' = "CREATE_IN_PROGRESS" /\ ChildBecomes(c, "wait")
      BY <2>1, <2>2 DEF Usable
    <2>3. CASE UNCHANGED stack /\ Answers(c, "CREATE_FAILED", "")
      BY <2>1, <2>3 DEF Usable
    <2> QED BY <1>16, <2>2, <2>3 DEF StartStackDoes
  <1>17. CASE UpdateStackDoes(c) BY <1>17 DEF UpdateStackDoes
  <1>18. CASE StopStackDoes(c)
    <2>1. /\ flow[c].action = "STOP" /\ flow[c].child = "start" /\ HasFlow(c)
          /\ flow[c].result.status = "" /\ call[c].op = "delete" /\ stack # "none"
          /\ UNCHANGED <<item, call>>
      BY <1>18 DEF StopStackDoes
    <2>2. CASE stack' \in Deletion /\ ChildBecomes(c, "wait")
      BY <2>1, <2>2 DEF Usable
    <2>3. CASE UNCHANGED stack /\ Answers(c, "DELETE_FAILED", "")
      BY <2>1, <2>3 DEF Usable
    <2> QED BY <1>18, <2>1, <2>2, <2>3, StopStackEnds
  <1>19. CASE WaitElapsesDoes(c) BY <1>19 DEF WaitElapsesDoes
  <1>20. CASE QueryDoes(c)
    <2>1. flow[c].child = "query" /\ HasFlow(c) /\ UNCHANGED <<item, call, stack>>
      BY <1>20 DEF QueryDoes
    <2>2. CASE Found(c) /\ stack \notin InProgress /\ Answers(c, stack, "arn")
      <3>1. stack # "none" BY <2>2 DEF Found
      <3>2. stack \in Deletion => stack \in {"DELETE_COMPLETE", "DELETE_FAILED"}
        BY <2>2 DEF Deletion, InProgress
      <3>3. stack \in Usable => stack \notin Unborn BY DEF Usable, Unborn
      <3> QED BY <2>1, <2>2, <3>1, <3>2, <3>3
    <2>3. CASE ChildBecomes(c, "wait") BY <2>1, <2>3
    <2>4. CASE ChildBecomes(c, "failed") BY <2>1, <2>4
    <2> QED BY <1>20, <2>2, <2>3, <2>4 DEF QueryDoes
  <1>21. CASE NotifyDoes(c) BY <1>21 DEF NotifyDoes
  <1>22. CASE UpdateStatusDoes(c)
    <2>1. /\ flow[c].parent = "update" /\ UNCHANGED <<call, stack>>
          /\ item.status = "none" => item'.status = "none"
          /\ item.status # "none" => item'.status # "none"
      <3>1. \A status : StatusOf(status) # "none" BY DEF StatusOf
      <3> QED BY <1>22, <3>1 DEF UpdateStatusDoes, StepRaises
    <2>2. CASE ParentBecomes(c, "failed", flow[c].child) BY <2>1, <2>2
    <2>3. CASE ParentBecomes(c, "done", flow[c].child) BY <2>1, <2>3
    <2> QED BY <1>22, <2>2, <2>3 DEF UpdateStatusDoes
  <1> QED
    BY <1>0, <1>1, <1>2, <1>3, <1>4, <1>5, <1>6, <1>7, <1>8, <1>9, <1>10, <1>11,
       <1>12, <1>13, <1>14, <1>15, <1>16, <1>17, <1>18, <1>19, <1>20, <1>21,
       <1>22
    DEF Does


(* The other calls.                                                            *)
LEMMA BuiltOthers ==
    ASSUME NEW c \in Calls, NEW d \in Calls, d # c, OthersStay(c), BuiltFor(d), CreateOnly,
           StackOnward, RowStays(c)
    PROVE  BuiltFor(d)'
  <1>1. call'[d] = call[d] /\ flow'[d] = flow[d] BY DEF OthersStay
  <1>2. FlowFits(d)' BY <1>1 DEF BuiltFor, FlowFits, HasFlow
  <1>3. Knows(d)' BY <1>1 DEF BuiltFor, Knows, StackOnward
  <1>4. SawWork(d)' BY <1>1 DEF BuiltFor, SawWork, StackOnward, InCall
  <1>5. Deletes(d)' BY <1>1 DEF BuiltFor, Deletes, StackOnward
  <1>6. Creates(d)'
    <2>1. CASE CreatePutDoes(c)
      BY <1>1, <2>1 DEF BuiltFor, Creates, CreateOnly, Creator, CreatePutDoes, RowStays,
                        Opened, InCall, RowBecomes
    <2>2. CASE ~CreatePutDoes(c)
      BY <1>1, <2>2 DEF BuiltFor, Creates, RowStays, Opened, InCall
    <2> QED BY <2>1, <2>2
  <1> QED BY <1>2, <1>3, <1>4, <1>5, <1>6 DEF BuiltFor

LEMMA RowFitsStep ==
    ASSUME NEW c \in Calls, BuiltFor(c), RowFits, StackOnward, Does(c)
    PROVE  RowFits'
  <1>1. CASE item' = item BY <1>1 DEF RowFits, StackOnward
  <1>2. CASE CreatePutDoes(c) BY <1>2 DEF CreatePutDoes, RowBecomes, RowFits
  <1>3. CASE UpdatePutDoes(c)
    BY <1>3 DEF UpdatePutDoes, RowBecomes, RowFits, BuiltFor, Knows, SawWork, InCall
  <1>4. CASE DeleteWriteDoes(c) \/ PauseRememberDoes(c)
    BY <1>4 DEF DeleteWriteDoes, PauseRememberDoes, RowBecomes, RowFits
  <1>5. CASE PauseWriteDoes(c) \/ ResumeWriteDoes(c)
    BY <1>5 DEF PauseWriteDoes, ResumeWriteDoes, RowBecomes, RowFits, BuiltFor, SawWork,
                InCall
  <1>6. CASE UpdateStatusDoes(c)
    <2>1. \A status : /\ StatusOf(status) \notin {"PAUSED", "UPDATING"}
                      /\ StatusOf(status) = "ACTIVE" => status \in Usable
      BY DEF StatusOf, Usable
    <2> QED BY <1>1, <1>6, <2>1 DEF UpdateStatusDoes, RowBecomes, RowFits, BuiltFor, Knows,
                                    SawWork
  <1> QED BY <1>1, <1>2, <1>3, <1>4, <1>5, <1>6 DEF Does, BeginDoes,
         CreateExecDoes, CreatePutDoes, UpdateExecDoes, UpdatePutDoes,
         DeleteCheckDoes, DeleteExecDoes, DeleteWriteDoes, IngestDoes,
         PauseRememberDoes, ThrottleDoes, PauseWriteDoes, RestoreDoes,
         ResumeWriteDoes, CallDiesDoes, StopIngestionDoes, StartStackDoes,
         UpdateStackDoes, StopStackDoes, WaitElapsesDoes, QueryDoes, NotifyDoes,
         UpdateStatusDoes

(* A flow stays what it is.                                                    *)
FlowStays(c) ==
    \A d \in Calls : HasFlow(d) => HasFlow(d)' /\ flow'[d].action = flow[d].action
LEMMA FlowIsStartedOnce ==
    ASSUME NEW c \in Calls, FlowFits(c), Does(c), OthersStay(c)
    PROVE  FlowStays(c)
  <1>1. HasFlow(c) => HasFlow(c)' /\ flow'[c].action = flow[c].action
    <2> USE DEF FlowFits, HasFlow
    <2>1. CASE UNCHANGED flow BY <2>1
    <2>2. CASE CreateExecDoes(c) \/ UpdateExecDoes(c) \/ DeleteExecDoes(c)
      BY <2>2 DEF CreateExecDoes, UpdateExecDoes, DeleteExecDoes
    <2>3. CASE StartStackDoes(c) \/ UpdateStackDoes(c) \/ StopStackDoes(c)
      BY <2>3 DEF StartStackDoes, UpdateStackDoes, StopStackDoes, ChildBecomes, Answers,
                  FlowBecomes
    <2>4. CASE WaitElapsesDoes(c) \/ QueryDoes(c) \/ NotifyDoes(c) \/ UpdateStatusDoes(c)
      BY <2>4 DEF WaitElapsesDoes, QueryDoes, NotifyDoes, UpdateStatusDoes, ChildBecomes,
                  Answers, ParentBecomes, FlowBecomes
    <2> QED BY <2>1, <2>2, <2>3, <2>4 DEF Does, BeginDoes,
         CreateExecDoes, CreatePutDoes, UpdateExecDoes, UpdatePutDoes,
         DeleteCheckDoes, DeleteExecDoes, DeleteWriteDoes, IngestDoes,
         PauseRememberDoes, ThrottleDoes, PauseWriteDoes, RestoreDoes,
         ResumeWriteDoes, CallDiesDoes, StopIngestionDoes, StartStackDoes,
         UpdateStackDoes, StopStackDoes, WaitElapsesDoes, QueryDoes, NotifyDoes,
         UpdateStatusDoes
  <1> QED BY <1>1 DEF FlowStays, OthersStay, HasFlow

LEMMA MadeStep ==
    ASSUME NEW c \in Calls, BuiltFor(c), Made, FlowStays(c), Does(c)
    PROVE  Made'
  <1>1. \A d \in Calls : (Starter(d) => Starter(d)') /\ (Stopper(d) => Stopper(d)')
    BY DEF FlowStays, Starter, Stopper
  <1>2. CASE StartStackDoes(c)
    <2>1. Starter(c) BY <1>2 DEF StartStackDoes, Starter, BuiltFor, FlowFits, HasFlow
    <2>2. stack' \in Deletion => stack \in Deletion BY <1>2 DEF StartStackDoes, Deletion
    <2> QED BY <1>1, <2>1, <2>2 DEF Made
  <1>3. CASE UpdateStackDoes(c)
    <2>1. stack' # "none" => stack # "none" BY <1>3 DEF UpdateStackDoes, Usable
    <2>2. stack' \in Deletion => stack \in Deletion BY <1>3 DEF UpdateStackDoes, Deletion
    <2> QED BY <1>1, <2>1, <2>2 DEF Made
  <1>4. CASE StopStackDoes(c)
    <2>1. Stopper(c) BY <1>4 DEF StopStackDoes, Stopper, BuiltFor, FlowFits, HasFlow
    <2>2. stack' # "none" => stack # "none" BY <1>4 DEF StopStackDoes
    <2> QED BY <1>1, <2>1, <2>2 DEF Made
  <1>5. CASE UNCHANGED stack BY <1>1, <1>5 DEF Made
  <1> QED BY <1>2, <1>3, <1>4, <1>5 DEF Does, BeginDoes,
         CreateExecDoes, CreatePutDoes, UpdateExecDoes, UpdatePutDoes,
         DeleteCheckDoes, DeleteExecDoes, DeleteWriteDoes, IngestDoes,
         PauseRememberDoes, ThrottleDoes, PauseWriteDoes, RestoreDoes,
         ResumeWriteDoes, CallDiesDoes, StopIngestionDoes, StartStackDoes,
         UpdateStackDoes, StopStackDoes, WaitElapsesDoes, QueryDoes, NotifyDoes,
         UpdateStatusDoes

(* A call goes on only while it is under way, as the operation it is.          *)
LEMMA CallGoesOn ==
    ASSUME NEW c \in Calls, Does(c)
    PROVE  \/ \E op \in Operations : BeginDoes(c, op)
           \/ call'[c] = call[c]
           \/ call'[c].op = call[c].op /\ call'[c].pc # "idle" /\ InCall(c)
  BY DEF Does, CallBecomes, Starts, InCall,
         CreateExecDoes, CreatePutDoes, UpdateExecDoes, UpdatePutDoes,
         DeleteCheckDoes, DeleteExecDoes, DeleteWriteDoes, IngestDoes,
         PauseRememberDoes, ThrottleDoes, PauseWriteDoes, RestoreDoes,
         ResumeWriteDoes, CallDiesDoes, StopIngestionDoes, StartStackDoes,
         UpdateStackDoes, StopStackDoes, WaitElapsesDoes, QueryDoes, NotifyDoes,
         UpdateStatusDoes

LEMMA CreateOnlyStep ==
    ASSUME NEW c \in Calls, CreateOnly, Does(c), OthersStay(c)
    PROVE  CreateOnly'
  <1>1. CASE \E op \in Operations : BeginDoes(c, op)
    <2>1. PICK op \in Operations : BeginDoes(c, op) BY <1>1
    <2>2. op = "create" => \A d \in Calls : call[d].pc = "idle"
      BY <2>1 DEF BeginDoes, Accepts
    <2>3. call'[c].op = op BY <2>1 DEF BeginDoes
    <2>4. \A d \in Calls : Creator(d)' => d = c \/ Creator(d)
      BY DEF Creator, OthersStay, Opened
    <2>5. Creator(c)' => \A d \in Calls : ~Creator(d)
      BY <2>2, <2>3 DEF Creator, Opened
    <2> QED BY <2>4, <2>5 DEF CreateOnly
  <1>2. CASE call'[c] = call[c] BY <1>2 DEF CreateOnly, Creator, OthersStay, Opened
  <1>3. CASE call'[c].op = call[c].op /\ Opened(c)
    BY <1>3 DEF CreateOnly, Creator, OthersStay, Opened
  <1> QED BY <1>1, <1>2, <1>3, CallGoesOn DEF Opened, InCall

LEMMA StackEndsOnward ==
    ASSUME StackEndsDoes
    PROVE  /\ StackOnward
           /\ stack # "none" /\ (stack' \in Deletion => stack \in Deletion)
  BY DEF StackEndsDoes, StackOnward, InProgress, Done, Undone, Unborn, Deletion

LEMMA BuiltStackEnds ==
    ASSUME Built, StackEndsDoes PROVE Built'
  <1>1. /\ StackOnward /\ stack # "none" /\ (stack' \in Deletion => stack \in Deletion)
        /\ UNCHANGED <<item, call, flow>>
    BY StackEndsOnward DEF StackEndsDoes
  <1>2. \A c \in Calls : BuiltFor(c)'
    BY <1>1 DEF Built, BuiltFor, FlowFits, Knows, SawWork, Deletes, Creates, StackOnward,
                HasFlow, Opened, InCall
  <1>3. RowFits' BY <1>1 DEF Built, RowFits, StackOnward
  <1>4. Made' BY <1>1 DEF Built, Made, Starter, Stopper, HasFlow
  <1>5. CreateOnly' BY <1>1 DEF Built, CreateOnly, Creator, Opened
  <1> QED BY <1>2, <1>3, <1>4, <1>5 DEF Built

LEMMA BuiltStutter ==
    ASSUME Built, UNCHANGED <<item, stack, call, flow>> PROVE Built'
  <1>1. ASSUME NEW c \in Calls PROVE BuiltFor(c)'
    <2>1. BuiltFor(c) BY DEF Built
    <2>2. FlowFits(c)' BY <2>1 DEF BuiltFor, FlowFits, HasFlow
    <2>3. Knows(c)' /\ SawWork(c)' BY <2>1 DEF BuiltFor, Knows, SawWork, InCall
    <2>4. Deletes(c)' /\ Creates(c)' BY <2>1 DEF BuiltFor, Deletes, Creates, Opened, InCall
    <2> QED BY <2>2, <2>3, <2>4 DEF BuiltFor
  <1>2. RowFits' BY DEF Built, RowFits
  <1>3. Made' BY DEF Built, Made, Starter, Stopper, HasFlow
  <1>4. CreateOnly' BY DEF Built, CreateOnly, Creator, Opened
  <1> QED BY <1>1, <1>2, <1>3, <1>4 DEF Built

LEMMA NextBuilt == ASSUME IInv, Built, [Next]_vars PROVE Built'
  <1>1. CASE UNCHANGED vars BY <1>1, BuiltStutter DEF vars
  <1>2. CASE StackEndsDoes BY <1>2, BuiltStackEnds
  <1>3. ASSUME NEW c \in Calls, Does(c), OthersStay(c) PROVE Built'
    <2>1. StackOnward BY <1>3, StackGoesOn DEF IInv, CreatedOnce
    <2>2. RowStays(c) BY <1>3, RowIsPutOnce DEF Built, BuiltFor
    <2>3. BuiltFor(c)' BY <1>3, <2>1, BuiltMover DEF Built, BuiltFor
    <2>4. \A d \in Calls : d # c => BuiltFor(d)' BY <1>3, <2>1, <2>2, BuiltOthers DEF Built
    <2>5. RowFits' BY <1>3, <2>1, RowFitsStep DEF Built
    <2>6. FlowStays(c) BY <1>3, FlowIsStartedOnce DEF Built, BuiltFor
    <2>7. Made' BY <1>3, <2>6, MadeStep DEF Built
    <2>8. CreateOnly' BY <1>3, CreateOnlyStep DEF Built
    <2> QED BY <2>3, <2>4, <2>5, <2>7, <2>8 DEF Built
  <1>4. TypeOK BY DEF IInv
  <1> QED BY <1>1, <1>2, <1>3, <1>4, StepDoes

LEMMA AlwaysBuilt == ASSUME LifecycleAssumption PROVE Spec => [](IInv /\ Built)
  <1>1. Init => Built BY InitBuilt
  <1>2. IInv /\ Built /\ [Next]_vars => Built' BY NextBuilt
  <1> QED BY <1>1, <1>2, Inductive, PTL DEF Spec

(* A pipeline shown as ACTIVE has a stack that works or is being updated, in   *)
(* whatever order calls, alarms and flows come and whatever fails, until a     *)
(* flow to stop it is started: no rolled back creation is shown as a success.  *)
THEOREM ActiveHasStack ==
    ASSUME LifecycleAssumption PROVE Spec => []ActiveWorks
  <1>1. IInv /\ Built => ActiveWorks
    <2> SUFFICES ASSUME IInv, Built, item.status = "ACTIVE",
                        \A c \in Calls : flow[c].parent # "none" => flow[c].action # "STOP"
                 PROVE  stack \in Usable \cup {"UPDATE_IN_PROGRESS"}
      BY DEF ActiveWorks
    <2>1. stack \notin Unborn BY DEF Built, RowFits
    <2>2. stack \notin Deletion BY DEF Built, Made, Stopper, HasFlow
    <2>3. stack \in StackStatuses BY DEF IInv, TypeOK
    <2> QED BY <2>1, <2>2, <2>3 DEF StackStatuses, Unborn, Deletion, InProgress, Usable
  <1> QED BY <1>1, AlwaysBuilt, PTL

-----------------------------------------------------------------------------
(* What holds when the operator is careful, however slow a step is.            *)
Apart(c, d) == call[c].op = "pause" /\ call[d].op \notin {"pause", "resume"}
Early == {"none", "CREATING"}

(* An alarm may come in a call that is not a Resume, nothing else overlaps.    *)
OneCall ==
    \A c, d \in Calls : c # d /\ InCall(c) /\ InCall(d) => Apart(c, d) \/ Apart(d, c)
(* Nothing is asked of the pipeline before its creation has shown its result,  *)
(* and whatever is asked knows the id of the stack.                            *)
OrderlyFor(c) ==
    /\ Opened(c) /\ call[c].op # "create" => item.status \notin Early
    /\ flow[c].action = "START" /\ Running(c) => item.status \in Early
    /\ InCall(c) /\ call[c].op # "create" => call[c].read.stackId # ""
RowIsTrue ==
    /\ item.status \notin Early => item.stackId # ""
    /\ item.status = "INACTIVE" => stack = "DELETE_COMPLETE"

Orderly == OneCall /\ (\A c \in Calls : OrderlyFor(c)) /\ RowIsTrue

LEMMA InitOrderly == ASSUME Init PROVE Orderly
  <1>1. \A c \in Calls : /\ call[c].pc = "idle" /\ flow[c].child = "none"
                         /\ flow[c].parent = "none"
    BY Blank DEF Init, NoCall
  <1>2. item.status = "none" BY Blank DEF Init
  <1>3. OneCall BY <1>1 DEF OneCall, InCall
  <1>4. \A c \in Calls : OrderlyFor(c)
    BY <1>1, <1>2 DEF OrderlyFor, Opened, InCall, Running
  <1>5. RowIsTrue BY <1>2 DEF RowIsTrue, Early
  <1> QED BY <1>3, <1>4, <1>5 DEF Orderly

(* What a careful operator has seen when a call begins.                        *)
LEMMA BeginsLate ==
    ASSUME Careful, NEW c \in Calls, NEW op \in Operations, BeginDoes(c, op)
    PROVE  /\ op # "create" => item.status \notin Early
           /\ op = "create" => item.status = "none" /\ \A d \in Calls : call[d].pc = "idle"
           /\ op # "pause" => \A d \in Calls : InCall(d) => call[d].op = "pause"
           /\ op = "pause" => \A d \in Calls : InCall(d) => call[d].op \notin {"pause", "resume"}
           /\ op = "resume" => \A d \in Calls : ~InCall(d)
           /\ op \in {"update", "ingest"} => item.status = "ACTIVE"
           /\ op = "delete" => item.status \in {"ACTIVE", "ERROR"}
           /\ op = "pause" => stack \in Usable \cup {"UPDATE_IN_PROGRESS"}
           /\ op = "resume" => /\ item.status = "PAUSED"
                               /\ \A d \in Calls : ~Running(d) /\ call[d].op # "delete"
  <1>1. Accepts(op) /\ Raised(op) /\ Offers(op) BY DEF BeginDoes
  <1>2. /\ op = "delete" => item.status \in {"ACTIVE", "ERROR"}
        /\ op = "ingest" => item.status = "ACTIVE"
        /\ op = "pause" => item.status \notin {"none", "CREATING"}
        /\ op # "pause" => \A d \in Calls : InCall(d) => call[d].op = "pause"
        /\ op = "pause" => \A d \in Calls : InCall(d) => call[d].op \notin {"pause", "resume"}
        /\ op = "resume" => \A d \in Calls : ~InCall(d) /\ ~Running(d) /\ call[d].op # "delete"
    BY <1>1 DEF Offers
  <1>3. /\ op = "create" => item.status = "none" /\ \A d \in Calls : call[d].pc = "idle"
        /\ op = "update" => item.status = "ACTIVE"
        /\ op \in {"delete", "ingest"} => item.status # "none"
        /\ op = "pause" => stack \in Usable \cup {"UPDATE_IN_PROGRESS"}
        /\ op = "resume" => item.status = "PAUSED"
    BY <1>1 DEF Accepts, Raised
  <1> QED BY <1>2, <1>3 DEF Operations, Early

LEMMA OneCallStep ==
    ASSUME Careful, NEW c \in Calls, OneCall, Does(c), OthersStay(c)
    PROVE  OneCall'
  <1>a. \A d \in Calls : d # c => (InCall(d)' <=> InCall(d)) /\ call'[d].op = call[d].op
    BY DEF OthersStay, InCall
  <1>1. CASE \E op \in Operations : BeginDoes(c, op)
    <2>1. PICK op \in Operations : BeginDoes(c, op) BY <1>1
    <2>2. call'[c].op = op BY <2>1 DEF BeginDoes
    <2>3. ASSUME NEW d \in Calls, d # c, InCall(d)
          PROVE  Apart(c, d)' \/ Apart(d, c)'
      BY <2>1, <2>2, <2>3, <1>a, BeginsLate DEF Apart
    <2> QED BY <1>a, <2>3 DEF OneCall, Apart
  <1>2. CASE call'[c] = call[c]
    BY <1>a, <1>2 DEF OneCall, Apart, InCall
  <1>3. CASE call'[c].op = call[c].op /\ InCall(c)
    BY <1>a, <1>3 DEF OneCall, Apart
  <1> QED BY <1>1, <1>2, <1>3, CallGoesOn

(* Once the row shows the result of the creation it does not go back.          *)
LEMMA RowGoesOn ==
    ASSUME NEW c \in Calls, Creates(c), Does(c)
    PROVE  item.status \notin Early => item'.status \notin Early
  <1>1. \A status : StatusOf(status) \notin Early BY DEF StatusOf, Early
  <1>2. CASE UpdateStatusDoes(c) BY <1>1, <1>2 DEF UpdateStatusDoes, RowBecomes
  <1>3. CASE CreatePutDoes(c) BY <1>3 DEF CreatePutDoes, Creates, InCall, Early
  <1>4. CASE \/ UpdatePutDoes(c) \/ DeleteWriteDoes(c) \/ PauseRememberDoes(c)
             \/ PauseWriteDoes(c) \/ ResumeWriteDoes(c)
    BY <1>4 DEF UpdatePutDoes, DeleteWriteDoes, PauseRememberDoes, PauseWriteDoes,
                ResumeWriteDoes, RowBecomes, Early
  <1>5. CASE item' = item BY <1>5
  <1> QED BY <1>2, <1>3, <1>4, <1>5 DEF Does, BeginDoes,
         CreateExecDoes, CreatePutDoes, UpdateExecDoes, UpdatePutDoes,
         DeleteCheckDoes, DeleteExecDoes, DeleteWriteDoes, IngestDoes,
         PauseRememberDoes, ThrottleDoes, PauseWriteDoes, RestoreDoes,
         ResumeWriteDoes, CallDiesDoes, StopIngestionDoes, StartStackDoes,
         UpdateStackDoes, StopStackDoes, WaitElapsesDoes, QueryDoes, NotifyDoes,
         UpdateStatusDoes

(* Who writes the row while it is early: the call that creates the pipeline,   *)
(* or the last step of its flow.                                               *)
LEMMA EarlyRow ==
    ASSUME NEW c \in Calls, BuiltFor(c), OrderlyFor(c), Does(c), item.status \in Early
    PROVE  \/ item'.status \in Early
           \/ /\ UpdateStatusDoes(c) /\ Starter(c) /\ ~Running(c)'
  <1>1. call[c].op = "create" \/ call[c].pc = "idle" BY DEF OrderlyFor, Opened
  <1>2. CASE UpdateStatusDoes(c)
    <2>1. Starter(c) /\ flow[c].child \notin {"start", "wait", "query", "notify"}
      BY <1>1, <1>2 DEF UpdateStatusDoes, BuiltFor, FlowFits, HasFlow, Starter
    <2>2. flow'[c].child = flow[c].child /\ flow'[c].parent # "update"
      BY <1>2 DEF UpdateStatusDoes, ParentBecomes, FlowBecomes
    <2> QED BY <1>2, <2>1, <2>2 DEF Running
  <1>3. CASE item' = item BY <1>3
  <1>4. CASE CreatePutDoes(c) BY <1>4 DEF CreatePutDoes, RowBecomes, Early
  <1>5. CASE \/ UpdatePutDoes(c) \/ DeleteWriteDoes(c) \/ PauseRememberDoes(c)
             \/ PauseWriteDoes(c) \/ ResumeWriteDoes(c)
    BY <1>1, <1>5 DEF UpdatePutDoes, DeleteWriteDoes, PauseRememberDoes, PauseWriteDoes,
                      ResumeWriteDoes
  <1> QED BY <1>2, <1>3, <1>4, <1>5 DEF Does, BeginDoes,
         CreateExecDoes, CreatePutDoes, UpdateExecDoes, UpdatePutDoes,
         DeleteCheckDoes, DeleteExecDoes, DeleteWriteDoes, IngestDoes,
         PauseRememberDoes, ThrottleDoes, PauseWriteDoes, RestoreDoes,
         ResumeWriteDoes, CallDiesDoes, StopIngestionDoes, StartStackDoes,
         UpdateStackDoes, StopStackDoes, WaitElapsesDoes, QueryDoes, NotifyDoes,
         UpdateStatusDoes

(* A flow runs from the step that starts it.                                   *)
LEMMA RunsFromStart ==
    ASSUME NEW c \in Calls, Does(c), Running(c)'
    PROVE  \/ Running(c) /\ flow'[c].action = flow[c].action
           \/ /\ CreateExecDoes(c) /\ flow'[c].action = "START"
           \/ /\ UpdateExecDoes(c) /\ flow'[c].action = "UPDATE"
           \/ /\ DeleteExecDoes(c) /\ flow'[c].action = "STOP" /\ call[c].read.stackId # ""
  <1>1. CASE UNCHANGED flow BY <1>1 DEF Running
  <1>2. CASE CreateExecDoes(c) \/ UpdateExecDoes(c) \/ DeleteExecDoes(c)
    BY <1>1, <1>2 DEF CreateExecDoes, UpdateExecDoes, DeleteExecDoes, Starts, FlowBecomes
  <1>3. CASE StartStackDoes(c) \/ UpdateStackDoes(c) \/ StopStackDoes(c)
    BY <1>3 DEF StartStackDoes, UpdateStackDoes, StopStackDoes, ChildBecomes, Answers,
                FlowBecomes, Running
  <1>4. CASE WaitElapsesDoes(c) \/ QueryDoes(c) \/ NotifyDoes(c) \/ UpdateStatusDoes(c)
    BY <1>4 DEF WaitElapsesDoes, QueryDoes, NotifyDoes, UpdateStatusDoes, ChildBecomes,
                Answers, ParentBecomes, FlowBecomes, Running
  <1> QED BY <1>1, <1>2, <1>3, <1>4 DEF Does, BeginDoes,
         CreateExecDoes, CreatePutDoes, UpdateExecDoes, UpdatePutDoes,
         DeleteCheckDoes, DeleteExecDoes, DeleteWriteDoes, IngestDoes,
         PauseRememberDoes, ThrottleDoes, PauseWriteDoes, RestoreDoes,
         ResumeWriteDoes, CallDiesDoes, StopIngestionDoes, StartStackDoes,
         UpdateStackDoes, StopStackDoes, WaitElapsesDoes, QueryDoes, NotifyDoes,
         UpdateStatusDoes

LEMMA OrderlyForStep ==
    ASSUME Careful, Built, Orderly, NEW c \in Calls, Does(c), OthersStay(c)
    PROVE  \A d \in Calls : OrderlyFor(d)'
  <1>a. BuiltFor(c) /\ Creates(c) /\ OrderlyFor(c) BY DEF Built, BuiltFor, Orderly
  <1>b. item.status \notin Early => item'.status \notin Early BY <1>a, RowGoesOn
  <1>c. \A d \in Calls : d # c => call'[d] = call[d] /\ flow'[d] = flow[d]
    BY DEF OthersStay
  <1>1. ASSUME NEW d \in Calls, Opened(d)', call'[d].op # "create"
        PROVE  item'.status \notin Early
    <2>1. CASE \E op \in Operations : BeginDoes(c, op) /\ d = c
      <3>1. PICK op \in Operations : BeginDoes(c, op) BY <2>1
      <3>2. op # "create" BY <2>1, <3>1, <1>1 DEF BeginDoes
      <3> QED BY <3>1, <3>2, <1>b, BeginsLate
    <2>2. CASE Opened(d) /\ call[d].op # "create"
      BY <2>2, <1>b DEF Orderly, OrderlyFor
    <2> QED BY <2>1, <2>2, <1>1, <1>c, CallGoesOn DEF Opened, InCall
  <1>2. ASSUME NEW d \in Calls, flow'[d].action = "START", Running(d)'
        PROVE  item'.status \in Early
    <2>1. CASE d = c /\ CreateExecDoes(c)
      BY <2>1, <1>a DEF CreateExecDoes, Creates, InCall, Early
    <2>2. CASE flow[d].action = "START" /\ Running(d)
      <3>1. item.status \in Early BY <2>2 DEF Orderly, OrderlyFor
      <3>2. Starter(d) BY <2>2 DEF Built, BuiltFor, FlowFits, Starter, HasFlow, Running
      <3>3. Starter(c) => Creator(c) /\ Creator(d)
        BY <3>2 DEF Built, BuiltFor, FlowFits, Starter, HasFlow, Creator, Opened
      <3>4. Starter(c) => d = c BY <3>3 DEF Built, CreateOnly
      <3> QED BY <1>2, <1>a, <3>1, <3>4, EarlyRow
    <2>3. d # c => Running(d) BY <1>2, <1>c DEF Running
    <2> QED BY <2>1, <2>2, <2>3, <1>2, <1>c, RunsFromStart DEF UpdateExecDoes, DeleteExecDoes
  <1>3. ASSUME NEW d \in Calls, InCall(d)', call'[d].op # "create"
        PROVE  call'[d].read.stackId # ""
    <2>1. CASE d = c
      <3>1. CASE \E op \in Operations : BeginDoes(c, op)
        <4>1. PICK op \in Operations : BeginDoes(c, op) BY <3>1
        <4>2. op # "create" /\ call'[c].read = item BY <4>1, <2>1, <1>3 DEF BeginDoes
        <4>3. item.status \notin Early BY <4>1, <4>2, BeginsLate
        <4> QED BY <2>1, <4>2, <4>3 DEF Orderly, RowIsTrue
      <3>2. CASE call'[c] = call[c]
        BY <2>1, <3>2, <1>3, <1>a DEF OrderlyFor, InCall
      <3>3. CASE /\ call'[c].op = call[c].op /\ InCall(c)
                 /\ call'[c].pc \in Ended \/ call'[c].read = call[c].read
        BY <2>1, <3>3, <1>3, <1>a DEF OrderlyFor, InCall, Ended
      <3>4. call'[c].pc \in Ended \/ call'[c].read = call[c].read
            \/ \E op \in Operations : BeginDoes(c, op)
        BY DEF Does, CallBecomes, Starts,
         CreateExecDoes, CreatePutDoes, UpdateExecDoes, UpdatePutDoes,
         DeleteCheckDoes, DeleteExecDoes, DeleteWriteDoes, IngestDoes,
         PauseRememberDoes, ThrottleDoes, PauseWriteDoes, RestoreDoes,
         ResumeWriteDoes, CallDiesDoes, StopIngestionDoes, StartStackDoes,
         UpdateStackDoes, StopStackDoes, WaitElapsesDoes, QueryDoes, NotifyDoes,
         UpdateStatusDoes
      <3> QED BY <3>1, <3>2, <3>3, <3>4, CallGoesOn
    <2>2. CASE d # c BY <2>2, <1>c, <1>3 DEF Orderly, OrderlyFor, InCall
    <2> QED BY <2>1, <2>2
  <1> QED BY <1>1, <1>2, <1>3 DEF OrderlyFor

LEMMA RowIsTrueStep ==
    ASSUME IInv, Built, Orderly, NEW c \in Calls, Does(c), StackOnward
    PROVE  RowIsTrue'
  <1>a. BuiltFor(c) /\ OrderlyFor(c) /\ RowIsTrue BY DEF Built, Orderly
  <1>1. CASE item' = item BY <1>1, <1>a DEF RowIsTrue, StackOnward
  <1>2. CASE CreatePutDoes(c) BY <1>2 DEF CreatePutDoes, RowBecomes, RowIsTrue, Early
  <1>3. CASE UpdatePutDoes(c)
    BY <1>3, <1>a DEF UpdatePutDoes, RowBecomes, RowIsTrue, OrderlyFor, InCall
  <1>4. CASE DeleteWriteDoes(c) \/ PauseRememberDoes(c) \/ PauseWriteDoes(c) \/ ResumeWriteDoes(c)
    <2>1. item.status \notin Early /\ call[c].read.stackId # ""
      BY <1>4, <1>a DEF DeleteWriteDoes, PauseRememberDoes, PauseWriteDoes, ResumeWriteDoes,
                        OrderlyFor, Opened, InCall
    <2> QED
      BY <1>4, <1>a, <2>1 DEF DeleteWriteDoes, PauseRememberDoes, PauseWriteDoes,
                              ResumeWriteDoes, RowBecomes, RowIsTrue, StackOnward
  <1>5. CASE UpdateStatusDoes(c)
    <2>1. \A status : /\ StatusOf(status) = "INACTIVE" => status = "DELETE_COMPLETE"
                      /\ status \in {"", "CREATE_FAILED", "DELETE_FAILED"} => StatusOf(status) = "ERROR"
      BY DEF StatusOf
    <2>2. CASE UNCHANGED item BY <2>2, <1>1
    <2>3. CASE /\ ~StepRaises(c)
               /\ RowBecomes(StatusOf(flow[c].result.status), flow[c].result.id, item.last)
      <3>1. flow[c].result.id # ""
        BY <2>1, <2>3, <1>a DEF StepRaises, BuiltFor, Knows
      <3>2. flow[c].result.status = "DELETE_COMPLETE" => stack = "DELETE_COMPLETE"
        BY DEF IInv, DeletedIsTrue
      <3> QED BY <2>1, <2>3, <3>1, <3>2 DEF RowBecomes, RowIsTrue, StackOnward
    <2> QED BY <1>5, <2>2, <2>3 DEF UpdateStatusDoes
  <1> QED BY <1>1, <1>2, <1>3, <1>4, <1>5 DEF Does, BeginDoes,
         CreateExecDoes, CreatePutDoes, UpdateExecDoes, UpdatePutDoes,
         DeleteCheckDoes, DeleteExecDoes, DeleteWriteDoes, IngestDoes,
         PauseRememberDoes, ThrottleDoes, PauseWriteDoes, RestoreDoes,
         ResumeWriteDoes, CallDiesDoes, StopIngestionDoes, StartStackDoes,
         UpdateStackDoes, StopStackDoes, WaitElapsesDoes, QueryDoes, NotifyDoes,
         UpdateStatusDoes

LEMMA OrderlyStutter ==
    ASSUME Orderly, StackOnward, UNCHANGED <<item, call, flow>>
    PROVE  Orderly'
  <1>1. OneCall' BY DEF Orderly, OneCall, Apart, InCall
  <1>2. \A c \in Calls : OrderlyFor(c)'
    BY DEF Orderly, OrderlyFor, Opened, InCall, Running
  <1>3. RowIsTrue' BY DEF Orderly, RowIsTrue, StackOnward
  <1> QED BY <1>1, <1>2, <1>3 DEF Orderly

LEMMA NextOrderly == ASSUME Careful, IInv, Built, Orderly, [Next]_vars PROVE Orderly'
  <1>1. CASE UNCHANGED vars BY <1>1, OrderlyStutter DEF vars, StackOnward
  <1>2. CASE StackEndsDoes BY <1>2, StackEndsOnward, OrderlyStutter DEF StackEndsDoes
  <1>3. ASSUME NEW c \in Calls, Does(c), OthersStay(c) PROVE Orderly'
    <2>1. StackOnward BY <1>3, StackGoesOn DEF IInv, CreatedOnce
    <2>2. OneCall' BY <1>3, OneCallStep DEF Orderly
    <2>3. \A d \in Calls : OrderlyFor(d)' BY <1>3, OrderlyForStep
    <2>4. RowIsTrue' BY <1>3, <2>1, RowIsTrueStep
    <2> QED BY <2>2, <2>3, <2>4 DEF Orderly
  <1>4. TypeOK BY DEF IInv
  <1> QED BY <1>1, <1>2, <1>3, <1>4, StepDoes

LEMMA AlwaysOrderly ==
    ASSUME LifecycleAssumption, Careful PROVE Spec => [](IInv /\ Built /\ Orderly)
  <1>1. Init => Orderly BY InitOrderly
  <1>2. IInv /\ Built /\ Orderly /\ [Next]_vars => Orderly' BY NextOrderly
  <1> QED BY <1>1, <1>2, AlwaysBuilt, PTL DEF Spec

(* With a careful operator no stack is left that the console cannot delete:    *)
(* when the row says INACTIVE, or was never written, there is no stack, unless *)
(* a call died between the start of its flow and the write of the row.         *)
THEOREM NothingOrphaned ==
    ASSUME LifecycleAssumption, Careful PROVE Spec => []NoOrphan
  <1>1. IInv /\ Built /\ Orderly => NoOrphan
    <2> SUFFICES ASSUME IInv, Built, Orderly, item.status \in {"none", "INACTIVE"}, ~Torn,
                        \A c \in Calls : ~InCall(c), stack # "none"
                 PROVE  stack = "DELETE_COMPLETE"
      BY DEF NoOrphan
    <2>1. PICK c \in Calls : Starter(c) BY DEF Built, Made
    <2>2. call[c].op = "create" /\ call[c].pc \in {"started", "done", "failed"}
      BY <2>1 DEF Built, BuiltFor, FlowFits, Starter, HasFlow
    <2>3. call[c].pc = "done"
      BY <2>1, <2>2 DEF Starter, HasFlow, Torn, InCall
    <2>4. item.status # "none" BY <2>2, <2>3 DEF Built, BuiltFor, Creates
    <2> QED BY <2>4 DEF Orderly, RowIsTrue
  <1> QED BY <1>1, AlwaysOrderly, PTL

-----------------------------------------------------------------------------
(* The alarm and Resume.  Who resumes has read the concurrency the row         *)
(* remembers, and unless that is zero a throttled log processor is shown as    *)
(* such, while no alarm is being handled and no handler of one has died.       *)
ThrottleFor(c) ==
    /\ kind = "svc" /\ Opened(c) => call[c].op # "update"
    /\ call[c].op = "resume" /\ call[c].pc = "begun" => call[c].read.last = item.last
    /\ call[c].op = "resume" /\ call[c].pc = "ready" => concurrency = item.last
Throttling(c) == call[c].op = "pause" /\ call[c].pc \in {"begun", "ready", "started", "failed"}
ShowsThrottled ==
    kind = "svc" /\ concurrency = 0 /\ item.last = 1 =>
        \/ item.status \in {"PAUSED", "DELETING", "INACTIVE", "ERROR"}
        \/ \E c \in Calls : Throttling(c)
BlankRow == item.status = "none" => item.last = 1

Throttled == (\A c \in Calls : ThrottleFor(c)) /\ ShowsThrottled /\ BlankRow

LEMMA KindStays == ASSUME NEW c \in Calls, Does(c) PROVE kind' = kind
  BY DEF Does, BeginDoes,
         CreateExecDoes, CreatePutDoes, UpdateExecDoes, UpdatePutDoes,
         DeleteCheckDoes, DeleteExecDoes, DeleteWriteDoes, IngestDoes,
         PauseRememberDoes, ThrottleDoes, PauseWriteDoes, RestoreDoes,
         ResumeWriteDoes, CallDiesDoes, StopIngestionDoes, StartStackDoes,
         UpdateStackDoes, StopStackDoes, WaitElapsesDoes, QueryDoes, NotifyDoes,
         UpdateStatusDoes

LEMMA InitThrottled == ASSUME Init PROVE Throttled
  <1>1. \A c \in Calls : call[c].pc = "idle" BY Blank DEF Init, NoCall
  <1>2. item.last = 1 /\ concurrency = 1 BY Blank DEF Init
  <1> QED BY <1>1, <1>2 DEF Throttled, ThrottleFor, ShowsThrottled, BlankRow, Opened

(* Only calls touch the concurrency and what the row remembers of it, those of *)
(* an alarm after they have said so.                                           *)
LEMMA ConcurrencyStep ==
    ASSUME NEW c \in Calls, Does(c)
    PROVE  \/ item'.last = item.last /\ concurrency' = concurrency
           \/ CreatePutDoes(c) \/ UpdatePutDoes(c) \/ PauseRememberDoes(c)
           \/ ThrottleDoes(c) \/ RestoreDoes(c)
  <1>1. CASE DeleteWriteDoes(c) \/ ResumeWriteDoes(c)
    BY <1>1 DEF DeleteWriteDoes, ResumeWriteDoes, RowBecomes
  <1>2. CASE PauseWriteDoes(c) BY <1>2 DEF PauseWriteDoes, RowBecomes
  <1>3. CASE UpdateStatusDoes(c) BY <1>3 DEF UpdateStatusDoes, RowBecomes
  <1>4. CASE UNCHANGED <<item, concurrency>> BY <1>4
  <1> QED BY <1>1, <1>2, <1>3, <1>4 DEF Does, BeginDoes,
         CreateExecDoes, CreatePutDoes, UpdateExecDoes, UpdatePutDoes,
         DeleteCheckDoes, DeleteExecDoes, DeleteWriteDoes, IngestDoes,
         PauseRememberDoes, ThrottleDoes, PauseWriteDoes, RestoreDoes,
         ResumeWriteDoes, CallDiesDoes, StopIngestionDoes, StartStackDoes,
         UpdateStackDoes, StopStackDoes, WaitElapsesDoes, QueryDoes, NotifyDoes,
         UpdateStatusDoes

LEMMA ThrottleMover ==
    ASSUME NEW c \in Calls, ThrottleFor(c), Does(c), kind' = kind
    PROVE  ThrottleFor(c)'
  <1> USE DEF ThrottleFor, Opened
  <1>1. CASE \E op \in Operations : BeginDoes(c, op)
    <2>1. PICK op \in Operations : BeginDoes(c, op) BY <1>1
    <2>2. op = "update" => kind = "app" BY <2>1 DEF BeginDoes, Accepts
    <2>3. call'[c].op = op /\ call'[c].pc = "begun" /\ call'[c].read = item /\ item' = item
      BY <2>1 DEF BeginDoes
    <2> QED BY <2>2, <2>3
  <1>2. CASE call'[c] = call[c] /\ item'.last = item.last /\ concurrency' = concurrency
    BY <1>2
  <1>3. CASE RestoreDoes(c) BY <1>3 DEF RestoreDoes, CallBecomes
  <1>4. CASE call'[c].op = call[c].op /\ call[c].op # "resume" /\ InCall(c)
    BY <1>4 DEF InCall
  <1>5. CASE ResumeWriteDoes(c) BY <1>5 DEF ResumeWriteDoes, CallBecomes
  <1>6. CASE CallDiesDoes(c) BY <1>6 DEF CallDiesDoes, CallBecomes, InCall
  <1>7. CASE CreatePutDoes(c) \/ UpdatePutDoes(c) \/ PauseRememberDoes(c) \/ ThrottleDoes(c)
    BY <1>4, <1>7 DEF CreatePutDoes, UpdatePutDoes, PauseRememberDoes, ThrottleDoes,
                      CallBecomes, InCall
  <1>8. CASE \/ CreateExecDoes(c) \/ UpdateExecDoes(c) \/ DeleteCheckDoes(c)
             \/ DeleteExecDoes(c) \/ DeleteWriteDoes(c) \/ IngestDoes(c) \/ PauseWriteDoes(c)
    BY <1>4, <1>8 DEF CreateExecDoes, UpdateExecDoes, DeleteCheckDoes, DeleteExecDoes,
                      DeleteWriteDoes, IngestDoes, PauseWriteDoes, Starts, CallBecomes, InCall
  <1>9. call'[c] = call[c] \/ ~(\/ StopIngestionDoes(c) \/ StartStackDoes(c)
           \/ UpdateStackDoes(c) \/ StopStackDoes(c) \/ WaitElapsesDoes(c) \/ QueryDoes(c)
           \/ NotifyDoes(c) \/ UpdateStatusDoes(c))
    BY DEF StopIngestionDoes, StartStackDoes, UpdateStackDoes, StopStackDoes,
           WaitElapsesDoes, QueryDoes, NotifyDoes, UpdateStatusDoes
  <1> QED BY <1>1, <1>2, <1>3, <1>5, <1>6, <1>7, <1>8, <1>9, ConcurrencyStep DEF Does

LEMMA ThrottleOthers ==
    ASSUME OneCall, NEW c \in Calls, Does(c), OthersStay(c), kind' = kind,
           NEW d \in Calls, d # c, ThrottleFor(d)
    PROVE  ThrottleFor(d)'
  <1>1. call'[d] = call[d] BY DEF OthersStay
  <1>2. CASE item'.last = item.last /\ concurrency' = concurrency
    BY <1>1, <1>2 DEF ThrottleFor, Opened
  <1>3. CASE InCall(c) /\ call[c].op \in {"create", "update", "pause", "resume"}
    <2>1. ~(InCall(d) /\ call[d].op = "resume") BY <1>3 DEF OneCall, Apart
    <2> QED BY <1>1, <2>1 DEF ThrottleFor, InCall, Opened
  <1>4. \/ CreatePutDoes(c) \/ UpdatePutDoes(c) \/ PauseRememberDoes(c)
        \/ ThrottleDoes(c) \/ RestoreDoes(c)
        => InCall(c) /\ call[c].op \in {"create", "update", "pause", "resume"}
    BY DEF CreatePutDoes, UpdatePutDoes, PauseRememberDoes, ThrottleDoes, RestoreDoes, InCall
  <1> QED BY <1>2, <1>3, <1>4, ConcurrencyStep

(* An alarm's handler comes to its end by showing the throttling, or dies.     *)
LEMMA ThrottlingEnds ==
    ASSUME NEW c \in Calls, OrderlyFor(c), Does(c), Throttling(c)
    PROVE  Throttling(c)' \/ item'.status = "PAUSED"
  <1>1. item.status # "none" BY DEF OrderlyFor, Throttling, Opened, Early
  <1>2. CASE PauseWriteDoes(c) BY <1>1, <1>2 DEF PauseWriteDoes, RowBecomes
  <1>3. CASE PauseRememberDoes(c) \/ ThrottleDoes(c) \/ CallDiesDoes(c)
    BY <1>3 DEF PauseRememberDoes, ThrottleDoes, CallDiesDoes, CallBecomes, Throttling
  <1>4. CASE call' = call BY <1>4 DEF Throttling
  <1>5. \A op \in Operations : ~BeginDoes(c, op) BY DEF BeginDoes, Throttling
  <1>6. ~(CreateExecDoes(c) \/ UpdateExecDoes(c) \/ DeleteCheckDoes(c) \/ DeleteExecDoes(c)
          \/ IngestDoes(c) \/ CreatePutDoes(c) \/ UpdatePutDoes(c) \/ DeleteWriteDoes(c)
          \/ RestoreDoes(c) \/ ResumeWriteDoes(c))
    BY DEF CreateExecDoes, UpdateExecDoes, DeleteCheckDoes, DeleteExecDoes, IngestDoes,
           CreatePutDoes, UpdatePutDoes, DeleteWriteDoes, RestoreDoes, ResumeWriteDoes,
           Throttling
  <1> QED BY <1>2, <1>3, <1>4, <1>5, <1>6 DEF Does, StartStackDoes, StopIngestionDoes,
          UpdateStackDoes, StopStackDoes, WaitElapsesDoes, QueryDoes, NotifyDoes,
          UpdateStatusDoes

(* The status that says so is taken back by Resume only.                       *)
Shown == {"PAUSED", "DELETING", "INACTIVE", "ERROR"}
LEMMA ShownStays ==
    ASSUME NEW c \in Calls, BuiltFor(c), OrderlyFor(c), ThrottleFor(c), Does(c), kind = "svc",
           item.status \in Shown, item'.status \notin Shown
    PROVE  ResumeWriteDoes(c)
  <1> USE DEF Shown
  <1>1. item'.status # item.status OBVIOUS
  <1>2. ~CreatePutDoes(c) BY DEF CreatePutDoes, BuiltFor, Creates, InCall
  <1>3. ~UpdatePutDoes(c) BY DEF UpdatePutDoes, ThrottleFor, Opened
  <1>4. ~(DeleteWriteDoes(c) \/ PauseWriteDoes(c) \/ PauseRememberDoes(c))
    BY <1>1 DEF DeleteWriteDoes, PauseWriteDoes, PauseRememberDoes, RowBecomes
  <1>5. ASSUME UpdateStatusDoes(c) PROVE FALSE
    <2>1. RowBecomes(StatusOf(flow[c].result.status), flow[c].result.id, item.last)
      BY <1>1, <1>5 DEF UpdateStatusDoes
    <2>2. \A status : StatusOf(status) \notin {"INACTIVE", "ERROR"} =>
                         \/ status = "CREATE_COMPLETE"
                         \/ status = "UPDATE_COMPLETE" /\ kind = "app"
      BY DEF StatusOf
    <2>3. flow[c].result.status = "CREATE_COMPLETE" BY <2>1, <2>2 DEF RowBecomes
    <2>4. flow[c].action # "STOP" BY <2>3 DEF BuiltFor, Deletes
    <2>5. HasFlow(c) /\ Running(c) BY <1>5 DEF UpdateStatusDoes, HasFlow, Running
    <2>6. flow[c].action = "START"
      BY <2>4, <2>5 DEF BuiltFor, FlowFits, ThrottleFor, Opened
    <2> QED BY <2>5, <2>6 DEF OrderlyFor, Early
  <1> QED BY <1>1, <1>2, <1>3, <1>4, <1>5 DEF Does, BeginDoes,
         CreateExecDoes, CreatePutDoes, UpdateExecDoes, UpdatePutDoes,
         DeleteCheckDoes, DeleteExecDoes, DeleteWriteDoes, IngestDoes,
         PauseRememberDoes, ThrottleDoes, PauseWriteDoes, RestoreDoes,
         ResumeWriteDoes, CallDiesDoes, StopIngestionDoes, StartStackDoes,
         UpdateStackDoes, StopStackDoes, WaitElapsesDoes, QueryDoes, NotifyDoes,
         UpdateStatusDoes

LEMMA ShowsThrottledStep ==
    ASSUME TypeOK, Built, Orderly, Throttled, NEW c \in Calls, Does(c), OthersStay(c)
    PROVE  ShowsThrottled'
  <1>a. BuiltFor(c) /\ OrderlyFor(c) /\ ThrottleFor(c) /\ kind' = kind
    BY KindStays DEF Built, Orderly, Throttled
  <1>b. concurrency \in {0, 1} /\ item.last \in {0, 1}
    BY DEF TypeOK, Items
  <1> SUFFICES ASSUME kind = "svc", concurrency' = 0, item'.last = 1, item'.status \notin Shown
               PROVE  \E d \in Calls : Throttling(d)'
    BY <1>a DEF ShowsThrottled, Shown
  <1>1. CASE concurrency = 0 /\ item.last = 1
    <2>1. CASE \E d \in Calls : Throttling(d)
      <3>1. PICK d \in Calls : Throttling(d) BY <2>1
      <3>2. CASE d # c BY <3>1, <3>2 DEF OthersStay, Throttling
      <3>3. CASE d = c BY <3>1, <3>3, <1>a, ThrottlingEnds DEF Shown
      <3> QED BY <3>2, <3>3
    <2>2. CASE item.status \in Shown
      <3>1. ResumeWriteDoes(c) BY <2>2, <1>a, ShownStays
      <3> QED BY <1>1, <3>1, <1>a DEF ResumeWriteDoes, ThrottleFor
    <2> QED BY <1>1, <2>1, <2>2 DEF Throttled, ShowsThrottled, Shown
  <1>2. CASE PauseRememberDoes(c) \/ ThrottleDoes(c)
    BY <1>2 DEF PauseRememberDoes, ThrottleDoes, CallBecomes, Throttling
  <1>3. CASE RestoreDoes(c)
    <2>1. item' = item BY <1>3 DEF RestoreDoes
    <2>2. CASE concurrency' = call[c].read.last BY <2>1, <2>2, <1>3, <1>a DEF RestoreDoes, ThrottleFor
    <2>3. CASE concurrency' = concurrency BY <2>1, <2>3, <1>1
    <2> QED BY <1>3, <2>2, <2>3 DEF RestoreDoes
  <1>4. CASE CreatePutDoes(c)
    <2>1. item.status = "none" BY <1>4, <1>a DEF CreatePutDoes, BuiltFor, Creates, InCall
    <2>2. item.last = 1 BY <2>1 DEF Throttled, BlankRow
    <2>3. concurrency = 0 BY <1>4 DEF CreatePutDoes
    <2> QED BY <2>2, <2>3, <1>1
  <1>5. ~UpdatePutDoes(c) BY <1>a DEF UpdatePutDoes, ThrottleFor, Opened
  <1>6. CASE item'.last = item.last /\ concurrency' = concurrency BY <1>6, <1>1
  <1> QED BY <1>2, <1>3, <1>4, <1>5, <1>6, ConcurrencyStep

LEMMA ThrottledStutter ==
    ASSUME Throttled, UNCHANGED <<kind, item, concurrency, call>> PROVE Throttled'
  <1>1. \A c \in Calls : ThrottleFor(c)' BY DEF Throttled, ThrottleFor, Opened
  <1>2. ShowsThrottled' BY DEF Throttled, ShowsThrottled, Throttling
  <1>3. BlankRow' BY DEF Throttled, BlankRow
  <1> QED BY <1>1, <1>2, <1>3 DEF Throttled

LEMMA NextThrottled ==
    ASSUME IInv, Built, Orderly, Throttled, [Next]_vars
    PROVE  Throttled'
  <1>1. CASE UNCHANGED vars BY <1>1, ThrottledStutter DEF vars
  <1>2. CASE StackEndsDoes BY <1>2, ThrottledStutter DEF StackEndsDoes
  <1>3. ASSUME NEW c \in Calls, Does(c), OthersStay(c) PROVE Throttled'
    <2>1. kind' = kind BY <1>3, KindStays
    <2>2. ThrottleFor(c)' BY <1>3, <2>1, ThrottleMover DEF Throttled
    <2>3. \A d \in Calls : d # c => ThrottleFor(d)'
      BY <1>3, <2>1, ThrottleOthers DEF Throttled, Orderly
    <2>4. ShowsThrottled' BY <1>3, ShowsThrottledStep DEF IInv
    <2>5. BlankRow'
      <3> SUFFICES ASSUME item'.status = "none" PROVE item'.last = 1 BY DEF BlankRow
      <3>1. RowStays(c) BY <1>3, RowIsPutOnce DEF Built, BuiltFor
      <3>2. item.status = "none" /\ item.last = 1 BY <3>1 DEF RowStays, Throttled, BlankRow
      <3>3. BuiltFor(c) BY DEF Built
      <3>4. ~CreatePutDoes(c) BY DEF CreatePutDoes, RowBecomes
      <3>5. ~UpdatePutDoes(c) BY DEF UpdatePutDoes, RowBecomes
      <3>6. PauseRememberDoes(c) => item' = item BY <3>2 DEF PauseRememberDoes
      <3>7. ThrottleDoes(c) \/ RestoreDoes(c) => item' = item BY DEF ThrottleDoes, RestoreDoes
      <3> QED BY <1>3, <3>2, <3>4, <3>5, <3>6, <3>7, ConcurrencyStep
    <2> QED BY <2>2, <2>3, <2>4, <2>5 DEF Throttled
  <1>4. TypeOK BY DEF IInv
  <1> QED BY <1>1, <1>2, <1>3, <1>4, StepDoes

(* With a careful operator, and whatever fails, a service pipeline is shown as *)
(* ACTIVE with its log processor throttled only after a handler of an alarm    *)
(* has died, or with a row that remembers zero because the handler ran on a    *)
(* log processor that was throttled already.                                   *)
THEOREM ThrottledIsShown ==
    ASSUME LifecycleAssumption, Careful
    PROVE  Spec => []Unthrottled
  <1>1. Init => Throttled BY InitThrottled
  <1>2. IInv /\ Built /\ Orderly /\ Throttled /\ [Next]_vars => Throttled' BY NextThrottled
  <1>3. IInv /\ Throttled => Unthrottled
    <2> SUFFICES ASSUME IInv, Throttled, kind = "svc", item.status = "ACTIVE",
                        ~HalfPaused, item.last > 0, \A c \in Calls : ~InCall(c)
                 PROVE  concurrency > 0
      BY DEF Unthrottled
    <2>1. \A c \in Calls : ~Throttling(c) BY DEF Throttling, InCall, HalfPaused
    <2>2. concurrency \in {0, 1} /\ item.last \in {0, 1} BY DEF IInv, TypeOK, Items
    <2>3. item.last = 1 BY <2>2
    <2>4. concurrency # 0 BY <2>1, <2>3 DEF Throttled, ShowsThrottled
    <2> QED BY <2>2, <2>4
  <1> QED BY <1>1, <1>2, <1>3, AlwaysOrderly, PTL DEF Spec

-----------------------------------------------------------------------------
(* The calls and the flows, when no call was torn: a flow runs on behalf of a  *)
(* call that has not returned, or of the row that call has left; and once the  *)
(* stack is being deleted only that goes on.                                   *)
Owned(c) ==
    Running(c) =>
        \/ call[c].pc = "started"
        \/ /\ call[c].pc = "done"
           /\ flow[c].action = "START" => item.status = "CREATING"
           /\ flow[c].action = "UPDATE" => item.status \in {"UPDATING", "PAUSED"}
           /\ flow[c].action = "STOP" => item.status \in {"DELETING", "PAUSED"}
(* A deletion that returned has started its flow, one that is done knows how.  *)
Deleter(c) ==
    /\ kind = "app" /\ call[c].op = "delete" /\ call[c].pc \in {"started", "done"} => HasFlow(c)
    /\ flow[c].action = "STOP" /\ flow[c].parent = "done" =>
          /\ flow[c].result.id # ""
          /\ "Slow" \notin Faults => item.status \in {"INACTIVE", "ERROR", "DELETING"}
Ingests(c) == kind = "svc" /\ Opened(c) => call[c].op # "ingest"
CalmFor(c) == Owned(c) /\ Deleter(c) /\ Ingests(c)

Alone ==
    /\ \A c, d \in Calls : Running(c) /\ InCall(d) /\ call[d].op # "pause" => d = c
    /\ \A c, d \in Calls : Running(c) /\ Running(d) => c = d
(* A deletion asks for the stack when an alarm has come to its end.            *)
Inquired(c) == flow[c].action = "STOP" /\ (flow[c].child = "query" \/ flow[c].result.id # "")
PauseApart ==
    "Slow" \notin Faults =>
        \A c, d \in Calls : Inquired(c) /\ InCall(d) => call[d].op # "pause"

Stopped == \E c \in Calls : Stopper(c)
Stopping(c) == call[c].op = "delete" /\ call[c].pc = "started" /\ HasFlow(c)
StoppedCalls == Stopped => \A c \in Calls : InCall(c) => call[c].op \in {"delete", "pause"}
StoppedFlows == Stopped => \A c \in Calls : Running(c) => flow[c].action = "STOP"
StoppedRow ==
    Stopped => \/ item.status \in {"DELETING", "PAUSED", "INACTIVE", "ERROR"}
               \/ \E c \in Calls : Stopping(c)
Checked(c) == call[c].op = "delete" /\ call[c].pc \in {"ready", "started"}
StoppedIngest ==
    /\ kind = "app" /\ (Stopped \/ \E c \in Calls : Checked(c)) => ingestions = {}
    /\ kind = "svc" => ingestions = {}
(* The role is gone once a deletion has passed its check, or when it died.     *)
Unroled(c) == call[c].op = "delete" /\ call[c].pc \notin {"idle", "begun", "refused"}
Roled == \/ item.status # "none"
         \/ \E c \in Calls : call[c].op = "create" /\ call[c].pc = "started"
RoleFits == kind = "app" /\ Roled /\ role # "kept" => \E c \in Calls : Unroled(c)

Calm == /\ \A c \in Calls : CalmFor(c)
        /\ Alone /\ PauseApart /\ StoppedCalls /\ StoppedFlows /\ StoppedRow
        /\ StoppedIngest /\ RoleFits

LEMMA InitCalm == ASSUME Init PROVE Calm
  <1>1. \A c \in Calls : /\ call[c].pc = "idle" /\ flow[c].child = "none"
                         /\ flow[c].parent = "none" /\ flow[c].action = "START"
    BY Blank DEF Init, NoCall
  <1>2. item.status = "none" /\ ingestions = {} BY Blank DEF Init
  <1>3. \A c \in Calls : ~Running(c) /\ ~InCall(c) /\ ~Stopper(c) /\ ~Inquired(c)
    <2>1. \A c \in Calls : flow[c].result.id = "" BY Blank DEF Init
    <2> QED BY <1>1, <2>1 DEF Running, InCall, Stopper, HasFlow, Inquired
  <1>4. \A c \in Calls : CalmFor(c)
    BY <1>1, <1>3 DEF CalmFor, Owned, Deleter, Ingests, Opened
  <1>5. Alone /\ PauseApart BY <1>3 DEF Alone, PauseApart
  <1>6. StoppedCalls /\ StoppedFlows /\ StoppedRow /\ StoppedIngest
    BY <1>2, <1>3 DEF StoppedCalls, StoppedFlows, StoppedRow, StoppedIngest, Stopped
  <1>7. RoleFits BY <1>1, <1>2 DEF RoleFits, Roled
  <1> QED BY <1>4, <1>5, <1>6, <1>7 DEF Calm

(* A flow that runs is that of its call.                                       *)
LEMMA RunningFits ==
    ASSUME NEW c \in Calls, FlowFits(c), Running(c)
    PROVE  /\ HasFlow(c) /\ call[c].pc \in {"started", "done", "failed"}
           /\ \/ call[c].op = "create" /\ flow[c].action = "START"
              \/ call[c].op = "update" /\ flow[c].action = "UPDATE"
              \/ call[c].op = "delete" /\ flow[c].action = "STOP"
  BY DEF FlowFits, Running, HasFlow

(* Who writes the status of the row, and what.                                 *)
RowWriter(c) ==
    \/ item'.status = item.status
    \/ InCall(c) /\ call[c].op \in {"create", "update", "resume"}
    \/ InCall(c) /\ call[c].op = "delete" /\ item'.status = "DELETING"
    \/ InCall(c) /\ call[c].op = "pause" /\ item'.status = "PAUSED"
    \/ /\ flow[c].parent = "update" /\ UNCHANGED call
       /\ flow[c].action = "STOP" => item'.status \in {"INACTIVE", "ERROR"}
LEMMA WritesRow ==
    ASSUME NEW c \in Calls, BuiltFor(c), OrderlyFor(c), Does(c)
    PROVE  RowWriter(c)
  <1>1. CASE item' = item BY <1>1 DEF RowWriter
  <1>2. CASE CreatePutDoes(c) \/ UpdatePutDoes(c) \/ ResumeWriteDoes(c)
    BY <1>2 DEF CreatePutDoes, UpdatePutDoes, ResumeWriteDoes, RowWriter, InCall
  <1>3. CASE DeleteWriteDoes(c)
    BY <1>3 DEF DeleteWriteDoes, OrderlyFor, InCall, RowBecomes, RowWriter
  <1>4. CASE PauseRememberDoes(c) \/ PauseWriteDoes(c)
    BY <1>4 DEF PauseRememberDoes, PauseWriteDoes, RowBecomes, RowWriter, InCall
  <1>5. CASE UpdateStatusDoes(c)
    <2>1. \A status : status \in {"", "DELETE_COMPLETE", "DELETE_FAILED"} =>
                         StatusOf(status) \in {"INACTIVE", "ERROR"}
      BY DEF StatusOf
    <2>2. CASE UNCHANGED item BY <2>2 DEF RowWriter
    <2>3. CASE RowBecomes(StatusOf(flow[c].result.status), flow[c].result.id, item.last)
      BY <1>5, <2>1, <2>3 DEF UpdateStatusDoes, RowBecomes, RowWriter, BuiltFor, Deletes
    <2> QED BY <1>5, <2>2, <2>3 DEF UpdateStatusDoes
  <1> QED BY <1>1, <1>2, <1>3, <1>4, <1>5 DEF Does, BeginDoes,
         CreateExecDoes, CreatePutDoes, UpdateExecDoes, UpdatePutDoes,
         DeleteCheckDoes, DeleteExecDoes, DeleteWriteDoes, IngestDoes,
         PauseRememberDoes, ThrottleDoes, PauseWriteDoes, RestoreDoes,
         ResumeWriteDoes, CallDiesDoes, StopIngestionDoes, StartStackDoes,
         UpdateStackDoes, StopStackDoes, WaitElapsesDoes, QueryDoes, NotifyDoes,
         UpdateStatusDoes

(* The steps that start a flow.                                                *)
Execs(c, action) ==
    /\ flow[c].parent = "none" /\ call'[c].pc = "started" /\ InCall(c)
    /\ call[c].op \in {"create", "update", "delete"}
    /\ flow'[c].action = action /\ flow'[c].parent = "waiting"
    /\ flow'[c].child = "start" /\ flow'[c].result.id = ""
    /\ UNCHANGED <<kind, item, stack, ingestions>>
    /\ action = "STOP" => call[c].op = "delete" /\ call[c].pc = "ready" /\ call'[c].op = "delete"
    /\ action # "STOP" => call[c].op \in {"create", "update"}
(* The flow of the call: started, taken one step on, or left.                  *)
FlowMove(c) ==
    \/ \E action \in FlowActions : Execs(c, action)
    \/ flow'[c] = flow[c]
    \/ /\ HasFlow(c) /\ call' = call /\ flow'[c].action = flow[c].action
       /\ flow'[c].parent # "none"
       /\ flow'[c].child = "query" => "Slow" \in Faults \/ Quick
       /\ flow'[c].result.id # "" => flow[c].child = "query" \/ flow[c].result.id # ""
       /\ Running(c)
LEMMA MovesFlow ==
    ASSUME NEW c \in Calls, FlowFits(c), Does(c)
    PROVE  FlowMove(c)
  <1>1. CASE CreateExecDoes(c) \/ UpdateExecDoes(c) \/ DeleteExecDoes(c)
    <2>1. flow[c].parent = "none" BY <1>1 DEF CreateExecDoes, UpdateExecDoes, DeleteExecDoes,
                                              FlowFits, HasFlow
    <2>2. CASE UNCHANGED flow BY <2>2 DEF FlowMove
    <2>3. CASE CreateExecDoes(c) /\ FlowBecomes(c, "START", "waiting", "start", "", "")
               /\ CallBecomes(c, "create", "started")
      <3>1. Execs(c, "START")
        BY <2>1, <2>3 DEF CreateExecDoes, FlowBecomes, CallBecomes, Execs, InCall
      <3> QED BY <3>1 DEF FlowMove, FlowActions
    <2>4. CASE UpdateExecDoes(c) /\ FlowBecomes(c, "UPDATE", "waiting", "start", "", "")
               /\ CallBecomes(c, "update", "started")
      <3>1. Execs(c, "UPDATE")
        BY <2>1, <2>4 DEF UpdateExecDoes, FlowBecomes, CallBecomes, Execs, InCall
      <3> QED BY <3>1 DEF FlowMove, FlowActions
    <2>5. CASE DeleteExecDoes(c) /\ FlowBecomes(c, "STOP", "waiting", "start", "", "")
               /\ CallBecomes(c, "delete", "started")
      <3>1. Execs(c, "STOP")
        BY <2>1, <2>5 DEF DeleteExecDoes, FlowBecomes, CallBecomes, Execs, InCall
      <3> QED BY <3>1 DEF FlowMove, FlowActions
    <2> QED BY <1>1, <2>2, <2>3, <2>4, <2>5 DEF CreateExecDoes, UpdateExecDoes,
                                                DeleteExecDoes, Starts
  <1>2. CASE StartStackDoes(c) \/ UpdateStackDoes(c) \/ StopStackDoes(c)
    <2>1. HasFlow(c) /\ Running(c) /\ call' = call
      BY <1>2 DEF StartStackDoes, UpdateStackDoes, StopStackDoes, FlowFits, HasFlow, Running
    <2>2. \/ ChildBecomes(c, "wait") \/ ChildBecomes(c, "failed")
          \/ Answers(c, "CREATE_FAILED", "") \/ Answers(c, "DELETE_FAILED", "")
      BY <1>2 DEF StartStackDoes, UpdateStackDoes, StopStackDoes
    <2> QED BY <2>1, <2>2 DEF ChildBecomes, Answers, FlowBecomes, FlowMove, HasFlow
  <1>3. CASE WaitElapsesDoes(c)
    BY <1>3 DEF WaitElapsesDoes, ChildBecomes, FlowBecomes, FlowMove, HasFlow, FlowFits, Running
  <1>4. CASE QueryDoes(c)
    <2>1. \/ ChildBecomes(c, "wait") \/ ChildBecomes(c, "failed") \/ Answers(c, stack, "arn")
      BY <1>4 DEF QueryDoes
    <2>2. flow[c].child = "query" /\ call' = call BY <1>4 DEF QueryDoes
    <2> QED BY <2>1, <2>2 DEF ChildBecomes, Answers, FlowBecomes, FlowMove, HasFlow, FlowFits,
                              Running
  <1>5. CASE NotifyDoes(c)
    <2>1. flow[c].child = "notify" /\ call' = call BY <1>5 DEF NotifyDoes
    <2>2. ParentBecomes(c, "update", "end") \/ ChildBecomes(c, "end") BY <1>5 DEF NotifyDoes
    <2> QED BY <2>1, <2>2 DEF ChildBecomes, ParentBecomes, FlowBecomes, FlowMove, HasFlow,
                              FlowFits, Running
  <1>6. CASE UpdateStatusDoes(c)
    <2>1. flow[c].parent = "update" /\ call' = call /\ flow[c].child # "query"
      BY <1>6 DEF UpdateStatusDoes, FlowFits
    <2>2. ParentBecomes(c, "failed", flow[c].child) \/ ParentBecomes(c, "done", flow[c].child)
      BY <1>6 DEF UpdateStatusDoes
    <2> QED BY <2>1, <2>2 DEF ParentBecomes, FlowBecomes, FlowMove, HasFlow, Running
  <1>7. CASE UNCHANGED flow BY <1>7 DEF FlowMove
  <1> QED BY <1>1, <1>2, <1>3, <1>4, <1>5, <1>6, <1>7 DEF Does, BeginDoes,
         CreateExecDoes, CreatePutDoes, UpdateExecDoes, UpdatePutDoes,
         DeleteCheckDoes, DeleteExecDoes, DeleteWriteDoes, IngestDoes,
         PauseRememberDoes, ThrottleDoes, PauseWriteDoes, RestoreDoes,
         ResumeWriteDoes, CallDiesDoes, StopIngestionDoes, StartStackDoes,
         UpdateStackDoes, StopStackDoes, WaitElapsesDoes, QueryDoes, NotifyDoes,
         UpdateStatusDoes

(* A step of a call that is under way, or its beginning.                       *)
LEMMA CallMoves ==
    ASSUME NEW c \in Calls, Does(c), OthersStay(c), NEW d \in Calls, InCall(d)'
    PROVE  \/ InCall(d) /\ call'[d].op = call[d].op
           \/ d = c /\ \E op \in Operations : BeginDoes(c, op)
  BY CallGoesOn DEF OthersStay, InCall

(* Nothing runs when a call begins that is not an alarm.                       *)
LEMMA NothingRuns ==
    ASSUME Careful, NEW c \in Calls, NEW op \in Operations, BeginDoes(c, op), op # "pause",
           NEW d \in Calls, FlowFits(d), Owned(d)
    PROVE  ~Running(d)
  <1> SUFFICES ASSUME Running(d) PROVE FALSE OBVIOUS
  <1>1. /\ call[d].op \in {"create", "update", "delete"}
        /\ flow[d].action \in {"START", "UPDATE", "STOP"}
        /\ call[d].pc \in {"started", "done", "failed"}
    BY RunningFits
  <1>2. CASE call[d].pc = "started"
    BY <1>1, <1>2, BeginsLate DEF InCall
  <1>3. CASE item.status \in {"CREATING", "UPDATING", "PAUSED", "DELETING"}
    <2>1. op # "create" /\ op # "resume" BY <1>1, BeginsLate
    <2>2. item.status \in {"ACTIVE", "ERROR"} BY <2>1, BeginsLate DEF Operations
    <2> QED BY <1>3, <2>2
  <1> QED BY <1>1, <1>2, <1>3 DEF Owned

LEMMA OwnedMover ==
    ASSUME NEW c \in Calls, BuiltFor(c), OrderlyFor(c), Owned(c), Does(c),
           CallDiesDoes(c) => ~HasFlow(c)
    PROVE  Owned(c)'
  <1> SUFFICES ASSUME Running(c)'
               PROVE  \/ call'[c].pc = "started"
                      \/ /\ call'[c].pc = "done"
                         /\ flow'[c].action = "START" => item'.status = "CREATING"
                         /\ flow'[c].action = "UPDATE" => item'.status \in {"UPDATING", "PAUSED"}
                         /\ flow'[c].action = "STOP" => item'.status \in {"DELETING", "PAUSED"}
    BY DEF Owned
  <1>a. FlowFits(c) BY DEF BuiltFor
  <1>1. CASE \E action \in FlowActions : Execs(c, action) BY <1>1 DEF Execs
  <1>2. CASE Running(c) /\ flow'[c].action = flow[c].action
    <2>1. /\ HasFlow(c) /\ call[c].pc \in {"started", "done", "failed"}
          /\ \/ call[c].op = "create" /\ flow[c].action = "START"
             \/ call[c].op = "update" /\ flow[c].action = "UPDATE"
             \/ call[c].op = "delete" /\ flow[c].action = "STOP"
      BY <1>2, <1>a, RunningFits
    <2>2. CASE UNCHANGED <<item, call>> BY <1>2, <2>2 DEF Owned
    <2>3. CASE CreatePutDoes(c) \/ UpdatePutDoes(c)
      BY <1>2, <2>1, <2>3 DEF CreatePutDoes, UpdatePutDoes, RowBecomes, CallBecomes
    <2>4. CASE DeleteWriteDoes(c)
      <3>1. call[c].read.stackId # "" BY <2>4 DEF DeleteWriteDoes, OrderlyFor, InCall
      <3> QED BY <1>2, <2>1, <2>4, <3>1 DEF DeleteWriteDoes, RowBecomes, CallBecomes
    <2>5. ~CallDiesDoes(c) BY <2>1
    <2>6. ~UpdateStatusDoes(c)
      BY <1>a DEF UpdateStatusDoes, FlowFits, ParentBecomes, FlowBecomes, Running
    <2>7. \A op \in Operations : ~BeginDoes(c, op) BY <2>1 DEF BeginDoes
    <2>8. ~(CreateExecDoes(c) \/ UpdateExecDoes(c) \/ DeleteCheckDoes(c) \/ DeleteExecDoes(c)
            \/ IngestDoes(c) \/ RestoreDoes(c))
      BY <2>1 DEF CreateExecDoes, UpdateExecDoes, DeleteCheckDoes, DeleteExecDoes, IngestDoes,
                  RestoreDoes
    <2>9. ~(PauseRememberDoes(c) \/ ThrottleDoes(c) \/ PauseWriteDoes(c) \/ ResumeWriteDoes(c))
      BY <2>1 DEF PauseRememberDoes, ThrottleDoes, PauseWriteDoes, ResumeWriteDoes
    <2> QED BY <2>2, <2>3, <2>4, <2>5, <2>6, <2>7, <2>8, <2>9 DEF Does, StartStackDoes,
            UpdateStackDoes, StopStackDoes, WaitElapsesDoes, QueryDoes, NotifyDoes,
            StopIngestionDoes
  <1>3. CASE flow'[c] = flow[c] BY <1>2, <1>3 DEF Running
  <1> QED BY <1>1, <1>2, <1>3, <1>a, MovesFlow DEF FlowMove

LEMMA OwnedOthers ==
    ASSUME NEW c \in Calls, BuiltFor(c), OrderlyFor(c), Does(c), OthersStay(c), Alone,
           NEW d \in Calls, d # c, OrderlyFor(d), Owned(d)
    PROVE  Owned(d)'
  <1>1. call'[d] = call[d] /\ flow'[d] = flow[d] BY DEF OthersStay
  <1>2. CASE ~Running(d) BY <1>1, <1>2 DEF Owned, Running
  <1>3. CASE Running(d)
    <2>1. ~(InCall(c) /\ call[c].op # "pause") BY <1>3 DEF Alone
    <2>2. flow[c].parent # "update" BY <1>3 DEF Alone, Running
    <2>3. CASE item'.status = item.status BY <1>1, <2>3 DEF Owned, Running
    <2>4. CASE InCall(c) /\ call[c].op = "pause" /\ item'.status = "PAUSED"
      <3>1. item.status \notin Early BY <2>4 DEF OrderlyFor, InCall, Opened
      <3>2. flow[d].action # "START" BY <1>3, <3>1 DEF OrderlyFor
      <3> QED BY <1>1, <2>4, <3>2 DEF Owned, Running
    <2> QED BY <2>1, <2>2, <2>3, <2>4, WritesRow DEF RowWriter
  <1> QED BY <1>2, <1>3

LEMMA IngestsMover ==
    ASSUME NEW c \in Calls, Ingests(c), Does(c) PROVE Ingests(c)'
  <1>1. CASE \E op \in Operations : BeginDoes(c, op)
    <2>1. PICK op \in Operations : BeginDoes(c, op) BY <1>1
    <2>2. op = "ingest" => kind = "app" BY <2>1 DEF BeginDoes, Accepts
    <2> QED BY <2>1, <2>2, KindStays DEF BeginDoes, Ingests
  <1>2. CASE call'[c] = call[c] BY <1>2, KindStays DEF Ingests, Opened
  <1>3. CASE call'[c].op = call[c].op /\ InCall(c)
    BY <1>3, KindStays DEF Ingests, Opened, InCall
  <1> QED BY <1>1, <1>2, <1>3, CallGoesOn

LEMMA ReturnedDeletion ==
    ASSUME NEW c \in Calls, BuiltFor(c), OrderlyFor(c), Deleter(c), Does(c), OthersStay(c),
           kind = "app", call'[c].op = "delete", call'[c].pc \in {"started", "done"}
    PROVE  HasFlow(c)'
  <1>a. HasFlow(c) => HasFlow(c)' BY FlowIsStartedOnce DEF BuiltFor, FlowStays
  <1>1. CASE call'[c] = call[c] BY <1>1, <1>a DEF Deleter
  <1>2. CASE DeleteExecDoes(c)
    <2>1. call[c].read.stackId # "" BY <1>2 DEF DeleteExecDoes, OrderlyFor, InCall
    <2> QED BY <1>2, <2>1 DEF DeleteExecDoes, Starts, FlowBecomes, HasFlow
  <1>3. CASE DeleteWriteDoes(c) BY <1>3, <1>a DEF DeleteWriteDoes, Deleter
  <1>4. ~(CreateExecDoes(c) \/ UpdateExecDoes(c) \/ DeleteCheckDoes(c) \/ IngestDoes(c)
          \/ CreatePutDoes(c) \/ UpdatePutDoes(c))
    BY DEF CreateExecDoes, UpdateExecDoes, DeleteCheckDoes, IngestDoes, CreatePutDoes,
           UpdatePutDoes, Starts, CallBecomes
  <1>5. ~(RestoreDoes(c) \/ PauseRememberDoes(c) \/ ThrottleDoes(c) \/ PauseWriteDoes(c)
          \/ ResumeWriteDoes(c) \/ CallDiesDoes(c))
    BY DEF RestoreDoes, PauseRememberDoes, ThrottleDoes, PauseWriteDoes, ResumeWriteDoes,
           CallDiesDoes, CallBecomes
  <1>6. \A op \in Operations : ~BeginDoes(c, op) BY DEF BeginDoes
  <1> QED BY <1>1, <1>2, <1>3, <1>4, <1>5, <1>6 DEF Does, StartStackDoes, StopIngestionDoes,
          UpdateStackDoes, StopStackDoes, WaitElapsesDoes, QueryDoes, NotifyDoes,
          UpdateStatusDoes

(* The last step of a deletion: it does not report what it has no id for.      *)
LEMMA DeletionReports ==
    ASSUME NEW c \in Calls, BuiltFor(c), Does(c), flow[c].parent # "done",
           flow'[c].parent = "done", flow'[c].action = "STOP"
    PROVE  flow'[c].result.id # "" /\ item'.status \in {"INACTIVE", "ERROR"}
  <1>1. CASE UpdateStatusDoes(c)
    <2>1. \A status : /\ status \in {"", "CREATE_FAILED", "DELETE_FAILED"} =>
                            StatusOf(status) = "ERROR"
                      /\ status \in {"", "DELETE_COMPLETE", "DELETE_FAILED"} =>
                            StatusOf(status) \in {"INACTIVE", "ERROR"}
      BY DEF StatusOf
    <2>2. /\ ~StepRaises(c) /\ ParentBecomes(c, "done", flow[c].child)
          /\ item'.status = StatusOf(flow[c].result.status)
      BY <1>1 DEF UpdateStatusDoes, RowBecomes, ParentBecomes, FlowBecomes
    <2>3. flow[c].action = "STOP" /\ flow'[c].result.id = flow[c].result.id
      BY <2>2 DEF ParentBecomes, FlowBecomes
    <2>4. flow[c].result.status \in {"", "DELETE_COMPLETE", "DELETE_FAILED"}
      BY <2>3 DEF BuiltFor, Deletes
    <2>5. flow[c].result.id # "" BY <2>1, <2>2 DEF StepRaises, BuiltFor, Knows
    <2> QED BY <2>1, <2>2, <2>3, <2>4, <2>5
  <1>2. CASE CreateExecDoes(c) \/ UpdateExecDoes(c) \/ DeleteExecDoes(c)
    BY <1>2 DEF CreateExecDoes, UpdateExecDoes, DeleteExecDoes, Starts, FlowBecomes
  <1>3. CASE StartStackDoes(c) \/ UpdateStackDoes(c) \/ StopStackDoes(c)
    BY <1>3 DEF StartStackDoes, UpdateStackDoes, StopStackDoes, ChildBecomes, Answers,
                FlowBecomes
  <1>4. CASE WaitElapsesDoes(c) \/ QueryDoes(c) \/ NotifyDoes(c)
    BY <1>4 DEF WaitElapsesDoes, QueryDoes, NotifyDoes, ChildBecomes, Answers, ParentBecomes,
                FlowBecomes
  <1>5. CASE UNCHANGED flow BY <1>5
  <1> QED BY <1>1, <1>2, <1>3, <1>4, <1>5 DEF Does, BeginDoes,
         CreateExecDoes, CreatePutDoes, UpdateExecDoes, UpdatePutDoes,
         DeleteCheckDoes, DeleteExecDoes, DeleteWriteDoes, IngestDoes,
         PauseRememberDoes, ThrottleDoes, PauseWriteDoes, RestoreDoes,
         ResumeWriteDoes, CallDiesDoes, StopIngestionDoes, StartStackDoes,
         UpdateStackDoes, StopStackDoes, WaitElapsesDoes, QueryDoes, NotifyDoes,
         UpdateStatusDoes

LEMMA AloneStep ==
    ASSUME Careful, Built, Orderly, Calm, NEW c \in Calls, Does(c), OthersStay(c)
    PROVE  Alone'
  <1>a. \A d \in Calls : FlowFits(d) /\ Owned(d) BY DEF Built, BuiltFor, Calm, CalmFor
  <1>b. Alone /\ OneCall BY DEF Calm, Orderly
  <1>1. CASE \E op \in Operations : BeginDoes(c, op)
    <2>1. PICK op \in Operations : BeginDoes(c, op) BY <1>1
    <2>2. /\ UNCHANGED flow /\ call'[c].op = op
          /\ \A d \in Calls : d # c => call'[d] = call[d]
      BY <2>1 DEF BeginDoes, OthersStay
    <2>3. \A d \in Calls : Running(d)' <=> Running(d) BY <2>2 DEF Running
    <2>4. op # "pause" => \A d \in Calls : ~Running(d) BY <2>1, <1>a, NothingRuns
    <2> QED BY <1>b, <2>2, <2>3, <2>4 DEF Alone, InCall
  <1>2. CASE ~\E op \in Operations : BeginDoes(c, op)
    <2>1. \A d \in Calls : InCall(d)' => InCall(d) /\ call'[d].op = call[d].op
      BY <1>2, CallMoves
    <2>2. CASE \E action \in FlowActions : Execs(c, action)
      <3>1. InCall(c) /\ call[c].op # "pause" BY <2>2 DEF Execs
      <3>2. \A d \in Calls : d # c => ~Running(d) BY <3>1, <1>b DEF Alone
      <3>3. \A d \in Calls : Running(d)' => d = c BY <3>2 DEF Running, OthersStay
      <3>4. \A d \in Calls : d # c /\ InCall(d) => call[d].op = "pause"
        BY <3>1, <1>b DEF OneCall, Apart
      <3> QED BY <2>1, <3>3, <3>4 DEF Alone
    <2>3. CASE flow'[c] = flow[c] \/ Running(c)
      <3>1. \A d \in Calls : Running(d)' => Running(d) BY <2>3 DEF Running, OthersStay
      <3> QED BY <2>1, <3>1, <1>b DEF Alone
    <2> QED BY <2>2, <2>3, <1>a, MovesFlow DEF FlowMove
  <1> QED BY <1>1, <1>2

LEMMA PauseApartStep ==
    ASSUME Built, PauseApart, NEW c \in Calls, Does(c), OthersStay(c)
    PROVE  PauseApart'
  <1> SUFFICES ASSUME "Slow" \notin Faults, NEW e \in Calls, NEW d \in Calls, Inquired(e)', InCall(d)',
                      call'[d].op = "pause"
               PROVE  FALSE
    BY DEF PauseApart
  <1>1. CASE Inquired(e)
    <2>1. CASE InCall(d) /\ call'[d].op = call[d].op
      BY <1>1, <2>1 DEF PauseApart
    <2>2. CASE d = c /\ \E op \in Operations : BeginDoes(c, op)
      <3>1. PICK op \in Operations : BeginDoes(c, op) BY <2>2
      <3>2. op = "pause" BY <3>1, <2>2 DEF BeginDoes
      <3>3. stack \in Usable \cup {"UPDATE_IN_PROGRESS"} BY <3>1, <3>2 DEF BeginDoes, Raised
      <3>4. stack \in Deletion BY <1>1 DEF Built, BuiltFor, Deletes, Inquired
      <3> QED BY <3>3, <3>4 DEF Usable, Deletion
    <2> QED BY <2>1, <2>2, CallMoves
  <1>2. CASE ~Inquired(e)
    <2>1. e = c BY <1>2 DEF OthersStay, Inquired
    <2>2. CASE \E action \in FlowActions : Execs(c, action)
      BY <2>1, <2>2 DEF Execs, Inquired
    <2>3. CASE flow'[c] = flow[c] BY <1>2, <2>1, <2>3 DEF Inquired
    <2>4. CASE /\ call' = call /\ flow'[c].action = flow[c].action
               /\ flow'[c].child = "query" => "Slow" \in Faults \/ Quick
               /\ flow'[c].result.id # "" => flow[c].child = "query" \/ flow[c].result.id # ""
      <3>1. flow'[c].child = "query" BY <1>2, <2>1, <2>4 DEF Inquired
      <3>2. Quick BY <2>4, <3>1
      <3> QED BY <2>4, <3>2 DEF Quick, InCall
    <2>5. FlowFits(c) BY DEF Built, BuiltFor
    <2> QED BY <2>2, <2>3, <2>4, <2>5, MovesFlow DEF FlowMove
  <1> QED BY <1>1, <1>2

(* The deletion starts with its flow.                                          *)
LEMMA StoppedFrom ==
    ASSUME NEW c \in Calls, FlowFits(c), Does(c), OthersStay(c), Stopped'
    PROVE  Stopped \/ Execs(c, "STOP")
  <1>1. PICK d \in Calls : Stopper(d)' BY DEF Stopped
  <1>2. CASE d # c BY <1>1, <1>2 DEF OthersStay, Stopper, HasFlow, Stopped
  <1>3. CASE d = c
    <2>1. CASE \E action \in FlowActions : Execs(c, action)
      BY <1>1, <1>3, <2>1 DEF Execs, Stopper
    <2>2. CASE flow'[c] = flow[c] BY <1>1, <1>3, <2>2 DEF Stopper, HasFlow, Stopped
    <2>3. CASE HasFlow(c) /\ flow'[c].action = flow[c].action
      BY <1>1, <1>3, <2>3 DEF Stopper, Stopped
    <2> QED BY <2>1, <2>2, <2>3, MovesFlow DEF FlowMove
  <1> QED BY <1>2, <1>3

LEMMA StoppedCallsStep ==
    ASSUME Careful, Built, Orderly, Calm, NEW c \in Calls, Does(c), OthersStay(c)
    PROVE  StoppedCalls'
  <1> SUFFICES ASSUME Stopped', NEW d \in Calls, InCall(d)'
               PROVE  call'[d].op \in {"delete", "pause"}
    BY DEF StoppedCalls
  <1>a. FlowFits(c) BY DEF Built, BuiltFor
  <1>1. CASE Execs(c, "STOP")
    <2>1. InCall(c) /\ call[c].op = "delete" /\ call'[c].op = "delete" BY <1>1 DEF Execs
    <2>2. CASE d = c BY <2>1, <2>2
    <2>3. CASE d # c
      <3>1. InCall(d) /\ call'[d] = call[d] BY <2>3 DEF OthersStay, InCall
      <3> QED BY <2>1, <2>3, <3>1 DEF Orderly, OneCall, Apart
    <2> QED BY <2>2, <2>3
  <1>2. CASE Stopped
    <2>1. CASE InCall(d) /\ call'[d].op = call[d].op
      BY <1>2, <2>1 DEF Calm, StoppedCalls
    <2>2. CASE d = c /\ \E op \in Operations : BeginDoes(c, op)
      <3>1. PICK op \in Operations : BeginDoes(c, op) BY <2>2
      <3>2. PICK e \in Calls : Stopper(e) BY <1>2 DEF Stopped
      <3>3. call[e].op = "delete" /\ call[e].pc # "idle"
        BY <3>2 DEF Built, BuiltFor, FlowFits, Stopper
      <3>4. op # "create" /\ op # "resume" BY <3>1, <3>3, BeginsLate
      <3>5. op \notin {"update", "ingest"}
        <4> SUFFICES ASSUME op \in {"update", "ingest"} PROVE FALSE OBVIOUS
        <4>1. item.status = "ACTIVE" BY <3>1, BeginsLate
        <4>2. \A f \in Calls : InCall(f) => call[f].op = "pause" BY <3>1, BeginsLate
        <4> QED BY <1>2, <4>1, <4>2 DEF Calm, StoppedRow, Stopping, InCall
      <3> QED BY <2>2, <3>1, <3>4, <3>5 DEF BeginDoes, Operations
    <2> QED BY <2>1, <2>2, CallMoves
  <1> QED BY <1>1, <1>2, <1>a, StoppedFrom

LEMMA StoppedFlowsStep ==
    ASSUME Built, Calm, NEW c \in Calls, Does(c), OthersStay(c)
    PROVE  StoppedFlows'
  <1> SUFFICES ASSUME Stopped', NEW d \in Calls, Running(d)'
               PROVE  flow'[d].action = "STOP"
    BY DEF StoppedFlows
  <1>a. FlowFits(c) BY DEF Built, BuiltFor
  <1>1. CASE Execs(c, "STOP")
    <2>1. InCall(c) /\ call[c].op # "pause" BY <1>1 DEF Execs
    <2>2. d = c BY <2>1 DEF Calm, Alone, Running, OthersStay
    <2> QED BY <1>1, <2>2 DEF Execs
  <1>2. CASE Stopped
    <2>1. \A e \in Calls : Running(e) => flow[e].action = "STOP"
      BY <1>2 DEF Calm, StoppedFlows
    <2>2. CASE d # c BY <2>1, <2>2 DEF OthersStay, Running
    <2>3. CASE d = c
      <3>1. CASE \E action \in FlowActions : Execs(c, action)
        <4>1. PICK action \in FlowActions : Execs(c, action) BY <3>1
        <4>2. call[c].op = "delete" BY <1>2, <4>1 DEF Execs, Calm, StoppedCalls
        <4> QED BY <2>3, <4>1, <4>2 DEF Execs
      <3>2. CASE flow'[c] = flow[c] BY <2>1, <2>3, <3>2 DEF Running
      <3>3. CASE Running(c) /\ flow'[c].action = flow[c].action BY <2>1, <2>3, <3>3
      <3> QED BY <3>1, <3>2, <3>3, <1>a, MovesFlow DEF FlowMove
    <2> QED BY <2>2, <2>3
  <1> QED BY <1>1, <1>2, <1>a, StoppedFrom

(* While the stack is being deleted only the deletion and the alarm write.     *)
LEMMA StoppedWriter ==
    ASSUME Built, Orderly, Calm, NEW c \in Calls, Does(c), Stopped
    PROVE  \/ item'.status = item.status
           \/ item'.status \in {"DELETING", "INACTIVE", "ERROR"}
           \/ InCall(c) /\ call[c].op = "pause" /\ item'.status = "PAUSED"
  <1>1. BuiltFor(c) /\ OrderlyFor(c) BY DEF Built, Orderly
  <1>2. ~(InCall(c) /\ call[c].op \in {"create", "update", "resume"})
    BY DEF Calm, StoppedCalls
  <1>3. flow[c].parent = "update" => flow[c].action = "STOP"
    BY DEF Calm, StoppedFlows, Running
  <1> QED BY <1>1, <1>2, <1>3, WritesRow DEF RowWriter

LEMMA StoppedRowStep ==
    ASSUME Built, Orderly, Calm, NEW c \in Calls, Does(c), OthersStay(c),
           CallDiesDoes(c) => ~HasFlow(c)
    PROVE  StoppedRow'
  <1> SUFFICES ASSUME Stopped'
               PROVE  \/ item'.status \in {"DELETING", "PAUSED", "INACTIVE", "ERROR"}
                      \/ \E e \in Calls : Stopping(e)'
    BY DEF StoppedRow
  <1>a. FlowFits(c) BY DEF Built, BuiltFor
  <1>1. CASE Execs(c, "STOP") BY <1>1 DEF Execs, Stopping, HasFlow
  <1>2. CASE Stopped
    <2>1. CASE item'.status # item.status BY <1>2, <2>1, StoppedWriter
    <2>2. CASE item'.status = item.status
      <3>1. CASE item.status \in {"DELETING", "PAUSED", "INACTIVE", "ERROR"}
        BY <2>2, <3>1
      <3>2. CASE \E e \in Calls : Stopping(e)
        <4>1. PICK e \in Calls : Stopping(e) BY <3>2
        <4>2. HasFlow(e)' BY <1>a, <4>1, FlowIsStartedOnce DEF FlowStays, Stopping
        <4>3. CASE call'[e] = call[e] BY <4>1, <4>2, <4>3 DEF Stopping
        <4>4. CASE e = c
          <5>1. call[c].op = "delete" /\ call[c].pc = "started" /\ HasFlow(c)
            BY <4>1, <4>4 DEF Stopping
          <5>2. CASE call'[c] = call[c] BY <4>3, <4>4, <5>2
          <5>3. CASE DeleteWriteDoes(c) BY <5>3 DEF DeleteWriteDoes, RowBecomes
          <5>4. ~CallDiesDoes(c) BY <5>1
          <5>5. \A op \in Operations : ~BeginDoes(c, op) BY <5>1 DEF BeginDoes
          <5>6. ~(CreateExecDoes(c) \/ UpdateExecDoes(c) \/ DeleteCheckDoes(c)
                  \/ DeleteExecDoes(c) \/ IngestDoes(c) \/ CreatePutDoes(c) \/ UpdatePutDoes(c))
            BY <5>1 DEF CreateExecDoes, UpdateExecDoes, DeleteCheckDoes, DeleteExecDoes,
                        IngestDoes, CreatePutDoes, UpdatePutDoes
          <5>7. ~(RestoreDoes(c) \/ PauseRememberDoes(c) \/ ThrottleDoes(c)
                  \/ PauseWriteDoes(c) \/ ResumeWriteDoes(c))
            BY <5>1 DEF RestoreDoes, PauseRememberDoes, ThrottleDoes, PauseWriteDoes,
                        ResumeWriteDoes
          <5> QED BY <5>2, <5>3, <5>4, <5>5, <5>6, <5>7 DEF Does, StartStackDoes,
                  StopIngestionDoes, UpdateStackDoes, StopStackDoes, WaitElapsesDoes,
                  QueryDoes, NotifyDoes, UpdateStatusDoes
        <4> QED BY <4>3, <4>4 DEF OthersStay
      <3> QED BY <1>2, <3>1, <3>2 DEF Calm, StoppedRow
    <2> QED BY <2>1, <2>2
  <1> QED BY <1>1, <1>2, <1>a, StoppedFrom

LEMMA DeleterStep ==
    ASSUME Built, Orderly, Calm, NEW c \in Calls, Does(c), OthersStay(c), NEW d \in Calls
    PROVE  Deleter(d)'
  <1>a. BuiltFor(c) /\ OrderlyFor(c) /\ Deleter(c) /\ Deleter(d) /\ FlowFits(d) /\ kind' = kind
    BY KindStays DEF Built, BuiltFor, Orderly, Calm, CalmFor
  <1>1. kind' = "app" /\ call'[d].op = "delete" /\ call'[d].pc \in {"started", "done"}
           => HasFlow(d)'
    <2>1. CASE d = c BY <2>1, <1>a, ReturnedDeletion
    <2>2. CASE d # c BY <2>2, <1>a DEF OthersStay, Deleter, HasFlow
    <2> QED BY <2>1, <2>2
  <1>2. ASSUME flow'[d].action = "STOP", flow'[d].parent = "done"
        PROVE  /\ flow'[d].result.id # ""
               /\ "Slow" \notin Faults => item'.status \in {"INACTIVE", "ERROR", "DELETING"}
    <2>1. CASE flow[d].parent # "done"
      <3>1. d = c BY <1>2, <2>1 DEF OthersStay
      <3> QED BY <1>2, <1>a, <2>1, <3>1, DeletionReports
    <2>2. CASE flow[d].parent = "done"
      <3>1. flow'[d].action = flow[d].action
        BY <1>a, <2>2, FlowIsStartedOnce DEF FlowStays, HasFlow, BuiltFor
      <3>2. flow'[d] = flow[d]
        <4>1. CASE d # c BY <4>1 DEF OthersStay
        <4>2. CASE d = c
          <5>1. ~Running(c) /\ flow[c].parent # "none"
            BY <1>a, <2>2, <4>2 DEF Running, FlowFits
          <5> QED BY <5>1, <1>a, <4>2, MovesFlow DEF FlowMove, Execs, BuiltFor
        <4> QED BY <4>1, <4>2
      <3>3. /\ flow[d].result.id # ""
            /\ "Slow" \notin Faults => item.status \in {"INACTIVE", "ERROR", "DELETING"}
        BY <1>2, <1>a, <2>2, <3>1 DEF Deleter
      <3>4. Inquired(d) /\ Stopped
        BY <1>2, <2>2, <3>1, <3>3 DEF Inquired, Stopped, Stopper, HasFlow
      <3>5. "Slow" \notin Faults => ~(InCall(c) /\ call[c].op = "pause")
        BY <3>4 DEF Calm, PauseApart
      <3> QED BY <3>2, <3>3, <3>4, <3>5, StoppedWriter
    <2> QED BY <2>1, <2>2
  <1> QED BY <1>1, <1>2 DEF Deleter

(* An ingestion is not added once the deletion has looked for one.             *)
LEMMA StoppedIngestStep ==
    ASSUME Built, Orderly, Calm, NEW c \in Calls, Does(c), OthersStay(c)
    PROVE  StoppedIngest'
  <1>a. FlowFits(c) /\ Ingests(c) /\ StoppedIngest BY DEF Built, BuiltFor, Calm, CalmFor
  <1>1. CASE IngestDoes(c)
    <2>1. InCall(c) /\ call[c].op = "ingest" /\ call'[c].op = "ingest" /\ UNCHANGED <<kind, flow>>
      BY <1>1 DEF IngestDoes, InCall, CallBecomes
    <2>2. kind # "svc" BY <2>1, <1>a DEF Ingests, Opened, InCall
    <2>3. ~Stopped BY <2>1 DEF Calm, StoppedCalls
    <2>4. ~Stopped' BY <2>1, <2>3 DEF Stopped, Stopper, HasFlow
    <2>5. ASSUME NEW d \in Calls, Checked(d)' PROVE FALSE
      <3>1. d # c BY <2>1, <2>5 DEF Checked
      <3>2. InCall(d) /\ call[d].op = "delete" BY <2>5, <3>1 DEF Checked, OthersStay, InCall
      <3> QED BY <2>1, <3>1, <3>2 DEF Orderly, OneCall, Apart
    <2> QED BY <2>1, <2>2, <2>4, <2>5 DEF StoppedIngest
  <1>2. CASE ingestions' \subseteq ingestions
    <2>1. kind' = kind BY KindStays
    <2>2. ingestions = {} => ingestions' = {} BY <1>2
    <2>3. ASSUME kind = "app", Stopped' PROVE ingestions = {}
      <3>1. CASE Stopped BY <2>3, <3>1, <1>a DEF StoppedIngest
      <3>2. CASE Execs(c, "STOP")
        <4>1. Checked(c) BY <3>2 DEF Execs, Checked
        <4> QED BY <2>3, <4>1, <1>a DEF StoppedIngest
      <3> QED BY <2>3, <3>1, <3>2, <1>a, StoppedFrom
    <2>4. ASSUME kind = "app", NEW d \in Calls, Checked(d)' PROVE ingestions = {}
      <3>1. CASE Checked(d) BY <2>4, <3>1, <1>a DEF StoppedIngest
      <3>2. CASE ~Checked(d)
        <4>1. d = c BY <2>4, <3>2 DEF OthersStay, Checked
        <4>2. CASE DeleteCheckDoes(c)
          BY <2>4, <4>1, <4>2 DEF DeleteCheckDoes, CallBecomes, Checked
        <4>3. ~DeleteExecDoes(c) BY <3>2, <4>1 DEF DeleteExecDoes, Checked
        <4>4. ~(CreateExecDoes(c) \/ UpdateExecDoes(c) \/ IngestDoes(c) \/ CreatePutDoes(c)
                \/ UpdatePutDoes(c) \/ DeleteWriteDoes(c) \/ CallDiesDoes(c))
          BY <2>4, <4>1 DEF CreateExecDoes, UpdateExecDoes, IngestDoes, CreatePutDoes,
             UpdatePutDoes, DeleteWriteDoes, CallDiesDoes, Starts, CallBecomes, Checked
        <4>5. ~(RestoreDoes(c) \/ PauseRememberDoes(c) \/ ThrottleDoes(c)
                \/ PauseWriteDoes(c) \/ ResumeWriteDoes(c))
          BY <2>4, <4>1 DEF RestoreDoes, PauseRememberDoes, ThrottleDoes, PauseWriteDoes,
             ResumeWriteDoes, CallBecomes, Checked
        <4>6. \A op \in Operations : ~BeginDoes(c, op)
          BY <2>4, <4>1 DEF BeginDoes, Checked
        <4>7. CASE call' = call BY <2>4, <3>2, <4>7 DEF Checked
        <4> QED BY <4>2, <4>3, <4>4, <4>5, <4>6, <4>7 DEF Does, StartStackDoes,
                StopIngestionDoes, UpdateStackDoes, StopStackDoes, WaitElapsesDoes,
                QueryDoes, NotifyDoes, UpdateStatusDoes
      <3> QED BY <3>1, <3>2
    <2>5. kind = "svc" => ingestions' = {} BY <2>2, <1>a DEF StoppedIngest
    <2> QED BY <2>1, <2>2, <2>3, <2>4, <2>5 DEF StoppedIngest
  <1>3. StopIngestionDoes(c) => ingestions' \subseteq ingestions BY DEF StopIngestionDoes
  <1> QED BY <1>1, <1>2, <1>3 DEF Does, BeginDoes,
         CreateExecDoes, CreatePutDoes, UpdateExecDoes, UpdatePutDoes,
         DeleteCheckDoes, DeleteExecDoes, DeleteWriteDoes, IngestDoes,
         PauseRememberDoes, ThrottleDoes, PauseWriteDoes, RestoreDoes,
         ResumeWriteDoes, CallDiesDoes, StopIngestionDoes, StartStackDoes,
         UpdateStackDoes, StopStackDoes, WaitElapsesDoes, QueryDoes, NotifyDoes,
         UpdateStatusDoes

(* The role is deleted by a call that goes on from there.                      *)
LEMMA UnroledStays ==
    ASSUME NEW c \in Calls, Does(c), Unroled(c) PROVE Unroled(c)'
  <1> USE DEF Unroled
  <1>1. CASE call' = call BY <1>1
  <1>2. CASE DeleteExecDoes(c) \/ DeleteWriteDoes(c) \/ CallDiesDoes(c)
    BY <1>2 DEF DeleteExecDoes, DeleteWriteDoes, CallDiesDoes, Starts, CallBecomes
  <1>3. \A op \in Operations : ~BeginDoes(c, op) BY DEF BeginDoes
  <1>4. ~(CreateExecDoes(c) \/ UpdateExecDoes(c) \/ DeleteCheckDoes(c)
          \/ IngestDoes(c) \/ CreatePutDoes(c) \/ UpdatePutDoes(c))
    BY DEF CreateExecDoes, UpdateExecDoes, DeleteCheckDoes, IngestDoes, CreatePutDoes,
           UpdatePutDoes
  <1>5. ~(RestoreDoes(c) \/ PauseRememberDoes(c) \/ ThrottleDoes(c)
          \/ PauseWriteDoes(c) \/ ResumeWriteDoes(c))
    BY DEF RestoreDoes, PauseRememberDoes, ThrottleDoes, PauseWriteDoes, ResumeWriteDoes
  <1> QED BY <1>1, <1>2, <1>3, <1>4, <1>5 DEF Does, StartStackDoes,
          StopIngestionDoes, UpdateStackDoes, StopStackDoes, WaitElapsesDoes,
          QueryDoes, NotifyDoes, UpdateStatusDoes

LEMMA RoleFitsStep ==
    ASSUME Built, RoleFits, NEW c \in Calls, Does(c), OthersStay(c)
    PROVE  RoleFits'
  <1> SUFFICES ASSUME kind' = "app", Roled', role' # "kept"
               PROVE  \E d \in Calls : Unroled(d)'
    BY DEF RoleFits
  <1>a. kind = "app" BY KindStays
  <1>b. RowStays(c) BY RowIsPutOnce DEF Built, BuiltFor
  <1>1. CASE DeleteCheckDoes(c) /\ CallBecomes(c, "delete", "ready")
    BY <1>1 DEF CallBecomes, Unroled
  <1>2. CASE CreateExecDoes(c) BY <1>2, <1>a DEF CreateExecDoes
  <1>3. CASE UNCHANGED role /\ ~CreateExecDoes(c)
    <2>1. Roled
      <3>1. CASE item'.status # "none"
        <4>1. item.status # "none" \/ CreatePutDoes(c) BY <1>b, <3>1 DEF RowStays
        <4> QED BY <4>1 DEF CreatePutDoes, Roled
      <3>2. CASE \E d \in Calls : call'[d].op = "create" /\ call'[d].pc = "started"
        <4>1. PICK d \in Calls : call'[d].op = "create" /\ call'[d].pc = "started" BY <3>2
        <4>2. CASE call'[d] = call[d] BY <4>1, <4>2 DEF Roled
        <4>3. CASE d = c /\ call'[d] # call[d]
          <5> USE <4>1, <4>3
          <5>1. \A op \in Operations : ~BeginDoes(c, op) BY DEF BeginDoes
          <5>2. ~(UpdateExecDoes(c) \/ DeleteCheckDoes(c) \/ DeleteExecDoes(c)
                  \/ DeleteWriteDoes(c) \/ IngestDoes(c) \/ CreatePutDoes(c)
                  \/ UpdatePutDoes(c) \/ CallDiesDoes(c))
            BY DEF UpdateExecDoes, DeleteCheckDoes, DeleteExecDoes, DeleteWriteDoes,
                   IngestDoes, CreatePutDoes, UpdatePutDoes, CallDiesDoes, Starts, CallBecomes
          <5>3. ~(RestoreDoes(c) \/ PauseRememberDoes(c) \/ ThrottleDoes(c)
                  \/ PauseWriteDoes(c) \/ ResumeWriteDoes(c))
            BY DEF RestoreDoes, PauseRememberDoes, ThrottleDoes, PauseWriteDoes,
                   ResumeWriteDoes, CallBecomes
          <5> QED BY <1>3, <5>1, <5>2, <5>3 DEF Does, StartStackDoes,
                  StopIngestionDoes, UpdateStackDoes, StopStackDoes, WaitElapsesDoes,
                  QueryDoes, NotifyDoes, UpdateStatusDoes
        <4> QED BY <4>2, <4>3 DEF OthersStay
      <3> QED BY <3>1, <3>2 DEF Roled
    <2>2. PICK d \in Calls : Unroled(d) BY <1>3, <1>a, <2>1 DEF RoleFits
    <2>3. CASE d = c BY <2>2, <2>3, UnroledStays
    <2>4. CASE d # c BY <2>2, <2>4 DEF OthersStay, Unroled
    <2> QED BY <2>3, <2>4
  <1> QED BY <1>1, <1>2, <1>3 DEF Does, BeginDoes,
         CreateExecDoes, CreatePutDoes, UpdateExecDoes, UpdatePutDoes,
         DeleteCheckDoes, DeleteExecDoes, DeleteWriteDoes, IngestDoes,
         PauseRememberDoes, ThrottleDoes, PauseWriteDoes, RestoreDoes,
         ResumeWriteDoes, CallDiesDoes, StopIngestionDoes, StartStackDoes,
         UpdateStackDoes, StopStackDoes, WaitElapsesDoes, QueryDoes, NotifyDoes,
         UpdateStatusDoes

LEMMA CalmStutter ==
    ASSUME Calm, UNCHANGED <<kind, item, role, ingestions, call, flow>> PROVE Calm'
  <1> USE DEF Calm, HasFlow, Stopper, Running, InCall
  <1>1. \A c \in Calls : CalmFor(c)'
    BY DEF CalmFor, Owned, Deleter, Ingests, Opened
  <1>2. Alone' /\ PauseApart' BY DEF Alone, PauseApart, Inquired
  <1>3. StoppedCalls' /\ StoppedFlows' BY DEF StoppedCalls, StoppedFlows, Stopped
  <1>4. StoppedRow' BY DEF StoppedRow, Stopped, Stopping
  <1>5. StoppedIngest' BY DEF StoppedIngest, Stopped, Checked
  <1>6. RoleFits' BY DEF RoleFits, Roled, Unroled
  <1> QED BY <1>1, <1>2, <1>3, <1>4, <1>5, <1>6

(* A torn call stays torn.                                                     *)
LEMMA TornStays ==
    ASSUME Built, NEW c \in Calls, Does(c), OthersStay(c), ~Torn'
    PROVE  ~Torn /\ (CallDiesDoes(c) => ~HasFlow(c))
  <1>a. FlowStays(c) BY FlowIsStartedOnce DEF Built, BuiltFor
  <1>1. ASSUME Torn PROVE FALSE
    <2>1. PICK d \in Calls : call[d].pc = "failed" /\ HasFlow(d) BY <1>1 DEF Torn, HasFlow
    <2>2. HasFlow(d)' BY <2>1, <1>a DEF FlowStays
    <2>3. call'[d] = call[d]
      <3>1. CASE d # c BY <3>1 DEF OthersStay
      <3>2. CASE d = c
        BY <2>1, <3>2, CallGoesOn DEF InCall, BeginDoes
      <3> QED BY <3>1, <3>2
    <2> QED BY <2>1, <2>2, <2>3 DEF Torn, HasFlow
  <1>2. ASSUME CallDiesDoes(c), HasFlow(c) PROVE FALSE
    <2>1. call'[c].pc = "failed" BY <1>2 DEF CallDiesDoes, CallBecomes
    <2>2. HasFlow(c)' BY <1>2, <1>a DEF FlowStays
    <2> QED BY <2>1, <2>2 DEF Torn, HasFlow
  <1> QED BY <1>1, <1>2

LEMMA CalmStep ==
    ASSUME Careful, Built, Orderly, Calm,
           NEW c \in Calls, Does(c), OthersStay(c), CallDiesDoes(c) => ~HasFlow(c)
    PROVE  Calm'
  <1>a. BuiltFor(c) /\ OrderlyFor(c) /\ CalmFor(c) /\ FlowFits(c)
    BY DEF Built, BuiltFor, Orderly, Calm
  <1>1. ASSUME NEW d \in Calls PROVE CalmFor(d)'
    <2>1. Deleter(d)' BY DeleterStep
    <2>2. CASE d = c
      BY <2>1, <2>2, <1>a, OwnedMover, IngestsMover DEF CalmFor
    <2>3. CASE d # c
      <3>1. OrderlyFor(d) /\ Owned(d) /\ Ingests(d) /\ Alone
        BY DEF Orderly, Calm, CalmFor
      <3>2. call'[d] = call[d] /\ flow'[d] = flow[d] /\ kind' = kind
        BY <2>3, KindStays DEF OthersStay
      <3>3. Owned(d)' BY <2>3, <3>1, <1>a, OwnedOthers
      <3>4. Ingests(d)' BY <3>1, <3>2 DEF Ingests, Opened
      <3> QED BY <2>1, <3>3, <3>4 DEF CalmFor
    <2> QED BY <2>2, <2>3
  <1>2. Alone' /\ StoppedCalls' /\ StoppedFlows' /\ StoppedRow'
    BY AloneStep, StoppedCallsStep, StoppedFlowsStep, StoppedRowStep
  <1>3. PauseApart' /\ StoppedIngest' /\ RoleFits'
    BY PauseApartStep, StoppedIngestStep, RoleFitsStep DEF Calm
  <1> QED BY <1>1, <1>2, <1>3 DEF Calm

LEMMA NextCalm ==
    ASSUME Careful, IInv, Built, Orderly, ~Torn => Calm, [Next]_vars
    PROVE  ~Torn' => Calm'
  <1> SUFFICES ASSUME ~Torn' PROVE Calm' OBVIOUS
  <1>1. CASE UNCHANGED vars
    <2>1. ~Torn BY <1>1 DEF vars, Torn
    <2> QED BY <1>1, <2>1, CalmStutter DEF vars
  <1>2. CASE StackEndsDoes
    <2>1. ~Torn BY <1>2 DEF StackEndsDoes, Torn
    <2> QED BY <1>2, <2>1, CalmStutter DEF StackEndsDoes
  <1>3. ASSUME NEW c \in Calls, Does(c), OthersStay(c) PROVE Calm'
    BY <1>3, TornStays, CalmStep
  <1>4. TypeOK BY DEF IInv
  <1> QED BY <1>1, <1>2, <1>3, <1>4, StepDoes

LEMMA AlwaysCalm ==
    ASSUME LifecycleAssumption, Careful
    PROVE  Spec => [](IInv /\ Built /\ Orderly /\ (~Torn => Calm))
  <1>1. Init => Calm BY InitCalm
  <1>2. IInv /\ Built /\ Orderly /\ (~Torn => Calm) /\ [Next]_vars => (~Torn => Calm)'
    BY NextCalm
  <1> QED BY <1>1, <1>2, AlwaysOrderly, PTL DEF Spec

(* With a careful operator, and no step slower than a turn of the 15 seconds   *)
(* loop, a deletion that has been carried out is not undone by an update, an   *)
(* alarm or a Resume that was under way, unless a call died half-way.          *)
THEOREM DeletionSticks ==
    ASSUME LifecycleAssumption, Careful, "Slow" \notin Faults
    PROVE  Spec => []DeleteSticks
  <1>1. (~Torn => Calm) => DeleteSticks BY DEF Calm, CalmFor, Deleter, DeleteSticks
  <1> QED BY <1>1, AlwaysCalm, PTL

(* With a careful operator a pipeline that is INACTIVE has no ingestion that   *)
(* still points at it, unless a call died half-way.                            *)
THEOREM NoIngestionOutlives ==
    ASSUME LifecycleAssumption, Careful
    PROVE  Spec => []NoIngestionLeft
  <1>1. IInv /\ Built /\ Orderly /\ (~Torn => Calm) => NoIngestionLeft
    <2> SUFFICES ASSUME IInv, Built, Orderly, Calm, item.status = "INACTIVE"
                 PROVE  ingestions = {}
      BY DEF NoIngestionLeft
    <2>1. stack = "DELETE_COMPLETE" BY DEF Orderly, RowIsTrue
    <2>2. Stopped BY <2>1 DEF Built, Made, Deletion, Stopped
    <2>3. kind \in {"svc", "app"} BY DEF IInv, TypeOK, LifecycleAssumption
    <2> QED BY <2>2, <2>3 DEF Calm, StoppedIngest
  <1> QED BY <1>1, AlwaysCalm, PTL

(* With a careful operator no deletion that was refused, and none that went    *)
(* through, leaves an application pipeline shown as ACTIVE without the role    *)
(* its agents need.  What is left is the order of delete_app_pipeline, which   *)
(* deletes the role first: a call on its way from there to the row, or dead on *)
(* it, and a call of any kind that was torn.                                   *)
THEOREM RoleStays ==
    ASSUME LifecycleAssumption, Careful
    PROVE  Spec => []RoleKept
  <1>1. Built /\ (~Torn => Calm) => RoleKept
    <2> SUFFICES ASSUME Built, Calm, kind = "app", item.status = "ACTIVE", role # "kept",
                        \A c \in Calls : call[c].op = "delete" => call[c].pc \in {"begun", "refused", "done"}
                 PROVE  FALSE
      BY DEF RoleKept
    <2>1. PICK c \in Calls : Unroled(c) BY DEF Calm, RoleFits, Roled
    <2>2. call[c].op = "delete" /\ call[c].pc = "done" BY <2>1 DEF Unroled
    <2>3. HasFlow(c) BY <2>2 DEF Calm, CalmFor, Deleter
    <2>4. Stopped BY <2>2, <2>3 DEF Built, BuiltFor, FlowFits, Stopped, Stopper
    <2>5. \A d \in Calls : ~Stopping(d) BY DEF Stopping
    <2> QED BY <2>4, <2>5 DEF Calm, StoppedRow
  <1> QED BY <1>1, AlwaysCalm, PTL
=============================================================================
