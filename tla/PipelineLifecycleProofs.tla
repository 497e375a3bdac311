---------------------- MODULE PipelineLifecycleProofs ----------------------
(* Proofs about PipelineLifecycle for any number of calls and any faults: type *)
(* correctness, that an INACTIVE application pipeline has no stack, and that a *)
(* parent flow is answered as SubStackTask says.                               *)
EXTENDS PipelineLifecycle, TLAPS

Calling == [op : Operations, pc : CallPcs, read : Items]
Flows == [action : FlowActions, parent : ParentPcs, child : ChildPcs, result : Results]

-----------------------------------------------------------------------------
(* What the values written by the actions belong to.                           *)
LEMMA Members ==
    /\ \A s \in {"CREATING", "ACTIVE", "UPDATING", "PAUSED", "DELETING", "INACTIVE",
                 "ERROR"} : s \in Statuses
    /\ \A pc \in {"ready", "started", "done", "refused", "failed"} : pc \in CallPcs
    /\ \A pc \in {"start", "wait", "query", "notify", "end", "failed"} : pc \in ChildPcs
    /\ \A pc \in {"waiting", "update", "done", "failed"} : pc \in ParentPcs
    /\ \A action \in {"START", "UPDATE", "STOP"} : action \in FlowActions
    /\ NoItem \in Items
    /\ NoResult \in Results
    /\ \A s \in {"CREATE_FAILED", "DELETE_FAILED"} : [status |-> s, id |-> ""] \in Results
    /\ \A s \in StackStatuses : [status |-> s, id |-> "arn"] \in Results
  BY DEF Statuses, CallPcs, ChildPcs, ParentPcs, FlowActions, NoItem, Items, Ids,
         NoResult, Results, StackStatuses

(* What changing one field of the row does to its type.                        *)
LEMMA ItemType ==
    ASSUME NEW row \in Items, NEW s \in Statuses
    PROVE  /\ [row EXCEPT !.status = s] \in Items
           /\ [row EXCEPT !.status = s, !.last = 1] \in Items
           /\ \A id \in Ids : [row EXCEPT !.status = s, !.stackId = id] \in Items
           /\ \A last \in {0, 1} : [row EXCEPT !.last = last] \in Items
           /\ [status |-> s, stackId |-> "", last |-> 1] \in Items
           /\ row.last \in {0, 1}
  BY DEF Items, Ids

(* What the helpers that change one call or one flow do to the types.          *)
LEMMA GotoType ==
    ASSUME call \in [Calls -> Calling], NEW c \in Calls, NEW pc \in CallPcs, Goto(c, pc)
    PROVE  call' \in [Calls -> Calling]
  BY Members DEF Goto, Calling

LEMMA AnswerType ==
    ASSUME flow \in [Calls -> Flows], NEW c \in Calls, NEW result \in Results,
           Answer(c, result)
    PROVE  flow' \in [Calls -> Flows]
  BY Members DEF Answer, Flows

LEMMA ChildToType ==
    ASSUME flow \in [Calls -> Flows], NEW c \in Calls, NEW pc \in ChildPcs, ChildTo(c, pc)
    PROVE  flow' \in [Calls -> Flows]
  BY DEF ChildTo, Flows

LEMMA ParentToType ==
    ASSUME flow \in [Calls -> Flows], NEW c \in Calls, NEW pc \in ParentPcs
    PROVE  /\ [flow EXCEPT ![c].parent = pc] \in [Calls -> Flows]
           /\ [flow EXCEPT ![c].child = "end", ![c].parent = pc] \in [Calls -> Flows]
  BY Members DEF Flows

LEMMA StartExecutionType ==
    ASSUME call \in [Calls -> Calling], flow \in [Calls -> Flows],
           NEW c \in Calls, NEW action \in FlowActions, StartExecution(c, action)
    PROVE  flow' \in [Calls -> Flows] /\ call' \in [Calls -> Calling]
  <1>1. ASSUME NewFlow(c, action) PROVE flow' \in [Calls -> Flows]
    BY <1>1, Members DEF NewFlow, Flows
  <1>2. \A pc \in {"started", "failed"} : Goto(c, pc) => call' \in [Calls -> Calling]
    BY GotoType, Members
  <1> QED BY <1>1, <1>2 DEF StartExecution

LEMMA AccidentType ==
    ASSUME LifecycleAssumption, accidents \in 0..MaxAccidents,
           \/ UNCHANGED accidents \/ \E fault : Accident(fault)
    PROVE  accidents' \in 0..MaxAccidents
  BY DEF LifecycleAssumption, Accident

LEMMA StatusType ==
    ASSUME NEW status PROVE StatusOf(status) \in {"ACTIVE", "INACTIVE", "ERROR"}
  BY DEF StatusOf

-----------------------------------------------------------------------------
(* The initial state is typed, and every step keeps it so.                     *)
LEMMA InitType == ASSUME LifecycleAssumption, Init PROVE TypeOK
  <1>1. call \in [Calls -> Calling]
    BY Members DEF Init, NoCall, Calling, Operations, CallPcs
  <1>2. flow \in [Calls -> Flows]
    BY Members DEF Init, NoFlow, Flows, FlowActions, ParentPcs, ChildPcs
  <1>3. accidents \in 0..MaxAccidents BY DEF Init, LifecycleAssumption
  <1> QED BY <1>1, <1>2, <1>3, Members DEF Init, TypeOK, Calling, Flows, StackStatuses

LEMMA CallStepType ==
    ASSUME LifecycleAssumption, TypeOK, NEW c \in Calls, CallStep(c)
    PROVE  TypeOK'
  <1> DEFINE Rest == /\ kind' \in Kinds /\ stack' \in StackStatuses
                     /\ accidents' \in 0..MaxAccidents
  <1>a. call \in [Calls -> Calling] /\ flow \in [Calls -> Flows] /\ item \in Items
    BY DEF TypeOK, Calling, Flows
  <1>b. \A pc \in {"ready", "started", "done", "refused", "failed"} :
           Goto(c, pc) => call' \in [Calls -> Calling]
    BY <1>a, GotoType, Members
  <1>c. \A action \in {"START", "UPDATE", "STOP"} : StartExecution(c, action) =>
           flow' \in [Calls -> Flows] /\ call' \in [Calls -> Calling]
    BY <1>a, StartExecutionType, Members
  <1>d. call[c].read \in Items
    BY <1>a DEF Calling
  <1>e. call' \in [Calls -> Calling] /\ flow' \in [Calls -> Flows]
    BY <1>a, <1>b, <1>c
    DEF CallStep, CreateExec, CreatePut, UpdateExec, UpdatePut, DeleteCheck, DeleteExec,
        DeleteWrite, Ingest, PauseRemember, Throttle, PauseWrite, Restore, ResumeWrite
  <1>f. item' \in Items
    <2>1. CASE CreatePut(c) BY <2>1, <1>a, ItemType, Members DEF CreatePut
    <2>2. CASE UpdatePut(c) BY <2>2, <1>d, ItemType, Members DEF UpdatePut
    <2>3. CASE DeleteWrite(c) BY <2>3, <1>a, ItemType, Members DEF DeleteWrite
    <2>4. CASE PauseRemember(c)
      BY <2>4, <1>a, ItemType, Members DEF PauseRemember, Row, TypeOK
    <2>5. CASE PauseWrite(c) BY <2>5, <1>a, ItemType, Members DEF PauseWrite, Row
    <2>6. CASE ResumeWrite(c) BY <2>6, <1>a, ItemType, Members DEF ResumeWrite
    <2> QED
      BY <1>a, <2>1, <2>2, <2>3, <2>4, <2>5, <2>6
      DEF CallStep, CreateExec, UpdateExec, DeleteCheck, DeleteExec, Ingest, Throttle,
          Restore
  <1>g. role' \in {"none", "kept", "deleted"} /\ ingestions' \subseteq Calls
    BY DEF TypeOK, CallStep, CreateExec, CreatePut, UpdateExec, UpdatePut, DeleteCheck,
           DeleteExec, DeleteWrite, Ingest, PauseRemember, Throttle, PauseWrite, Restore,
           ResumeWrite
  <1>h. concurrency' \in {0, 1}
    <2>1. call[c].read.last \in {0, 1} BY <1>d, ItemType, Members
    <2> QED
      BY <2>1 DEF TypeOK, CallStep, CreateExec, CreatePut, UpdateExec, UpdatePut, DeleteCheck,
           DeleteExec, DeleteWrite, Ingest, PauseRemember, Throttle, PauseWrite, Restore,
           ResumeWrite
  <1>i. Rest
    <2>1. UNCHANGED accidents \/ \E fault : Accident(fault)
      BY DEF CallStep, CreateExec, CreatePut, UpdateExec, UpdatePut, DeleteCheck,
           DeleteExec, DeleteWrite, Ingest, PauseRemember, Throttle, PauseWrite, Restore,
           ResumeWrite
    <2>2. accidents' \in 0..MaxAccidents BY <2>1, AccidentType DEF TypeOK
    <2> QED
      BY <2>2 DEF TypeOK, CallStep, CreateExec, CreatePut, UpdateExec, UpdatePut,
           DeleteCheck, DeleteExec, DeleteWrite, Ingest, PauseRemember, Throttle,
           PauseWrite, Restore, ResumeWrite
  <1> QED BY <1>e, <1>f, <1>g, <1>h, <1>i DEF TypeOK, Calling, Flows

LEMMA FlowStepType ==
    ASSUME LifecycleAssumption, TypeOK, NEW c \in Calls, FlowStep(c)
    PROVE  TypeOK'
  <1>a. flow \in [Calls -> Flows] /\ item \in Items /\ stack \in StackStatuses
    BY DEF TypeOK, Flows
  <1>b. \A pc \in {"start", "wait", "query", "notify", "end", "failed"} :
           ChildTo(c, pc) => flow' \in [Calls -> Flows]
    BY <1>a, ChildToType, Members
  <1>c. \A result \in Results : Answer(c, result) => flow' \in [Calls -> Flows]
    BY <1>a, AnswerType
  <1>1. flow' \in [Calls -> Flows]
    <2>a. \A s \in {"CREATE_FAILED", "DELETE_FAILED"} :
             Answer(c, [status |-> s, id |-> ""]) => flow' \in [Calls -> Flows]
      <3>1. \A s \in {"CREATE_FAILED", "DELETE_FAILED"} :
               [status |-> s, id |-> ""] \in Results
        BY Members
      <3> QED BY <3>1, <1>c
    <2>1. CASE StartStack(c) BY <2>1, <2>a, <1>b DEF StartStack
    <2>2. CASE UpdateStack(c) BY <2>2, <1>b DEF UpdateStack
    <2>3. CASE StopStack(c) BY <2>3, <2>a, <1>b DEF StopStack
    <2>4. CASE WaitElapses(c) BY <2>4, <1>b DEF WaitElapses
    <2>5. CASE Query(c) BY <2>5, <1>a, <1>b, <1>c, Members DEF Query
    <2>b. \A pc \in {"update", "done", "failed"} :
             /\ [flow EXCEPT ![c].parent = pc] \in [Calls -> Flows]
             /\ [flow EXCEPT ![c].child = "end", ![c].parent = pc] \in [Calls -> Flows]
      <3>1. {"update", "done", "failed"} \subseteq ParentPcs BY Members
      <3> QED BY <3>1, <1>a, ParentToType
    <2>6. CASE Notify(c) BY <2>6, <1>b, <2>b DEF Notify
    <2>7. CASE UpdateStatus(c) BY <2>7, <2>b DEF UpdateStatus
    <2> QED BY <2>1, <2>2, <2>3, <2>4, <2>5, <2>6, <2>7 DEF FlowStep
  <1>2. item' \in Items
    <2>1. CASE UpdateStatus(c)
      <3>1. StatusOf(flow[c].result.status) \in Statuses BY StatusType, Members
      <3>2. flow[c].result.id \in Ids BY <1>a DEF Flows, Results
      <3>3. [item EXCEPT !.status = StatusOf(flow[c].result.status),
                         !.stackId = flow[c].result.id] \in Items
        BY <1>a, <3>1, <3>2, ItemType
      <3> QED BY <2>1, <1>a, <3>3 DEF UpdateStatus
    <2> QED
      BY <1>a, <2>1
      DEF FlowStep, StartStack, UpdateStack, StopStack, WaitElapses, Query, Notify
  <1>3. stack' \in StackStatuses
    BY <1>a DEF FlowStep, StartStack, UpdateStack, StopStack, WaitElapses, Query, Notify,
                UpdateStatus, StackStatuses, InProgress
  <1>4. accidents' \in 0..MaxAccidents
    <2>1. UNCHANGED accidents \/ \E fault : Accident(fault)
      BY DEF FlowStep, StartStack, UpdateStack, StopStack, WaitElapses, Query, Notify,
             UpdateStatus
    <2> QED BY <2>1, AccidentType DEF TypeOK
  <1>5. UNCHANGED <<kind, role, concurrency, ingestions, call>>
    BY DEF FlowStep, StartStack, UpdateStack, StopStack, WaitElapses, Query, Notify,
           UpdateStatus
  <1> QED BY <1>1, <1>2, <1>3, <1>4, <1>5 DEF TypeOK, Flows

LEMMA NextType == ASSUME LifecycleAssumption, TypeOK, [Next]_vars PROVE TypeOK'
  <1>a. call \in [Calls -> Calling] BY DEF TypeOK, Calling
  <1>1. ASSUME NEW c \in Calls, NEW op \in Operations, Begin(c, op) PROVE TypeOK'
    <2>a. [op |-> op, pc |-> "begun", read |-> item] \in Calling
      BY Members DEF Calling, CallPcs, TypeOK
    <2>b. call' = [call EXCEPT ![c] = [op |-> op, pc |-> "begun", read |-> item]]
      BY <1>1 DEF Begin
    <2>1. call' \in [Calls -> Calling] BY <1>a, <2>a, <2>b
    <2> QED BY <1>1, <2>1 DEF Begin, TypeOK, Calling
  <1>2. ASSUME NEW c \in Calls, CallDies(c) PROVE TypeOK'
    <2>1. call' \in [Calls -> Calling] BY <1>2, <1>a, GotoType, Members DEF CallDies
    <2>2. accidents' \in 0..MaxAccidents BY <1>2, AccidentType DEF CallDies, TypeOK
    <2> QED BY <1>2, <2>1, <2>2 DEF CallDies, TypeOK, Calling
  <1>3. ASSUME NEW c \in Calls, StopIngestion(c) PROVE TypeOK'
    BY <1>3 DEF StopIngestion, TypeOK
  <1>4. CASE StackEnds
    <2>1. stack' \in StackStatuses
      BY <1>4 DEF StackEnds, Done, Undone, StackStatuses, InProgress, Usable
    <2>2. accidents' \in 0..MaxAccidents BY <1>4, AccidentType DEF StackEnds, TypeOK
    <2> QED BY <1>4, <2>1, <2>2 DEF StackEnds, TypeOK
  <1>5. CASE UNCHANGED vars
    BY <1>5 DEF vars, TypeOK
  <1> QED BY <1>1, <1>2, <1>3, <1>4, <1>5, CallStepType, FlowStepType DEF Next

(* In every reachable state the row, the stack, the calls and the flows have   *)
(* the values the tables and the state machines know.                          *)
THEOREM TypeCorrect == ASSUME LifecycleAssumption PROVE Spec => []TypeOK
  <1>1. Init => TypeOK BY InitType
  <1>2. TypeOK /\ [Next]_vars => TypeOK' BY NextType
  <1> QED BY <1>1, <1>2, PTL DEF Spec

-----------------------------------------------------------------------------
(* The strengthening.  Creating: a call to create the pipeline is about to     *)
(* start its flow; Starting: the flow is about to create the stack.            *)
Creating(c) == call[c].op = "create" /\ call[c].pc = "begun"
Starting(c) == flow[c].action = "START" /\ flow[c].child = "start"

(* A call that has not come to the start of its flow.                          *)
Fresh(c) ==
    \/ call[c].pc = "idle"
    \/ call[c].op \in {"create", "update"} /\ call[c].pc = "begun"
    \/ call[c].op = "delete" /\ call[c].pc \in {"begun", "ready"}

FreshHasNoFlow ==
    \A c \in Calls : Fresh(c) => flow[c].parent = "none" /\ flow[c].child = "none"
StackHasCall == stack # "none" => \E c \in Calls : call[c].pc # "idle"
CreatedOnce ==
    /\ \A c, d \in Calls : Creating(c) /\ Creating(d) => c = d
    /\ \A c, d \in Calls : Creating(c) => ~Starting(d)
    /\ \A c, d \in Calls : Starting(c) /\ Starting(d) => c = d
    /\ \A c \in Calls : Creating(c) \/ Starting(c) => stack = "none"
DeletedIsTrue ==
    \A c \in Calls : flow[c].result.status = "DELETE_COMPLETE" => stack = "DELETE_COMPLETE"
ChildIsAwaited ==
    \A c \in Calls : flow[c].child \in {"start", "wait", "query", "notify"}
                        => flow[c].parent = "waiting"
FinalStatus == (StackStatuses \ (InProgress \cup {"none"})) \cup {"CREATE_FAILED"}
AnswerIsFinal ==
    \A c \in Calls : flow[c].child = "notify" => flow[c].result.status \in FinalStatus

IInv == /\ TypeOK /\ FreshHasNoFlow /\ StackHasCall /\ CreatedOnce /\ DeletedIsTrue
        /\ ChildIsAwaited /\ AnswerIsFinal /\ InactiveMeansDeleted

(* What a step of a call does to the calls, the flows and the stack: it may    *)
(* start the one flow of that call, and has then come past its start.          *)
LEMMA CallStepEffect ==
    ASSUME TypeOK, NEW c \in Calls, CallStep(c) \/ CallDies(c)
    PROVE  /\ kind' = kind /\ stack' = stack
           /\ kind = "app" /\ item'.status = "INACTIVE" => item.status = "INACTIVE"
           /\ \A d \in Calls : d # c => call'[d] = call[d]
           /\ call[c].pc # "idle" /\ call'[c].pc # "idle"
           /\ call'[c].op = call[c].op
           /\ ~Creating(c)'
           /\ \/ flow' = flow /\ (Fresh(c)' => Fresh(c))
              \/ /\ \E action \in FlowActions : NewFlow(c, action)
                 /\ Fresh(c) /\ ~Fresh(c)'
                 /\ flow'[c].action = "START" => Creating(c)
  <1>a. /\ call \in [Calls -> Calling] /\ flow \in [Calls -> Flows] /\ item \in Items
    BY DEF TypeOK, Calling, Flows
  <1>b. ASSUME NEW pc, Goto(c, pc)
        PROVE  /\ call'[c].pc = pc /\ call'[c].op = call[c].op
               /\ \A d \in Calls : d # c => call'[d] = call[d]
    BY <1>a, <1>b DEF Goto
  <1>c. ASSUME NEW action \in FlowActions, StartExecution(c, action)
        PROVE  /\ Goto(c, "started") \/ Goto(c, "failed")
               /\ flow' = flow \/ NewFlow(c, action)
    BY <1>c DEF StartExecution
  <1>d. ASSUME NEW action, NewFlow(c, action) PROVE flow'[c].action = action
    BY <1>a, <1>d DEF NewFlow
  <1>1. CASE CreateExec(c)
    <2>1. "START" \in FlowActions BY Members
    <2> QED BY <1>1, <1>a, <1>b, <1>c, <2>1 DEF CreateExec, Creating, Fresh
  <1>2. CASE UpdateExec(c)
    <2>1. "UPDATE" \in FlowActions BY Members
    <2> QED BY <1>2, <1>a, <1>b, <1>c, <1>d, <2>1 DEF UpdateExec, Creating, Fresh
  <1>3. CASE DeleteExec(c) /\ StartExecution(c, "STOP")
    <2>1. "STOP" \in FlowActions BY Members
    <2>2. /\ call[c].op = "delete" /\ call[c].pc = "ready"
          /\ kind' = kind /\ stack' = stack /\ item' = item
      BY <1>3 DEF DeleteExec
    <2>3. /\ call'[c].pc \in {"started", "failed"} /\ call'[c].op = "delete"
          /\ \A d \in Calls : d # c => call'[d] = call[d]
      BY <1>3, <1>b, <1>c, <2>1, <2>2
    <2>4. flow' = flow \/ (NewFlow(c, "STOP") /\ flow'[c].action = "STOP")
      BY <1>3, <1>c, <1>d, <2>1
    <2>5. Fresh(c) /\ ~Fresh(c)' /\ ~Creating(c)' BY <2>2, <2>3 DEF Creating, Fresh
    <2> QED BY <2>1, <2>2, <2>3, <2>4, <2>5
  <1>4. ASSUME \/ CreatePut(c) \/ UpdatePut(c) \/ DeleteCheck(c)
               \/ DeleteExec(c) /\ Goto(c, "started") /\ UNCHANGED flow
               \/ DeleteWrite(c) \/ Ingest(c) \/ PauseRemember(c) \/ Throttle(c)
               \/ PauseWrite(c) \/ Restore(c) \/ ResumeWrite(c) \/ CallDies(c)
        PROVE  /\ call[c].pc # "idle" /\ flow' = flow /\ kind' = kind /\ stack' = stack
               /\ \E pc \in {"ready", "started", "done", "refused", "failed"} :
                     /\ Goto(c, pc)
                     /\ pc = "ready" => call[c].pc = "begun"
    BY <1>4
    DEF CreatePut, UpdatePut, DeleteCheck, DeleteExec, DeleteWrite, Ingest, PauseRemember,
        Throttle, PauseWrite, Restore, ResumeWrite, CallDies, InCall
  <1>5. ASSUME \/ CreatePut(c) \/ UpdatePut(c) \/ DeleteCheck(c) \/ DeleteExec(c)
               \/ DeleteWrite(c) \/ Ingest(c) \/ PauseRemember(c) \/ Throttle(c)
               \/ PauseWrite(c) \/ Restore(c) \/ ResumeWrite(c) \/ CallDies(c)
        PROVE  kind = "app" /\ item'.status = "INACTIVE" => item.status = "INACTIVE"
    <2>1. \A row \in Items : \A s :
            /\ [row EXCEPT !.status = s].status = s
            /\ [row EXCEPT !.status = s, !.last = 1].status = s
            /\ [row EXCEPT !.last = s].status = row.status
      BY DEF Items
    <2>2. call[c].read \in Items BY <1>a DEF Calling
    <2>3. CASE CreatePut(c) BY <2>3 DEF CreatePut
    <2>4. CASE UpdatePut(c) BY <2>4, <2>1, <2>2 DEF UpdatePut
    <2>5. CASE DeleteWrite(c) BY <2>5, <1>a, <2>1 DEF DeleteWrite
    <2>6. CASE PauseRemember(c)
      <3>1. item' = item \/ item' = [item EXCEPT !.last = concurrency]
        BY <2>6 DEF PauseRemember, Row
      <3>2. [item EXCEPT !.last = concurrency].status = item.status BY <1>a DEF Items
      <3>3. item'.status = item.status BY <3>1, <3>2
      <3> QED BY <3>3
    <2>7. CASE PauseWrite(c)
      <3>1. item' = item \/ item' = [item EXCEPT !.status = "PAUSED"]
        BY <2>7 DEF PauseWrite, Row
      <3>2. CASE item' = item BY <3>2
      <3>3. CASE item' = [item EXCEPT !.status = "PAUSED"]
        <4>1. item'.status = "PAUSED" BY <1>a, <3>3 DEF Items
        <4> QED BY <4>1
      <3> QED BY <3>1, <3>2, <3>3
    <2>8. CASE ResumeWrite(c)
      <3>1. item' = [item EXCEPT !.status = "ACTIVE"] BY <2>8 DEF ResumeWrite
      <3>2. item'.status = "ACTIVE" BY <1>a, <3>1 DEF Items
      <3> QED BY <3>2
    <2> QED
      BY <1>5, <2>3, <2>4, <2>5, <2>6, <2>7, <2>8
      DEF DeleteCheck, DeleteExec, Ingest, Throttle, Restore, CallDies
  <1>6. ASSUME NEW pc \in {"ready", "started", "done", "refused", "failed"}, Goto(c, pc),
               pc = "ready" => call[c].pc = "begun"
        PROVE  /\ call'[c].pc # "idle" /\ ~Creating(c)' /\ (Fresh(c)' => Fresh(c))
               /\ call'[c].op = call[c].op
               /\ \A d \in Calls : d # c => call'[d] = call[d]
    BY <1>6, <1>b DEF Creating, Fresh
  <1> QED BY <1>1, <1>2, <1>3, <1>4, <1>5, <1>6 DEF CallStep, DeleteExec

(* What a step of a flow does: it changes that flow, and the stack.            *)
LEMMA FlowStepEffect ==
    ASSUME TypeOK, ChildIsAwaited, AnswerIsFinal, NEW c \in Calls, FlowStep(c)
    PROVE  /\ kind' = kind /\ call' = call
           /\ flow[c].child # "none" \/ flow[c].parent # "none"
           /\ \A d \in Calls : d # c => flow'[d] = flow[d]
           /\ ~Starting(c)'
           /\ \/ stack' = stack
              \/ Starting(c) /\ stack' = "CREATE_IN_PROGRESS"
              \/ stack \notin {"none", "DELETE_COMPLETE"}
           /\ flow'[c].result.status = "DELETE_COMPLETE"
                 => flow[c].result.status = "DELETE_COMPLETE" \/ stack' = "DELETE_COMPLETE"
           /\ flow'[c].child \in {"start", "wait", "query", "notify"}
                 => flow'[c].parent = "waiting"
           /\ flow'[c].child = "notify" => flow'[c].result.status \in FinalStatus
           /\ \/ item' = item
              \/ item'.status = StatusOf(flow[c].result.status)
  <1>a. /\ flow \in [Calls -> Flows] /\ item \in Items /\ stack \in StackStatuses
    BY DEF TypeOK, Flows
  <1>1. /\ kind' = kind /\ call' = call
        /\ flow[c].child # "none" \/ flow[c].parent # "none"
    BY DEF FlowStep, StartStack, UpdateStack, StopStack, WaitElapses, Query, Notify,
           UpdateStatus
  <1>2. item' = item \/ item'.status = StatusOf(flow[c].result.status)
    <2>1. \A s, id : [item EXCEPT !.status = s, !.stackId = id].status = s
      BY <1>a DEF Items
    <2>2. CASE UpdateStatus(c) BY <2>1, <2>2 DEF UpdateStatus
    <2> QED
      BY <2>2 DEF FlowStep, StartStack, UpdateStack, StopStack, WaitElapses, Query, Notify
  <1>3. \/ stack' = stack
        \/ Starting(c) /\ stack' = "CREATE_IN_PROGRESS"
        \/ stack \notin {"none", "DELETE_COMPLETE"}
    BY DEF FlowStep, StartStack, UpdateStack, StopStack, WaitElapses, Query, Notify,
           UpdateStatus, Starting, Usable
  <1>4. ASSUME NEW pc \in {"wait", "query", "end", "failed"}, ChildTo(c, pc),
               flow[c].child \in {"start", "wait", "query", "notify"}
        PROVE  /\ \A d \in Calls : d # c => flow'[d] = flow[d]
               /\ flow'[c].child = pc /\ flow'[c].parent = "waiting"
               /\ flow'[c].result = flow[c].result
    BY <1>a, <1>4 DEF ChildTo, Flows, ChildIsAwaited
  <1>5. ASSUME NEW result, Answer(c, result), flow[c].child \in {"start", "query"}
        PROVE  /\ \A d \in Calls : d # c => flow'[d] = flow[d]
               /\ flow'[c].child = "notify" /\ flow'[c].parent = "waiting"
               /\ flow'[c].result = result
    BY <1>a, <1>5 DEF Answer, Flows, ChildIsAwaited
  <1>6. CASE StartStack(c) \/ StopStack(c)
    <2>1. \A s \in {"CREATE_FAILED", "DELETE_FAILED"} :
             /\ [status |-> s, id |-> ""].status \in FinalStatus
             /\ [status |-> s, id |-> ""].status # "DELETE_COMPLETE"
      BY DEF FinalStatus, StackStatuses, InProgress
    <2>2. \/ ChildTo(c, "wait")
          \/ \E s \in {"CREATE_FAILED", "DELETE_FAILED"} : Answer(c, [status |-> s, id |-> ""])
      BY <1>6 DEF StartStack, StopStack
    <2>3. flow[c].child = "start" BY <1>6 DEF StartStack, StopStack
    <2>4. CASE ChildTo(c, "wait") BY <1>1, <1>2, <1>3, <1>4, <2>3, <2>4 DEF Starting
    <2>5. CASE \E s \in {"CREATE_FAILED", "DELETE_FAILED"} :
                  Answer(c, [status |-> s, id |-> ""])
      BY <1>1, <1>2, <1>3, <1>5, <2>1, <2>3, <2>5 DEF Starting
    <2> QED BY <2>2, <2>4, <2>5
  <1>7. CASE UpdateStack(c) \/ WaitElapses(c)
    <2>1. /\ \E pc \in {"wait", "query", "failed"} : ChildTo(c, pc)
          /\ flow[c].child \in {"start", "wait"}
      BY <1>7 DEF UpdateStack, WaitElapses
    <2> QED BY <1>1, <1>2, <1>3, <1>4, <2>1 DEF Starting
  <1>8. CASE Query(c)
    <2>1. Found(c) /\ stack \notin InProgress => stack \in FinalStatus
      BY <1>a DEF Found, FinalStatus
    <2>2. stack' = stack /\ flow[c].child = "query" BY <1>8 DEF Query
    <2>3. \/ \E pc \in {"wait", "failed"} : ChildTo(c, pc)
          \/ stack \in FinalStatus /\ Answer(c, [status |-> stack, id |-> "arn"])
      BY <1>8, <2>1 DEF Query
    <2>4. CASE \E pc \in {"wait", "failed"} : ChildTo(c, pc)
      BY <1>1, <1>2, <1>3, <1>4, <2>2, <2>4 DEF Starting
    <2>5. CASE stack \in FinalStatus /\ Answer(c, [status |-> stack, id |-> "arn"])
      <3>1. flow'[c].result.status = stack BY <1>5, <2>2, <2>5
      <3> QED BY <1>1, <1>2, <1>3, <1>5, <2>2, <2>5, <3>1 DEF Starting
    <2> QED BY <2>3, <2>4, <2>5
  <1>9. CASE Notify(c)
    <2>1. CASE ChildTo(c, "end")
      BY <1>9, <1>1, <1>2, <1>3, <1>4, <2>1 DEF Notify, Starting
    <2>2. CASE flow' = [flow EXCEPT ![c].child = "end", ![c].parent = "update"]
      <3>1. /\ \A d \in Calls : d # c => flow'[d] = flow[d]
            /\ flow'[c].child = "end" /\ flow'[c].result = flow[c].result
        BY <2>2, <1>a DEF Flows
      <3> QED BY <1>1, <1>2, <1>3, <3>1 DEF Starting
    <2> QED BY <1>9, <2>1, <2>2 DEF Notify
  <1>10. CASE UpdateStatus(c)
    <2>1. flow[c].child \notin {"start", "wait", "query", "notify"}
      BY <1>10 DEF UpdateStatus, ChildIsAwaited
    <2>2. PICK pc : flow' = [flow EXCEPT ![c].parent = pc] BY <1>10 DEF UpdateStatus
    <2>3. /\ \A d \in Calls : d # c => flow'[d] = flow[d]
          /\ flow'[c].child = flow[c].child /\ flow'[c].result = flow[c].result
      BY <2>2, <1>a DEF Flows
    <2> QED BY <1>1, <1>2, <1>3, <2>1, <2>3 DEF Starting
  <1> QED BY <1>6, <1>7, <1>8, <1>9, <1>10 DEF FlowStep

-----------------------------------------------------------------------------
(* The strengthening is inductive.                                             *)
LEMMA InitIInv == ASSUME LifecycleAssumption, Init PROVE IInv
  <1>1. TypeOK BY InitType
  <1>2. \A c \in Calls : /\ call[c].pc = "idle" /\ flow[c].child = "none"
                         /\ flow[c].parent = "none" /\ flow[c].result.status = ""
    BY DEF Init, NoCall, NoFlow, NoResult
  <1>3. item.status = "none" /\ stack = "none" BY DEF Init, NoItem
  <1> QED
    BY <1>1, <1>2, <1>3
    DEF IInv, FreshHasNoFlow, StackHasCall, CreatedOnce, Creating, Starting, DeletedIsTrue,
        ChildIsAwaited, AnswerIsFinal, InactiveMeansDeleted

(* A call begins: when it is to create the pipeline, all others are idle.      *)
LEMMA BeginIInv ==
    ASSUME IInv, NEW c \in Calls, NEW op \in Operations, Begin(c, op), TypeOK'
    PROVE  IInv'
  <1>a. /\ call \in [Calls -> Calling] BY DEF IInv, TypeOK, Calling
  <1>b. /\ UNCHANGED <<kind, item, stack, flow>> /\ call[c].pc = "idle"
        /\ op = "create" => \A d \in Calls : call[d].pc = "idle"
    BY DEF Begin, Accepts
  <1>c. /\ call'[c].op = op /\ call'[c].pc = "begun"
        /\ \A d \in Calls : d # c => call'[d] = call[d]
    BY <1>a DEF Begin
  <1>1. FreshHasNoFlow'
    <2>1. \A d \in Calls : Fresh(d)' => Fresh(d) BY <1>b, <1>c DEF Fresh
    <2> QED BY <2>1, <1>b DEF IInv, FreshHasNoFlow
  <1>2. StackHasCall' BY <1>b, <1>c DEF StackHasCall
  <1>3. CreatedOnce'
    <2>1. CASE op = "create"
      <3>1. \A d \in Calls : Creating(d)' => d = c BY <2>1, <1>b, <1>c DEF Creating
      <3>2. stack = "none" BY <2>1, <1>b DEF IInv, StackHasCall
      <3>3. \A d \in Calls : ~Starting(d)
        BY <2>1, <1>b DEF IInv, FreshHasNoFlow, Fresh, Starting
      <3> QED BY <1>b, <3>1, <3>2, <3>3 DEF CreatedOnce, Starting
    <2>2. CASE op # "create"
      <3>1. \A d \in Calls : Creating(d)' => Creating(d) BY <2>2, <1>c DEF Creating
      <3> QED BY <1>b, <3>1 DEF IInv, CreatedOnce, Starting
    <2> QED BY <2>1, <2>2
  <1> QED
    BY <1>b, <1>1, <1>2, <1>3
    DEF IInv, DeletedIsTrue, ChildIsAwaited, AnswerIsFinal, InactiveMeansDeleted

LEMMA CallIInv ==
    ASSUME IInv, NEW c \in Calls, CallStep(c) \/ CallDies(c), TypeOK'
    PROVE  IInv'
  <1>a. TypeOK /\ flow \in [Calls -> Flows] BY DEF IInv, TypeOK, Flows
  <1>b. /\ kind' = kind /\ stack' = stack
        /\ kind = "app" /\ item'.status = "INACTIVE" => item.status = "INACTIVE"
        /\ \A d \in Calls : d # c => call'[d] = call[d]
        /\ call'[c].pc # "idle" /\ ~Creating(c)'
        /\ \/ flow' = flow /\ (Fresh(c)' => Fresh(c))
           \/ /\ \E action \in FlowActions : NewFlow(c, action)
              /\ Fresh(c) /\ ~Fresh(c)'
              /\ flow'[c].action = "START" => Creating(c)
    BY <1>a, CallStepEffect
  <1>c. \A d \in Calls : Creating(d)' => d # c /\ Creating(d) BY <1>b DEF Creating
  <1>1. StackHasCall' BY <1>b DEF IInv, StackHasCall
  <1>2. InactiveMeansDeleted' BY <1>b DEF IInv, InactiveMeansDeleted
  <1>3. CASE flow' = flow /\ (Fresh(c)' => Fresh(c))
    <2>1. \A d \in Calls : Fresh(d)' => Fresh(d) BY <1>3, <1>b DEF Fresh
    <2>2. FreshHasNoFlow' BY <2>1, <1>3 DEF IInv, FreshHasNoFlow
    <2>3. CreatedOnce' BY <1>3, <1>b, <1>c DEF IInv, CreatedOnce, Starting
    <2> QED
      BY <1>3, <1>b, <1>1, <1>2, <2>2, <2>3
      DEF IInv, DeletedIsTrue, ChildIsAwaited, AnswerIsFinal
  <1>4. CASE /\ \E action \in FlowActions : NewFlow(c, action)
             /\ Fresh(c) /\ ~Fresh(c)'
             /\ flow'[c].action = "START" => Creating(c)
    <2>1. /\ \A d \in Calls : d # c => flow'[d] = flow[d]
          /\ flow'[c].parent = "waiting" /\ flow'[c].child = "start"
          /\ flow'[c].result.status = ""
      <3>1. PICK action \in FlowActions : NewFlow(c, action) BY <1>4
      <3>2. \A d \in Calls : d # c => flow'[d] = flow[d] BY <3>1, <1>a DEF NewFlow
      <3>3. flow'[c].parent = "waiting" /\ flow'[c].child = "start"
        BY <3>1, <1>a DEF NewFlow
      <3>4. flow'[c].result = NoResult BY <3>1, <1>a DEF NewFlow
      <3>5. NoResult.status = "" BY DEF NoResult
      <3> QED BY <3>2, <3>3, <3>4, <3>5
    <2>2. \A d \in Calls : d # c => (Fresh(d)' <=> Fresh(d)) BY <1>b DEF Fresh
    <2>3. FreshHasNoFlow' BY <1>4, <2>1, <2>2 DEF IInv, FreshHasNoFlow
    <2>4. \A d \in Calls : Starting(d)' => Starting(d) \/ (d = c /\ Creating(c))
      <3>1. Starting(c)' => Creating(c) BY <1>4 DEF Starting
      <3>2. \A d \in Calls : d # c => (Starting(d)' <=> Starting(d)) BY <2>1 DEF Starting
      <3> QED BY <3>1, <3>2
    <2>5. CreatedOnce' BY <1>b, <1>c, <2>4 DEF IInv, CreatedOnce
    <2> QED
      BY <1>a, <1>b, <1>1, <1>2, <2>1, <2>3, <2>5
      DEF IInv, DeletedIsTrue, ChildIsAwaited, AnswerIsFinal
  <1> QED BY <1>b, <1>3, <1>4

LEMMA FlowIInv ==
    ASSUME IInv, NEW c \in Calls, FlowStep(c), TypeOK'
    PROVE  IInv'
  <1>a. TypeOK /\ ChildIsAwaited /\ AnswerIsFinal BY DEF IInv
  <1>b. /\ kind' = kind /\ call' = call
        /\ flow[c].child # "none" \/ flow[c].parent # "none"
        /\ \A d \in Calls : d # c => flow'[d] = flow[d]
        /\ ~Starting(c)'
        /\ \/ stack' = stack
           \/ Starting(c) /\ stack' = "CREATE_IN_PROGRESS"
           \/ stack \notin {"none", "DELETE_COMPLETE"}
        /\ flow'[c].result.status = "DELETE_COMPLETE"
              => flow[c].result.status = "DELETE_COMPLETE" \/ stack' = "DELETE_COMPLETE"
        /\ flow'[c].child \in {"start", "wait", "query", "notify"}
              => flow'[c].parent = "waiting"
        /\ flow'[c].child = "notify" => flow'[c].result.status \in FinalStatus
        /\ item' = item \/ item'.status = StatusOf(flow[c].result.status)
    BY <1>a, FlowStepEffect
  <1>1. ~Fresh(c) BY <1>b DEF IInv, FreshHasNoFlow
  <1>2. FreshHasNoFlow' BY <1>1, <1>b DEF IInv, FreshHasNoFlow, Fresh
  <1>3. StackHasCall' BY <1>1, <1>b DEF IInv, StackHasCall, Fresh
  <1>4. \A d \in Calls : Starting(d)' => d # c /\ Starting(d) BY <1>b DEF Starting
  <1>5. CreatedOnce'
    <2>1. \A d \in Calls : Creating(d)' <=> Creating(d) BY <1>b DEF Creating
    <2>2. (\E d \in Calls : Creating(d)' \/ Starting(d)') => stack' = stack
      BY <1>4, <2>1, <1>b DEF IInv, CreatedOnce
    <2> QED BY <1>4, <2>1, <2>2 DEF IInv, CreatedOnce
  <1>6. stack = "DELETE_COMPLETE" => stack' = "DELETE_COMPLETE"
    BY <1>b DEF IInv, CreatedOnce
  <1>7. DeletedIsTrue' BY <1>6, <1>b DEF IInv, DeletedIsTrue
  <1>8. InactiveMeansDeleted'
    <2>1. \A status : StatusOf(status) = "INACTIVE" => status = "DELETE_COMPLETE"
      BY DEF StatusOf
    <2> QED BY <1>6, <1>b, <2>1 DEF IInv, InactiveMeansDeleted, DeletedIsTrue
  <1>9. ChildIsAwaited' BY <1>b DEF IInv, ChildIsAwaited
  <1>10. AnswerIsFinal' BY <1>b DEF IInv, AnswerIsFinal
  <1> QED BY <1>2, <1>3, <1>5, <1>7, <1>8, <1>9, <1>10 DEF IInv

LEMMA NextIInv == ASSUME LifecycleAssumption, IInv, [Next]_vars PROVE IInv'
  <1>a. TypeOK' BY NextType DEF IInv
  <1>1. CASE \E c \in Calls, op \in Operations : Begin(c, op) BY <1>1, <1>a, BeginIInv
  <1>2. CASE \E c \in Calls : CallStep(c) \/ CallDies(c) BY <1>2, <1>a, CallIInv
  <1>3. CASE \E c \in Calls : FlowStep(c) BY <1>3, <1>a, FlowIInv
  <1>4. CASE \/ UNCHANGED vars \/ \E c \in Calls : StopIngestion(c)
    <2>1. UNCHANGED <<kind, item, stack, call, flow>> BY <1>4 DEF vars, StopIngestion
    <2> QED
      BY <1>a, <2>1
      DEF IInv, FreshHasNoFlow, Fresh, StackHasCall, CreatedOnce, Creating, Starting,
          DeletedIsTrue, ChildIsAwaited, AnswerIsFinal, InactiveMeansDeleted
  <1>5. CASE StackEnds
    <2>1. /\ UNCHANGED <<kind, item, call, flow>>
          /\ stack \notin {"none", "DELETE_COMPLETE"}
      BY <1>5 DEF StackEnds, InProgress
    <2> QED
      BY <1>a, <2>1
      DEF IInv, FreshHasNoFlow, Fresh, StackHasCall, CreatedOnce, Creating, Starting,
          DeletedIsTrue, ChildIsAwaited, AnswerIsFinal, InactiveMeansDeleted
  <1> QED BY <1>1, <1>2, <1>3, <1>4, <1>5 DEF Next

LEMMA Inductive == ASSUME LifecycleAssumption PROVE Spec => []IInv
  <1>1. Init => IInv BY InitIInv
  <1>2. IInv /\ [Next]_vars => IInv' BY NextIInv
  <1> QED BY <1>1, <1>2, PTL DEF Spec

(* An application pipeline is shown as INACTIVE only when its stack has been   *)
(* deleted, however many calls race, whatever fails and however slow: the row  *)
(* is written from a query of the stack, and no flow creates it a second time. *)
THEOREM InactiveOnlyDeleted ==
    ASSUME LifecycleAssumption PROVE Spec => []InactiveMeansDeleted
  <1>1. IInv => InactiveMeansDeleted BY DEF IInv
  <1> QED BY <1>1, Inductive, PTL

-----------------------------------------------------------------------------
(* What a parent flow sees of its child.                                       *)
Asked(f) == CASE f.parent = "none" -> "idle"
              [] f.parent = "waiting" -> "asked"
              [] OTHER -> "answered"
Told(f) == IF f.parent \in {"none", "waiting"} THEN "" ELSE f.result.status
TaskBar == [c \in Calls |-> Asked(flow[c])]
AnswerBar == [c \in Calls |-> Told(flow[c])]

(* What one execution's change shows of the task.                              *)
LEMMA TaskStep ==
    ASSUME NEW c \in Calls, \A d \in Calls : d # c => flow'[d] = flow[d]
    PROVE  /\ TaskBar' = [TaskBar EXCEPT ![c] = Asked(flow'[c])]
           /\ AnswerBar' = [AnswerBar EXCEPT ![c] = Told(flow'[c])]
  <1>1. \A d \in Calls : d # c => Asked(flow'[d]) = Asked(flow[d])
    OBVIOUS
  <1>2. \A d \in Calls : d # c => Told(flow'[d]) = Told(flow[d])
    OBVIOUS
  <1> QED BY <1>1, <1>2 DEF TaskBar, AnswerBar

(* A step of a call starts its flow, and so asks, or shows nothing.            *)
LEMMA CallAsks ==
    ASSUME IInv, NEW c \in Calls, CallStep(c) \/ CallDies(c)
    PROVE  \/ UNCHANGED <<TaskBar, AnswerBar>>
           \/ /\ TaskBar[c] = "idle" /\ AnswerBar' = AnswerBar
              /\ TaskBar' = [TaskBar EXCEPT ![c] = "asked"]
  <1>1. CASE flow' = flow BY <1>1 DEF TaskBar, AnswerBar
  <1>2. CASE flow' # flow
    <2>1. TypeOK /\ flow \in [Calls -> Flows] BY DEF IInv, TypeOK, Flows
    <2>2. Fresh(c) /\ \E action \in FlowActions : NewFlow(c, action)
      BY <1>2, <2>1, CallStepEffect
    <2>3. PICK action \in FlowActions : NewFlow(c, action) BY <2>2
    <2>4. \A d \in Calls : d # c => flow'[d] = flow[d] BY <2>1, <2>3 DEF NewFlow
    <2>5. flow[c].parent = "none" BY <2>2 DEF IInv, FreshHasNoFlow
    <2>6. flow'[c].parent = "waiting" BY <2>1, <2>3 DEF NewFlow
    <2>7. /\ Asked(flow[c]) = "idle" /\ Told(flow[c]) = ""
          /\ Asked(flow'[c]) = "asked" /\ Told(flow'[c]) = ""
      BY <2>5, <2>6 DEF Asked, Told
    <2>8. TaskBar[c] = "idle" /\ AnswerBar[c] = "" BY <2>7 DEF TaskBar, AnswerBar
    <2>9. AnswerBar' = AnswerBar BY <2>4, <2>7, <2>8, TaskStep DEF AnswerBar
    <2> QED BY <2>4, <2>7, <2>8, <2>9, TaskStep
  <1> QED BY <1>1, <1>2

(* A step of a flow answers the task it was asked for, or shows nothing.       *)
LEMMA FlowReplies ==
    ASSUME IInv, NEW c \in Calls, FlowStep(c)
    PROVE  \/ UNCHANGED <<TaskBar, AnswerBar>>
           \/ /\ TaskBar[c] = "asked"
              /\ TaskBar' = [TaskBar EXCEPT ![c] = "answered"]
              /\ \E status \in FinalStatus : AnswerBar' = [AnswerBar EXCEPT ![c] = status]
  <1>a. /\ flow \in [Calls -> Flows] /\ ChildIsAwaited
    BY DEF IInv, TypeOK, Flows
  <1>b. ASSUME \A d \in Calls : d # c => flow'[d] = flow[d],
               Asked(flow'[c]) = Asked(flow[c]), Told(flow'[c]) = Told(flow[c])
        PROVE  UNCHANGED <<TaskBar, AnswerBar>>
    BY <1>b, TaskStep DEF TaskBar, AnswerBar
  <1>1. ASSUME \/ \E pc : ChildTo(c, pc)
               \/ (\E result : Answer(c, result)) /\ flow[c].child \in {"start", "query"}
        PROVE  UNCHANGED <<TaskBar, AnswerBar>>
    <2>1. /\ \A d \in Calls : d # c => flow'[d] = flow[d]
          /\ flow'[c].parent = flow[c].parent
          /\ flow[c].parent = "waiting" \/ flow'[c].result = flow[c].result
      BY <1>1, <1>a DEF ChildTo, Answer, Flows, ChildIsAwaited
    <2>2. Asked(flow'[c]) = Asked(flow[c]) BY <2>1 DEF Asked
    <2>3. Told(flow'[c]) = Told(flow[c]) BY <2>1 DEF Told
    <2> QED BY <2>1, <2>2, <2>3, <1>b
  <1>2. CASE Notify(c) /\ flow' = [flow EXCEPT ![c].child = "end", ![c].parent = "update"]
    <2>1. /\ \A d \in Calls : d # c => flow'[d] = flow[d]
          /\ flow'[c].parent = "update" /\ flow'[c].result = flow[c].result
      BY <1>2, <1>a DEF Flows
    <2>2. flow[c].parent = "waiting" /\ flow[c].result.status \in FinalStatus
      BY <1>2 DEF Notify, IInv, ChildIsAwaited, AnswerIsFinal
    <2>3. Asked(flow[c]) = "asked" BY <2>2 DEF Asked
    <2>4. Asked(flow'[c]) = "answered" BY <2>1 DEF Asked
    <2>5. Told(flow'[c]) \in FinalStatus BY <2>1, <2>2 DEF Told
    <2>6. TaskBar[c] = "asked" BY <2>3 DEF TaskBar
    <2> QED BY <2>1, <2>4, <2>5, <2>6, TaskStep
  <1>3. CASE UpdateStatus(c)
    <2>1. PICK pc \in {"done", "failed"} : flow' = [flow EXCEPT ![c].parent = pc]
      BY <1>3 DEF UpdateStatus
    <2>2. flow[c].parent = "update" BY <1>3 DEF UpdateStatus
    <2>3. /\ \A d \in Calls : d # c => flow'[d] = flow[d]
          /\ flow'[c].parent = pc /\ flow'[c].result = flow[c].result
      BY <2>1, <1>a DEF Flows
    <2>4. Asked(flow'[c]) = Asked(flow[c]) BY <2>2, <2>3 DEF Asked
    <2>5. Told(flow'[c]) = Told(flow[c]) BY <2>2, <2>3 DEF Told
    <2> QED BY <2>3, <2>4, <2>5, <1>b
  <1> QED
    BY <1>1, <1>2, <1>3
    DEF FlowStep, StartStack, UpdateStack, StopStack, WaitElapses, Query, Notify

(* Whatever calls race and whatever fails, the flows of a pipeline implement   *)
(* SubStackTask: a parent is answered at most once, with a final status.       *)
THEOREM AnsweredOnce == ASSUME LifecycleAssumption PROVE Spec => AnswersOnce
  <1>1. Init => Task!Init
    BY DEF Init, NoFlow, Task!Init
  <1>2. IInv /\ [Next]_vars => [Task!Next]_(Task!vars)
    <2> SUFFICES ASSUME IInv, [Next]_vars PROVE [Task!Next]_(Task!vars)
      OBVIOUS
    <2>a. /\ TaskBar = [c \in Calls |-> CASE flow[c].parent = "none" -> "idle"
                                         [] flow[c].parent = "waiting" -> "asked"
                                         [] OTHER -> "answered"]
          /\ AnswerBar = [c \in Calls |-> IF flow[c].parent \in {"none", "waiting"}
                                          THEN "" ELSE flow[c].result.status]
      BY DEF TaskBar, AnswerBar, Asked, Told
    <2>b. /\ TaskBar' = [c \in Calls |-> CASE flow'[c].parent = "none" -> "idle"
                                          [] flow'[c].parent = "waiting" -> "asked"
                                          [] OTHER -> "answered"]
          /\ AnswerBar' = [c \in Calls |-> IF flow'[c].parent \in {"none", "waiting"}
                                           THEN "" ELSE flow'[c].result.status]
      BY DEF TaskBar, AnswerBar, Asked, Told
    <2>1. ASSUME NEW c \in Calls, CallStep(c) \/ CallDies(c) PROVE [Task!Next]_(Task!vars)
      BY <2>1, <2>a, <2>b, CallAsks DEF Task!Next, Task!Ask, Task!vars
    <2>2. ASSUME NEW c \in Calls, FlowStep(c) PROVE [Task!Next]_(Task!vars)
      <3>1. CASE UNCHANGED <<TaskBar, AnswerBar>> BY <3>1, <2>a, <2>b DEF Task!vars
      <3>2. CASE /\ TaskBar[c] = "asked"
                 /\ TaskBar' = [TaskBar EXCEPT ![c] = "answered"]
                 /\ \E status \in FinalStatus : AnswerBar' = [AnswerBar EXCEPT ![c] = status]
        <4>1. Task!Reply(c) BY <3>2, <2>a, <2>b DEF Task!Reply, FinalStatus
        <4> QED BY <4>1 DEF Task!Next
      <3> QED BY <2>2, <3>1, <3>2, FlowReplies
    <2>3. CASE UNCHANGED flow BY <2>3 DEF Task!vars
    <2> QED BY <2>1, <2>2, <2>3 DEF Next, Begin, StopIngestion, StackEnds, vars
  <1> QED BY <1>1, <1>2, Inductive, PTL DEF Spec, AnswersOnce, Task!Spec
=============================================================================
