----------------------- MODULE PipelineResourcesProofs -----------------------
(***************************************************************************)
(* What holds of PipelineResources for every number of pipelines, tables,  *)
(* locations, attempts and failures.  First, it is type correct, and no    *)
(* interleaving of the read, write and verify loops of any number of       *)
(* invocations, stale or not, loses the customer's entries in a document   *)
(* (IInv).                                                                 *)
(***************************************************************************)
EXTENDS PipelineResources, TLAPS

MetaOK ==
    /\ table \in [Pipelines -> Tables]
    /\ location \in [Pipelines -> Locations]
    /\ rows \subseteq Jobs
    /\ stack \in [Jobs -> Stacks]

CloudOK ==
    /\ doc \in [Docs -> SUBSET Entries]
    /\ own \in [Singles -> SUBSET Pipelines]
    /\ tables \subseteq Tables
    /\ torn \subseteq Pipelines

PlanOK == plan \in [Jobs -> Seq(StepNames)]

LocalOK ==
    /\ phase \in [Jobs -> Phases]
    /\ snap \in [Jobs -> SUBSET Entries]
    /\ shared \in [Jobs -> BOOLEAN]
    /\ tries \in [Jobs -> 1..Tries]
    /\ raised \in [Jobs -> BOOLEAN]

HistoryOK ==
    /\ failures \in 0..MaxFailures
    /\ raced \subseteq Docs \cup {"table"}
    /\ swallowed \subseteq {"bucketPolicy", "rolePolicy", "table", "schedule"}
    /\ kept \subseteq Locations
    /\ overlapped \subseteq Pipelines

Scanned == {"table", "destination"}

PhaseFits ==
    \A j \in Jobs : plan[j] # << >> /\ phase[j] = "scan" => Head(plan[j]) \in Scanned

SnapKept ==
    \A j \in Jobs :
        /\ plan[j] # << >>
        /\ Head(plan[j]) \in Docs \ swallowed
        /\ phase[j] \in {"scan", "write", "verify"}
        => Customer \in snap[j]

IInv ==
    /\ MetaOK /\ CloudOK /\ PlanOK /\ LocalOK /\ HistoryOK
    /\ PhaseFits /\ SnapKept /\ CustomerKept

-----------------------------------------------------------------------------
(* The parts of the invariant are those of the module.                      *)
LEMMA Parts == TypeOK <=> MetaOK /\ CloudOK /\ PlanOK /\ LocalOK /\ HistoryOK
  BY DEF TypeOK, MetaOK, CloudOK, PlanOK, LocalOK, HistoryOK

LEMMA JobTyped ==
    /\ \A p \in Pipelines :
          /\ Pipeline(p) \in Jobs /\ Pipeline(p).of = p /\ Pipeline(p).kind = "pipeline"
          /\ Ingestion(p) \in Jobs /\ Ingestion(p).of = p /\ Ingestion(p).kind = "ingestion"
          /\ Pipeline(p) # Ingestion(p)
    /\ \A j \in Jobs :
          /\ j.of \in Pipelines
          /\ j.kind \in {"pipeline", "ingestion"}
          /\ j.kind = "pipeline" => j = Pipeline(j.of)
          /\ j.kind = "ingestion" => j = Ingestion(j.of)
  BY DEF Jobs, Job, Pipeline, Ingestion

(* Sequences of steps: their first step and the rest.                       *)
LEMMA StepSeqs ==
    ASSUME NEW steps \in Seq(StepNames)
    PROVE  /\ Tail(steps) \in Seq(StepNames) \/ steps = << >>
           /\ steps # << >> => Head(steps) \in StepNames
  OBVIOUS

LEMMA StepsTyped ==
    /\ << >> \in Seq(StepNames)
    /\ IngestSteps \in Seq(StepNames) /\ UningestSteps \in Seq(StepNames)
    /\ CreateSteps \in Seq(StepNames) /\ DropSteps \in Seq(StepNames)
    /\ \A j \in Jobs : /\ StepsUp(j) \in Seq(StepNames)
                       /\ StepsDown(j) \in Seq(StepNames)
                       /\ AfterIngestion(j) \in Seq(StepNames)
  <1>1. /\ "notification" \in StepNames /\ "bucketPolicy" \in StepNames
        /\ "sns" \in StepNames /\ "destination" \in StepNames
        /\ "schedule" \in StepNames /\ "rolePolicy" \in StepNames
        /\ "queuePolicy" \in StepNames /\ "table" \in StepNames
        /\ "row" \in StepNames /\ "ingestionRow" \in StepNames
        /\ "bulk" \in StepNames /\ "lookup" \in StepNames
    BY DEF StepNames, Docs, Singles
  <1>2. << >> \in Seq(StepNames) OBVIOUS
  <1>3. IngestSteps \in Seq(StepNames) BY <1>1 DEF IngestSteps
  <1>4. UningestSteps \in Seq(StepNames) BY <1>1 DEF UningestSteps
  <1>5. CreateSteps \in Seq(StepNames) BY <1>1 DEF CreateSteps
  <1>6. DropSteps \in Seq(StepNames) BY <1>1 DEF DropSteps
  <1>7. <<"bulk">> \o DropSteps \in Seq(StepNames)
    <2>1. <<"bulk">> \in Seq(StepNames) BY <1>1
    <2> QED BY <2>1, <1>6
  <1> QED BY <1>2, <1>3, <1>4, <1>5, <1>6, <1>7 DEF StepsUp, StepsDown, AfterIngestion

(* A step starts with nothing read, and scans at once only for a table.     *)
LEMMA FirstPhaseFits ==
    ASSUME NEW steps \in Seq(StepNames), NEW status
    PROVE  /\ FirstPhase(steps, status) \in {"read", "scan", "call"}
           /\ steps # << >> /\ FirstPhase(steps, status) = "scan" =>
                  Head(steps) = "table"
  BY DEF FirstPhase

LEMMA EnterKeeps ==
    ASSUME ConstantsAssumption, PlanOK, LocalOK, PhaseFits, SnapKept,
           swallowed \subseteq swallowed',
           NEW j \in Jobs, NEW steps \in Seq(StepNames), NEW status,
           Enter(j, steps, status)
    PROVE  PlanOK' /\ LocalOK' /\ PhaseFits' /\ SnapKept'
  <1>1. FirstPhase(steps, status) \in Phases BY FirstPhaseFits DEF Phases
  <1>2. PlanOK' BY DEF PlanOK, Enter
  <1>3. LocalOK'
    BY <1>1 DEF LocalOK, Enter, ConstantsAssumption, Entries
  <1>4. PhaseFits'
    <2> SUFFICES ASSUME NEW k \in Jobs, plan'[k] # << >>, phase'[k] = "scan"
                 PROVE  Head(plan'[k]) \in Scanned
      BY DEF PhaseFits
    <2>1. CASE k = j
      BY <2>1, FirstPhaseFits DEF Enter, PlanOK, LocalOK, Scanned
    <2>2. CASE k # j
      BY <2>2 DEF Enter, PlanOK, LocalOK, PhaseFits
    <2> QED BY <2>1, <2>2
  <1>5. SnapKept'
    <2> SUFFICES ASSUME NEW k \in Jobs, plan'[k] # << >>,
                        Head(plan'[k]) \in Docs \ swallowed',
                        phase'[k] \in {"scan", "write", "verify"}
                 PROVE  Customer \in snap'[k]
      BY DEF SnapKept
    <2>1. CASE k = j
      <3>1. plan'[j] = steps /\ phase'[j] = FirstPhase(steps, status)
        BY DEF Enter, PlanOK, LocalOK
      <3>2. Head(steps) = "table" BY <2>1, <3>1, FirstPhaseFits
      <3> QED BY <2>1, <3>1, <3>2 DEF Docs
    <2>2. CASE k # j
      BY <2>2 DEF Enter, PlanOK, LocalOK, SnapKept
    <2> QED BY <2>1, <2>2
  <1> QED BY <1>2, <1>3, <1>4, <1>5

LEMMA NextStepKeeps ==
    ASSUME ConstantsAssumption, PlanOK, LocalOK, PhaseFits, SnapKept,
           swallowed \subseteq swallowed',
           NEW j \in Jobs, plan[j] # << >>, NextStep(j)
    PROVE  PlanOK' /\ LocalOK' /\ PhaseFits' /\ SnapKept'
  <1>1. Tail(plan[j]) \in Seq(StepNames) BY StepSeqs DEF PlanOK
  <1> QED BY <1>1, EnterKeeps DEF NextStep

LEMMA MayFailTyped ==
    ASSUME ConstantsAssumption, failures \in 0..MaxFailures,
           \/ UNCHANGED failures \/ \E name : MayFail(name)
    PROVE  failures' \in 0..MaxFailures
  BY DEF ConstantsAssumption, MayFail

(* A failed invocation leaves the documents alone.                          *)
LEMMA FailKeeps ==
    ASSUME ConstantsAssumption, MetaOK, PlanOK, LocalOK, PhaseFits, SnapKept,
           swallowed \subseteq swallowed', NEW j \in Jobs, Fail(j)
    PROVE  MetaOK' /\ PlanOK' /\ LocalOK' /\ PhaseFits' /\ SnapKept'
  <1>0. FailedStack[stack[j]] \in {"createFailed", "updateFailed", "deleteFailed"}
    BY DEF Fail, Busy, FailedStack
  <1>1. stack' \in [Jobs -> Stacks]
    BY <1>0 DEF Fail, Stacks, MetaOK
  <1>2. MetaOK' BY <1>1 DEF Fail, MetaOK
  <1>3. PlanOK' /\ LocalOK' /\ PhaseFits' /\ SnapKept'
    BY StepsTyped, EnterKeeps DEF Fail
  <1> QED BY <1>2, <1>3

(* Nothing that is neither a document nor swallowed changes what is kept.   *)
LEMMA SameDocuments ==
    ASSUME CustomerKept, doc' = doc, swallowed \subseteq swallowed'
    PROVE  CustomerKept'
  BY DEF CustomerKept

-----------------------------------------------------------------------------
(* The operations of CloudFormation.                                        *)
LEMMA BeginKeeps ==
    ASSUME ConstantsAssumption, IInv, NEW j \in Jobs, NEW status \in Stacks,
           NEW steps \in Seq(StepNames), Begin(j, status, steps)
    PROVE  IInv'
  <1>1. MetaOK' BY DEF IInv, MetaOK, Begin
  <1>2. CloudOK' BY DEF IInv, CloudOK, Begin, cloud
  <1>3. HistoryOK' BY JobTyped DEF IInv, HistoryOK, Begin, history
  <1>4. swallowed' = swallowed /\ doc' = doc BY DEF Begin, history, cloud
  <1>5. PlanOK' /\ LocalOK' /\ PhaseFits' /\ SnapKept'
    BY <1>4, EnterKeeps DEF Begin, IInv
  <1>6. CustomerKept' BY <1>4, SameDocuments DEF IInv
  <1> QED BY <1>1, <1>2, <1>3, <1>5, <1>6 DEF IInv

LEMMA OperationKeeps ==
    ASSUME ConstantsAssumption, IInv, NEW j \in Jobs,
           Create(j) \/ Update(j) \/ Delete(j) \/ Finish(j)
    PROVE  IInv'
  <1>0. "creating" \in Stacks /\ "updating" \in Stacks /\ "deleting" \in Stacks
    BY DEF Stacks
  <1>1. CASE Create(j) BY <1>0, <1>1, StepsTyped, BeginKeeps DEF Create
  <1>2. CASE Update(j) BY <1>0, <1>2, StepsTyped, BeginKeeps DEF Update
  <1>3. CASE Delete(j) BY <1>0, <1>3, StepsTyped, BeginKeeps DEF Delete
  <1>4. CASE Finish(j)
    <2>1. stack' \in [Jobs -> Stacks] BY <1>4 DEF Finish, IInv, MetaOK, Stacks
    <2>2. MetaOK' BY <1>4, <2>1 DEF Finish, IInv, MetaOK
    <2>3. CloudOK' /\ PlanOK' /\ LocalOK' /\ HistoryOK'
      BY <1>4 DEF Finish, IInv, CloudOK, PlanOK, LocalOK, HistoryOK, cloud, local, history
    <2>4. PhaseFits' /\ SnapKept' /\ CustomerKept'
      BY <1>4 DEF Finish, IInv, PhaseFits, SnapKept, CustomerKept, cloud, local, history
    <2> QED BY <2>2, <2>3, <2>4 DEF IInv
  <1> QED BY <1>1, <1>2, <1>3, <1>4

(* An invocation looks for its ingestion.                                   *)
LEMMA IngestionKeeps ==
    ASSUME ConstantsAssumption, IInv, NEW j \in Jobs, Bulk(j) \/ Lookup(j)
    PROVE  IInv'
  <1>1. plan[j] # << >> /\ UNCHANGED <<cloud, failures, history, overlapped>>
    BY DEF Bulk, Lookup, At
  <1>2. swallowed' = swallowed /\ doc' = doc BY <1>1 DEF history, cloud
  <1>3. CloudOK' /\ HistoryOK' BY <1>1 DEF IInv, CloudOK, HistoryOK, cloud, history
  <1>4. CustomerKept' BY <1>2, SameDocuments DEF IInv
  <1>5. CASE Bulk(j)
    <2>1. MetaOK' BY <1>5 DEF Bulk, IInv, MetaOK, meta
    <2>2. PICK steps \in {<< >>, UningestSteps, IngestSteps} :
              Enter(j, steps \o Tail(plan[j]), stack[j])
      BY <1>5 DEF Bulk
    <2>3. Tail(plan[j]) \in Seq(StepNames) BY <1>1, StepSeqs DEF IInv, PlanOK
    <2>4. steps \in Seq(StepNames) BY <2>2, StepsTyped
    <2>5. steps \o Tail(plan[j]) \in Seq(StepNames) BY <2>3, <2>4
    <2>6. PlanOK' /\ LocalOK' /\ PhaseFits' /\ SnapKept'
      BY <1>2, <2>2, <2>5, EnterKeeps DEF IInv
    <2> QED BY <1>3, <1>4, <2>1, <2>6 DEF IInv
  <1>6. CASE Lookup(j)
    <2>1. CASE NextStep(j) /\ UNCHANGED meta
      <3>1. MetaOK' BY <2>1 DEF IInv, MetaOK, meta
      <3>2. PlanOK' /\ LocalOK' /\ PhaseFits' /\ SnapKept'
        BY <1>1, <1>2, <2>1, NextStepKeeps DEF IInv
      <3> QED BY <1>3, <1>4, <3>1, <3>2 DEF IInv
    <2>2. CASE Fail(j)
      BY <1>2, <1>3, <1>4, <2>2, FailKeeps DEF IInv
    <2>3. CASE /\ rows' = rows \ {Ingestion(j.of)}
               /\ Enter(j, AfterIngestion(j), stack[j])
               /\ UNCHANGED <<table, location, stack>>
      <3>1. MetaOK' BY <2>3 DEF IInv, MetaOK
      <3>2. PlanOK' /\ LocalOK' /\ PhaseFits' /\ SnapKept'
        BY <1>2, <2>3, StepsTyped, EnterKeeps DEF IInv
      <3> QED BY <1>3, <1>4, <3>1, <3>2 DEF IInv
    <2> QED BY <1>6, <2>1, <2>2, <2>3 DEF Lookup
  <1> QED BY <1>5, <1>6
(* The steps of an invocation that do not write a document.                 *)
LEMMA ReadDocKeeps ==
    ASSUME ConstantsAssumption, IInv, NEW j \in Jobs, ReadDoc(j)
    PROVE  IInv'
  <1>1. PICK read \in {TRUE, FALSE} :
            IF read
            THEN /\ snap' = [snap EXCEPT ![j] = doc[Head(plan[j])]]
                 /\ UNCHANGED <<failures, swallowed>>
            ELSE ReadFails(j) /\ snap' = [snap EXCEPT ![j] = {}]
    BY DEF ReadDoc
  <1>2. /\ UNCHANGED <<meta, cloud, plan, shared, tries, raised, raced, kept, overlapped>>
        /\ plan[j] # << >> /\ Head(plan[j]) \in Docs
        /\ phase' = [phase EXCEPT ![j] = IF At(j, "destination") THEN "scan" ELSE "write"]
    BY DEF ReadDoc
  <1>3. /\ failures' \in 0..MaxFailures
        /\ swallowed \subseteq swallowed'
        /\ swallowed' \subseteq swallowed \cup {"bucketPolicy"}
    BY <1>1, MayFailTyped DEF IInv, HistoryOK, ReadFails
  <1>4. MetaOK' /\ CloudOK' /\ PlanOK'
    BY <1>2 DEF IInv, MetaOK, CloudOK, PlanOK, meta, cloud
  <1>5. HistoryOK' BY <1>2, <1>3 DEF IInv, HistoryOK
  <1>6. doc[Head(plan[j])] \in SUBSET Entries
    BY <1>2 DEF IInv, CloudOK
  <1>7. snap' \in [Jobs -> SUBSET Entries]
    BY <1>1, <1>6 DEF IInv, LocalOK
  <1>8. phase' \in [Jobs -> Phases]
    BY <1>2 DEF IInv, LocalOK, Phases
  <1>9. LocalOK' BY <1>2, <1>7, <1>8 DEF IInv, LocalOK
  <1>10. PhaseFits'
    BY <1>2 DEF IInv, PhaseFits, LocalOK, At, Scanned
  <1>11. SnapKept'
    <2> SUFFICES ASSUME NEW k \in Jobs, plan'[k] # << >>,
                        Head(plan'[k]) \in Docs \ swallowed',
                        phase'[k] \in {"scan", "write", "verify"}
                 PROVE  Customer \in snap'[k]
      BY DEF SnapKept
    <2>1. CASE k = j /\ read
      BY <1>1, <1>2, <1>3, <2>1 DEF IInv, LocalOK, CustomerKept
    <2>2. CASE k = j /\ ~ read
      BY <1>1, <1>2, <2>2 DEF ReadFails, At
    <2>3. CASE k # j
      BY <1>1, <1>2, <1>3, <2>3 DEF IInv, LocalOK, SnapKept
    <2> QED BY <2>1, <2>2, <2>3
  <1>12. CustomerKept' BY <1>2, <1>3, SameDocuments DEF IInv, cloud
  <1> QED BY <1>4, <1>5, <1>9, <1>10, <1>11, <1>12 DEF IInv

LEMMA ScanKeeps ==
    ASSUME ConstantsAssumption, IInv, NEW j \in Jobs, Scan(j)
    PROVE  IInv'
  <1>1. Head(plan[j]) \in Scanned BY DEF Scan, IInv, PhaseFits
  <1>2. MetaOK' /\ CloudOK' /\ PlanOK'
    BY DEF Scan, IInv, MetaOK, CloudOK, PlanOK, meta, cloud
  <1>3. raced' \subseteq Docs \cup {"table"}
    BY <1>1 DEF Scan, IInv, HistoryOK, Scanned, Docs
  <1>4. HistoryOK'
    <2>1. location[j.of] \in Locations BY JobTyped DEF IInv, MetaOK
    <2>2. kept' \subseteq Locations BY <2>1 DEF Scan, IInv, HistoryOK
    <2> QED BY <1>3, <2>2 DEF Scan, IInv, HistoryOK
  <1>5. phase' \in [Jobs -> Phases] BY DEF Scan, IInv, LocalOK, Phases
  <1>6. shared' \in [Jobs -> BOOLEAN] BY DEF Scan, IInv, LocalOK
  <1>7. LocalOK' BY <1>5, <1>6 DEF Scan, IInv, LocalOK
  <1>8. PhaseFits' BY DEF Scan, IInv, PhaseFits, LocalOK
  <1>9. SnapKept'
    BY DEF Scan, IInv, SnapKept, LocalOK
  <1>10. CustomerKept' BY DEF Scan, IInv, CustomerKept, cloud
  <1> QED BY <1>2, <1>4, <1>7, <1>8, <1>9, <1>10 DEF IInv

LEMMA NothingToRevokeKeeps ==
    ASSUME ConstantsAssumption, IInv, NEW j \in Jobs, NothingToRevoke(j)
    PROVE  IInv'
  <1>1. MetaOK' /\ CloudOK' BY DEF NothingToRevoke, IInv, MetaOK, CloudOK, meta, cloud
  <1>2. HistoryOK' BY DEF NothingToRevoke, IInv, HistoryOK, Docs
  <1>3. plan[j] # << >> BY DEF NothingToRevoke, At
  <1>4. PlanOK' /\ LocalOK' /\ PhaseFits' /\ SnapKept'
    BY <1>3, NextStepKeeps DEF NothingToRevoke, IInv
  <1>5. CustomerKept' BY DEF NothingToRevoke, IInv, CustomerKept, cloud
  <1> QED BY <1>1, <1>2, <1>4, <1>5 DEF IInv

(* After a verification an invocation goes on, tries again or fails.        *)
LEMMA VerifyDocKeeps ==
    ASSUME ConstantsAssumption, IInv, NEW j \in Jobs, VerifyDoc(j)
    PROVE  IInv'
  <1>1. /\ failures' \in 0..MaxFailures
        /\ swallowed \subseteq swallowed'
        /\ swallowed' \subseteq swallowed \cup {"bucketPolicy"}
    <2>1. UNCHANGED <<failures, swallowed>> \/ ReadFails(j) BY DEF VerifyDoc
    <2> QED BY <2>1, MayFailTyped DEF IInv, HistoryOK, ReadFails
  <1>2. plan[j] # << >> /\ phase[j] = "verify" /\ UNCHANGED <<cloud, raced, kept, overlapped>>
    BY DEF VerifyDoc
  <1>3. CloudOK' BY <1>2 DEF IInv, CloudOK, cloud
  <1>4. HistoryOK' BY <1>1, <1>2 DEF IInv, HistoryOK
  <1>5. CustomerKept' BY <1>1, <1>2, SameDocuments DEF IInv, cloud
  <1>6. \/ NextStep(j) /\ UNCHANGED meta
        \/ Again(j)
        \/ Fail(j)
    BY DEF VerifyDoc
  <1>7. CASE NextStep(j) /\ UNCHANGED meta
    <2>1. MetaOK' BY <1>7 DEF IInv, MetaOK, meta
    <2>2. PlanOK' /\ LocalOK' /\ PhaseFits' /\ SnapKept'
      BY <1>1, <1>2, <1>7, NextStepKeeps DEF IInv
    <2> QED BY <1>3, <1>4, <1>5, <2>1, <2>2 DEF IInv
  <1>8. CASE Again(j)
    <2>1. MetaOK' /\ PlanOK' BY <1>8 DEF Again, IInv, MetaOK, PlanOK, meta
    <2>2. tries' \in [Jobs -> 1..Tries]
      BY <1>8 DEF Again, IInv, LocalOK, ConstantsAssumption
    <2>3. phase' \in [Jobs -> Phases] BY <1>8 DEF Again, IInv, LocalOK, Phases
    <2>4. LocalOK' BY <1>8, <2>2, <2>3 DEF Again, IInv, LocalOK
    <2>5. PhaseFits' BY <1>8 DEF Again, IInv, PhaseFits, LocalOK
    <2>6. SnapKept' BY <1>1, <1>2, <1>8 DEF Again, IInv, SnapKept, LocalOK
    <2> QED BY <1>3, <1>4, <1>5, <2>1, <2>4, <2>5, <2>6 DEF IInv
  <1>9. CASE Fail(j)
    <2>1. MetaOK' /\ PlanOK' /\ LocalOK' /\ PhaseFits' /\ SnapKept'
      BY <1>1, <1>9, FailKeeps DEF IInv
    <2> QED BY <1>3, <1>4, <1>5, <2>1 DEF IInv
  <1> QED BY <1>6, <1>7, <1>8, <1>9

-----------------------------------------------------------------------------
(* A write takes away entries of pipelines and locations only.                 *)
LEMMA WrittenKeeps ==
    ASSUME ConstantsAssumption, IInv, NEW j \in Jobs,
           plan[j] # << >>, Head(plan[j]) \in Docs, phase[j] = "write"
    PROVE  /\ Written(j) \in SUBSET Entries
           /\ Head(plan[j]) \notin swallowed => Customer \in Written(j)
  <1>1. snap[j] \in SUBSET Entries BY DEF IInv, LocalOK
  <1>2. location[j.of] \in Locations BY JobTyped DEF IInv, MetaOK
  <1>3. OwnEntries(j) \subseteq Pipelines \cup Locations
    BY <1>2, JobTyped DEF OwnEntries, DestinationResources
  <1>4. Head(plan[j]) \notin swallowed => Customer \in snap[j]
    BY DEF IInv, SnapKept
  <1> QED BY <1>1, <1>3, <1>4 DEF Written, Entries, ConstantsAssumption

LEMMA WriteDocKeeps ==
    ASSUME ConstantsAssumption, IInv, NEW j \in Jobs, WriteDoc(j)
    PROVE  IInv'
  <1>1. /\ plan[j] # << >> /\ Head(plan[j]) \in Docs /\ phase[j] = "write"
        /\ phase' = [phase EXCEPT ![j] = "verify"]
        /\ UNCHANGED <<meta, own, tables, torn, plan, snap, shared, tries, swallowed, kept,
                       overlapped>>
    BY DEF WriteDoc
  <1>2. PICK done \in BOOLEAN, fails \in BOOLEAN :
            /\ UNCHANGED failures \/ \E name : MayFail(name)
            /\ raised' = [raised EXCEPT ![j] = @ \/ fails]
            /\ doc' = IF done THEN [doc EXCEPT ![Head(plan[j])] = Written(j)] ELSE doc
            /\ raced' = raced \/ raced' = raced \cup {Head(plan[j])}
    BY DEF WriteDoc
  <1>3. MetaOK' /\ PlanOK' BY <1>1 DEF IInv, MetaOK, PlanOK, meta
  <1>4. CloudOK' BY <1>1, <1>2, WrittenKeeps DEF IInv, CloudOK
  <1>5. phase' \in [Jobs -> Phases] BY <1>1 DEF IInv, LocalOK, Phases
  <1>6. raised' \in [Jobs -> BOOLEAN]
    <2>1. raised \in [Jobs -> BOOLEAN] /\ (raised[j] \/ fails) \in BOOLEAN
      BY DEF IInv, LocalOK
    <2> QED BY <1>2, <2>1, Zenon
  <1>7. LocalOK' BY <1>1, <1>5, <1>6 DEF IInv, LocalOK
  <1>8. failures' \in 0..MaxFailures BY <1>2, MayFailTyped DEF IInv, HistoryOK
  <1>9. HistoryOK' BY <1>1, <1>2, <1>8 DEF IInv, HistoryOK
  <1>10. PhaseFits' BY <1>1 DEF IInv, PhaseFits, LocalOK
  <1>11. SnapKept' BY <1>1 DEF IInv, SnapKept, LocalOK
  <1>12. CustomerKept'
    <2> SUFFICES ASSUME NEW d \in Docs \ swallowed PROVE Customer \in doc'[d]
      BY <1>1 DEF CustomerKept
    <2>1. CASE done /\ d = Head(plan[j])
      BY <1>1, <1>2, <2>1, WrittenKeeps DEF IInv, CloudOK
    <2>2. CASE ~ (done /\ d = Head(plan[j]))
      BY <1>1, <1>2, <2>2 DEF IInv, CloudOK, CustomerKept
    <2> QED BY <2>1, <2>2
  <1> QED BY <1>3, <1>4, <1>7, <1>9, <1>10, <1>11, <1>12 DEF IInv

-----------------------------------------------------------------------------
(* The calls for one resource.                                              *)
LEMMA CallTyped ==
    ASSUME IInv, NEW j \in Jobs,
           TableCall(j) \/ RowCall(j) \/ ScheduleOrQueueCall(j) \/ RolePolicyCall(j)
    PROVE  /\ rows' \subseteq Jobs
           /\ own' \in [Singles -> SUBSET Pipelines]
           /\ tables' \subseteq Tables
           /\ raced' \subseteq Docs \cup {"table"}
           /\ torn' \subseteq Pipelines
  <1>0. /\ rows \subseteq Jobs /\ own \in [Singles -> SUBSET Pipelines]
        /\ tables \subseteq Tables /\ raced \subseteq Docs \cup {"table"}
        /\ torn \subseteq Pipelines
        /\ j.of \in Pipelines /\ table[j.of] \in Tables
    BY JobTyped DEF IInv, MetaOK, CloudOK, HistoryOK
  <1>1. CASE TableCall(j) BY <1>0, <1>1 DEF TableCall
  <1>2. CASE RowCall(j) BY <1>0, <1>2 DEF RowCall
  <1>3. CASE ScheduleOrQueueCall(j) BY <1>0, <1>3 DEF ScheduleOrQueueCall
  <1>4. CASE RolePolicyCall(j)
    <2>1. own' \in [Singles -> SUBSET Pipelines] BY <1>0, <1>4 DEF RolePolicyCall
    <2>2. torn' \subseteq Pipelines BY <1>0, <1>4 DEF RolePolicyCall
    <2> QED BY <1>0, <1>4, <2>1, <2>2 DEF RolePolicyCall
  <1> QED BY <1>1, <1>2, <1>3, <1>4

LEMMA CallKeeps ==
    ASSUME ConstantsAssumption, IInv, NEW j \in Jobs, Call(j)
    PROVE  IInv'
  <1>1. /\ plan[j] # << >>
        /\ TableCall(j) \/ RowCall(j) \/ ScheduleOrQueueCall(j) \/ RolePolicyCall(j)
        /\ UNCHANGED <<table, location, stack, doc, failures, swallowed, kept, overlapped>>
    BY DEF Call
  <1>2. MetaOK' /\ CloudOK' /\ HistoryOK'
    <2>1. /\ rows' \subseteq Jobs /\ own' \in [Singles -> SUBSET Pipelines]
          /\ tables' \subseteq Tables /\ raced' \subseteq Docs \cup {"table"}
          /\ torn' \subseteq Pipelines
      BY <1>1, CallTyped
    <2> QED BY <1>1, <2>1 DEF IInv, MetaOK, CloudOK, HistoryOK
  <1>3. CustomerKept' BY <1>1, SameDocuments DEF IInv
  <1>4. CASE NextStep(j)
    <2>1. PlanOK' /\ LocalOK' /\ PhaseFits' /\ SnapKept'
      BY <1>1, <1>4, NextStepKeeps DEF IInv
    <2> QED BY <1>2, <1>3, <2>1 DEF IInv
  <1>5. CASE /\ phase' = [phase EXCEPT ![j] = "put"]
             /\ UNCHANGED <<plan, snap, shared, tries, raised>>
    <2>1. phase' \in [Jobs -> Phases] BY <1>5 DEF IInv, LocalOK, Phases
    <2>2. PlanOK' /\ LocalOK' BY <1>5, <2>1 DEF IInv, PlanOK, LocalOK
    <2>3. PhaseFits' BY <1>5 DEF IInv, LocalOK, PhaseFits
    <2>4. SnapKept' BY <1>1, <1>5 DEF IInv, LocalOK, SnapKept
    <2> QED BY <1>2, <1>3, <2>2, <2>3, <2>4 DEF IInv
  <1> QED BY <1>1, <1>4, <1>5 DEF TableCall, RowCall, ScheduleOrQueueCall, RolePolicyCall

LEMMA FailureKeeps ==
    ASSUME ConstantsAssumption, IInv, NEW j \in Jobs,
           CallFails(j) \/ RoleReadFails(j) \/ DropFails(j) \/ Stops(j)
    PROVE  IInv'
  <1>0. failures' \in 0..MaxFailures
    <2>1. \E name : MayFail(name) BY DEF CallFails, RoleReadFails, DropFails, Stops
    <2> QED BY <2>1, MayFailTyped DEF IInv, HistoryOK
  <1>1. CASE CallFails(j) \/ Stops(j)
    <2>1. Fail(j) /\ UNCHANGED <<cloud, history, overlapped>>
      BY <1>1 DEF CallFails, Stops
    <2>2. CloudOK' /\ HistoryOK'
      BY <1>0, <2>1 DEF IInv, CloudOK, HistoryOK, cloud, history
    <2>3. swallowed' = swallowed /\ doc' = doc BY <2>1 DEF cloud, history
    <2>4. MetaOK' /\ PlanOK' /\ LocalOK' /\ PhaseFits' /\ SnapKept'
      BY <2>1, <2>3, FailKeeps DEF IInv
    <2>5. CustomerKept' BY <2>3, SameDocuments DEF IInv
    <2> QED BY <2>2, <2>4, <2>5 DEF IInv
  <1>2. CASE RoleReadFails(j)
    <2>1. /\ plan[j] # << >> /\ NextStep(j)
          /\ UNCHANGED <<meta, doc, tables, raced, kept, overlapped>>
          /\ swallowed' = swallowed \cup {"rolePolicy"}
      BY <1>2 DEF RoleReadFails, At
    <2>2. own' \in [Singles -> SUBSET Pipelines]
      <3>1. /\ own \in [Singles -> SUBSET Pipelines] /\ j.of \in Pipelines
            /\ "rolePolicy" \in Singles
        BY JobTyped DEF IInv, CloudOK, Singles
      <3>2. \/ own' = own
            \/ own' = [own EXCEPT !["rolePolicy"] = @ \cup {j.of}]
        BY <1>2 DEF RoleReadFails
      <3> QED BY <3>1, <3>2
    <2>3. torn' \subseteq Pipelines BY <1>2 DEF RoleReadFails, IInv, CloudOK
    <2>4. MetaOK' BY <2>1 DEF IInv, MetaOK, meta
    <2>5. CloudOK' BY <2>1, <2>2, <2>3 DEF IInv, CloudOK
    <2>6. HistoryOK' BY <1>0, <2>1 DEF IInv, HistoryOK
    <2>7. PlanOK' /\ LocalOK' /\ PhaseFits' /\ SnapKept'
      BY <2>1, NextStepKeeps DEF IInv
    <2>8. CustomerKept' BY <2>1, SameDocuments DEF IInv
    <2> QED BY <2>4, <2>5, <2>6, <2>7, <2>8 DEF IInv
  <1>3. CASE DropFails(j)
    <2>1. /\ plan[j] # << >> /\ NextStep(j)
          /\ UNCHANGED <<meta, cloud, raced, kept, overlapped>>
          /\ swallowed' = swallowed \cup {Head(plan[j])}
          /\ Head(plan[j]) \in {"table", "schedule"}
      BY <1>3 DEF DropFails, Swallowed
    <2>2. MetaOK' /\ CloudOK' /\ HistoryOK'
      BY <1>0, <2>1 DEF IInv, MetaOK, CloudOK, HistoryOK, meta, cloud
    <2>3. PlanOK' /\ LocalOK' /\ PhaseFits' /\ SnapKept'
      BY <2>1, NextStepKeeps DEF IInv
    <2>4. CustomerKept' BY <2>1, SameDocuments DEF IInv, cloud
    <2> QED BY <2>2, <2>3, <2>4 DEF IInv
  <1> QED BY <1>1, <1>2, <1>3

-----------------------------------------------------------------------------
(* The invariant. *)
LEMMA InitInv == ASSUME ConstantsAssumption, Init PROVE IInv
  <1>1. MetaOK BY DEF Init, MetaOK, Stacks
  <1>2. CloudOK BY DEF Init, CloudOK, Entries
  <1>3. PlanOK BY DEF Init, PlanOK
  <1>4. LocalOK BY DEF Init, LocalOK, Phases, ConstantsAssumption
  <1>5. HistoryOK BY DEF Init, HistoryOK, ConstantsAssumption
  <1>6. PhaseFits /\ SnapKept BY DEF Init, PhaseFits, SnapKept
  <1>7. CustomerKept BY DEF Init, CustomerKept
  <1> QED BY <1>1, <1>2, <1>3, <1>4, <1>5, <1>6, <1>7 DEF IInv

LEMMA NextInv ==
    ASSUME ConstantsAssumption, IInv, [Next]_vars
    PROVE  IInv'
  <1>1. CASE UNCHANGED vars
    BY <1>1 DEF vars, meta, cloud, local, history, IInv, MetaOK, CloudOK, PlanOK,
       LocalOK, HistoryOK, PhaseFits, SnapKept, CustomerKept
  <1>2. ASSUME NEW j \in Jobs, Builder(j) PROVE IInv'
    BY <1>2, IngestionKeeps, ReadDocKeeps, ScanKeeps, NothingToRevokeKeeps, WriteDocKeeps,
       VerifyDocKeeps, CallKeeps, FailureKeeps, OperationKeeps DEF Builder
  <1>3. CASE Next BY <1>2, <1>3, OperationKeeps DEF Next
  <1> QED BY <1>1, <1>3

LEMMA Invariant == Spec => []IInv
  <1>1. Init => IInv BY InitInv, ConstantsAssumption
  <1>2. IInv /\ [Next]_vars => IInv' BY NextInv, ConstantsAssumption
  <1> QED BY <1>1, <1>2, PTL DEF Spec

(* The builder's resources are type correct for any number of pipelines,    *)
(* tables, locations and attempts (pipeline_resources_builder/              *)
(* lambda_function.py).                                                     *)
THEOREM TypeCorrect == Spec => []TypeOK
  <1>1. IInv => TypeOK BY Parts DEF IInv
  <1> QED BY <1>1, Invariant, PTL

(* However the invocations of any number of pipelines interleave and fail,  *)
(* no write of a bucket notification, bucket policy, topic policy or        *)
(* destination policy drops the entries the customer has in it, save after  *)
(* a read of a bucket policy whose error get_bucket_policy swallowed.       *)
THEOREM CustomersEntriesKept == Spec => []CustomerKept
  <1>1. IInv => CustomerKept BY DEF IInv
  <1> QED BY <1>1, Invariant, PTL

=============================================================================
