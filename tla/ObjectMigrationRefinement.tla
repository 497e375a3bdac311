--------------------- MODULE ObjectMigrationRefinement ---------------------
(***************************************************************************)
(* ObjectMigration implements MigrationTask whatever fails, with messages  *)
(* delivered early, stale reads, crashes and duplicates included: what an  *)
(* early message can make a Lambda say is part of the promise.             *)
(***************************************************************************)
EXTENDS ObjectMigrationProofs

(* Before the listing nothing was sent, so that no migration Lambda runs.  *)
QuietInv == scanPc \in {"put", "list"} =>
    /\ visible = {} /\ inFlight = {} /\ dst = {}
    /\ \A w \in Workers : pc[w] = "idle"
    /\ token = "Pending" /\ parentStatus # "Succeeded" /\ ~misread

(* A Lambda that agreed with a total of 0 either had the total of an empty *)
(* listing or has misread it, and so has whatever it went on to say.       *)
ZeroInv ==
    /\ scanPc = "sendEmpty" => sent = found /\ parentTotal = Cardinality(found)
    /\ scanPc = "done" => sent = found /\ parentTotal = Cardinality(found)
    /\ \A w \in Workers : pc[w] \in {"complete", "success"} /\ total[w] = 0 =>
           found = {} \/ misread
    /\ NoObjectsTruthful
    /\ ParentTruthful

EarlyInv == QuietInv /\ ZeroInv

LEMMA EarlyInit == Init => EarlyInv
  BY DEF Init, EarlyInv, QuietInv, ZeroInv, NoObjectsTruthful, ParentTruthful

LEMMA EarlyWorker ==
    ASSUME IInv, EarlyInv, NEW w \in Workers, Worker(w) \/ Crash(w)
    PROVE  EarlyInv'
<1>1. Settled \subseteq Settled'
  BY DstGrows, SettledGrows DEF Next
<1>2. pc[w] # "idle" /\ UNCHANGED <<scanVars, parentTotal>>
  BY DEF Worker, Crash, CopyObject, DeleteObject, ObjectFails, Download,
     Upload, BatchDelete, MergeFails, UpdateSubtask, QuerySubtasks, GetParent,
     UpdateParent, SendSuccess, SendFailure, Return, parentVars
<1>3. scanPc \notin {"put", "list"}
  BY <1>2 DEF EarlyInv, QuietInv
<1>4. TypeOK
  BY DEF IInv, TypeInv
<1> USE MigrationAssumption, <1>1, <1>2, <1>3, <1>4
        DEF EarlyInv, QuietInv, ZeroInv, NoObjectsTruthful, ParentTruthful, TypeOK,
            Goto, scanVars, parentVars
<1>5. CASE \/ CopyObject(w) \/ DeleteObject(w) \/ ObjectFails(w) \/ Download(w)
           \/ Upload(w) \/ MergeFails(w) \/ UpdateSubtask(w) \/ QuerySubtasks(w)
           \/ \E kept \in SUBSET ObjectsOf(msg[w]) : BatchDelete(w, kept)
  <2>1. /\ UNCHANGED <<total, token, misread, parentStatus>>
        /\ \A v \in Workers \ {w} : pc'[v] = pc[v]
        /\ pc'[w] \notin {"complete", "success"}
    BY <1>5 DEF CopyObject, DeleteObject, ObjectFails, NextObject, Download,
       Upload, MergeFails, UpdateSubtask, QuerySubtasks, BatchDelete
  <2> QED BY <2>1
<1>6. ASSUME NEW n \in {0, parentTotal}, GetParent(w, n) PROVE EarlyInv'
  <2>1. /\ UNCHANGED <<token, parentStatus>>
        /\ misread' = (misread \/ Misreads(w, n))
        /\ \A v \in Workers \ {w} : pc'[v] = pc[v] /\ total'[v] = total[v]
        /\ total'[w] = n
        /\ pc'[w] = "complete" => AllSubtasksCounted(counted[w], n)
        /\ pc'[w] # "success"
    BY <1>6 DEF GetParent, AfterCheck
  <2>2. ASSUME pc'[w] = "complete", n = 0 PROVE found = {} \/ misread'
    <3>1. IsFiniteSet(found) /\ IsFiniteSet(counted[w])
      BY FS_Subset
    <3>2. counted[w] = {}
      BY <2>1, <2>2, <3>1, FS_EmptySet DEF AllSubtasksCounted
    <3>3. CASE Misreads(w, n)
      BY <2>1, <3>3
    <3>4. CASE ~Misreads(w, n)
      <4>1. parentTotal = 0 /\ parentTotal = Cardinality(found)
        BY <2>2, <3>2, <3>4 DEF Misreads
      <4> QED BY <3>1, <4>1, FS_EmptySet
    <3> QED BY <3>3, <3>4
  <2> QED BY <2>1, <2>2
<1>7. CASE UpdateParent(w)
  <2>1. /\ UNCHANGED <<total, token, misread>>
        /\ \A v \in Workers \ {w} : pc'[v] = pc[v]
        /\ pc[w] = "complete" /\ pc'[w] = "success"
    BY <1>7 DEF UpdateParent
  <2>2. found \subseteq Settled \/ misread
    BY <2>1 DEF IInv, CountInv
  <2> QED BY <2>1, <2>2
<1>8. CASE SendSuccess(w) \/ SendFailure(w)
  <2>1. /\ UNCHANGED <<total, misread, parentStatus>>
        /\ \A v \in Workers \ {w} : pc'[v] = pc[v]
        /\ pc'[w] \in {"failure", "return"}
    BY <1>8 DEF SendSuccess, SendFailure, AfterCheck
  <2>2. token' = "NoObjects" => \/ token = "NoObjects"
                                \/ pc[w] = "success" /\ total[w] = 0
    BY <1>8 DEF SendSuccess, SendFailure, Answer, FirstAnswer
  <2> QED BY <2>1, <2>2
<1>9. CASE Return(w) \/ Crash(w)
  <2>1. /\ UNCHANGED <<token, misread, parentStatus>>
        /\ \A v \in Workers \ {w} : pc'[v] = pc[v] /\ total'[v] = total[v]
        /\ pc'[w] = "idle"
    BY <1>9 DEF Return, Crash, Reset
  <2> QED BY <2>1
<1> QED BY <1>5, <1>6, <1>7, <1>8, <1>9 DEF Worker

LEMMA EarlyStep == IInv /\ EarlyInv /\ [Next]_vars => EarlyInv'
<1> SUFFICES ASSUME IInv, EarlyInv, [Next]_vars
             PROVE  EarlyInv'
  OBVIOUS
<1>1. Settled \subseteq Settled'
  BY DstGrows, SettledGrows
<1>2. ASSUME NEW w \in Workers, Worker(w) \/ Crash(w) PROVE EarlyInv'
  BY <1>2, EarlyWorker
<1>3. TypeOK
  BY DEF IInv, TypeInv
<1> USE <1>1, <1>3 DEF EarlyInv, QuietInv, ZeroInv, NoObjectsTruthful, ParentTruthful,
        TypeOK, scanVars, parentVars, queueVars, workerVars, objVars
<1>4. ASSUME NEW m \in Messages, NEW w \in Workers, Receive(w, m)
      PROVE EarlyInv'
  <2>1. /\ UNCHANGED <<total, token, scanVars, parentVars, objVars>>
        /\ \A v \in Workers \ {w} : pc'[v] = pc[v]
        /\ pc'[w] \in {"query", "download", "copy"}
        /\ m \in visible
    BY <1>4 DEF Receive, Deliverable, FirstStep, Goto
  <2> QED BY <2>1
<1>5. ASSUME NEW m \in Messages, VisibilityTimeout(m) \/ Redrive(m)
      PROVE EarlyInv'
  BY <1>5 DEF VisibilityTimeout, Redrive
<1>6. CASE PutParent
  BY <1>6 DEF PutParent
<1>7. ASSUME NEW S \in SUBSET Batches, ListObjects(S) PROVE EarlyInv'
  BY <1>7 DEF ListObjects
<1>8. ASSUME NEW b \in Batches, SendMessage(b) PROVE EarlyInv'
  BY <1>8 DEF SendMessage
<1>9. CASE PutSubtask \/ SendEmpty
  BY <1>9 DEF PutSubtask, SendEmpty
<1>10. CASE UpdateTotal
  BY <1>10 DEF UpdateTotal, TaskCount
<1>11. CASE ScanCrash
  BY <1>11 DEF ScanCrash, FirstAnswer
<1>12. CASE UNCHANGED vars
  BY <1>12 DEF vars
<1> QED BY <1>2, <1>4, <1>5, <1>6, <1>7, <1>8, <1>9, <1>10, <1>11, <1>12
        DEF Next, Scanner, Deliver

LEMMA EarlyAlways == Spec => [](IInv /\ EarlyInv)
  BY IInvInit, IInvStep, EarlyInit, EarlyStep, PTL DEF Spec

(* The scanner's item says Succeeded only when every listed batch is at    *)
(* the destination, or when a Lambda has found 0 = 0 too early: no other   *)
(* fault makes it say so.                                                  *)
THEOREM CompletionTruthful == Spec => []ParentTruthful
<1>1. EarlyInv => ParentTruthful
  BY DEF EarlyInv, ZeroInv
<1> QED BY EarlyAlways, <1>1, PTL

(* Step Functions is told that there was nothing to move only when the     *)
(* listing was empty or a Lambda has found 0 = 0 too early.                *)
THEOREM NothingToMove == Spec => []NoObjectsTruthful
<1>1. EarlyInv => NoObjectsTruthful
  BY DEF EarlyInv, ZeroInv
<1> QED BY EarlyAlways, <1>1, PTL

-----------------------------------------------------------------------------
(* The refinement. *)

LEMMA VouchedNonEmpty ==
    \A b \in Batches : Vouched(b) # {} /\ Vouched(b) \subseteq ObjectsOf(b)
<1>1. ASSUME NEW b \in Batches PROVE Last(b) \in ObjectsOf(b)
  BY MigrationAssumption DEF ObjectsOf, Last
<1> QED BY <1>1 DEF Vouched

(* A step of a migration Lambda settles at most the batch it works on. *)
LEMMA SettlesOne ==
    ASSUME NEW b \in Batches, dst' \subseteq dst \cup ObjectsOf(b)
    PROVE  Settled' \subseteq Settled \cup {b}
  BY VouchedNonEmpty DEF Settled, Vouched, ObjectsOf, Last

LEMMA PromiseInit == Init => Promise!Init
  BY DEF Init, Promise!Init

LEMMA PromiseWorker ==
    ASSUME IInv, EarlyInv, NEW w \in Workers, Worker(w) \/ Crash(w)
    PROVE  [Promise!Next]_Promise!vars
<1> USE DEF scanVars, objVars, parentVars
<1>1. UNCHANGED scanVars
  BY DEF Worker, Crash, CopyObject, DeleteObject, ObjectFails, Download,
     Upload, BatchDelete, MergeFails, UpdateSubtask, QuerySubtasks, GetParent,
     UpdateParent, SendSuccess, SendFailure, Return
<1>2. CASE CopyObject(w) \/ Upload(w)
  <2>1. msg[w] \in Batches /\ TypeOK
    BY <1>2 DEF CopyObject, Upload, IInv, TypeInv, PathInv
  <2>2. /\ UNCHANGED <<token, misread>>
        /\ dst \subseteq dst' /\ dst' \subseteq dst \cup ObjectsOf(msg[w])
    BY <1>2, <2>1 DEF CopyObject, Upload, Obj, ObjectsOf, TypeOK
  <2>3. Settled' \subseteq Settled \cup {msg[w]} /\ Settled \subseteq Settled'
    BY <2>1, <2>2, SettlesOne, SettledGrows
  <2>4. \/ (Settled \cap found)' = Settled \cap found
        \/ /\ (Settled \cap found)' = (Settled \cap found) \cup {msg[w]}
           /\ msg[w] \in found
    BY <1>1, <2>3
  <2> QED BY <1>1, <2>1, <2>2, <2>4 DEF Promise!Next, Promise!Move, Promise!vars
<1>3. CASE SendSuccess(w) \/ SendFailure(w)
  <2>1. dst' = dst /\ Settled' = Settled /\ misread' = misread
    BY <1>3 DEF SendSuccess, SendFailure, Settled
  <2>2. token' # token => token = "Pending"
    BY <1>3 DEF SendSuccess, SendFailure, Answer, FirstAnswer
  <2>3. token' # token /\ token' # "Failed" =>
            \/ token' = "HasObjects" /\ found \subseteq Settled /\ found # {}
            \/ token' = "NoObjects" /\ (found = {} \/ misread)
    <3>1. CASE SendSuccess(w)
      <4>1. pc[w] = "success"
        BY <3>1 DEF SendSuccess
      <4>2. total[w] # 0 => found \subseteq Settled /\ found # {}
        <5> SUFFICES ASSUME total[w] # 0 PROVE found \subseteq Settled /\ found # {}
          OBVIOUS
        <5>1. found \subseteq Settled /\ total[w] = Cardinality(found)
          BY <4>1 DEF IInv, CountInv, ScanInv
        <5> QED BY <5>1, FS_EmptySet
      <4>3. total[w] = 0 => found = {} \/ misread
        BY <4>1 DEF EarlyInv, ZeroInv
      <4> QED BY <3>1, <4>2, <4>3 DEF SendSuccess, Answer, FirstAnswer
    <3>2. CASE SendFailure(w)
      BY <3>2 DEF SendFailure, Answer, FirstAnswer
    <3> QED BY <1>3, <3>1, <3>2
  <2> QED BY <1>1, <2>1, <2>2, <2>3
          DEF Promise!Next, Promise!Answer, Promise!HasObjects,
              Promise!NoObjects, Promise!vars
<1>4. CASE \E n \in {0, parentTotal} : GetParent(w, n)
  <2>1. dst' = dst /\ token' = token /\ Settled' = Settled
    BY <1>4 DEF GetParent, Settled
  <2>2. misread' = misread \/ misread' = TRUE
    BY <1>4 DEF GetParent, IInv, TypeInv, TypeOK
  <2> QED BY <1>1, <2>1, <2>2 DEF Promise!Next, Promise!Misread, Promise!vars
<1>5. CASE \/ DeleteObject(w) \/ ObjectFails(w) \/ Download(w) \/ MergeFails(w)
           \/ \E kept \in SUBSET ObjectsOf(msg[w]) : BatchDelete(w, kept)
           \/ UpdateSubtask(w) \/ QuerySubtasks(w) \/ UpdateParent(w)
           \/ Return(w) \/ Crash(w)
  <2>1. dst' = dst /\ token' = token /\ misread' = misread
    BY <1>5 DEF DeleteObject, ObjectFails, Download, BatchDelete, MergeFails,
       UpdateSubtask, QuerySubtasks, UpdateParent, Return, Crash
  <2> QED BY <1>1, <2>1 DEF Promise!vars, Settled
<1> QED BY <1>2, <1>3, <1>4, <1>5 DEF Worker

LEMMA PromiseStep == IInv /\ EarlyInv /\ [Next]_vars => [Promise!Next]_Promise!vars
<1> SUFFICES ASSUME IInv, EarlyInv, [Next]_vars
             PROVE  [Promise!Next]_Promise!vars
  OBVIOUS
<1> USE DEF scanVars, objVars, parentVars, Promise!vars
<1>1. ASSUME NEW w \in Workers, Worker(w) \/ Crash(w)
      PROVE [Promise!Next]_Promise!vars
  BY <1>1, PromiseWorker
<1>2. ASSUME NEW m \in Messages,
             VisibilityTimeout(m) \/ Redrive(m) \/ Deliver(m)
      PROVE [Promise!Next]_Promise!vars
  BY <1>2 DEF VisibilityTimeout, Redrive, Deliver, Receive, Settled
<1>3. ASSUME NEW S \in SUBSET Batches, ListObjects(S)
      PROVE [Promise!Next]_Promise!vars
  <2>1. Settled = {} /\ Settled' = {}
    BY <1>3, VouchedNonEmpty DEF ListObjects, EarlyInv, QuietInv, Settled, Vouched
  <2>2. found = {} /\ token = "Pending" /\ ~misread
    BY <1>3 DEF ListObjects, EarlyInv, QuietInv, IInv, ScanInv
  <2> QED BY <1>3, <2>1, <2>2 DEF ListObjects, Promise!Next, Promise!List
<1>4. CASE \/ PutParent \/ PutSubtask \/ UpdateTotal \/ SendEmpty
           \/ \E b \in Batches : SendMessage(b)
  BY <1>4 DEF PutParent, PutSubtask, UpdateTotal, SendEmpty, SendMessage, Settled
<1>5. CASE ScanCrash
  BY <1>5 DEF ScanCrash, FirstAnswer, Settled, Promise!Next, Promise!Answer
<1>6. CASE UNCHANGED vars
  BY <1>6 DEF vars, Settled
<1> QED BY <1>1, <1>2, <1>3, <1>4, <1>5, <1>6 DEF Next, Scanner

(* Every behaviour of the job, whatever fails, is one of the task the      *)
(* workflows wait for.                                                     *)
THEOREM ImplementsPromise == Spec => PromiseSpec
<1>1. IInv /\ EarlyInv /\ [Next]_vars => [Promise!Next]_Promise!vars
  BY PromiseStep
<1> QED BY EarlyAlways, <1>1, PromiseInit, PTL DEF Spec, PromiseSpec, Promise!Spec
=============================================================================
