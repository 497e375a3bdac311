----------------------- MODULE ObjectMigrationProofs -----------------------
(***************************************************************************)
(* Proofs about ObjectMigration, for any number of batches, objects and    *)
(* migration Lambdas and for every combination of faults.                  *)
(***************************************************************************)
EXTENDS ObjectMigration, FiniteSetTheorems, TLAPS

(* The scanner puts the item of a batch it has just sent. *)
WritingInv == scanPc = "putSubtask" => writing \in sent

(* A Lambda that handles objects has a message with data, and is on the    *)
(* path that the message's merge flag selects.                             *)
PathInv == \A w \in Workers :
    /\ pc[w] \in {"copy", "delete"} => msg[w] \in Batches /\ ~Merges(msg[w])
    /\ pc[w] \in {"download", "upload", "batchDelete"} =>
           msg[w] \in Batches /\ Merges(msg[w])
    /\ pc[w] = "update" => msg[w] \in Batches

TypeInv == TypeOK /\ WritingInv /\ PathInv

LEMMA ScannerType ==
    ASSUME TypeInv, Scanner \/ ScanCrash
    PROVE  TypeInv'
<1> USE MigrationAssumption DEF TypeInv, TypeOK, WritingInv, PathInv, ScanPcs, Messages,
        Outcomes, scanVars, parentVars, subVars, queueVars, workerVars, objVars
<1>1. CASE PutParent
  BY <1>1 DEF PutParent
<1>2. ASSUME NEW S \in SUBSET Batches, ListObjects(S) PROVE TypeInv'
  BY <1>2 DEF ListObjects, Object
<1>3. ASSUME NEW b \in Batches, SendMessage(b) PROVE TypeInv'
  BY <1>3 DEF SendMessage
<1>4. CASE PutSubtask
  BY <1>4 DEF PutSubtask
<1>5. CASE UpdateTotal
  <2>1. TaskCount \in Nat
    BY FS_Subset, FS_CardinalityType DEF TaskCount
  <2> QED BY <1>5, <2>1 DEF UpdateTotal
<1>6. CASE SendEmpty
  BY <1>6 DEF SendEmpty
<1>7. CASE ScanCrash
  BY <1>7 DEF ScanCrash, FirstAnswer
<1> QED BY <1>1, <1>2, <1>3, <1>4, <1>5, <1>6, <1>7 DEF Scanner

LEMMA QueueType ==
    ASSUME TypeInv, NEW m \in Messages, VisibilityTimeout(m) \/ Redrive(m) \/ Deliver(m)
    PROVE  TypeInv'
<1> USE MigrationAssumption DEF TypeInv, TypeOK, WritingInv, PathInv, ScanPcs,
        scanVars, parentVars, subVars, queueVars, workerVars, objVars
<1>1. CASE VisibilityTimeout(m)
  <2>1. accidents' \in 0..MaxAccidents
    BY <1>1 DEF VisibilityTimeout, Accident
  <2> QED
    BY <1>1, <2>1 DEF VisibilityTimeout
<1>2. CASE Redrive(m)
  BY <1>2 DEF Redrive
<1>3. ASSUME NEW w \in Workers, Receive(w, m) PROVE TypeInv'
  <2> USE <1>3 DEF Receive, FirstStep, Deliverable, Goto, WorkerPcs, Messages
  <2>1. receives' \in [Messages -> 0..MaxReceiveCount]
    OBVIOUS
  <2>2. CASE m = EmptyScan
    <3>1. ~Merges(m)
      BY <2>2 DEF Merges
    <3>2. pc' = [pc EXCEPT ![w] = "query"]
      BY <2>2, <3>1
    <3> QED BY <2>1, <2>2, <3>2
  <2>3. CASE m \in Batches /\ Merges(m)
    BY <2>1, <2>3 DEF Merges
  <2>4. CASE m \in Batches /\ ~Merges(m)
    BY <2>1, <2>4 DEF Merges
  <2> QED BY <2>2, <2>3, <2>4
<1> QED BY <1>1, <1>2, <1>3 DEF Deliver

LEMMA WorkerType ==
    ASSUME TypeInv, NEW w \in Workers, Worker(w) \/ Crash(w)
    PROVE  TypeInv'
<1> USE MigrationAssumption DEF TypeInv, TypeOK, WritingInv, PathInv, ScanPcs,
        scanVars, parentVars, subVars, queueVars, workerVars, objVars,
        WorkerPcs, Goto, Outcomes
<1>1. CASE CopyObject(w)
  BY <1>1 DEF CopyObject, NextObject, Obj
<1>2. CASE DeleteObject(w)
  BY <1>2 DEF DeleteObject, NextObject
<1>3. CASE ObjectFails(w)
  BY <1>3 DEF ObjectFails, NextObject
<1>4. CASE Download(w)
  BY <1>4 DEF Download
<1>5. CASE Upload(w)
  BY <1>5 DEF Upload, ObjectsOf, Object, Messages
<1>6. ASSUME NEW kept \in SUBSET ObjectsOf(msg[w]), BatchDelete(w, kept)
      PROVE TypeInv'
  BY <1>6 DEF BatchDelete
<1>7. CASE MergeFails(w)
  BY <1>7 DEF MergeFails
<1>8. CASE UpdateSubtask(w)
  BY <1>8 DEF UpdateSubtask
<1>9. CASE QuerySubtasks(w)
  BY <1>9 DEF QuerySubtasks, SucceededSubtasks
<1>10. ASSUME NEW n \in {0, parentTotal}, GetParent(w, n) PROVE TypeInv'
  BY <1>10 DEF GetParent, AfterCheck
<1>11. CASE UpdateParent(w)
  BY <1>11 DEF UpdateParent
<1>12. CASE SendSuccess(w)
  BY <1>12 DEF SendSuccess, Answer, FirstAnswer, AfterCheck
<1>13. CASE SendFailure(w)
  BY <1>13 DEF SendFailure, Answer, FirstAnswer
<1>14. CASE Return(w)
  BY <1>14 DEF Return, Reset, Messages
<1>15. CASE Crash(w)
  BY <1>15 DEF Crash, Accident, Reset, Messages
<1> QED BY <1>1, <1>2, <1>3, <1>4, <1>5, <1>6, <1>7, <1>8, <1>9, <1>10,
           <1>11, <1>12, <1>13, <1>14, <1>15 DEF Worker

LEMMA TypeStep == TypeInv /\ [Next]_vars => TypeInv'
<1> SUFFICES ASSUME TypeInv, [Next]_vars PROVE TypeInv'
  OBVIOUS
<1>1. CASE Scanner \/ ScanCrash
  BY <1>1, ScannerType
<1>2. ASSUME NEW m \in Messages,
             VisibilityTimeout(m) \/ Redrive(m) \/ Deliver(m)
      PROVE TypeInv'
  BY <1>2, QueueType
<1>3. ASSUME NEW w \in Workers, Worker(w) \/ Crash(w) PROVE TypeInv'
  BY <1>3, WorkerType
<1>4. CASE UNCHANGED vars
  <2> USE <1>4 DEF vars, TypeInv, scanVars, parentVars, subVars, queueVars, workerVars,
          objVars
  <2>1. TypeOK'
    BY DEF TypeOK
  <2>2. WritingInv' /\ PathInv'
    BY DEF WritingInv, PathInv
  <2> QED BY <2>1, <2>2
<1> QED BY <1>1, <1>2, <1>3, <1>4 DEF Next

LEMMA TypeInit == Init => TypeInv
<1> SUFFICES ASSUME Init PROVE TypeInv
  OBVIOUS
<1>1. TypeOK
  <2>1. misread \in BOOLEAN
    BY DEF Init
  <2> QED BY <2>1, MigrationAssumption DEF Init, TypeOK, ScanPcs, WorkerPcs,
          Messages, Outcomes
<1>2. WritingInv /\ PathInv
  BY DEF Init, WritingInv, PathInv
<1> QED BY <1>1, <1>2 DEF TypeInv

(* Type correctness of the migration job, with every message a migration   *)
(* Lambda handles of the kind its step expects.                            *)
THEOREM TypeCorrect == Spec => []TypeOK
<1>1. TypeInv => TypeOK
  BY DEF TypeInv
<1> QED BY TypeInit, TypeStep, <1>1, PTL DEF Spec

-----------------------------------------------------------------------------
(* Where the objects are. *)

(* An object whose copy was made is at the destination when it is deleted. *)
CopiedInv == \A w \in Workers :
    /\ pc[w] = "delete" => Obj(w) \in dst
    /\ pc[w] = "batchDelete" => ObjectsOf(msg[w]) \subseteq dst

DataInv == NoObjectLost /\ CopiedInv

LEMMA DataInit == Init => DataInv
  BY DEF Init, DataInv, NoObjectLost, CopiedInv

(* Only the listing changes found, and only object steps change src or dst.*)
LEMMA DataWorker ==
    ASSUME TypeInv, DataInv, NEW w \in Workers, Worker(w) \/ Crash(w)
    PROVE  DataInv'
<1> USE MigrationAssumption DEF DataInv, NoObjectLost, CopiedInv, TypeInv,
        TypeOK, PathInv, Goto, Obj, scanVars, objVars
<1>1. CASE CopyObject(w)
  BY <1>1 DEF CopyObject, NextObject
<1>2. CASE DeleteObject(w)
  BY <1>2 DEF DeleteObject, NextObject
<1>3. CASE ObjectFails(w)
  BY <1>3 DEF ObjectFails, NextObject
<1>4. CASE Download(w)
  BY <1>4 DEF Download
<1>5. CASE Upload(w)
  BY <1>5 DEF Upload
<1>6. ASSUME NEW kept \in SUBSET ObjectsOf(msg[w]), BatchDelete(w, kept)
      PROVE DataInv'
  BY <1>6 DEF BatchDelete
<1>7. CASE MergeFails(w)
  BY <1>7 DEF MergeFails
<1>8. CASE UpdateSubtask(w) \/ QuerySubtasks(w) \/ UpdateParent(w)
  BY <1>8 DEF UpdateSubtask, QuerySubtasks, UpdateParent
<1>9. ASSUME NEW n \in {0, parentTotal}, GetParent(w, n) PROVE DataInv'
  BY <1>9 DEF GetParent, AfterCheck
<1>10. CASE SendSuccess(w) \/ SendFailure(w)
  BY <1>10 DEF SendSuccess, SendFailure, AfterCheck
<1>11. CASE Return(w) \/ Crash(w)
  BY <1>11 DEF Return, Crash, Reset
<1> QED BY <1>1, <1>2, <1>3, <1>4, <1>5, <1>6, <1>7, <1>8, <1>9, <1>10,
           <1>11 DEF Worker

LEMMA DataStep == TypeInv /\ DataInv /\ [Next]_vars => DataInv'
<1> SUFFICES ASSUME TypeInv, DataInv, [Next]_vars PROVE DataInv'
  OBVIOUS
<1>1. ASSUME NEW w \in Workers, Worker(w) \/ Crash(w) PROVE DataInv'
  BY <1>1, DataWorker
<1>2. ASSUME NEW m \in Messages, NEW w \in Workers, Receive(w, m)
      PROVE DataInv'
  <2>1. /\ UNCHANGED <<found, src, dst>>
        /\ \A v \in Workers \ {w} : pc'[v] = pc[v] /\ msg'[v] = msg[v]
        /\ idx' = idx
        /\ pc'[w] \in {"query", "download", "copy"}
    BY <1>2 DEF Receive, FirstStep, Goto, scanVars, objVars, TypeInv, TypeOK
  <2> QED BY <2>1 DEF DataInv, NoObjectLost, CopiedInv, Obj
<1> USE DEF DataInv, NoObjectLost, CopiedInv, Obj, scanVars, objVars, workerVars
<1>3. ASSUME NEW m \in Messages, VisibilityTimeout(m) \/ Redrive(m)
      PROVE DataInv'
  BY <1>3 DEF VisibilityTimeout, Redrive
<1>4. ASSUME NEW S \in SUBSET Batches, ListObjects(S) PROVE DataInv'
  BY <1>4 DEF ListObjects
<1>5. CASE Scanner \/ ScanCrash
  BY <1>4, <1>5 DEF Scanner, ScanCrash, PutParent, SendMessage, PutSubtask,
     UpdateTotal, SendEmpty
<1>6. CASE UNCHANGED vars
  BY <1>6 DEF vars
<1> QED BY <1>1, <1>2, <1>3, <1>5, <1>6 DEF Next, Deliver

(* No listed object is ever lost, whatever fails and however often a       *)
(* message is delivered.                                                   *)
THEOREM NothingLost == Spec => []NoObjectLost
<1>1. Init => TypeInv /\ DataInv
  BY TypeInit, DataInit
<1>2. TypeInv /\ DataInv /\ [Next]_vars => TypeInv' /\ DataInv'
  BY TypeStep, DataStep
<1>3. DataInv => NoObjectLost
  BY DEF DataInv
<1> QED BY <1>1, <1>2, <1>3, PTL DEF Spec

-----------------------------------------------------------------------------
(* What the status of a batch vouches for. *)

(* The scanner's bookkeeping: the total is not 0 only once it counts every *)
(* batch of the listing, each of which has been sent.                      *)
ScanInv ==
    /\ sent \subseteq found /\ linked \subseteq sent
    /\ scanPc \in {"put", "list"} => found = {}
    /\ parentTotal # 0 => /\ scanPc = "done"
                          /\ sent = found
                          /\ parentTotal = Cardinality(found)

(* Succeeded, in a Lambda that is about to record it, in the ETL log or in *)
(* the result of a query, stands for a batch whose objects were moved.     *)
StatusInv ==
    /\ \A w \in Workers :
           pc[w] = "update" /\ status[w] = "Succeeded" => msg[w] \in Settled
    /\ \A b \in Batches : subStatus[b] = "Succeeded" => b \in Settled
    /\ \A w \in Workers : counted[w] \subseteq Settled \cap sent

LEMMA SettledGrows ==
    ASSUME dst \subseteq dst'
    PROVE  Settled \subseteq Settled'
  BY DEF Settled, Vouched

LEMMA DstGrows ==
    ASSUME [Next]_vars
    PROVE  dst \subseteq dst'
<1> USE DEF objVars
<1>1. CASE Scanner \/ ScanCrash
  BY <1>1 DEF Scanner, ScanCrash, PutParent, ListObjects, SendMessage,
     PutSubtask, UpdateTotal, SendEmpty
<1>2. ASSUME NEW m \in Messages,
             VisibilityTimeout(m) \/ Redrive(m) \/ Deliver(m)
      PROVE dst \subseteq dst'
  BY <1>2 DEF VisibilityTimeout, Redrive, Deliver, Receive
<1>3. ASSUME NEW w \in Workers, Worker(w) \/ Crash(w)
      PROVE dst \subseteq dst'
  BY <1>3 DEF Worker, Crash, CopyObject, DeleteObject, ObjectFails, Download,
     Upload, BatchDelete, MergeFails, UpdateSubtask, QuerySubtasks, GetParent,
     UpdateParent, SendSuccess, SendFailure, Return
<1>4. CASE UNCHANGED vars
  BY <1>4 DEF vars
<1> QED BY <1>1, <1>2, <1>3, <1>4 DEF Next

LEMMA ScanStep == TypeInv /\ ScanInv /\ [Next]_vars => ScanInv'
<1> SUFFICES ASSUME TypeInv, ScanInv, [Next]_vars PROVE ScanInv'
  OBVIOUS
<1> USE DEF ScanInv, TypeInv, TypeOK, WritingInv, scanVars, parentVars, subVars
<1>1. CASE PutParent \/ SendEmpty \/ ScanCrash
  BY <1>1 DEF PutParent, SendEmpty, ScanCrash
<1>2. ASSUME NEW S \in SUBSET Batches, ListObjects(S) PROVE ScanInv'
  BY <1>2 DEF ListObjects
<1>3. ASSUME NEW b \in Batches, SendMessage(b) PROVE ScanInv'
  BY <1>3 DEF SendMessage
<1>4. CASE PutSubtask
  BY <1>4 DEF PutSubtask
<1>5. CASE UpdateTotal
  BY <1>5 DEF UpdateTotal, TaskCount
<1>6. ASSUME NEW m \in Messages,
             VisibilityTimeout(m) \/ Redrive(m) \/ Deliver(m)
      PROVE ScanInv'
  BY <1>6 DEF VisibilityTimeout, Redrive, Deliver, Receive
<1>7. ASSUME NEW w \in Workers, Worker(w) \/ Crash(w) PROVE ScanInv'
  BY <1>7 DEF Worker, Crash, CopyObject, DeleteObject, ObjectFails, Download,
     Upload, BatchDelete, MergeFails, UpdateSubtask, QuerySubtasks, GetParent,
     UpdateParent, SendSuccess, SendFailure, Return
<1>8. CASE UNCHANGED vars
  BY <1>8 DEF vars
<1> QED BY <1>1, <1>2, <1>3, <1>4, <1>5, <1>6, <1>7, <1>8 DEF Next, Scanner

(* A migration Lambda's step, one case per call. *)
LEMMA StatusWorker ==
    ASSUME TypeInv, DataInv, ScanInv, StatusInv,
           NEW w \in Workers, Worker(w) \/ Crash(w)
    PROVE  StatusInv'
<1>1. Settled \subseteq Settled'
  BY DstGrows, SettledGrows DEF Next
<1> USE MigrationAssumption, <1>1 DEF StatusInv, TypeInv, TypeOK, PathInv,
        Goto, scanVars, subVars, objVars
<1> DEFINE Rest == UNCHANGED <<msg, counted, sent, subStatus>>
<1>2. ASSUME NEW step \in WorkerPcs, step # "update", Rest,
             pc' = [pc EXCEPT ![w] = step],
             \A v \in Workers \ {w} : status'[v] = status[v]
      PROVE  StatusInv'
  BY <1>2
<1>3. ASSUME Rest, pc' = [pc EXCEPT ![w] = "update"],
             \A v \in Workers \ {w} : status'[v] = status[v],
             status'[w] = "Succeeded" => msg[w] \in Settled'
      PROVE  StatusInv'
  BY <1>3
<1>4. ASSUME pc[w] \in {"copy", "delete"}, Obj(w) \in dst', Rest,
             NextObject(w, "Succeeded")
      PROVE  StatusInv'
  <2>1. CASE idx[w] < BatchLen
    BY <1>2, <1>4, <2>1 DEF NextObject, WorkerPcs
  <2>2. CASE ~(idx[w] < BatchLen)
    <3>1. idx[w] = BatchLen
      BY <2>2
    <3>2. msg[w] \in Settled'
      BY <1>4, <3>1 DEF Settled, Vouched, Last, Obj
    <3> QED BY <1>3, <1>4, <2>2, <3>2 DEF NextObject
  <2> QED BY <2>1, <2>2
<1>5. CASE CopyObject(w)
  <2>1. Rest /\ pc[w] = "copy" /\ Obj(w) \in dst'
    BY <1>5 DEF CopyObject
  <2>2. CASE DeleteOnSuccess
    BY <1>2, <1>5, <2>1, <2>2 DEF CopyObject, WorkerPcs
  <2>3. CASE ~DeleteOnSuccess
    BY <1>4, <1>5, <2>1, <2>3 DEF CopyObject
  <2> QED BY <2>2, <2>3
<1>6. CASE DeleteObject(w)
  <2>1. Rest /\ pc[w] = "delete" /\ dst' = dst /\ NextObject(w, "Succeeded")
    BY <1>6 DEF DeleteObject
  <2>2. Obj(w) \in dst'
    BY <2>1 DEF DataInv, CopiedInv
  <2> QED BY <1>4, <2>1, <2>2
<1>7. CASE ObjectFails(w)
  <2>1. Rest /\ NextObject(w, "Failed")
    BY <1>7 DEF ObjectFails
  <2> QED BY <1>2, <1>3, <2>1 DEF NextObject, WorkerPcs
<1>8. CASE Download(w)
  BY <1>2, <1>8 DEF Download, WorkerPcs
<1>9. CASE Upload(w)
  <2>1. Rest /\ msg[w] \in Settled'
    BY <1>9 DEF Upload, Settled, Vouched
  <2> QED BY <1>2, <1>3, <1>9, <2>1 DEF Upload, WorkerPcs
<1>10. ASSUME NEW kept \in SUBSET ObjectsOf(msg[w]), BatchDelete(w, kept)
       PROVE StatusInv'
  <2>1. Rest /\ msg[w] \in Settled'
    BY <1>10 DEF BatchDelete, Settled, Vouched, DataInv, CopiedInv
  <2> QED BY <1>3, <1>10, <2>1 DEF BatchDelete
<1>11. CASE MergeFails(w)
  BY <1>3, <1>11 DEF MergeFails
<1>12. CASE UpdateSubtask(w)
  BY <1>12 DEF UpdateSubtask
<1>13. CASE QuerySubtasks(w)
  <2>1. SucceededSubtasks \subseteq Settled \cap sent
    BY DEF SucceededSubtasks, ScanInv
  <2> QED BY <1>13, <2>1 DEF QuerySubtasks
<1>14. ASSUME NEW n \in {0, parentTotal}, GetParent(w, n) PROVE StatusInv'
  BY <1>2, <1>14 DEF GetParent, AfterCheck, WorkerPcs
<1>15. CASE UpdateParent(w)
  BY <1>2, <1>15 DEF UpdateParent, WorkerPcs
<1>16. CASE SendSuccess(w) \/ SendFailure(w)
  BY <1>2, <1>16 DEF SendSuccess, SendFailure, AfterCheck, WorkerPcs
<1>17. CASE Return(w) \/ Crash(w)
  BY <1>17 DEF Return, Crash, Reset
<1> QED BY <1>5, <1>6, <1>7, <1>8, <1>9, <1>10, <1>11, <1>12, <1>13, <1>14,
           <1>15, <1>16, <1>17 DEF Worker

LEMMA StatusStep ==
    TypeInv /\ DataInv /\ ScanInv /\ StatusInv /\ [Next]_vars => StatusInv'
<1> SUFFICES ASSUME TypeInv, DataInv, ScanInv, StatusInv, [Next]_vars
             PROVE  StatusInv'
  OBVIOUS
<1>1. Settled \subseteq Settled'
  BY DstGrows, SettledGrows
<1>2. ASSUME NEW w \in Workers, Worker(w) \/ Crash(w) PROVE StatusInv'
  BY <1>2, StatusWorker
<1> USE <1>1 DEF StatusInv, TypeInv, TypeOK, scanVars, subVars, workerVars
<1>3. ASSUME NEW m \in Messages, NEW w \in Workers, Receive(w, m)
      PROVE StatusInv'
  <2>1. /\ UNCHANGED <<sent, subStatus, counted, status>>
        /\ \A v \in Workers \ {w} : pc'[v] = pc[v] /\ msg'[v] = msg[v]
        /\ pc'[w] \in {"query", "download", "copy"}
    BY <1>3 DEF Receive, FirstStep, Goto
  <2> QED BY <2>1
<1>4. ASSUME NEW m \in Messages, VisibilityTimeout(m) \/ Redrive(m)
      PROVE StatusInv'
  BY <1>4 DEF VisibilityTimeout, Redrive
<1>5. CASE Scanner \/ ScanCrash
  BY <1>5 DEF Scanner, ScanCrash, PutParent, ListObjects, SendMessage,
     PutSubtask, UpdateTotal, SendEmpty
<1>6. CASE UNCHANGED vars
  BY <1>6 DEF vars
<1> QED BY <1>2, <1>3, <1>4, <1>5, <1>6 DEF Next, Deliver

-----------------------------------------------------------------------------
(* The answer. *)

(* A total other than 0 in a Lambda is the total of the whole listing, and *)
(* a Lambda that found its count equal to it may speak for every batch.    *)
CountInv ==
    /\ \A w \in Workers : total[w] # 0 => total[w] = parentTotal
    /\ \A w \in Workers :
           pc[w] \in {"complete", "success"} /\ total[w] # 0 => found \subseteq Settled
    /\ token = "HasObjects" => found \subseteq Settled /\ scanPc = "done"

(* The comparison: a set of settled, sent batches as large as the listing  *)
(* is the listing.                                                         *)
LEMMA CountIsAll ==
    ASSUME TypeInv, ScanInv, StatusInv, NEW w \in Workers,
           parentTotal # 0, AllSubtasksCounted(counted[w], parentTotal)
    PROVE  found \subseteq Settled
<1>1. /\ counted[w] \subseteq found
      /\ counted[w] \subseteq Settled
      /\ Cardinality(counted[w]) = Cardinality(found)
  BY DEF ScanInv, StatusInv, AllSubtasksCounted
<1>2. IsFiniteSet(found)
  BY MigrationAssumption, FS_Subset DEF TypeInv, TypeOK
<1>3. counted[w] = found
  BY <1>1, <1>2, FS_Subset
<1> QED BY <1>1, <1>3

LEMMA CountWorker ==
    ASSUME TypeInv, ScanInv, StatusInv, CountInv,
           NEW w \in Workers, Worker(w) \/ Crash(w)
    PROVE  CountInv'
<1>1. Settled \subseteq Settled'
  BY DstGrows, SettledGrows DEF Next
<1> USE MigrationAssumption, <1>1 DEF CountInv, TypeInv, TypeOK, Goto,
        scanVars, parentVars
<1>2. CASE \/ CopyObject(w) \/ DeleteObject(w) \/ ObjectFails(w) \/ Download(w)
           \/ Upload(w) \/ MergeFails(w) \/ UpdateSubtask(w) \/ QuerySubtasks(w)
           \/ \E kept \in SUBSET ObjectsOf(msg[w]) : BatchDelete(w, kept)
  <2>1. /\ UNCHANGED <<total, token, found, scanPc, parentTotal>>
        /\ \A v \in Workers \ {w} : pc'[v] = pc[v]
        /\ pc'[w] \notin {"complete", "success"}
    BY <1>2 DEF CopyObject, DeleteObject, ObjectFails, NextObject, Download,
       Upload, MergeFails, UpdateSubtask, QuerySubtasks, BatchDelete
  <2> QED BY <2>1
<1>3. ASSUME NEW n \in {0, parentTotal}, GetParent(w, n) PROVE CountInv'
  <2>1. /\ UNCHANGED <<token, found, scanPc, parentTotal>>
        /\ \A v \in Workers \ {w} : pc'[v] = pc[v] /\ total'[v] = total[v]
        /\ total'[w] = n
        /\ pc'[w] = "complete" => AllSubtasksCounted(counted[w], n)
        /\ pc'[w] # "success"
    BY <1>3 DEF GetParent, AfterCheck
  <2>2. pc'[w] = "complete" /\ n # 0 => found \subseteq Settled
    BY <2>1, CountIsAll
  <2> QED BY <2>1, <2>2
<1>4. CASE UpdateParent(w)
  <2>1. /\ UNCHANGED <<total, token, found, scanPc, parentTotal>>
        /\ \A v \in Workers \ {w} : pc'[v] = pc[v]
        /\ pc[w] = "complete"
    BY <1>4 DEF UpdateParent
  <2> QED BY <2>1
<1>5. CASE SendSuccess(w)
  <2>1. /\ UNCHANGED <<total, found, scanPc, parentTotal>>
        /\ \A v \in Workers \ {w} : pc'[v] = pc[v]
        /\ pc'[w] \notin {"complete", "success"}
    BY <1>5 DEF SendSuccess, AfterCheck
  <2>2. token' = "HasObjects" => \/ token = "HasObjects"
                                 \/ pc[w] = "success" /\ total[w] # 0
    BY <1>5 DEF SendSuccess, Answer, FirstAnswer
  <2>3. total[w] # 0 => scanPc = "done"
    BY DEF ScanInv
  <2> QED BY <2>1, <2>2, <2>3
<1>6. CASE SendFailure(w)
  <2>1. /\ UNCHANGED <<total, found, scanPc, parentTotal>>
        /\ \A v \in Workers \ {w} : pc'[v] = pc[v]
        /\ pc'[w] = "return"
        /\ token' = "HasObjects" => token = "HasObjects"
    BY <1>6 DEF SendFailure, Answer, FirstAnswer
  <2> QED BY <2>1
<1>7. CASE Return(w) \/ Crash(w)
  <2>1. /\ UNCHANGED <<token, found, scanPc, parentTotal>>
        /\ \A v \in Workers \ {w} : pc'[v] = pc[v] /\ total'[v] = total[v]
        /\ pc'[w] = "idle" /\ total'[w] = 0
    BY <1>7 DEF Return, Crash, Reset
  <2> QED BY <2>1
<1> QED BY <1>2, <1>3, <1>4, <1>5, <1>6, <1>7 DEF Worker

LEMMA CountStep ==
    TypeInv /\ ScanInv /\ StatusInv /\ CountInv /\ [Next]_vars => CountInv'
<1> SUFFICES ASSUME TypeInv, ScanInv, StatusInv, CountInv, [Next]_vars
             PROVE  CountInv'
  OBVIOUS
<1>1. Settled \subseteq Settled'
  BY DstGrows, SettledGrows
<1>2. ASSUME NEW w \in Workers, Worker(w) \/ Crash(w) PROVE CountInv'
  BY <1>2, CountWorker
<1> USE <1>1 DEF CountInv, TypeInv, TypeOK, scanVars, parentVars, workerVars
<1>3. ASSUME NEW m \in Messages, NEW w \in Workers, Receive(w, m)
      PROVE CountInv'
  <2>1. /\ UNCHANGED <<total, token, found, scanPc, parentTotal>>
        /\ \A v \in Workers \ {w} : pc'[v] = pc[v]
        /\ pc'[w] \in {"query", "download", "copy"}
    BY <1>3 DEF Receive, FirstStep, Goto
  <2> QED BY <2>1
<1>4. ASSUME NEW m \in Messages, VisibilityTimeout(m) \/ Redrive(m)
      PROVE CountInv'
  BY <1>4 DEF VisibilityTimeout, Redrive
<1>5. CASE PutParent
  BY <1>5 DEF PutParent, ScanInv
<1>6. ASSUME NEW S \in SUBSET Batches, ListObjects(S) PROVE CountInv'
  BY <1>6 DEF ListObjects, ScanInv
<1>7. CASE UpdateTotal
  <2>1. \A w \in Workers : total[w] = 0
    BY <1>7 DEF UpdateTotal, ScanInv
  <2> QED BY <1>7, <2>1 DEF UpdateTotal
<1>8. CASE \/ \E b \in Batches : SendMessage(b)
           \/ PutSubtask \/ SendEmpty \/ ScanCrash
  BY <1>8 DEF SendMessage, PutSubtask, SendEmpty, ScanCrash, FirstAnswer
<1>9. CASE UNCHANGED vars
  BY <1>9 DEF vars
<1> QED BY <1>2, <1>3, <1>4, <1>5, <1>6, <1>7, <1>8, <1>9
        DEF Next, Scanner, Deliver

IInv == TypeInv /\ DataInv /\ ScanInv /\ StatusInv /\ CountInv

LEMMA IInvInit == Init => IInv
<1>1. Init => ScanInv /\ StatusInv /\ CountInv
  BY DEF Init, ScanInv, StatusInv, CountInv
<1> QED BY <1>1, TypeInit, DataInit DEF IInv

LEMMA IInvStep == IInv /\ [Next]_vars => IInv'
  BY TypeStep, DataStep, ScanStep, StatusStep, CountStep DEF IInv

(* hasObjects = True is never said too early: under every interleaving and *)
(* every combination of faults, each batch of the listing has been moved   *)
(* as far as its Succeeded status vouches for it.                          *)
THEOREM SuccessTruthful == Spec => []HasObjectsTruthful
<1>1. IInv => HasObjectsTruthful
  BY DEF IInv, CountInv, HasObjectsTruthful
<1> QED BY IInvInit, IInvStep, <1>1, PTL DEF Spec

-----------------------------------------------------------------------------
(* Quiet after success, as long as a batch is in one Lambda's hands once:   *)
(* no Lambda is lost and no message delivered while it is worked on.        *)
Once == "Duplicate" \notin Faults /\ "Crash" \notin Faults

Handling == {"copy", "delete", "download", "upload", "batchDelete", "update"}

(* Nobody is moving the batch and nobody will.                              *)
Past(b) ==
    /\ b \in sent \ visible
    /\ \A w \in Workers : msg[w] = b => pc[w] \notin Handling

(* A message is on offer or in the hands of one Lambda.                     *)
HandInv ==
    /\ (visible \cup inFlight) \cap Batches \subseteq sent
    /\ EmptyScan \in visible \cup inFlight => scanPc = "done"
    /\ \A m \in inFlight : Busy(m)
    /\ \A w \in Workers : pc[w] # "idle" =>
           /\ msg[w] \in inFlight \ visible
           /\ \A v \in Workers : pc[v] # "idle" /\ msg[v] = msg[w] => v = w

(* Succeeded, wherever it was read, is final.                               *)
PastInv ==
    /\ \A b \in Batches : subStatus[b] = "Succeeded" => Past(b)
    /\ \A w \in Workers : \A b \in counted[w] : Past(b)
    /\ \A w \in Workers :
           pc[w] \in {"complete", "success"} /\ total[w] # 0 => \A b \in found : Past(b)
    /\ token = "HasObjects" => \A b \in found : Past(b)

LEMMA HandInit == Init => HandInv /\ PastInv
  BY DEF Init, HandInv, PastInv, Messages

(* A Lambda at work keeps its message until it returns.                     *)
LEMMA WorkerKeeps ==
    ASSUME TypeInv, Once, NEW w \in Workers, Worker(w) \/ Crash(w)
    PROVE  /\ pc[w] # "idle" /\ UNCHANGED <<sent, found, scanPc, scanVars>>
           /\ \A v \in Workers \ {w} :
                  /\ pc'[v] = pc[v] /\ msg'[v] = msg[v] /\ counted'[v] = counted[v]
                  /\ total'[v] = total[v]
           /\ \/ /\ pc'[w] = "idle" /\ pc[w] = "return" /\ counted'[w] = {}
                 /\ visible' = visible \ {msg[w]} /\ inFlight' = inFlight \ {msg[w]}
              \/ /\ pc'[w] # "idle" /\ UNCHANGED <<visible, inFlight, msg>>
                 /\ pc'[w] \in Handling => pc[w] \in Handling
<1> USE DEF TypeInv, TypeOK, Goto, scanVars, queueVars, Handling
<1>1. CASE CopyObject(w)
  BY <1>1 DEF CopyObject, NextObject
<1>2. CASE DeleteObject(w)
  BY <1>2 DEF DeleteObject, NextObject
<1>3. CASE ObjectFails(w)
  BY <1>3 DEF ObjectFails, NextObject
<1>4. CASE Download(w) \/ Upload(w) \/ MergeFails(w)
  BY <1>4 DEF Download, Upload, MergeFails
<1>5. CASE \E kept \in SUBSET ObjectsOf(msg[w]) : BatchDelete(w, kept)
  BY <1>5 DEF BatchDelete
<1>6. CASE UpdateSubtask(w) \/ QuerySubtasks(w) \/ UpdateParent(w)
  BY <1>6 DEF UpdateSubtask, QuerySubtasks, UpdateParent
<1>7. CASE \E n \in {0, parentTotal} : GetParent(w, n)
  BY <1>7 DEF GetParent, AfterCheck
<1>8. CASE SendSuccess(w) \/ SendFailure(w)
  BY <1>8 DEF SendSuccess, SendFailure, AfterCheck
<1>9. CASE Return(w)
  BY <1>9 DEF Return, Reset
<1>10. CASE Crash(w)
  BY <1>10 DEF Crash, Once
<1> QED BY <1>1, <1>2, <1>3, <1>4, <1>5, <1>6, <1>7, <1>8, <1>9, <1>10 DEF Worker

(* No message becomes visible twice.                                        *)
LEMMA QueueKeeps ==
    ASSUME Once, HandInv, NEW m \in Messages, VisibilityTimeout(m)
    PROVE  FALSE
  BY DEF Once, HandInv, VisibilityTimeout

LEMMA ReceiveTakes ==
    ASSUME TypeInv, NEW w \in Workers, NEW m \in Messages, Receive(w, m)
    PROVE  /\ m \in visible /\ pc[w] = "idle" /\ pc'[w] \in {"query", "download", "copy"}
           /\ visible' = visible \ {m} /\ inFlight' = inFlight \cup {m} /\ msg'[w] = m
           /\ \A v \in Workers \ {w} : pc'[v] = pc[v] /\ msg'[v] = msg[v]
           /\ UNCHANGED <<sent, found, scanPc, subStatus, counted, total, token>>
  BY DEF TypeInv, TypeOK, Receive, Deliverable, FirstStep, Goto, scanVars, subVars

LEMMA HandStep ==
    ASSUME TypeInv, ScanInv, Once, HandInv, [Next]_vars
    PROVE  HandInv'
<1>1. ASSUME NEW w \in Workers, Worker(w) \/ Crash(w) PROVE HandInv'
  <2>1. CASE /\ pc'[w] = "idle" /\ pc[w] = "return"
             /\ visible' = visible \ {msg[w]} /\ inFlight' = inFlight \ {msg[w]}
    BY <1>1, <2>1, WorkerKeeps DEF HandInv, Busy
  <2>2. CASE pc'[w] # "idle" /\ UNCHANGED <<visible, inFlight, msg>>
    BY <1>1, <2>2, WorkerKeeps DEF HandInv, Busy
  <2> QED BY <1>1, <2>1, <2>2, WorkerKeeps
<1>2. ASSUME NEW w \in Workers, NEW m \in Messages, Receive(w, m) PROVE HandInv'
  BY <1>2, ReceiveTakes DEF HandInv, Busy
<1>3. ASSUME NEW m \in Messages, Redrive(m) PROVE HandInv'
  BY <1>3 DEF Redrive, HandInv, Busy, scanVars, workerVars
<1>4. ASSUME NEW b \in Batches, SendMessage(b) PROVE HandInv'
  <2>1. /\ b \notin sent /\ sent' = sent \cup {b} /\ visible' = visible \cup {b}
        /\ scanPc = "send"
        /\ UNCHANGED <<inFlight, pc, msg>>
    BY <1>4 DEF SendMessage, workerVars
  <2>2. b # EmptyScan /\ b \notin inFlight
    BY <2>1, MigrationAssumption DEF HandInv
  <2> QED BY <2>1, <2>2 DEF HandInv, Busy
<1>5. CASE SendEmpty
  BY <1>5, MigrationAssumption DEF SendEmpty, HandInv, Busy, workerVars
<1>6. CASE PutParent \/ (\E S \in SUBSET Batches : ListObjects(S)) \/ PutSubtask
           \/ UpdateTotal \/ ScanCrash
  BY <1>6 DEF PutParent, ListObjects, PutSubtask, UpdateTotal, ScanCrash, HandInv, Busy,
     workerVars, queueVars
<1>7. CASE UNCHANGED vars
  BY <1>7 DEF vars, scanVars, queueVars, workerVars, HandInv, Busy
<1> QED BY <1>1, <1>2, <1>3, <1>4, <1>5, <1>6, <1>7, QueueKeeps DEF Next, Scanner, Deliver

(* What is past stays past.                                                 *)
LEMMA PastStays ==
    ASSUME TypeInv, Once, HandInv, [Next]_vars, NEW b, Past(b)
    PROVE  Past(b)'
<1>1. ASSUME NEW w \in Workers, Worker(w) \/ Crash(w) PROVE Past(b)'
  BY <1>1, WorkerKeeps DEF Past, Handling
<1>2. ASSUME NEW w \in Workers, NEW m \in Messages, Receive(w, m) PROVE Past(b)'
  BY <1>2, ReceiveTakes DEF Past
<1>3. ASSUME NEW m \in Messages, Redrive(m) PROVE Past(b)'
  BY <1>3 DEF Redrive, Past, scanVars, workerVars
<1>4. ASSUME NEW c \in Batches, SendMessage(c) PROVE Past(b)'
  BY <1>4 DEF SendMessage, Past, workerVars
<1>5. CASE PutParent \/ (\E S \in SUBSET Batches : ListObjects(S)) \/ PutSubtask
           \/ UpdateTotal \/ SendEmpty \/ ScanCrash
  <2>1. CASE SendEmpty
    <3>1. UNCHANGED <<sent, pc, msg>> /\ visible' = visible \cup {EmptyScan}
      BY <2>1 DEF SendEmpty, workerVars
    <3>2. sent \subseteq Batches
      BY DEF TypeInv, TypeOK
    <3> QED BY <3>1, <3>2, MigrationAssumption DEF Past
  <2> QED BY <1>5, <2>1 DEF PutParent, ListObjects, PutSubtask, UpdateTotal, ScanCrash,
          Past, workerVars, queueVars
<1>6. CASE UNCHANGED vars
  BY <1>6 DEF vars, scanVars, queueVars, workerVars, Past
<1> QED BY <1>1, <1>2, <1>3, <1>4, <1>5, <1>6, QueueKeeps DEF Next, Scanner, Deliver

(* The Lambda whose count equals the total has counted the listing.         *)
LEMMA CountIsFound ==
    ASSUME TypeInv, ScanInv, StatusInv, NEW w \in Workers,
           parentTotal # 0, AllSubtasksCounted(counted[w], parentTotal)
    PROVE  counted[w] = found
<1>1. counted[w] \subseteq found /\ Cardinality(counted[w]) = Cardinality(found)
  BY DEF ScanInv, StatusInv, AllSubtasksCounted
<1>2. IsFiniteSet(found)
  BY MigrationAssumption, FS_Subset DEF TypeInv, TypeOK
<1> QED BY <1>1, <1>2, FS_Subset

LEMMA PastWorker ==
    ASSUME IInv, Once, HandInv, PastInv, NEW w \in Workers, Worker(w)
    PROVE  PastInv'
<1>1. \A b : Past(b) => Past(b)'
  BY PastStays DEF Next, IInv
<1>2. /\ pc[w] # "idle" /\ found' = found
      /\ \A v \in Workers \ {w} : pc'[v] = pc[v] /\ counted'[v] = counted[v]
                                  /\ total'[v] = total[v]
  BY WorkerKeeps DEF IInv
<1> USE <1>1, <1>2 DEF PastInv
<1>3. ASSUME UNCHANGED <<subStatus, token, counted>>,
             pc'[w] \in {"complete", "success"} /\ total'[w] # 0 => \A b \in found : Past(b)
      PROVE  PastInv'
  BY <1>3
<1> USE DEF IInv, TypeInv, TypeOK, Goto, subVars
<1>4. CASE \/ CopyObject(w) \/ DeleteObject(w) \/ ObjectFails(w) \/ Download(w)
           \/ Upload(w) \/ MergeFails(w)
           \/ \E kept \in SUBSET ObjectsOf(msg[w]) : BatchDelete(w, kept)
  <2>1. UNCHANGED <<subStatus, token, counted>> /\ pc'[w] \notin {"complete", "success"}
    BY <1>4 DEF CopyObject, DeleteObject, ObjectFails, NextObject, Download, Upload,
       MergeFails, BatchDelete
  <2> QED BY <1>3, <2>1
<1>5. CASE UpdateSubtask(w)
  <2>1. /\ UNCHANGED <<token, counted>> /\ pc'[w] = "query" /\ pc[w] = "update"
        /\ subStatus' = [subStatus EXCEPT ![msg[w]] = status[w]]
    BY <1>5 DEF UpdateSubtask
  <2>2. UNCHANGED <<visible, inFlight, sent, msg>>
    BY <1>5 DEF UpdateSubtask, queueVars, scanVars
  <2>3. msg[w] \in Batches
    BY <2>1 DEF PathInv
  <2>4. Past(msg[w])'
    <3>1. msg[w] \in sent \ visible
      BY <2>1, <2>3 DEF HandInv
    <3>2. \A v \in Workers \ {w} : msg[v] = msg[w] => pc[v] = "idle"
      BY <2>1 DEF HandInv
    <3> QED BY <2>1, <2>2, <3>1, <3>2 DEF Past, Handling
  <2>5. \A b \in Batches : subStatus'[b] = "Succeeded" => Past(b)'
    BY <2>1, <2>3, <2>4, <2>2
  <2> QED BY <2>1, <2>5
<1>6. CASE QuerySubtasks(w)
  <2>1. /\ UNCHANGED <<subStatus, token>> /\ pc'[w] = "get"
        /\ counted'[w] = SucceededSubtasks
    BY <1>6 DEF QuerySubtasks
  <2>2. \A b \in SucceededSubtasks : Past(b)
    BY DEF SucceededSubtasks
  <2> QED BY <2>1, <2>2
<1>7. ASSUME NEW n \in {0, parentTotal}, GetParent(w, n) PROVE PastInv'
  <2>1. /\ UNCHANGED <<subStatus, token, counted>> /\ total'[w] = n /\ pc'[w] # "success"
        /\ pc'[w] = "complete" => AllSubtasksCounted(counted[w], n)
    BY <1>7 DEF GetParent, AfterCheck
  <2>2. pc'[w] = "complete" /\ n # 0 => \A b \in found : Past(b)
    BY <2>1, CountIsFound
  <2> QED BY <1>3, <2>1, <2>2
<1>8. CASE UpdateParent(w)
  BY <1>3, <1>8 DEF UpdateParent
<1>9. CASE SendSuccess(w)
  <2>1. /\ UNCHANGED <<subStatus, counted>> /\ pc[w] = "success"
        /\ pc'[w] \in {"failure", "return"}
        /\ token' = "HasObjects" => token = "HasObjects" \/ total[w] # 0
    BY <1>9 DEF SendSuccess, Answer, FirstAnswer, AfterCheck
  <2> QED BY <2>1
<1>10. CASE SendFailure(w)
  <2>1. /\ UNCHANGED <<subStatus, counted>> /\ pc'[w] = "return"
        /\ token' = "HasObjects" => token = "HasObjects"
    BY <1>10 DEF SendFailure, Answer, FirstAnswer
  <2> QED BY <2>1
<1>11. CASE Return(w)
  <2>1. UNCHANGED <<subStatus, token>> /\ pc'[w] = "idle" /\ counted'[w] = {}
    BY <1>11 DEF Return, Reset
  <2> QED BY <2>1
<1> QED BY <1>4, <1>5, <1>6, <1>7, <1>8, <1>9, <1>10, <1>11 DEF Worker

LEMMA PastStep ==
    ASSUME IInv, Once, HandInv, PastInv, [Next]_vars
    PROVE  PastInv'
<1>1. \A b : Past(b) => Past(b)'
  BY PastStays DEF IInv
<1>2. ASSUME NEW w \in Workers, Crash(w) PROVE PastInv'
  BY <1>2 DEF Crash, Once
<1> USE <1>1 DEF PastInv, IInv, TypeInv, TypeOK
<1>3. ASSUME NEW w \in Workers, NEW m \in Messages, Receive(w, m) PROVE PastInv'
  BY <1>3, ReceiveTakes
<1>4. ASSUME NEW m \in Messages, Redrive(m) PROVE PastInv'
  BY <1>4 DEF Redrive, scanVars, subVars, workerVars
<1>5. ASSUME NEW S \in SUBSET Batches, ListObjects(S) PROVE PastInv'
  <2>1. /\ scanPc = "list" /\ parentTotal = 0 /\ token # "HasObjects"
        /\ \A w \in Workers : total[w] = 0
    BY <1>5 DEF ListObjects, ScanInv, CountInv
  <2> QED BY <1>5, <2>1 DEF ListObjects, subVars, workerVars
<1>6. ASSUME NEW b \in Batches, SendMessage(b) PROVE PastInv'
  BY <1>6 DEF SendMessage, subVars, workerVars
<1>7. CASE PutSubtask
  BY <1>7 DEF PutSubtask, workerVars
<1>8. CASE PutParent \/ UpdateTotal \/ SendEmpty
  BY <1>8 DEF PutParent, UpdateTotal, SendEmpty, subVars, workerVars
<1>9. CASE ScanCrash
  BY <1>9 DEF ScanCrash, FirstAnswer, subVars, workerVars
<1>10. CASE UNCHANGED vars
  BY <1>10 DEF vars, scanVars, subVars, workerVars
<1> QED BY <1>2, <1>3, <1>4, <1>5, <1>6, <1>7, <1>8, <1>9, <1>10, PastWorker, QueueKeeps
        DEF Next, Scanner, Deliver

(* A Lambda that moves an object has a batch of the listing that is not past.*)
LEMMA MoverNotPast ==
    ASSUME IInv, HandInv, [Next]_vars, objVars' # objVars
    PROVE  scanPc = "list" \/ \E b \in found : ~Past(b)
<1>1. ASSUME NEW w \in Workers,
             pc[w] \in {"copy", "delete", "download", "upload", "batchDelete"}
      PROVE  \E b \in found : ~Past(b)
  <2>1. msg[w] \in found
    BY <1>1 DEF IInv, TypeInv, PathInv, HandInv, ScanInv
  <2> QED BY <1>1, <2>1 DEF Past, Handling
<1>2. ASSUME NEW w \in Workers, Worker(w) \/ Crash(w)
      PROVE  pc[w] \in {"copy", "delete", "download", "upload", "batchDelete"}
  BY <1>2 DEF Worker, Crash, CopyObject, DeleteObject, ObjectFails, Download, Upload,
     BatchDelete, MergeFails, UpdateSubtask, QuerySubtasks, GetParent, UpdateParent,
     SendSuccess, SendFailure, Return
<1>3. Scanner \/ ScanCrash => scanPc = "list"
  BY DEF Scanner, ScanCrash, PutParent, ListObjects, SendMessage, PutSubtask, UpdateTotal,
     SendEmpty
<1>4. ASSUME NEW m \in Messages, VisibilityTimeout(m) \/ Redrive(m) \/ Deliver(m)
      PROVE  FALSE
  BY <1>4 DEF VisibilityTimeout, Redrive, Deliver, Receive
<1>5. ~UNCHANGED vars
  BY DEF vars
<1> QED BY <1>1, <1>2, <1>3, <1>4, <1>5 DEF Next

(* Once the workflow was told to go on nothing is moved any more: the count *)
(* that led to the answer covers the whole listing, and each batch counted  *)
(* has left the hands of the only Lambda that ever had its message.  With a *)
(* second delivery and an S3 error the property fails.                      *)
THEOREM SuccessIsQuiet ==
    ASSUME "Duplicate" \notin Faults, "Crash" \notin Faults
    PROVE  Spec => QuietAfterSuccess
<1> DEFINE Inv == IInv /\ HandInv /\ PastInv
<1>1. Init => Inv
  BY IInvInit, HandInit
<1>2. Inv /\ [Next]_vars => Inv'
  BY IInvStep, HandStep, PastStep DEF IInv, Once
<1>3. Inv /\ [Next]_vars => [token = "HasObjects" => UNCHANGED objVars]_vars
  <2> SUFFICES ASSUME Inv, [Next]_vars, token = "HasObjects" PROVE objVars' = objVars
    OBVIOUS
  <2>1. scanPc = "done" /\ \A b \in found : Past(b)
    BY DEF IInv, CountInv, PastInv
  <2> QED BY <2>1, MoverNotPast
<1> QED BY <1>1, <1>2, <1>3, PTL DEF Spec, QuietAfterSuccess
=============================================================================
