------------------------- MODULE LogProcessorProofs -------------------------
(***************************************************************************)
(* Proofs about LogProcessor, for any number of objects and executions,    *)
(* any bounds and, where it is not said otherwise, every set of faults.    *)
(*                                                                         *)
(* StateInv ties the state an execution is in to what it has done with the *)
(* objects under its archive prefix: from the end of its job until it ends *)
(* nothing is added to them, and it can only get past the choice after the *)
(* drop step, towards Succeeded, with their rows in the delta table.  The  *)
(* exception, an execution misled by an early comparison, goes from its    *)
(* job to Succeeded in one step.                                           *)
(***************************************************************************)
EXTENDS LogProcessor, FiniteSetTheorems, TLAPS

ArchiveLoaded(e) == \A o \in archive[e] : copies[e][o] > 0

AfterJob == {"format", "create", "insert", "drop", "choice", "kpi"}

JobOver(e) == todo[e] = {} /\ ArchiveLoaded(e)

StateInv(e) ==
    /\ copied[e] \subseteq archive[e]
    /\ todo[e] \cup copied[e] \subseteq listed[e]
    /\ pc[e] \in {"new", "scan"} => archive[e] = {} /\ todo[e] = {}
    /\ pc[e] \in AfterJob => todo[e] = {}
    /\ pc[e] \in {"drop", "choice"} => errors[e] \/ ArchiveLoaded(e)
    /\ pc[e] = "kpi" => ArchiveLoaded(e)
    /\ pc[e] = "complete" => JobOver(e) \/ Misled(e)
    /\ pc[e] = "fail" => e \in notified
    /\ log[e] = "Succeeded" => pc[e] = "ended" /\ (JobOver(e) \/ Misled(e))
    /\ pc[e] = "ended" =>
          e \in notified \/ log[e] = "Succeeded" \/ "ServiceError" \in Faults

KeptInv == \A o \in arrived : o \in staging \/ \E e \in Executions : o \in archive[e]

IInv == TypeOK /\ KeptInv /\ \A e \in Executions : StateInv(e)

(* What the state of an execution is made of. *)
Own(e) == <<pc[e], archive[e], todo[e], copied[e], errors[e], copies[e],
            log[e], e \in notified, listed[e], answer[e]>>

(* A step of one execution leaves the others as they are. *)
LEMMA OthersKept ==
    ASSUME NEW e \in Executions, Own(e)' = Own(e), StateInv(e)
    PROVE  StateInv(e)'
  BY DEF Own, StateInv, ArchiveLoaded, AfterJob, JobOver, Misled

LEMMA InitInv == Init => IInv
  BY ProcessorAssumption
  DEF Init, IInv, TypeOK, KeptInv, StateInv, ArchiveLoaded, AfterJob, JobOver, Misled,
      Steps, Answers

(* The job: listing, copying, deleting and failing. *)
LEMMA JobInv ==
    ASSUME IInv, NEW e \in Executions,
           \/ \E S \in SUBSET staging : Scan(e, S) \/ ScanFails(e, S)
           \/ \E o \in Objects : Copy(e, o) \/ Delete(e, o) \/ MoveFails(e, o)
           \/ JobSucceeds(e) \/ JobMisleads(e) \/ JobSilent(e)
    PROVE  IInv'
<1> USE DEF objVars, moveVars, jobVars, dataVars, logVars, Goto, Answered, Steps, Answers
<1>1. CASE \E S \in SUBSET staging : Scan(e, S) \/ ScanFails(e, S)
  <2>1. PICK S \in SUBSET staging : Scan(e, S) \/ ScanFails(e, S)
    BY <1>1
  <2>2. TypeOK'
    BY <2>1 DEF Scan, ScanFails, ListAtMost, IInv, TypeOK
  <2>3. KeptInv'
    BY <2>1 DEF Scan, ScanFails, IInv, KeptInv
  <2>4. StateInv(e)'
    BY <2>1 DEF Scan, ScanFails, IInv, TypeOK, StateInv, ArchiveLoaded, AfterJob, JobOver, Misled
  <2>5. ASSUME NEW f \in Executions, f # e PROVE StateInv(f)'
    <3>1. Own(f)' = Own(f)
      BY <2>1, <2>5 DEF Scan, ScanFails, IInv, TypeOK, Own
    <3> QED BY <3>1, OthersKept DEF IInv
  <2> QED BY <2>2, <2>3, <2>4, <2>5 DEF IInv
<1>2. CASE \E o \in Objects : Copy(e, o) \/ Delete(e, o) \/ MoveFails(e, o)
  <2>1. PICK o \in Objects : Copy(e, o) \/ Delete(e, o) \/ MoveFails(e, o)
    BY <1>2
  <2>2. TypeOK'
    <3>1. CASE Copy(e, o)
      BY <3>1 DEF Copy, IInv, TypeOK
    <3>2. CASE Delete(e, o)
      BY <3>2 DEF Delete, IInv, TypeOK
    <3>3. CASE MoveFails(e, o)
      BY <3>3 DEF MoveFails, JobFails, Misleads, IInv, TypeOK
    <3> QED BY <2>1, <3>1, <3>2, <3>3
  <2>3. KeptInv'
    <3>1. /\ arrived' = arrived
          /\ staging \subseteq staging' \cup archive[e]
      BY <2>1 DEF Copy, Delete, MoveFails, IInv, StateInv
    <3>2. \A f \in Executions : archive[f] \subseteq archive'[f]
      BY <2>1 DEF Copy, Delete, MoveFails, IInv, TypeOK
    <3> QED BY <3>1, <3>2 DEF IInv, KeptInv
  <2>4. StateInv(e)'
    BY <2>1 DEF Copy, Delete, MoveFails, JobFails, Misleads, IInv, TypeOK, StateInv,
       ArchiveLoaded, AfterJob, JobOver, Misled
  <2>5. ASSUME NEW f \in Executions, f # e PROVE StateInv(f)'
    <3>1. Own(f)' = Own(f)
      BY <2>1, <2>5 DEF Copy, Delete, MoveFails, JobFails, Misleads, IInv, TypeOK, Own
    <3> QED BY <3>1, OthersKept DEF IInv
  <2> QED BY <2>2, <2>3, <2>4, <2>5 DEF IInv
<1>3. CASE JobSucceeds(e) \/ JobMisleads(e) \/ JobSilent(e)
  <2> USE DEF JobSucceeds, JobMisleads, Misleads, JobSilent
  <2>1. TypeOK' /\ KeptInv'
    BY <1>3 DEF IInv, TypeOK, KeptInv
  <2>2. StateInv(e)'
    BY <1>3 DEF JobDone, IInv, TypeOK, StateInv, ArchiveLoaded, AfterJob, JobOver, Misled
  <2>3. ASSUME NEW f \in Executions, f # e PROVE StateInv(f)'
    <3>1. Own(f)' = Own(f)
      BY <1>3, <2>3 DEF IInv, TypeOK, Own
    <3> QED BY <3>1, OthersKept DEF IInv
  <2> QED BY <2>1, <2>2, <2>3 DEF IInv
<1> QED BY <1>1, <1>2, <1>3

(* The temporary table and the INSERT query. *)
LEMMA QueryInv ==
    ASSUME IInv, NEW e \in Executions,
           \/ Format(e) \/ CreateTmpTable(e)
           \/ \E created \in BOOLEAN : CreateTmpTableFails(e, created)
           \/ Insert(e)
           \/ \E S \in SUBSET archive[e] : InsertRetried(e, S) \/ InsertFails(e, S)
           \/ DropTmpTable(e)
    PROVE  IInv'
<1> USE DEF objVars, moveVars, jobVars, dataVars, logVars, Goto, Steps
<1>1. CASE Format(e) \/ CreateTmpTable(e) \/ DropTmpTable(e)
           \/ \E created \in BOOLEAN : CreateTmpTableFails(e, created)
  <2>1. TypeOK' /\ KeptInv'
    <3> USE DEF Format, CreateTmpTable, DropTmpTable, CreateTmpTableFails, IInv
    <3>1. KeptInv'
      BY <1>1 DEF KeptInv
    <3>2. pc' \in [Executions -> Steps]
      BY <1>1 DEF TypeOK
    <3>3. tmp' \in [Executions -> BOOLEAN] /\ errors' \in [Executions -> BOOLEAN]
      BY <1>1 DEF TypeOK
    <3>4. UNCHANGED <<objVars, jobVars, retries, copies, logVars>>
      BY <1>1
    <3>5. TypeOK'
      BY <3>2, <3>3, <3>4 DEF TypeOK
    <3> QED BY <3>1, <3>5
  <2>2. StateInv(e)'
    BY <1>1 DEF Format, CreateTmpTable, DropTmpTable, CreateTmpTableFails, IInv,
       TypeOK, StateInv, ArchiveLoaded, AfterJob, JobOver, Misled
  <2>3. ASSUME NEW f \in Executions, f # e PROVE StateInv(f)'
    <3>1. Own(f)' = Own(f)
      BY <1>1, <2>3 DEF Format, CreateTmpTable, DropTmpTable,
         CreateTmpTableFails, IInv, TypeOK, Own
    <3> QED BY <3>1, OthersKept DEF IInv
  <2> QED BY <2>1, <2>2, <2>3 DEF IInv
<1>2. ASSUME NEW S \in SUBSET Objects, Write(e, S), TypeOK
      PROVE  /\ copies' \in [Executions -> [Objects -> Nat]]
             /\ \A o \in S : copies'[e][o] > 0
             /\ \A f \in Executions : f # e => copies'[f] = copies[f]
  <2>1. \A o \in Objects : copies[e][o] \in Nat
    BY <1>2 DEF TypeOK
  <2>2. copies'[e] = [o \in Objects |-> copies[e][o] + IF o \in S THEN 1 ELSE 0]
    BY <1>2 DEF Write, TypeOK
  <2>3. copies'[e] \in [Objects -> Nat]
    BY <2>1, <2>2
  <2>4. \A o \in S : copies'[e][o] > 0
    BY <2>1, <2>2
  <2>5. \A f \in Executions : f # e => copies'[f] = copies[f]
    BY <1>2 DEF Write, TypeOK
  <2>6. copies' = [copies EXCEPT ![e] = copies'[e]]
    BY <1>2, <2>2 DEF Write, TypeOK
  <2> QED BY <1>2, <2>3, <2>4, <2>5, <2>6 DEF TypeOK
<1>3. ASSUME NEW S \in SUBSET Objects, Write(e, S), KeptInv', StateInv(e)',
             TypeOK',
             \A f \in Executions : f # e => Own(f)' = Own(f)
      PROVE  IInv'
  BY <1>3, OthersKept DEF IInv
<1>4. CASE Insert(e)
  <2>1. Write(e, archive[e]) /\ archive[e] \in SUBSET Objects /\ TypeOK
    BY <1>4 DEF Insert, IInv, TypeOK
  <2>2. /\ copies' \in [Executions -> [Objects -> Nat]]
        /\ \A o \in archive[e] : copies'[e][o] > 0
        /\ \A f \in Executions : f # e => copies'[f] = copies[f]
    BY <1>2, <2>1
  <2>3. TypeOK' /\ KeptInv'
    BY <1>4, <2>2 DEF Insert, IInv, TypeOK, KeptInv
  <2>4. StateInv(e)'
    BY <1>4, <2>2 DEF Insert, IInv, TypeOK, StateInv, ArchiveLoaded, AfterJob, JobOver, Misled
  <2>5. \A f \in Executions : f # e => Own(f)' = Own(f)
    BY <1>4, <2>2 DEF Insert, IInv, TypeOK, Own
  <2> QED BY <1>3, <2>1, <2>3, <2>4, <2>5
<1>5. CASE \E S \in SUBSET archive[e] : InsertRetried(e, S) \/ InsertFails(e, S)
  <2>1. PICK S \in SUBSET archive[e] : InsertRetried(e, S) \/ InsertFails(e, S)
    BY <1>5
  <2>2. Write(e, S) /\ S \in SUBSET Objects /\ TypeOK
    BY <2>1 DEF InsertRetried, InsertFails, IInv, TypeOK
  <2>3. /\ copies' \in [Executions -> [Objects -> Nat]]
        /\ \A f \in Executions : f # e => copies'[f] = copies[f]
    BY <1>2, <2>2
  <2>4. TypeOK' /\ KeptInv'
    <3>1. retries' \in [Executions -> 0..MaxRetries]
      <4>1. retries[e] \in 0..MaxRetries
        BY DEF IInv, TypeOK
      <4>2. retries[e] < MaxRetries => retries[e] + 1 \in 0..MaxRetries
        BY <4>1, ProcessorAssumption
      <4> QED BY <2>1, <4>2 DEF InsertRetried, InsertFails, IInv, TypeOK
    <3> QED BY <2>1, <2>3, <3>1 DEF InsertRetried, InsertFails, IInv, TypeOK, KeptInv
  <2>5. StateInv(e)'
    BY <2>1, <2>3 DEF InsertRetried, InsertFails, IInv, TypeOK, StateInv,
       ArchiveLoaded, AfterJob, JobOver, Misled
  <2>6. \A f \in Executions : f # e => Own(f)' = Own(f)
    BY <2>1, <2>3 DEF InsertRetried, InsertFails, IInv, TypeOK, Own
  <2> QED BY <1>3, <2>2, <2>4, <2>5, <2>6
<1> QED BY <1>1, <1>4, <1>5

(* The start and the end of an execution. *)
LEMMA EndInv ==
    ASSUME IInv, NEW e \in Executions,
           \/ Start(e) \/ Choice(e) \/ MeasureKPIs(e) \/ Complete(e)
           \/ Notify(e) \/ UpdateFailed(e) \/ StateFails(e)
    PROVE  IInv'
<1> USE DEF objVars, moveVars, jobVars, dataVars, logVars, Goto, Answered, Steps, Answers, MayStart,
            Start, Choice, MeasureKPIs, Complete, Notify, UpdateFailed, StateFails
<1>1. TypeOK' /\ KeptInv'
  BY DEF AfterDrop, IInv, TypeOK, KeptInv
<1>2. StateInv(e)'
  BY DEF AfterDrop, IInv, TypeOK, StateInv, ArchiveLoaded, AfterJob, JobOver, Misled
<1>3. ASSUME NEW f \in Executions, f # e PROVE StateInv(f)'
  <2>1. Own(f)' = Own(f)
    BY <1>3 DEF AfterDrop, IInv, TypeOK, Own
  <2> QED BY <2>1, OthersKept DEF IInv
<1> QED BY <1>1, <1>2, <1>3 DEF IInv

LEMMA NextInv == IInv /\ [Next]_vars => IInv'
<1> SUFFICES ASSUME IInv, [Next]_vars PROVE IInv'
  OBVIOUS
<1>1. ASSUME NEW o \in Objects, Arrive(o) PROVE IInv'
  <2>1. TypeOK' /\ KeptInv'
    BY <1>1 DEF Arrive, IInv, TypeOK, KeptInv, moveVars, jobVars, dataVars, logVars
  <2>2. \A e \in Executions : Own(e)' = Own(e)
    BY <1>1 DEF Arrive, Own, moveVars, jobVars, dataVars, logVars
  <2> QED BY <2>1, <2>2, OthersKept DEF IInv
<1>2. ASSUME NEW e \in Executions,
             Start(e) \/ Work(e) \/ JobMisleads(e) \/ JobSilent(e) \/ StateFails(e)
      PROVE  IInv'
  BY <1>2, JobInv, QueryInv, EndInv DEF Work
<1>3. CASE UNCHANGED vars
  <2>1. TypeOK' /\ KeptInv'
    BY <1>3 DEF vars, IInv, TypeOK, KeptInv, objVars, moveVars, jobVars, dataVars, logVars
  <2>2. \A e \in Executions : Own(e)' = Own(e)
    BY <1>3 DEF vars, Own, objVars, moveVars, jobVars, dataVars, logVars
  <2> QED BY <2>1, <2>2, OthersKept DEF IInv
<1> QED BY <1>1, <1>2, <1>3 DEF Next

LEMMA Inductive == Spec => []IInv
  BY InitInv, NextInv, PTL DEF Spec

(* Every step of the state machine keeps the variables in their types; the *)
(* INSERT query is never retried more than MaxRetries times.               *)
THEOREM TypeCorrect == Spec => []TypeOK
<1>1. IInv => TypeOK
  BY DEF IInv
<1> QED BY <1>1, Inductive, PTL

(* Under every combination of faults, overlapping executions included, an  *)
(* execution that the ETL log calls Succeeded has loaded every object      *)
(* under its archive prefix, unless its job told it that nothing was there *)
(* while objects were being moved: no other fault gets so far.             *)
THEOREM SucceededIsLoaded == Spec => []SucceededLoaded
<1>1. IInv => SucceededLoaded
  BY DEF IInv, StateInv, ArchiveLoaded, JobOver, SucceededLoaded
<1> QED BY <1>1, Inductive, PTL

(* As long as the last states of the machine do not fail, no object that   *)
(* has left the staging prefix is forgotten: it is in the hands of a       *)
(* running execution, loaded, or its failure was published; or the job     *)
(* that moved it misled its execution, or left it unanswered.              *)
THEOREM NoneForgotten ==
    ASSUME "ServiceError" \notin Faults
    PROVE  Spec => []NothingForgotten
<1>1. IInv => NothingForgotten
  <2> SUFFICES ASSUME IInv, NEW o \in arrived, o \notin staging
               PROVE  \/ UnderWay(o) \/ Loaded(o) \/ Reported(o)
                      \/ \E e \in Executions : o \in archive[e] /\ Stranded(e)
    BY DEF NothingForgotten, UnderWay
  <2>1. PICK e \in Executions : o \in archive[e]
    BY DEF IInv, KeptInv
  <2>2. pc[e] # "new"
    BY <2>1 DEF IInv, StateInv
  <2>3. CASE pc[e] \notin {"unanswered", "ended"}
    BY <2>1, <2>2, <2>3 DEF UnderWay, Running
  <2>4. CASE pc[e] = "unanswered"
    BY <2>1, <2>4 DEF Stranded
  <2>5. CASE pc[e] = "ended"
    <3>1. e \in notified \/ log[e] = "Succeeded"
      BY <2>5 DEF IInv, StateInv
    <3>2. log[e] = "Succeeded" => copies[e][o] > 0 \/ Misled(e)
      BY <2>1 DEF IInv, StateInv, JobOver, ArchiveLoaded
    <3> QED BY <2>1, <3>1, <3>2 DEF Loaded, Reported, Stranded
  <2> QED BY <2>3, <2>4, <2>5
<1> QED BY <1>1, Inductive, PTL

-----------------------------------------------------------------------------
(* LoadedOnce.  What keeps a row from being loaded twice is where the      *)
(* objects are: an execution that gets as far as its query has taken all   *)
(* of its archive away from staging, alone, and nothing comes back there.  *)
OneByOne == {"Overlap", "Masked", "PartialInsert"} \cap Faults = {}

BeforeLoad == {"new", "scan", "move", "format", "create", "insert"}

PlacesInv ==
    /\ staging \subseteq arrived
    /\ \A e \in Executions : archive[e] \subseteq arrived

AloneInv == \A e, f \in Executions : Running(e) /\ Running(f) => e = f

MovedInv(e) ==
    /\ pc[e] = "move" => archive[e] \cap staging \subseteq copied[e]
    /\ pc[e] \in AfterJob => copied[e] = {} /\ archive[e] \cap staging = {}

(* The rows of o that execution e has loaded are its alone.                *)
RowInv(e, o) ==
    /\ copies[e][o] <= 1
    /\ copies[e][o] > 0 =>
          /\ o \in archive[e] /\ o \notin staging /\ pc[e] \notin BeforeLoad
          /\ \A f \in Executions \ {e} :
                copies[f][o] = 0 /\ (pc[f] \in BeforeLoad => o \notin archive[f])

OnceInv ==
    /\ PlacesInv /\ AloneInv
    /\ \A e \in Executions : MovedInv(e) /\ \A o \in Objects : RowInv(e, o)

LEMMA OnceInit == Init => OnceInv
  BY DEF Init, OnceInv, PlacesInv, AloneInv, MovedInv, RowInv, Running, AfterJob, BeforeLoad

(* The steps of an execution that touch neither objects nor rows.          *)
Passes(e) ==
    \/ \E S \in SUBSET staging : Scan(e, S) \/ ScanFails(e, S)
    \/ Start(e) \/ JobSucceeds(e) \/ JobMisleads(e) \/ JobSilent(e) \/ Format(e) \/ CreateTmpTable(e)
    \/ \E created \in BOOLEAN : CreateTmpTableFails(e, created)
    \/ DropTmpTable(e) \/ Choice(e) \/ MeasureKPIs(e) \/ Complete(e)
    \/ Notify(e) \/ UpdateFailed(e) \/ StateFails(e)

LEMMA OncePasses ==
    ASSUME OneByOne, IInv, OnceInv, NEW e \in Executions, Passes(e)
    PROVE  OnceInv'
<1> USE DEF IInv, TypeOK
<1>1. /\ UNCHANGED <<arrived, staging, archive, copied, copies>>
      /\ \A f \in Executions : f # e => pc'[f] = pc[f]
  BY DEF Passes, Scan, ScanFails, Start, JobSucceeds, JobMisleads, Misleads, JobSilent, Format, CreateTmpTable,
     CreateTmpTableFails, DropTmpTable, Choice, MeasureKPIs, Complete, Notify,
     UpdateFailed, StateFails, Goto, objVars, moveVars, jobVars, dataVars, logVars
<1>2. /\ pc'[e] \in BeforeLoad => pc[e] \in BeforeLoad
      /\ pc'[e] = "move" => pc[e] = "scan"
      /\ pc'[e] \in AfterJob => \/ pc[e] \in AfterJob \/ pc[e] = "scan"
                                \/ pc[e] = "move" /\ JobDone(e)
  BY DEF Passes, Scan, ScanFails, Start, JobSucceeds, JobMisleads, Misleads, JobSilent, Format, CreateTmpTable,
     CreateTmpTableFails, DropTmpTable, Choice, MeasureKPIs, Complete, Notify,
     UpdateFailed, StateFails, Goto, MayStart, AfterDrop, BeforeLoad, AfterJob
<1>3. pc'[e] \notin {"new", "ended"} =>
          Running(e) \/ \A f \in Executions : ~Running(f)
  BY DEF Passes, Scan, ScanFails, Start, JobSucceeds, JobMisleads, Misleads, JobSilent, Format, CreateTmpTable,
     CreateTmpTableFails, DropTmpTable, Choice, MeasureKPIs, Complete, Notify,
     UpdateFailed, StateFails, Goto, MayStart, Running, OneByOne
<1>4. PlacesInv'
  BY <1>1 DEF OnceInv, PlacesInv
<1>5. AloneInv'
  BY <1>1, <1>3 DEF OnceInv, AloneInv, Running
<1>6. MovedInv(e)'
  <2>1. pc[e] = "scan" => archive[e] = {} /\ copied[e] = {}
    BY DEF StateInv
  <2> QED BY <1>1, <1>2, <2>1 DEF OnceInv, MovedInv, JobDone
<1>7. ASSUME NEW f \in Executions, f # e PROVE MovedInv(f)'
  BY <1>1, <1>7 DEF OnceInv, MovedInv
<1>8. ASSUME NEW f \in Executions, NEW o \in Objects PROVE RowInv(f, o)'
  <2>1. RowInv(f, o) /\ \A g \in Executions : pc'[g] \in BeforeLoad => pc[g] \in BeforeLoad
    BY <1>1, <1>2 DEF OnceInv
  <2> QED BY <1>1, <2>1 DEF RowInv
<1> QED BY <1>4, <1>5, <1>6, <1>7, <1>8 DEF OnceInv

LEMMA OnceMoves ==
    ASSUME OneByOne, IInv, OnceInv, NEW e \in Executions, NEW o \in Objects,
           Copy(e, o) \/ Delete(e, o) \/ MoveFails(e, o)
    PROVE  OnceInv'
<1> USE DEF IInv, TypeOK
<1>1. /\ UNCHANGED <<arrived, copies>>
      /\ staging' \subseteq staging
      /\ \A f \in Executions : f # e => /\ pc'[f] = pc[f] /\ archive'[f] = archive[f]
                                        /\ copied'[f] = copied[f]
      /\ pc'[e] = pc[e] \/ (pc[e] = "move" /\ pc'[e] \in {"notify", "complete"})
      /\ archive[e] \subseteq archive'[e] /\ archive'[e] \subseteq archive[e] \cup staging
  BY DEF Copy, Delete, MoveFails, JobFails, Misleads, Goto, OneByOne, objVars, dataVars, logVars
<1>2. PlacesInv'
  BY <1>1 DEF OnceInv, PlacesInv
<1>3. AloneInv'
  BY <1>1 DEF OnceInv, AloneInv, Running
<1>4. MovedInv(e)'
  <2>1. pc[e] \in AfterJob => todo[e] = {} /\ copied[e] = {}
    BY DEF StateInv, OnceInv, MovedInv
  <2>2. pc'[e] \notin AfterJob
    BY <1>1, <2>1 DEF Copy, Delete, MoveFails, AfterJob
  <2>3. CASE Copy(e, o)
    BY <2>2, <2>3 DEF Copy, OnceInv, MovedInv
  <2>4. CASE Delete(e, o)
    BY <2>2, <2>4 DEF Delete, OnceInv, MovedInv, objVars
  <2>5. CASE MoveFails(e, o)
    <3>1. pc'[e] # "move"
      BY <2>5 DEF MoveFails, JobFails, Misleads, Goto, OneByOne
    <3> QED BY <2>2, <3>1 DEF MovedInv
  <2> QED BY <2>3, <2>4, <2>5
<1>5. ASSUME NEW f \in Executions, f # e PROVE MovedInv(f)'
  BY <1>1, <1>5 DEF OnceInv, MovedInv
<1>6. ASSUME NEW f \in Executions, NEW p \in Objects PROVE RowInv(f, p)'
  <2>1. RowInv(f, p)
    BY DEF OnceInv
  <2>2. \A g \in Executions : pc'[g] \in BeforeLoad => pc[g] \in BeforeLoad
    BY <1>1 DEF BeforeLoad
  <2>3. pc[f] \notin BeforeLoad => pc'[f] \notin BeforeLoad
    BY <2>2
  <2>4. p \notin staging =>
            \A g \in Executions : p \in archive'[g] <=> p \in archive[g]
    BY <1>1
  <2> QED BY <1>1, <2>1, <2>2, <2>3, <2>4 DEF RowInv
<1> QED BY <1>2, <1>3, <1>4, <1>5, <1>6 DEF OnceInv

(* The query loads all of the archive or nothing.                          *)
LEMMA OnceLoads ==
    ASSUME OneByOne, IInv, OnceInv, NEW e \in Executions,
           \/ Insert(e)
           \/ \E S \in SUBSET archive[e] : InsertRetried(e, S) \/ InsertFails(e, S)
    PROVE  OnceInv'
<1> USE DEF IInv, TypeOK
<1>1. PICK S \in SUBSET archive[e] :
        /\ Write(e, S)
        /\ pc[e] = "insert" /\ UNCHANGED <<arrived, staging, archive, copied>>
        /\ \A f \in Executions : f # e => pc'[f] = pc[f]
        /\ pc'[e] \in {"insert", "drop"}
        /\ S = {} \/ pc'[e] = "drop"
  <2>1. CASE Insert(e)
    BY <2>1 DEF Insert, Goto, objVars, moveVars, jobVars
  <2>2. CASE \E S \in SUBSET archive[e] : InsertRetried(e, S) \/ InsertFails(e, S)
    BY <2>2 DEF InsertRetried, InsertFails, Goto, OneByOne, objVars, moveVars, jobVars
  <2> QED BY <2>1, <2>2
<1>2. /\ \A f \in Executions : f # e => copies'[f] = copies[f]
      /\ \A o \in Objects : copies'[e][o] = copies[e][o] + IF o \in S THEN 1 ELSE 0
  BY <1>1 DEF Write
<1>3. \A o \in Objects : copies[e][o] = 0
  BY <1>1 DEF OnceInv, RowInv, BeforeLoad
<1>4. archive[e] \cap staging = {}
  BY <1>1 DEF OnceInv, MovedInv, AfterJob
<1>5. PlacesInv' /\ AloneInv'
  BY <1>1 DEF OnceInv, PlacesInv, AloneInv, Running
<1>6. \A f \in Executions : MovedInv(f)'
  BY <1>1 DEF OnceInv, MovedInv, AfterJob
<1>7. ASSUME NEW o \in Objects PROVE RowInv(e, o)'
  <2>1. CASE o \notin S
    BY <1>2, <1>3, <2>1 DEF RowInv
  <2>2. CASE o \in S
    <3>1. copies'[e][o] = 1 /\ o \in archive'[e] /\ o \notin staging' /\ pc'[e] \notin BeforeLoad
      BY <1>1, <1>2, <1>3, <1>4, <2>2 DEF BeforeLoad
    <3>2. ASSUME NEW f \in Executions \ {e}
          PROVE  copies'[f][o] = 0 /\ (pc'[f] \in BeforeLoad => o \notin archive'[f])
      <4>1. copies[f][o] = 0
        <5>1. RowInv(f, o) /\ copies[f][o] \in Nat
          BY <3>2 DEF OnceInv
        <5>2. o \in archive[e] /\ pc[e] \in BeforeLoad
          BY <1>1, <2>2 DEF BeforeLoad
        <5> QED BY <3>2, <5>1, <5>2 DEF RowInv
      <4>2. ~Running(f)
        BY <1>1, <3>2 DEF OnceInv, AloneInv, Running
      <4>3. pc[f] = "new" => archive[f] = {}
        BY DEF StateInv
      <4> QED BY <1>1, <1>2, <4>1, <4>2, <4>3 DEF Running, BeforeLoad
    <3> QED BY <3>1, <3>2 DEF RowInv
  <2> QED BY <2>1, <2>2
<1>8. ASSUME NEW f \in Executions \ {e}, NEW o \in Objects PROVE RowInv(f, o)'
  <2>1. RowInv(f, o)
    BY DEF OnceInv
  <2>2. copies[f][o] > 0 => o \notin archive[e] /\ copies'[e][o] = 0
    <3>1. SUFFICES ASSUME copies[f][o] > 0
                   PROVE  o \notin archive[e] /\ copies'[e][o] = 0
      OBVIOUS
    <3>2. o \notin archive[e]
      BY <1>1, <2>1, <3>1 DEF RowInv, BeforeLoad
    <3> QED BY <1>1, <1>2, <1>3, <3>2
  <2> QED BY <1>1, <1>2, <2>1, <2>2 DEF RowInv, BeforeLoad
<1> QED BY <1>5, <1>6, <1>7, <1>8 DEF OnceInv

LEMMA OnceNext == OneByOne /\ IInv /\ OnceInv /\ [Next]_vars => OnceInv'
<1> SUFFICES ASSUME OneByOne, IInv, OnceInv, [Next]_vars PROVE OnceInv'
  OBVIOUS
<1>1. ASSUME NEW o \in Objects, Arrive(o) PROVE OnceInv'
  <2>1. /\ UNCHANGED <<archive, pc, copied, copies>>
        /\ arrived' = arrived \cup {o} /\ staging' = staging \cup {o}
        /\ \A e \in Executions : o \notin archive[e]
    BY <1>1 DEF Arrive, OnceInv, PlacesInv, moveVars, jobVars, dataVars
  <2>2. PlacesInv' /\ AloneInv' /\ \A e \in Executions : MovedInv(e)'
    BY <2>1 DEF OnceInv, PlacesInv, AloneInv, Running, MovedInv
  <2>3. \A e \in Executions, p \in Objects : RowInv(e, p)'
    BY <2>1 DEF OnceInv, RowInv
  <2> QED BY <2>2, <2>3 DEF OnceInv
<1>2. ASSUME NEW e \in Executions,
             Start(e) \/ Work(e) \/ JobMisleads(e) \/ JobSilent(e) \/ StateFails(e)
      PROVE  OnceInv'
  BY <1>2, OncePasses, OnceMoves, OnceLoads DEF Work, Passes
<1>3. CASE UNCHANGED vars
  BY <1>3 DEF vars, objVars, moveVars, jobVars, dataVars, OnceInv, PlacesInv, AloneInv, Running,
     MovedInv, RowInv
<1> QED BY <1>1, <1>2, <1>3 DEF Next

(* Executions that do not overlap load no row twice, however many there    *)
(* are and whichever of their queries, steps, notifications and S3 calls   *)
(* fail, the Lambdas of failed or misleading jobs still at work included.  *)
THEOREM RowsLoadedOnce == ASSUME OneByOne PROVE Spec => []LoadedOnce
<1>1. IInv /\ OnceInv => LoadedOnce
  <2> SUFFICES ASSUME IInv, OnceInv, NEW o \in Objects
               PROVE  /\ \A e \in Executions : copies[e][o] <= 1
                      /\ Cardinality({e \in Executions : copies[e][o] > 0}) <= 1
    BY DEF LoadedOnce
  <2>1. \A e \in Executions : copies[e][o] <= 1
    BY DEF OnceInv, RowInv
  <2>2. CASE \A e \in Executions : ~(copies[e][o] > 0)
    <3>1. {e \in Executions : copies[e][o] > 0} = {}
      BY <2>2
    <3> QED BY <2>1, <3>1, FS_EmptySet
  <2>3. CASE \E e \in Executions : copies[e][o] > 0
    <3>1. PICK e \in Executions : copies[e][o] > 0
      BY <2>3
    <3>2. \A f \in Executions : copies[f][o] > 0 => f = e
      BY <3>1 DEF OnceInv, RowInv
    <3>3. {f \in Executions : copies[f][o] > 0} = {e}
      BY <3>1, <3>2
    <3>4. Cardinality({e}) = 1 /\ 1 <= 1
      BY FS_Singleton
    <3>5. Cardinality({f \in Executions : copies[f][o] > 0}) <= 1
      BY <3>3, <3>4, Zenon
    <3> QED BY <2>1, <3>5
  <2> QED BY <2>2, <2>3
<1>2. IInv /\ OnceInv /\ [Next]_vars => OnceInv'
  BY OnceNext
<1> QED BY <1>1, <1>2, OnceInit, Inductive, PTL DEF Spec
=============================================================================
