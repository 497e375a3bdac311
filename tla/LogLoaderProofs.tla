-------------------------- MODULE LogLoaderProofs --------------------------
(***************************************************************************)
(* What holds of LogLoader for every number of containers and events, every*)
(* length of an event and every number of failures: it is type correct,    *)
(* OpenSearch is set up before a record is indexed, batches of an          *)
(* undisturbed event do not overlap, no record of a source other than      *)
(* Kinesis vanishes, and batches that are refused for their size become    *)
(* small enough.  The invariant adds where an invocation stands: which jobs*)
(* it has behind it, which records, that it has its event to itself, and   *)
(* that a retry runs with an environment shrunk before it started.         *)
(***************************************************************************)
EXTENDS LogLoader, FiniteSetTheorems, TLAPS

Loading == {"bulk", "export", "shrink", "reduce"}
Initialising == {"init", "create", "get", "put"}

InHand(w) == pc[w] # "idle" => ev[w] \in Events /\ cEnv[w] \in Envs

CopyHeld(w) == pc[w] \in {"put", "reduce"} => copy[w] \in Envs

(* Where an invocation is, by its program counter.                          *)
Place(w) ==
    /\ pc[w] = "idle" => job[w] = 1
    /\ job[w] <= Len(InitJobs) => at[w] = 1
    /\ pc[w] \in Loading => job[w] = Len(InitJobs) + 1 /\ at[w] <= Len0
    /\ pc[w] \in Initialising /\ job[w] = Len(InitJobs) + 1 => at[w] = Len0 + 1
    /\ pc[w] = "end" => at[w] = Len0 + 1
    /\ pc[w] = "create" => JobOf(w) = "ALIAS"

Placed == \A w \in Containers : InHand(w) /\ CopyHeld(w) /\ Place(w)

(* An event is in the hands of one container at most.                       *)
OneHand ==
    \A w \in Containers : pc[w] # "idle" =>
        /\ state[ev[w]] = "running"
        /\ \A v \in Containers : pc[v] # "idle" /\ ev[v] = ev[w] => v = w

(* The jobs behind an invocation are made.                                  *)
MadeBefore(w) ==
    /\ \A i \in 1..Len(InitJobs) : i < job[w] => InitJobs[i] \in made
    /\ pc[w] \in {"get", "put"} => JobOf(w) \in made
    /\ copy[w] \in Envs => copy[w].flags \subseteq made

SetUp == InitialisedFirst /\ \A w \in Containers : MadeBefore(w)

(* Of an event invoked at most once nothing is indexed beyond the batches   *)
(* its container has behind it.                                             *)
Untouched(w) ==
    accidents = 0 /\ pc[w] # "idle" /\ attempts[ev[w]] <= 1 =>
        \A u \in Units :
            u >= at[w] /\ (pc[w] = "export" => u > BatchEnd(w)) => indexed[ev[w]][u] = 0

Ahead ==
    /\ \A e \in Events : state[e] = "running" => attempts[e] > 0
    /\ \A e \in Events, u \in Units : attempts[e] = 0 /\ accidents = 0 => indexed[e][u] = 0
    /\ \A w \in Containers : Untouched(w)

Once == LoadedOnce /\ Ahead

(* A record is in the index or in an exported file.                         *)
Kept(e, u) == indexed[e][u] > 0 \/ \E f \in exports : <<e, u>> \in f

Behind(w) ==
    pc[w] # "idle" =>
        \A u \in Units :
            \/ u < at[w]
            \/ pc[w] = "export" /\ u \in Batch(w) \ rejected[w]
            => Kept(ev[w], u)

Safe == source # "KDS" /\ "SameSecond" \notin Faults

Handled == Safe => Accounted /\ \A w \in Containers : Behind(w)

-----------------------------------------------------------------------------
(* The jobs.                                                                *)
LEMMA JobFacts ==
    ASSUME LoaderAssumption
    PROVE  /\ Len(InitJobs) \in Nat \ {0}
           /\ "INDEX_PATTERN" \in Jobs
           /\ \A i \in 1..Len(InitJobs) :
                  InitJobs[i] \in Jobs /\ InitJobs[i] # "INDEX_PATTERN"
  BY DEF LoaderAssumption, Jobs

LEMMA JobOfFacts ==
    ASSUME LoaderAssumption, TypeOK, NEW w \in Containers
    PROVE  /\ job[w] \in 1..Len(InitJobs) + 1
           /\ JobOf(w) \in Jobs
           /\ JobOf(w) = "INDEX_PATTERN" <=> job[w] = Len(InitJobs) + 1
           /\ job[w] <= Len(InitJobs) => JobOf(w) = InitJobs[job[w]]
  BY JobFacts DEF TypeOK, JobOf

(* A batch is not empty and ends within the event.                          *)
LEMMA BatchFacts ==
    ASSUME LoaderAssumption, TypeOK, NEW w \in Containers,
           cEnv[w] \in Envs, at[w] \in 1..Len0
    PROVE  /\ BatchEnd(w) \in at[w]..Len0
           /\ Batch(w) = at[w]..BatchEnd(w)
           /\ Batch(w) \subseteq Units
  <1>1. cEnv[w].batch \in 1..5 /\ cEnv[w].payload \in {"full", "small"}
    BY DEF Envs, DefaultBatch
  <1>2. Fit(cEnv[w].payload) \in Nat \ {0} BY <1>1 DEF Fit, LoaderAssumption
  <1>3. BatchSize(w) \in Nat \ {0}
    BY <1>1, <1>2 DEF BatchSize, Smaller, LoaderAssumption
  <1>4. BatchEnd(w) \in at[w]..Len0
    BY <1>3 DEF BatchEnd, Smaller, LoaderAssumption
  <1> QED BY <1>4 DEF Batch, Units, LoaderAssumption

(* An invocation that ends.                                                 *)
LEMMA AfterErrorTyped == ASSUME NEW e PROVE AfterError(e) \in {"dead", "waiting"}
  BY DEF AfterError

LEMMA AfterRaiseTyped ==
    ASSUME NEW e
    PROVE  /\ AfterRaise(e) \in {"done", "dead", "waiting"}
           /\ source # "KDS" => AfterRaise(e) # "done"
  BY AfterErrorTyped DEF AfterRaise

-----------------------------------------------------------------------------
(* Type correctness and the place of an invocation, action by action.       *)
LEMMA InitPlaced == LoaderAssumption /\ Init => TypeOK /\ Placed
  <1> SUFFICES ASSUME LoaderAssumption, Init PROVE TypeOK /\ Placed OBVIOUS
  <1>1. DefaultBatch \in 1..DefaultBatch /\ env \in Envs
    BY DEF Init, Envs, DefaultBatch
  <1>2. TypeOK
    BY <1>1, JobFacts DEF Init, TypeOK, AsyncAttempts, TotalRetries, Envs, LoaderAssumption
  <1>3. Placed
    BY <1>2, JobFacts DEF Init, Placed, InHand, CopyHeld, Place, Loading, Initialising
  <1> QED BY <1>2, <1>3

LEMMA StopPlaced ==
    ASSUME LoaderAssumption, TypeOK, Placed, NEW w \in Containers,
           NEW outcome \in {"waiting", "done", "dead"}, Stop(w, outcome),
           source' = source /\ limit' = limit /\ fresh' = fresh,
           env' \in Envs, made' \in SUBSET Jobs, indexed' \in [Events -> [Units -> 0..2]],
           exports' = exports, accidents' \in 0..MaxAccidents,
           cEnv' \in [Containers -> Envs \union {NoEnv}],
           \A v \in Containers : v # w => cEnv'[v] = cEnv[v],
           done' \in [Containers -> SUBSET Jobs]
    PROVE  TypeOK' /\ Placed'
  <1>1. /\ state' \in [Events -> {"waiting", "running", "done", "dead"}]
        /\ attempts' = attempts
    BY DEF Stop, TypeOK
  <1>2. /\ pc' = [pc EXCEPT ![w] = "idle"] /\ ev' = [ev EXCEPT ![w] = NoEvent]
        /\ copy' = [copy EXCEPT ![w] = NoEnv] /\ rejected' = [rejected EXCEPT ![w] = {}]
        /\ job' = [job EXCEPT ![w] = 1] /\ at' = [at EXCEPT ![w] = 1]
        /\ tries' = [tries EXCEPT ![w] = 1]
    BY DEF Stop, Goto
  <1>3. TypeOK'
    BY <1>1, <1>2, JobFacts DEF TypeOK, TotalRetries, LoaderAssumption, Units
  <1>4. Placed'
    <2> SUFFICES ASSUME NEW v \in Containers
                 PROVE  InHand(v)' /\ CopyHeld(v)' /\ Place(v)'
      BY DEF Placed
    <2>1. CASE v = w
      BY <2>1, <1>2, JobFacts DEF TypeOK, InHand, CopyHeld, Place, Loading, Initialising
    <2>2. CASE v # w
      BY <2>2, <1>2 DEF TypeOK, Placed, InHand, CopyHeld, Place, Loading, Initialising, JobOf
    <2> QED BY <2>1, <2>2
  <1> QED BY <1>3, <1>4

LEMMA RaisePlaced ==
    ASSUME LoaderAssumption, TypeOK, Placed, NEW w \in Containers, Raise(w),
           UNCHANGED <<source, limit, fresh, made, indexed, exports, cEnv>>,
           env' \in Envs, accidents' \in 0..MaxAccidents,
           done' \in [Containers -> SUBSET Jobs]
    PROVE  TypeOK' /\ Placed'
  <1>1. /\ made' \in SUBSET Jobs /\ indexed' \in [Events -> [Units -> 0..2]]
        /\ cEnv' \in [Containers -> Envs \union {NoEnv}]
    BY DEF TypeOK
  <1>2. Stop(w, AfterRaise(ev[w])) BY DEF Raise
  <1>3. AfterRaise(ev[w]) \in {"waiting", "done", "dead"} BY AfterRaiseTyped
  <1> QED BY <1>1, <1>2, <1>3, StopPlaced

LEMMA AccidentTyped ==
    ASSUME LoaderAssumption, TypeOK, NEW f, Accident(f)
    PROVE  accidents' \in 0..MaxAccidents /\ accidents' > 0
  BY DEF Accident, TypeOK, LoaderAssumption

(* The other containers are where they were.                                *)
LEMMA OthersPlaced ==
    ASSUME TypeOK, Placed, NEW w \in Containers, InHand(w)', CopyHeld(w)', Place(w)',
           \A v \in Containers : v # w =>
               /\ pc'[v] = pc[v] /\ ev'[v] = ev[v] /\ cEnv'[v] = cEnv[v] /\ copy'[v] = copy[v]
               /\ job'[v] = job[v] /\ at'[v] = at[v]
    PROVE  Placed'
  BY DEF Placed, InHand, CopyHeld, Place, Loading, Initialising, JobOf

LEMMA NextJobPlaced ==
    ASSUME LoaderAssumption, TypeOK, Placed, NEW w \in Containers, NextJob(w),
           pc[w] \in Initialising, UNCHANGED <<ev, cEnv, at>>,
           copy' = copy \/ copy' = [copy EXCEPT ![w] = NoEnv]
    PROVE  /\ Placed'
           /\ pc' \in [Containers -> {"idle", "init", "create", "get", "put", "bulk",
                                      "export", "shrink", "reduce", "end"}]
           /\ job' \in [Containers -> 1..Len(InitJobs) + 1]
  <1>1. CASE job[w] > Len(InitJobs)
    <2>1. pc' = [pc EXCEPT ![w] = "end"] /\ job' = job BY <1>1 DEF NextJob, Goto
    <2>2. InHand(w)' /\ CopyHeld(w)' /\ Place(w)'
      BY <1>1, <2>1, JobOfFacts
      DEF TypeOK, Placed, InHand, CopyHeld, Place, Loading, Initialising
    <2>3. Placed' BY <2>1, <2>2, OthersPlaced DEF TypeOK
    <2> QED BY <2>1, <2>3 DEF TypeOK
  <1>2. CASE ~(job[w] > Len(InitJobs))
    <2>1. /\ job' = [job EXCEPT ![w] = @ + 1]
          /\ pc' = [pc EXCEPT ![w] = IF job[w] = Len(InitJobs) THEN "bulk" ELSE "init"]
      BY <1>2 DEF NextJob, Goto
    <2>2. job[w] \in 1..Len(InitJobs) /\ at[w] = 1
      BY <1>2, JobOfFacts, JobFacts DEF Placed, Place
    <2>3. InHand(w)' /\ CopyHeld(w)' /\ Place(w)'
      BY <2>1, <2>2, JobFacts
      DEF TypeOK, Placed, InHand, CopyHeld, Place, Loading, Initialising, LoaderAssumption
    <2>4. Placed' BY <2>1, <2>3, OthersPlaced DEF TypeOK
    <2> QED BY <2>1, <2>2, <2>4, JobFacts DEF TypeOK
  <1> QED BY <1>1, <1>2

LEMMA NextBatchPlaced ==
    ASSUME LoaderAssumption, TypeOK, Placed, NEW w \in Containers, NextBatch(w),
           pc[w] \in {"bulk", "export"}, UNCHANGED <<ev, cEnv, job, copy>>
    PROVE  /\ Placed'
           /\ pc' \in [Containers -> {"idle", "init", "create", "get", "put", "bulk",
                                      "export", "shrink", "reduce", "end"}]
           /\ at' \in [Containers -> 1..Len0 + 1]
           /\ tries' \in [Containers -> 1..TotalRetries]
  <1>1. cEnv[w] \in Envs /\ at[w] \in 1..Len0 /\ job[w] = Len(InitJobs) + 1
    BY DEF Placed, InHand, Place, Loading, TypeOK, LoaderAssumption
  <1>2. BatchEnd(w) \in at[w]..Len0 BY <1>1, BatchFacts
  <1>3. /\ at' = [at EXCEPT ![w] = BatchEnd(w) + 1]
        /\ tries' = [tries EXCEPT ![w] = 1]
        /\ pc' = [pc EXCEPT ![w] = IF BatchEnd(w) = Len0 THEN "init" ELSE "bulk"]
    BY DEF NextBatch, Goto
  <1>4. InHand(w)' /\ CopyHeld(w)' /\ Place(w)'
    <2>1. /\ pc'[w] \in {"init", "bulk"} /\ at'[w] = BatchEnd(w) + 1
          /\ pc'[w] = "init" => at'[w] = Len0 + 1
          /\ pc'[w] = "bulk" => at'[w] \in 1..Len0
      <3>1. /\ at'[w] = BatchEnd(w) + 1
            /\ pc'[w] = IF BatchEnd(w) = Len0 THEN "init" ELSE "bulk"
        BY <1>3 DEF TypeOK
      <3>2. CASE BatchEnd(w) = Len0 BY <3>1, <3>2
      <3>3. CASE BatchEnd(w) # Len0 BY <1>1, <1>2, <3>1, <3>3 DEF LoaderAssumption
      <3> QED BY <3>2, <3>3
    <2>2. InHand(w)' BY <1>1, <2>1 DEF Placed, InHand
    <2>3. CopyHeld(w)' BY <2>1 DEF CopyHeld
    <2>4. Place(w)'
      BY <1>1, <2>1, JobFacts DEF Place, Loading, Initialising, LoaderAssumption
    <2> QED BY <2>2, <2>3, <2>4
  <1>5. Placed' BY <1>3, <1>4, OthersPlaced DEF TypeOK
  <1> QED BY <1>1, <1>2, <1>3, <1>5 DEF TypeOK, TotalRetries, LoaderAssumption

LEMMA IndexedTyped ==
    ASSUME TypeOK, NEW w \in Containers, NEW units \in SUBSET Units, Indexed(w, units)
    PROVE  indexed' \in [Events -> [Units -> 0..2]]
  <1> DEFINE more == [u \in Units |-> IF u \in units /\ indexed[ev[w]][u] < 2
                                      THEN indexed[ev[w]][u] + 1 ELSE indexed[ev[w]][u]]
  <1>1. indexed' = [indexed EXCEPT ![ev[w]] = more] BY DEF Indexed
  <1>2. CASE ev[w] \in Events
    <2>1. indexed[ev[w]] \in [Units -> 0..2] BY <1>2 DEF TypeOK
    <2>2. more \in [Units -> 0..2] BY <2>1
    <2> QED BY <1>1, <2>2 DEF TypeOK
  <1>3. CASE ev[w] \notin Events BY <1>1, <1>3 DEF TypeOK
  <1> QED BY <1>2, <1>3

LEMMA InvokePlaced ==
    ASSUME LoaderAssumption, TypeOK, Placed, NEW w \in Containers, NEW e \in Events,
           Invoke(w, e)
    PROVE  TypeOK' /\ Placed'
  <1>1. /\ cEnv' \in [Containers -> Envs \union {NoEnv}]
        /\ cEnv'[w] \in Envs /\ \A v \in Containers : v # w => cEnv'[v] = cEnv[v]
        /\ done' \in [Containers -> SUBSET Jobs]
    <2>1. CASE cEnv' = [cEnv EXCEPT ![w] = env] /\ done' = [done EXCEPT ![w] = env.flags]
      BY <2>1 DEF TypeOK, Envs
    <2>2. CASE cEnv[w] # NoEnv /\ UNCHANGED <<cEnv, done>>
      BY <2>2 DEF TypeOK
    <2> QED BY <2>1, <2>2 DEF Invoke
  <1>2. /\ pc' = [pc EXCEPT ![w] = "init"] /\ ev' = [ev EXCEPT ![w] = e]
        /\ UNCHANGED <<source, limit, fresh, env, made, indexed, exports, job, at, tries,
                       copy, rejected, accidents>>
        /\ state' = [state EXCEPT ![e] = "running"]
        /\ attempts' = [attempts EXCEPT ![e] = IF @ < AsyncAttempts THEN @ + 1 ELSE @]
    BY DEF Invoke, Goto, world, store, locals
  <1>3. TypeOK' BY <1>1, <1>2 DEF TypeOK, AsyncAttempts
  <1>4. InHand(w)' /\ CopyHeld(w)' /\ Place(w)'
    BY <1>1, <1>2, JobFacts
    DEF Invoke, TypeOK, Placed, InHand, CopyHeld, Place, Loading, Initialising
  <1>5. Placed' BY <1>1, <1>2, <1>4, OthersPlaced DEF TypeOK
  <1> QED BY <1>3, <1>5

LEMMA JobDonePlaced ==
    ASSUME LoaderAssumption, TypeOK, Placed, NEW w \in Containers, JobDone(w),
           pc[w] \in Initialising, UNCHANGED <<ev, cEnv, job, at, copy>>
    PROVE  /\ Placed'
           /\ pc' \in [Containers -> {"idle", "init", "create", "get", "put", "bulk",
                                      "export", "shrink", "reduce", "end"}]
           /\ done' \in [Containers -> SUBSET Jobs]
  <1>1. pc' = [pc EXCEPT ![w] = "get"] BY DEF JobDone, Goto
  <1>2. done' \in [Containers -> SUBSET Jobs] BY JobOfFacts DEF JobDone, TypeOK
  <1>3. InHand(w)' /\ CopyHeld(w)' /\ Place(w)'
    BY <1>1, JobFacts DEF TypeOK, Placed, InHand, CopyHeld, Place, Loading, Initialising
  <1>4. Placed' BY <1>1, <1>3, OthersPlaced DEF TypeOK
  <1> QED BY <1>1, <1>2, <1>4 DEF TypeOK

LEMMA SetUpStepsPlaced ==
    ASSUME LoaderAssumption, TypeOK, Placed, NEW w \in Containers,
           SkipJob(w) \/ CallJob(w) \/ CreateAlias(w) \/ GetEnv(w) \/ PutEnv(w)
    PROVE  TypeOK' /\ Placed'
  <1>1. CASE SkipJob(w)
    <2>1. CASE NextJob(w)
      <3>1. UNCHANGED <<source, limit, fresh, env, made, state, attempts, indexed, exports, ev,
                        cEnv, done, at, tries, copy, rejected, accidents>> /\ pc[w] = "init"
        BY <1>1 DEF SkipJob, world, events, store
      <3> QED BY <2>1, <3>1, NextJobPlaced DEF TypeOK, Initialising
    <2>2. CASE ~NextJob(w)
      <3>1. /\ pc' = [pc EXCEPT ![w] = "get"] /\ pc[w] = "init"
            /\ UNCHANGED <<source, limit, fresh, env, made, state, attempts, indexed, exports, ev,
                           cEnv, done, job, at, tries, copy, rejected, accidents>>
        BY <1>1, <2>2 DEF SkipJob, Goto, world, events, store
      <3>2. InHand(w)' /\ CopyHeld(w)' /\ Place(w)'
        BY <3>1 DEF TypeOK, Placed, InHand, CopyHeld, Place, Loading, Initialising
      <3>3. Placed' BY <3>1, <3>2, OthersPlaced DEF TypeOK
      <3> QED BY <3>1, <3>3 DEF TypeOK
    <2> QED BY <2>1, <2>2
  <1>2. CASE CallJob(w)
    <2>1. /\ UNCHANGED <<source, limit, fresh, env, state, attempts, indexed, exports, ev, cEnv,
                         job, at, tries, copy, rejected, accidents>> /\ pc[w] = "init"
          /\ made' \in SUBSET Jobs
      BY <1>2, JobOfFacts DEF CallJob, world, events, store, locals, TypeOK
    <2>2. CASE JobDone(w) BY <2>1, <2>2, JobDonePlaced DEF TypeOK, Initialising
    <2>3. CASE ~JobDone(w)
      <3>1. JobOf(w) = "ALIAS" /\ pc' = [pc EXCEPT ![w] = "create"] /\ done' = done
        BY <1>2, <2>3 DEF CallJob, Goto
      <3>2. InHand(w)' /\ CopyHeld(w)' /\ Place(w)'
        BY <2>1, <3>1
        DEF TypeOK, Placed, InHand, CopyHeld, Place, Loading, Initialising, JobOf
      <3>3. Placed' BY <2>1, <3>1, <3>2, OthersPlaced DEF TypeOK
      <3> QED BY <2>1, <3>1, <3>3 DEF TypeOK
    <2> QED BY <2>2, <2>3
  <1>3. CASE CreateAlias(w)
    <2>1. UNCHANGED <<source, limit, fresh, env, indexed, exports, cEnv, accidents>>
          /\ pc[w] = "create"
      BY <1>3 DEF CreateAlias, world, store
    <2>2. CASE "ALIAS" \in made
      <3>1. Raise(w) /\ made' = made /\ done' = done BY <1>3, <2>2 DEF CreateAlias
      <3>2. /\ env' \in Envs /\ accidents' \in 0..MaxAccidents
            /\ done' \in [Containers -> SUBSET Jobs]
        BY <2>1, <3>1 DEF TypeOK
      <3> QED BY <2>1, <3>1, <3>2, RaisePlaced
    <2>3. CASE "ALIAS" \notin made
      <3>1. /\ made' = made \union {"ALIAS"} /\ JobDone(w)
            /\ UNCHANGED <<state, attempts, ev, job, at, tries, copy, rejected>>
        BY <1>3, <2>3 DEF CreateAlias, events, locals
      <3>2. made' \in SUBSET Jobs BY <2>1, <3>1, JobOfFacts DEF TypeOK, Placed, Place
      <3> QED BY <2>1, <3>1, <3>2, JobDonePlaced DEF TypeOK, Initialising
    <2> QED BY <2>2, <2>3
  <1>4. CASE GetEnv(w)
    <2>1. UNCHANGED <<source, limit, fresh, env, made, state, attempts, indexed, exports, ev,
                      cEnv, done, at, tries, rejected, accidents>> /\ pc[w] = "get"
      BY <1>4 DEF GetEnv, world, events, store
    <2>2. CASE JobOf(w) \in env.flags
      <3>1. NextJob(w) /\ copy' = copy BY <1>4, <2>2 DEF GetEnv
      <3> QED BY <2>1, <3>1, NextJobPlaced DEF TypeOK, Initialising
    <2>3. CASE JobOf(w) \notin env.flags
      <3>1. /\ copy' = [copy EXCEPT ![w] = env] /\ pc' = [pc EXCEPT ![w] = "put"]
            /\ job' = job
        BY <1>4, <2>3 DEF GetEnv, Goto
      <3>2. InHand(w)' /\ CopyHeld(w)' /\ Place(w)'
        BY <2>1, <3>1 DEF TypeOK, Placed, InHand, CopyHeld, Place, Loading, Initialising
      <3>3. Placed' BY <2>1, <3>1, <3>2, OthersPlaced DEF TypeOK
      <3> QED BY <2>1, <3>1, <3>3 DEF TypeOK
    <2> QED BY <2>2, <2>3
  <1>5. CASE PutEnv(w)
    <2>1. /\ UNCHANGED <<source, limit, fresh, made, state, attempts, indexed, exports, ev,
                         cEnv, done, at, tries, rejected>> /\ pc[w] = "put"
          /\ copy' = [copy EXCEPT ![w] = NoEnv] /\ NextJob(w)
      BY <1>5 DEF PutEnv, world, events, store
    <2>2. env' \in Envs
      <3>1. copy[w] \in Envs BY <2>1 DEF Placed, CopyHeld
      <3>2. [copy[w] EXCEPT !.flags = @ \union {JobOf(w)}] \in Envs
        BY <3>1, JobOfFacts DEF Envs
      <3> QED BY <1>5, <3>2 DEF PutEnv, TypeOK
    <2>3. accidents' \in 0..MaxAccidents BY <1>5, AccidentTyped DEF PutEnv, TypeOK
    <2> QED BY <2>1, <2>2, <2>3, NextJobPlaced DEF TypeOK, Initialising
  <1> QED BY <1>1, <1>2, <1>3, <1>4, <1>5

LEMMA LoadStepsPlaced ==
    ASSUME LoaderAssumption, TypeOK, Placed, NEW w \in Containers,
           Bulk(w) \/ BulkTooLarge(w) \/ Export(w) \/ GetBatchSize(w) \/ PutBatchSize(w)
               \/ Finish(w)
    PROVE  TypeOK' /\ Placed'
  <1>1. CASE Bulk(w)
    <2>1. /\ pc[w] = "bulk"
          /\ UNCHANGED <<source, limit, fresh, env, made, state, attempts, exports, ev,
                         cEnv, done, job, copy, accidents>>
      BY <1>1 DEF Bulk, world, events
    <2>2. PICK bad \in {{}} \union (IF "Rejects" \in Faults THEN {{u} : u \in Batch(w)} ELSE {}) :
             /\ Indexed(w, Batch(w) \ bad)
             /\ rejected' = [rejected EXCEPT ![w] = bad]
             /\ IF bad = {} THEN NextBatch(w) ELSE Goto(w, "export") /\ UNCHANGED <<at, tries>>
      BY <1>1 DEF Bulk
    <2>3. cEnv[w] \in Envs /\ at[w] \in 1..Len0
      BY <2>1 DEF Placed, InHand, Place, Loading, TypeOK, LoaderAssumption
    <2>4. Batch(w) \subseteq Units BY <2>3, BatchFacts
    <2>5. bad \in SUBSET Units BY <2>2, <2>4
    <2>6. rejected' \in [Containers -> SUBSET Units] BY <2>2, <2>5 DEF TypeOK
    <2>7. indexed' \in [Events -> [Units -> 0..2]] BY <2>2, <2>4, IndexedTyped
    <2>8. CASE bad = {}
      <3>1. NextBatch(w) BY <2>2, <2>8
      <3> QED BY <2>1, <2>6, <2>7, <3>1, NextBatchPlaced DEF TypeOK
    <2>9. CASE bad # {}
      <3>1. pc' = [pc EXCEPT ![w] = "export"] /\ UNCHANGED <<at, tries>>
        BY <2>2, <2>9 DEF Goto
      <3>2. InHand(w)' /\ CopyHeld(w)' /\ Place(w)'
        BY <2>1, <3>1 DEF TypeOK, Placed, InHand, CopyHeld, Place, Loading, Initialising
      <3>3. Placed' BY <2>1, <3>1, <3>2, OthersPlaced DEF TypeOK
      <3> QED BY <2>1, <2>6, <2>7, <3>1, <3>3 DEF TypeOK
    <2> QED BY <2>8, <2>9
  <1>2. CASE BulkTooLarge(w)
    <2>1. /\ pc[w] = "bulk" /\ pc' = [pc EXCEPT ![w] = "shrink"]
          /\ UNCHANGED <<source, limit, fresh, env, made, state, attempts, indexed, exports, ev,
                         cEnv, done, job, at, tries, copy, rejected, accidents>>
      BY <1>2 DEF BulkTooLarge, Goto, world, events, store, locals
    <2>2. InHand(w)' /\ CopyHeld(w)' /\ Place(w)'
      BY <2>1 DEF TypeOK, Placed, InHand, CopyHeld, Place, Loading, Initialising
    <2>3. Placed' BY <2>1, <2>2, OthersPlaced DEF TypeOK
    <2> QED BY <2>1, <2>3 DEF TypeOK
  <1>3. CASE Export(w)
    <2>1. /\ pc[w] = "export" /\ NextBatch(w) /\ rejected' = [rejected EXCEPT ![w] = {}]
          /\ UNCHANGED <<source, limit, fresh, env, made, state, attempts, indexed, ev,
                         cEnv, done, job, copy, accidents>>
      BY <1>3 DEF Export, world, events
    <2>2. exports' \subseteq SUBSET (Events \X Units)
      <3>1. {<<ev[w], u>> : u \in rejected[w]} \subseteq Events \X Units
        BY <2>1 DEF Placed, InHand, TypeOK
      <3>2. {<<ev[w], u>> : u \in rejected[w]} \in SUBSET (Events \X Units) BY <3>1
      <3>3. PICK g \in SUBSET exports :
                exports' = g \union {{<<ev[w], u>> : u \in rejected[w]}}
        BY <1>3 DEF Export
      <3> QED BY <3>2, <3>3 DEF TypeOK
    <2> QED BY <2>1, <2>2, NextBatchPlaced DEF TypeOK
  <1>4. CASE GetBatchSize(w)
    <2>1. /\ pc[w] = "shrink" /\ pc' = [pc EXCEPT ![w] = "reduce"]
          /\ copy' = [copy EXCEPT ![w] = env]
          /\ UNCHANGED <<source, limit, fresh, env, made, state, attempts, indexed, exports, ev,
                         cEnv, done, job, at, tries, rejected, accidents>>
      BY <1>4 DEF GetBatchSize, Goto, world, events, store
    <2>2. InHand(w)' /\ CopyHeld(w)' /\ Place(w)'
      BY <2>1 DEF TypeOK, Placed, InHand, CopyHeld, Place, Loading, Initialising
    <2>3. Placed' BY <2>1, <2>2, OthersPlaced DEF TypeOK
    <2> QED BY <2>1, <2>3 DEF TypeOK
  <1>5. CASE PutBatchSize(w)
    <2>1. /\ pc[w] = "reduce" /\ Raise(w)
          /\ UNCHANGED <<source, limit, fresh, made, indexed, exports, cEnv, done>>
      BY <1>5 DEF PutBatchSize, world, store
    <2>2. env' \in Envs
      <3>1. copy[w] \in Envs BY <2>1 DEF Placed, CopyHeld
      <3>2. copy[w].batch \in 1..5 BY <3>1 DEF Envs, DefaultBatch
      <3>3. (IF copy[w].batch >= 2 THEN copy[w].batch - 1 ELSE copy[w].batch) \in 1..5
        BY <3>2
      <3>4. Shrunk(copy[w]) \in Envs
        BY <3>1, <3>3 DEF Shrunk, Envs, DefaultBatch
      <3> QED BY <1>5, <3>4 DEF PutBatchSize, TypeOK
    <2>3. accidents' \in 0..MaxAccidents BY <1>5, AccidentTyped DEF PutBatchSize, TypeOK
    <2>4. done' \in [Containers -> SUBSET Jobs] BY <2>1 DEF TypeOK
    <2> QED BY <2>1, <2>2, <2>3, <2>4, RaisePlaced
  <1>6. CASE Finish(w)
    <2>1. /\ Stop(w, "done")
          /\ UNCHANGED <<source, limit, fresh, env, made, indexed, exports, cEnv, done, accidents>>
      BY <1>6 DEF Finish, world, store
    <2> QED BY <2>1, StopPlaced DEF TypeOK
  <1> QED BY <1>1, <1>2, <1>3, <1>4, <1>5, <1>6

LEMMA RetryPlaced ==
    ASSUME LoaderAssumption, TypeOK, Placed, NEW w \in Containers, RetryBulk(w),
           pc[w] = "bulk", UNCHANGED <<source, limit, fresh, env, made, exports, cEnv, done>>,
           indexed' \in [Events -> [Units -> 0..2]], accidents' \in 0..MaxAccidents,
           indexed' = indexed \/ tries[w] < TotalRetries
    PROVE  TypeOK' /\ Placed'
  <1>1. CASE tries[w] < TotalRetries
    <2>1. /\ tries' = [tries EXCEPT ![w] = @ + 1]
          /\ UNCHANGED <<state, attempts, pc, ev, job, at, copy, rejected>>
      BY <1>1 DEF RetryBulk, events
    <2>2. tries[w] \in 1..2 /\ tries[w] + 1 \in 1..2 BY <1>1 DEF TypeOK, TotalRetries
    <2>3. tries' \in [Containers -> 1..TotalRetries]
      BY <2>1, <2>2 DEF TypeOK, TotalRetries
    <2>4. TypeOK' BY <2>1, <2>3 DEF TypeOK
    <2>5. Placed'
      BY <2>1 DEF Placed, InHand, CopyHeld, Place, Loading, Initialising, JobOf
    <2> QED BY <2>4, <2>5
  <1>2. CASE ~(tries[w] < TotalRetries)
    <2>1. Raise(w) BY <1>2 DEF RetryBulk
    <2>2. indexed' = indexed BY <1>2
    <2>3. env' \in Envs /\ done' \in [Containers -> SUBSET Jobs] BY DEF TypeOK
    <2> QED BY <2>1, <2>2, <2>3, RaisePlaced
  <1> QED BY <1>1, <1>2

LEMMA MishapPlaced ==
    ASSUME LoaderAssumption, TypeOK, Placed, NEW w \in Containers, Mishap(w)
    PROVE  TypeOK' /\ Placed'
  <1>1. CASE JobFails(w)
    <2>1. UNCHANGED <<source, limit, fresh, env, made, indexed, exports, cEnv, done>>
      BY <1>1 DEF JobFails, world, store
    <2>2. accidents' \in 0..MaxAccidents BY <1>1, AccidentTyped DEF JobFails
    <2>3. env' \in Envs /\ done' \in [Containers -> SUBSET Jobs] BY <2>1 DEF TypeOK
    <2>4. CASE JobOf(w) = "INDEX_PATTERN"
      <3>1. /\ pc' = [pc EXCEPT ![w] = "end"] /\ pc[w] \in {"init", "create"}
            /\ UNCHANGED <<state, attempts, ev, job, at, tries, copy, rejected>>
        BY <1>1, <2>4 DEF JobFails, Goto, events, locals
      <3>2. job[w] = Len(InitJobs) + 1 BY <2>4, JobOfFacts
      <3>3. InHand(w)' /\ CopyHeld(w)' /\ Place(w)'
        BY <2>1, <3>1, <3>2
        DEF TypeOK, Placed, InHand, CopyHeld, Place, Loading, Initialising
      <3>4. Placed' BY <2>1, <3>1, <3>3, OthersPlaced DEF TypeOK
      <3> QED BY <2>1, <2>2, <3>1, <3>4 DEF TypeOK
    <2>5. CASE JobOf(w) # "INDEX_PATTERN"
      <3>1. Raise(w) BY <1>1, <2>5 DEF JobFails
      <3> QED BY <2>1, <2>2, <2>3, <3>1, RaisePlaced
    <2> QED BY <2>4, <2>5
  <1>2. CASE BulkFails(w)
    <2>1. /\ pc[w] = "bulk" /\ RetryBulk(w)
          /\ UNCHANGED <<source, limit, fresh, env, made, indexed, exports, cEnv, done>>
      BY <1>2 DEF BulkFails, world, store
    <2>2. accidents' \in 0..MaxAccidents BY <1>2, AccidentTyped DEF BulkFails
    <2>3. indexed' \in [Events -> [Units -> 0..2]] BY <2>1 DEF TypeOK
    <2> QED BY <2>1, <2>2, <2>3, RetryPlaced
  <1>3. CASE BulkAnswerLost(w)
    <2>1. /\ pc[w] = "bulk" /\ (RetryBulk(w) \/ Raise(w))
          /\ Indexed(w, Batch(w))
          /\ UNCHANGED <<source, limit, fresh, env, made, exports, cEnv, done>>
      BY <1>3 DEF BulkAnswerLost, world
    <2>2. accidents' \in 0..MaxAccidents BY <1>3, AccidentTyped DEF BulkAnswerLost
    <2>3. cEnv[w] \in Envs /\ at[w] \in 1..Len0
      BY <1>3 DEF BulkAnswerLost, Placed, InHand, Place, Loading, TypeOK, LoaderAssumption
    <2>4. indexed' \in [Events -> [Units -> 0..2]] BY <2>1, <2>3, BatchFacts, IndexedTyped
    <2>5. /\ env' \in Envs /\ made' \in SUBSET Jobs
          /\ cEnv' \in [Containers -> Envs \union {NoEnv}]
          /\ done' \in [Containers -> SUBSET Jobs]
      BY <2>1 DEF TypeOK
    <2>6. CASE RetryBulk(w) /\ tries[w] < TotalRetries
      <3>1. pc[w] = "bulk" BY <1>3 DEF BulkAnswerLost
      <3> QED BY <2>1, <2>2, <2>4, <2>6, <3>1, RetryPlaced
    <2>7. CASE Raise(w)
      <3>1. Stop(w, AfterRaise(ev[w])) BY <2>7 DEF Raise
      <3>2. AfterRaise(ev[w]) \in {"waiting", "done", "dead"} BY AfterRaiseTyped
      <3> QED BY <2>1, <2>2, <2>4, <2>5, <3>1, <3>2, StopPlaced
    <2> QED BY <2>1, <2>6, <2>7 DEF RetryBulk
  <1>4. CASE ExportFails(w)
    <2>1. /\ Raise(w)
          /\ UNCHANGED <<source, limit, fresh, env, made, indexed, exports, cEnv, done>>
      BY <1>4 DEF ExportFails, world, store
    <2>2. accidents' \in 0..MaxAccidents BY <1>4, AccidentTyped DEF ExportFails
    <2>3. env' \in Envs /\ done' \in [Containers -> SUBSET Jobs] BY <2>1 DEF TypeOK
    <2> QED BY <2>1, <2>2, <2>3, RaisePlaced
  <1>5. CASE Crash(w)
    <2>1. /\ Stop(w, AfterError(ev[w]))
          /\ UNCHANGED <<source, limit, fresh, env, made, indexed, exports>>
          /\ cEnv' = [cEnv EXCEPT ![w] = NoEnv] /\ done' = [done EXCEPT ![w] = {}]
      BY <1>5 DEF Crash, world, store
    <2>2. accidents' \in 0..MaxAccidents BY <1>5, AccidentTyped DEF Crash
    <2>3. AfterError(ev[w]) \in {"waiting", "done", "dead"} BY AfterErrorTyped
    <2>4. /\ env' \in Envs /\ made' \in SUBSET Jobs
          /\ indexed' \in [Events -> [Units -> 0..2]]
          /\ cEnv' \in [Containers -> Envs \union {NoEnv}]
          /\ done' \in [Containers -> SUBSET Jobs]
          /\ \A v \in Containers : v # w => cEnv'[v] = cEnv[v]
      BY <2>1 DEF TypeOK
    <2> QED BY <2>1, <2>2, <2>3, <2>4, StopPlaced
  <1> QED BY <1>1, <1>2, <1>3, <1>4, <1>5 DEF Mishap

LEMMA RedeliverPlaced ==
    ASSUME LoaderAssumption, TypeOK, Placed, NEW e \in Events, Redeliver(e)
    PROVE  TypeOK' /\ Placed'
  <1>1. /\ state' = [state EXCEPT ![e] = "waiting"] /\ attempts' = [attempts EXCEPT ![e] = 0]
        /\ UNCHANGED <<source, limit, fresh, env, made, indexed, exports, pc, ev, cEnv, done,
                       job, at, tries, copy, rejected>>
    BY DEF Redeliver, world, store, locals
  <1>2. accidents' \in 0..MaxAccidents BY AccidentTyped DEF Redeliver
  <1>3. TypeOK' BY <1>1, <1>2 DEF TypeOK, AsyncAttempts
  <1>4. Placed'
    BY <1>1 DEF Placed, InHand, CopyHeld, Place, Loading, Initialising, JobOf
  <1> QED BY <1>3, <1>4

LEMMA NextPlaced == LoaderAssumption /\ TypeOK /\ Placed /\ [Next]_vars => TypeOK' /\ Placed'
  <1> SUFFICES ASSUME LoaderAssumption, TypeOK, Placed, [Next]_vars PROVE TypeOK' /\ Placed'
    OBVIOUS
  <1>1. ASSUME NEW w \in Containers, Step(w) PROVE TypeOK' /\ Placed'
    BY <1>1, SetUpStepsPlaced, LoadStepsPlaced DEF Step
  <1>2. ASSUME NEW w \in Containers, Mishap(w) PROVE TypeOK' /\ Placed'
    BY <1>2, MishapPlaced
  <1>3. ASSUME NEW w \in Containers, NEW e \in Events, Invoke(w, e) PROVE TypeOK' /\ Placed'
    BY <1>3, InvokePlaced
  <1>4. ASSUME NEW e \in Events, Redeliver(e) PROVE TypeOK' /\ Placed'
    BY <1>4, RedeliverPlaced
  <1>5. CASE UNCHANGED vars
    BY <1>5 DEF vars, world, events, store, locals, TypeOK, Placed, InHand, CopyHeld, Place,
                Loading, Initialising, JobOf
  <1> QED BY <1>1, <1>2, <1>3, <1>4, <1>5 DEF Next

(* The theorem of the module's types.  LogLoader's TypeOK says that an      *)
(* environment, a copy of it and the position in an event stay within their *)
(* bounds: a batch size never falls below one step, and a batch never ends  *)
(* after the last record of the file.                                       *)
THEOREM TypeCorrect == Spec => []TypeOK
  <1>1. Init => TypeOK /\ Placed BY LoaderAssumption, InitPlaced
  <1>2. (TypeOK /\ Placed) /\ [Next]_vars => (TypeOK /\ Placed)'
    BY LoaderAssumption, NextPlaced
  <1> QED BY <1>1, <1>2, PTL DEF Spec

-----------------------------------------------------------------------------
(* What a step of an invocation does to the other events and containers.    *)
Leaves(w) == \E outcome \in {"waiting", "done", "dead"} : Stop(w, outcome)

Works(w) ==
    /\ UNCHANGED <<state, attempts, ev>> /\ pc'[w] # "idle"
    /\ \A v \in Containers : v # w => pc'[v] = pc[v]

LEMMA RaiseLeaves == ASSUME NEW w, Raise(w) PROVE Leaves(w)
  BY AfterRaiseTyped DEF Raise, Leaves

LEMMA SetUpStepsMove ==
    ASSUME TypeOK, NEW w \in Containers,
           SkipJob(w) \/ CallJob(w) \/ CreateAlias(w) \/ GetEnv(w) \/ PutEnv(w)
    PROVE  pc[w] # "idle" /\ (Leaves(w) \/ Works(w))
  <1>1. CASE SkipJob(w)
    BY <1>1 DEF SkipJob, NextJob, Goto, Works, TypeOK, events
  <1>2. CASE CallJob(w)
    BY <1>2 DEF CallJob, JobDone, Goto, Works, TypeOK, events
  <1>3. CASE CreateAlias(w)
    BY <1>3, RaiseLeaves DEF CreateAlias, JobDone, Goto, Works, TypeOK, events
  <1>4. CASE GetEnv(w)
    BY <1>4 DEF GetEnv, NextJob, Goto, Works, TypeOK, events
  <1>5. CASE PutEnv(w)
    BY <1>5 DEF PutEnv, NextJob, Goto, Works, TypeOK, events
  <1> QED BY <1>1, <1>2, <1>3, <1>4, <1>5

LEMMA LoadStepsMove ==
    ASSUME TypeOK, NEW w \in Containers,
           Bulk(w) \/ BulkTooLarge(w) \/ Export(w) \/ GetBatchSize(w) \/ PutBatchSize(w)
               \/ Finish(w)
    PROVE  pc[w] # "idle" /\ (Leaves(w) \/ Works(w))
  <1>1. CASE Bulk(w)
    BY <1>1 DEF Bulk, NextBatch, Goto, Works, TypeOK, events
  <1>2. CASE BulkTooLarge(w)
    BY <1>2 DEF BulkTooLarge, Goto, Works, TypeOK, events
  <1>3. CASE Export(w)
    BY <1>3 DEF Export, NextBatch, Goto, Works, TypeOK, events
  <1>4. CASE GetBatchSize(w)
    BY <1>4 DEF GetBatchSize, Goto, Works, TypeOK, events
  <1>5. CASE PutBatchSize(w)
    BY <1>5, RaiseLeaves DEF PutBatchSize
  <1>6. CASE Finish(w)
    BY <1>6 DEF Finish, Leaves
  <1> QED BY <1>1, <1>2, <1>3, <1>4, <1>5, <1>6

LEMMA MishapMoves ==
    ASSUME TypeOK, NEW w \in Containers, Mishap(w)
    PROVE  pc[w] # "idle" /\ (Leaves(w) \/ Works(w)) /\ accidents' > 0
  <1>1. (\E f : Accident(f)) => accidents' > 0 BY DEF Accident, TypeOK
  <1>2. CASE JobFails(w)
    BY <1>1, <1>2, RaiseLeaves DEF JobFails, Goto, Works, TypeOK, events
  <1>3. CASE BulkFails(w)
    BY <1>1, <1>3, RaiseLeaves DEF BulkFails, RetryBulk, Works, TypeOK, events
  <1>4. CASE BulkAnswerLost(w)
    BY <1>1, <1>4, RaiseLeaves DEF BulkAnswerLost, RetryBulk, Works, TypeOK, events
  <1>5. CASE ExportFails(w)
    BY <1>1, <1>5, RaiseLeaves DEF ExportFails
  <1>6. CASE Crash(w)
    BY <1>1, <1>6, AfterErrorTyped DEF Crash, Leaves
  <1> QED BY <1>2, <1>3, <1>4, <1>5, <1>6 DEF Mishap

LEMMA StepsMove ==
    ASSUME TypeOK, NEW w \in Containers, Step(w) \/ Mishap(w)
    PROVE  pc[w] # "idle" /\ (Leaves(w) \/ Works(w))
  BY SetUpStepsMove, LoadStepsMove, MishapMoves DEF Step

(* An event stays in one hand.                                              *)
LEMMA OneHandStep ==
    ASSUME TypeOK, Placed, OneHand, [Next]_vars
    PROVE  OneHand'
  <1>1. ASSUME NEW w \in Containers, Leaves(w), pc[w] # "idle" PROVE OneHand'
    <2>1. PICK o \in {"waiting", "done", "dead"} : Stop(w, o) BY <1>1 DEF Leaves
    <2>2. /\ pc' = [pc EXCEPT ![w] = "idle"] /\ ev' = [ev EXCEPT ![w] = NoEvent]
          /\ state' = [state EXCEPT ![ev[w]] = o]
      BY <2>1 DEF Stop, Goto
    <2> QED BY <1>1, <2>2 DEF OneHand, TypeOK, Placed, InHand
  <1>2. ASSUME NEW w \in Containers, Works(w), pc[w] # "idle" PROVE OneHand'
    BY <1>2 DEF Works, OneHand
  <1>3. ASSUME NEW w \in Containers, NEW e \in Events, Invoke(w, e) PROVE OneHand'
    <2>1. /\ pc[w] = "idle" /\ state[e] = "waiting"
          /\ pc' = [pc EXCEPT ![w] = "init"] /\ ev' = [ev EXCEPT ![w] = e]
          /\ state' = [state EXCEPT ![e] = "running"]
      BY <1>3 DEF Invoke, Goto
    <2> QED BY <2>1 DEF OneHand, TypeOK, Placed, InHand
  <1>4. ASSUME NEW e \in Events, Redeliver(e) PROVE OneHand'
    BY <1>4 DEF Redeliver, OneHand, TypeOK, Placed, InHand
  <1>5. CASE UNCHANGED vars BY <1>5 DEF vars, events, OneHand
  <1> QED BY <1>1, <1>2, <1>3, <1>4, <1>5, StepsMove DEF Next

-----------------------------------------------------------------------------
(* OpenSearch is set up before anything is indexed.                         *)
AllMade == {InitJobs[i] : i \in 1..Len(InitJobs)} \subseteq made
AliasLast == "ALIAS" \in made => (Jobs \intersect {"ISM", "TEMPLATE"}) \subseteq made
NothingIndexed == \A e \in Events, u \in Units : ~(indexed[e][u] > 0)

LEMMA SetUpParts ==
    SetUp <=> /\ env.flags \subseteq made /\ AliasLast
              /\ \A w \in Containers : done[w] \subseteq made /\ MadeBefore(w)
              /\ AllMade \/ NothingIndexed
  BY DEF SetUp, InitialisedFirst, AllMade, AliasLast, NothingIndexed

(* A job made is made for good; the rest is what the step of w has to show. *)
LEMMA SetUpGrows ==
    ASSUME TypeOK, SetUp, NEW w \in Containers, made \subseteq made',
           env'.flags \subseteq made', AliasLast',
           done'[w] \subseteq made', MadeBefore(w)', AllMade' \/ indexed' = indexed,
           \A v \in Containers : v # w =>
               pc'[v] = pc[v] /\ done'[v] = done[v] /\ job'[v] = job[v] /\ copy'[v] = copy[v]
    PROVE  SetUp'
  <1>1. \A v \in Containers : v # w => done'[v] \subseteq made' /\ MadeBefore(v)'
    BY SetUpParts DEF MadeBefore, JobOf
  <1>2. AllMade' \/ NothingIndexed'
    <2>1. CASE AllMade BY <2>1 DEF AllMade
    <2>2. CASE NothingIndexed BY <2>2 DEF NothingIndexed
    <2> QED BY <2>1, <2>2, SetUpParts
  <1>3. SetUp' <=> /\ env'.flags \subseteq made' /\ AliasLast'
                   /\ \A v \in Containers : done'[v] \subseteq made' /\ MadeBefore(v)'
                   /\ AllMade' \/ NothingIndexed'
    BY DEF SetUp, InitialisedFirst, AllMade, AliasLast, NothingIndexed
  <1> QED BY <1>1, <1>2, <1>3

(* ISM and template are among the jobs before the alias.                    *)
LEMMA BeforeAlias ==
    ASSUME LoaderAssumption, TypeOK, NEW w \in Containers, MadeBefore(w), JobOf(w) = "ALIAS"
    PROVE  (Jobs \intersect {"ISM", "TEMPLATE"}) \subseteq made
  <1>1. job[w] \in 1..Len(InitJobs) /\ InitJobs[job[w]] = "ALIAS" BY JobOfFacts DEF JobOf
  <1>2. ASSUME NEW j \in Jobs, j \in {"ISM", "TEMPLATE"} PROVE j \in made
    <2>1. PICK i \in 1..Len(InitJobs) : InitJobs[i] = j BY <1>2 DEF Jobs
    <2>2. i < job[w] BY <1>1, <1>2, <2>1 DEF LoaderAssumption
    <2> QED BY <2>1, <2>2 DEF MadeBefore
  <1> QED BY <1>2

(* Nothing of the set-up is lost when an invocation ends.                   *)
LEMMA LeavesSetUp ==
    ASSUME LoaderAssumption, TypeOK, SetUp, NEW w \in Containers, Leaves(w),
           made' = made, env'.flags \subseteq made, AllMade \/ indexed' = indexed,
           done' = done \/ done' = [done EXCEPT ![w] = {}]
    PROVE  SetUp'
  <1>1. PICK o \in {"waiting", "done", "dead"} : Stop(w, o) BY DEF Leaves
  <1>2. /\ pc' = [pc EXCEPT ![w] = "idle"] /\ job' = [job EXCEPT ![w] = 1]
        /\ copy' = [copy EXCEPT ![w] = NoEnv]
    BY <1>1 DEF Stop, Goto
  <1>3. AliasLast' BY SetUpParts DEF AliasLast
  <1>4. done'[w] \subseteq made' BY SetUpParts DEF TypeOK
  <1>5. MadeBefore(w)'
    BY <1>2, JobFacts DEF TypeOK, MadeBefore, LoaderAssumption
  <1>6. AllMade' \/ indexed' = indexed BY DEF AllMade
  <1>7. \A v \in Containers : v # w =>
          pc'[v] = pc[v] /\ done'[v] = done[v] /\ job'[v] = job[v] /\ copy'[v] = copy[v]
    BY <1>2 DEF TypeOK
  <1> QED BY <1>3, <1>4, <1>5, <1>6, <1>7, SetUpGrows

(* A container that loads has every job behind it.                          *)
LEMMA LoadingMade ==
    ASSUME LoaderAssumption, TypeOK, Placed, SetUp, NEW w \in Containers, pc[w] \in Loading
    PROVE  AllMade
  BY JobFacts DEF Placed, Place, SetUp, MadeBefore, AllMade

LEMMA NextJobSetUp ==
    ASSUME LoaderAssumption, TypeOK, SetUp, NEW w \in Containers, NextJob(w),
           JobOf(w) \in made, pc[w] \in Initialising,
           UNCHANGED <<made, indexed, done>>, env'.flags \subseteq made,
           copy' = copy \/ copy' = [copy EXCEPT ![w] = NoEnv]
    PROVE  SetUp'
  <1>1. AliasLast' BY SetUpParts DEF AliasLast
  <1>2. done'[w] \subseteq made' BY SetUpParts
  <1>3. copy'[w] \in Envs => copy'[w].flags \subseteq made
    BY SetUpParts DEF TypeOK, MadeBefore, LoaderAssumption
  <1>4. pc'[w] \in {"end", "bulk", "init"} /\ \A v \in Containers : v # w => pc'[v] = pc[v]
    BY DEF NextJob, Goto, TypeOK
  <1>5. \A i \in 1..Len(InitJobs) : i < job'[w] => InitJobs[i] \in made
    <2>1. CASE job' = job BY <2>1, SetUpParts DEF MadeBefore
    <2>2. CASE job[w] <= Len(InitJobs) /\ job' = [job EXCEPT ![w] = @ + 1]
      <3>1. job'[w] = job[w] + 1 /\ job[w] \in 1..Len(InitJobs)
        BY <2>2, JobOfFacts DEF TypeOK
      <3>2. JobOf(w) = InitJobs[job[w]] BY <2>2, JobOfFacts
      <3> QED BY <3>1, <3>2, JobFacts, SetUpParts DEF MadeBefore
    <2> QED BY <2>1, <2>2, JobOfFacts, JobFacts DEF NextJob
  <1>6. MadeBefore(w)' BY <1>3, <1>4, <1>5 DEF MadeBefore
  <1>7. \A v \in Containers : v # w =>
          pc'[v] = pc[v] /\ done'[v] = done[v] /\ job'[v] = job[v] /\ copy'[v] = copy[v]
    BY <1>4 DEF TypeOK, NextJob
  <1> QED BY <1>1, <1>2, <1>6, <1>7, SetUpGrows

LEMMA JobDoneSetUp ==
    ASSUME LoaderAssumption, TypeOK, SetUp, NEW w \in Containers, JobDone(w),
           made \subseteq made', JobOf(w) \in made', AliasLast',
           UNCHANGED <<env, indexed, job, copy>>
    PROVE  SetUp'
  <1>1. /\ pc' = [pc EXCEPT ![w] = "get"]
        /\ done' = [done EXCEPT ![w] = @ \union {JobOf(w)}]
    BY DEF JobDone, Goto
  <1>2. env'.flags \subseteq made' BY SetUpParts
  <1>3. done'[w] \subseteq made' BY <1>1, SetUpParts DEF TypeOK
  <1>4. MadeBefore(w)' BY <1>1, SetUpParts DEF TypeOK, MadeBefore, JobOf
  <1>5. \A v \in Containers : v # w =>
          pc'[v] = pc[v] /\ done'[v] = done[v] /\ job'[v] = job[v] /\ copy'[v] = copy[v]
    BY <1>1 DEF TypeOK
  <1> QED BY <1>2, <1>3, <1>4, <1>5, SetUpGrows

(* A step that makes nothing and moves on.                                  *)
LEMMA WorksSetUp ==
    ASSUME TypeOK, SetUp, NEW w \in Containers, Works(w), pc'[w] \notin {"get", "put"},
           UNCHANGED <<env, made, done, job, copy>>, AllMade \/ indexed' = indexed
    PROVE  SetUp'
  <1>1. AliasLast' /\ env'.flags \subseteq made' BY SetUpParts DEF AliasLast
  <1>2. done'[w] \subseteq made' /\ MadeBefore(w)' BY SetUpParts DEF MadeBefore
  <1>3. AllMade' \/ indexed' = indexed BY DEF AllMade
  <1>4. \A v \in Containers : v # w =>
          pc'[v] = pc[v] /\ done'[v] = done[v] /\ job'[v] = job[v] /\ copy'[v] = copy[v]
    BY DEF Works
  <1> QED BY <1>1, <1>2, <1>3, <1>4, SetUpGrows

LEMMA SetUpStepsSetUp ==
    ASSUME LoaderAssumption, TypeOK, Placed, SetUp, NEW w \in Containers,
           SkipJob(w) \/ CallJob(w) \/ CreateAlias(w) \/ GetEnv(w) \/ PutEnv(w)
    PROVE  SetUp'
  <1>1. CASE SkipJob(w)
    <2>1. /\ UNCHANGED <<env, made, indexed, done, copy>> /\ pc[w] = "init"
          /\ JobOf(w) \in made
      BY <1>1, SetUpParts DEF SkipJob, store
    <2>2. env'.flags \subseteq made BY <2>1, SetUpParts
    <2>3. CASE NextJob(w) BY <2>1, <2>2, <2>3, NextJobSetUp DEF Initialising
    <2>4. CASE ~NextJob(w)
      <3>1. pc' = [pc EXCEPT ![w] = "get"] /\ job' = job BY <1>1, <2>4 DEF SkipJob, Goto
      <3>2. AliasLast' BY <2>1, SetUpParts DEF AliasLast
      <3>3. done'[w] \subseteq made' /\ MadeBefore(w)'
        BY <2>1, <3>1, SetUpParts DEF MadeBefore, JobOf, TypeOK
      <3>4. \A v \in Containers : v # w =>
              pc'[v] = pc[v] /\ done'[v] = done[v] /\ job'[v] = job[v] /\ copy'[v] = copy[v]
        BY <2>1, <3>1 DEF TypeOK
      <3> QED BY <2>1, <2>2, <3>2, <3>3, <3>4, SetUpGrows
    <2> QED BY <2>3, <2>4
  <1>2. CASE CallJob(w)
    <2>1. UNCHANGED <<env, indexed, job, copy>> BY <1>2 DEF CallJob, store, locals
    <2>2. CASE JobOf(w) = "ALIAS" /\ "ALIAS" \in made
      <3>1. made' = made /\ JobDone(w) BY <1>2, <2>2 DEF CallJob
      <3>2. AliasLast' BY <3>1, SetUpParts DEF AliasLast
      <3> QED BY <2>1, <2>2, <3>1, <3>2, JobDoneSetUp
    <2>3. CASE JobOf(w) = "ALIAS" /\ "ALIAS" \notin made
      <3>1. made' = made /\ done' = done /\ Goto(w, "create") BY <1>2, <2>3 DEF CallJob
      <3>2. Works(w) /\ pc'[w] = "create"
        BY <1>2, <3>1 DEF CallJob, Goto, Works, TypeOK, events
      <3> QED BY <2>1, <3>1, <3>2, WorksSetUp
    <2>4. CASE JobOf(w) # "ALIAS"
      <3>1. made' = made \union {JobOf(w)} /\ JobDone(w) BY <1>2, <2>4 DEF CallJob
      <3>2. AliasLast' BY <2>4, <3>1, SetUpParts DEF AliasLast
      <3> QED BY <2>1, <3>1, <3>2, JobDoneSetUp
    <2> QED BY <2>2, <2>3, <2>4
  <1>3. CASE CreateAlias(w)
    <2>1. UNCHANGED <<env, indexed>> BY <1>3 DEF CreateAlias, store
    <2>2. CASE "ALIAS" \in made
      <3>1. Leaves(w) /\ made' = made /\ done' = done
        BY <1>3, <2>2, RaiseLeaves DEF CreateAlias
      <3> QED BY <2>1, <3>1, LeavesSetUp, SetUpParts
    <2>3. CASE "ALIAS" \notin made
      <3>1. /\ made' = made \union {"ALIAS"} /\ JobDone(w) /\ UNCHANGED <<job, copy>>
        BY <1>3, <2>3 DEF CreateAlias, locals
      <3>2. JobOf(w) = "ALIAS" BY <1>3 DEF CreateAlias, Placed, Place
      <3>3. AliasLast' BY <3>1, <3>2, SetUpParts, BeforeAlias DEF AliasLast
      <3> QED BY <2>1, <3>1, <3>2, <3>3, JobDoneSetUp
    <2> QED BY <2>2, <2>3
  <1>4. CASE GetEnv(w)
    <2>1. UNCHANGED <<env, made, indexed, done>> /\ pc[w] = "get"
      BY <1>4 DEF GetEnv, store
    <2>2. JobOf(w) \in made /\ env'.flags \subseteq made
      BY <2>1, SetUpParts DEF MadeBefore
    <2>3. CASE JobOf(w) \in env.flags
      <3>1. NextJob(w) /\ copy' = copy BY <1>4, <2>3 DEF GetEnv
      <3> QED BY <2>1, <2>2, <3>1, NextJobSetUp DEF Initialising
    <2>4. CASE JobOf(w) \notin env.flags
      <3>1. copy' = [copy EXCEPT ![w] = env] /\ pc' = [pc EXCEPT ![w] = "put"] /\ job' = job
        BY <1>4, <2>4 DEF GetEnv, Goto
      <3>2. AliasLast' BY <2>1, SetUpParts DEF AliasLast
      <3>3. done'[w] \subseteq made' /\ MadeBefore(w)'
        BY <2>1, <2>2, <3>1, SetUpParts DEF MadeBefore, JobOf, TypeOK
      <3>4. \A v \in Containers : v # w =>
              pc'[v] = pc[v] /\ done'[v] = done[v] /\ job'[v] = job[v] /\ copy'[v] = copy[v]
        BY <2>1, <3>1 DEF TypeOK
      <3> QED BY <2>1, <2>2, <3>2, <3>3, <3>4, SetUpGrows
    <2> QED BY <2>3, <2>4
  <1>5. CASE PutEnv(w)
    <2>1. /\ UNCHANGED <<made, indexed, done>> /\ pc[w] = "put" /\ NextJob(w)
          /\ copy' = [copy EXCEPT ![w] = NoEnv]
      BY <1>5 DEF PutEnv, store
    <2>2. JobOf(w) \in made BY <2>1, SetUpParts DEF MadeBefore
    <2>3. env'.flags \subseteq made
      <3>1. CASE env' = env BY <3>1, SetUpParts
      <3>2. CASE env' = [copy[w] EXCEPT !.flags = @ \union {JobOf(w)}]
        <4>1. copy[w] \in Envs BY <2>1 DEF Placed, CopyHeld
        <4>2. env'.flags = copy[w].flags \union {JobOf(w)} BY <3>2, <4>1 DEF Envs
        <4> QED BY <2>2, <4>1, <4>2, SetUpParts DEF MadeBefore
      <3> QED BY <1>5, <3>1, <3>2 DEF PutEnv
    <2> QED BY <2>1, <2>2, <2>3, NextJobSetUp DEF Initialising
  <1> QED BY <1>1, <1>2, <1>3, <1>4, <1>5

LEMMA LoadStepsSetUp ==
    ASSUME LoaderAssumption, TypeOK, Placed, SetUp, NEW w \in Containers,
           Bulk(w) \/ BulkTooLarge(w) \/ Export(w) \/ GetBatchSize(w) \/ PutBatchSize(w)
               \/ Finish(w)
    PROVE  SetUp'
  <1>1. CASE Bulk(w)
    <2>1. Works(w) /\ pc'[w] \notin {"get", "put"}
      BY <1>1 DEF Bulk, NextBatch, Goto, Works, TypeOK, events
    <2>2. UNCHANGED <<env, made, done, job, copy>> /\ AllMade
      BY <1>1, LoadingMade DEF Bulk, Loading
    <2> QED BY <2>1, <2>2, WorksSetUp
  <1>2. CASE BulkTooLarge(w)
    <2>1. Works(w) /\ pc'[w] \notin {"get", "put"}
      BY <1>2 DEF BulkTooLarge, Goto, Works, TypeOK, events
    <2>2. UNCHANGED <<env, made, done, job, copy, indexed>>
      BY <1>2 DEF BulkTooLarge, locals, store
    <2> QED BY <2>1, <2>2, WorksSetUp
  <1>3. CASE Export(w)
    <2>1. Works(w) /\ pc'[w] \notin {"get", "put"}
      BY <1>3 DEF Export, NextBatch, Goto, Works, TypeOK, events
    <2>2. UNCHANGED <<env, made, done, job, copy, indexed>> BY <1>3 DEF Export
    <2> QED BY <2>1, <2>2, WorksSetUp
  <1>4. CASE GetBatchSize(w)
    <2>1. /\ UNCHANGED <<env, made, done, job, indexed>> /\ pc[w] = "shrink"
          /\ copy' = [copy EXCEPT ![w] = env] /\ pc' = [pc EXCEPT ![w] = "reduce"]
      BY <1>4 DEF GetBatchSize, Goto, store
    <2>2. AliasLast' /\ env'.flags \subseteq made' BY <2>1, SetUpParts DEF AliasLast
    <2>3. done'[w] \subseteq made' /\ MadeBefore(w)'
      BY <2>1, SetUpParts DEF MadeBefore, TypeOK
    <2>4. \A v \in Containers : v # w =>
            pc'[v] = pc[v] /\ done'[v] = done[v] /\ job'[v] = job[v] /\ copy'[v] = copy[v]
      BY <2>1 DEF TypeOK
    <2> QED BY <2>1, <2>2, <2>3, <2>4, SetUpGrows
  <1>5. CASE PutBatchSize(w)
    <2>1. /\ Leaves(w) /\ UNCHANGED <<made, indexed, done>> /\ pc[w] = "reduce"
      BY <1>5, RaiseLeaves DEF PutBatchSize, store
    <2>2. env'.flags \subseteq made
      <3>1. CASE env' = env BY <3>1, SetUpParts
      <3>2. CASE env' = Shrunk(copy[w])
        <4>1. copy[w] \in Envs BY <2>1 DEF Placed, CopyHeld
        <4>2. env'.flags = copy[w].flags BY <3>2, <4>1 DEF Shrunk, Envs
        <4> QED BY <4>1, <4>2, SetUpParts DEF MadeBefore
      <3> QED BY <1>5, <3>1, <3>2 DEF PutBatchSize
    <2> QED BY <2>1, <2>2, LeavesSetUp
  <1>6. CASE Finish(w)
    <2>1. Leaves(w) /\ UNCHANGED <<env, made, indexed, done>>
      BY <1>6 DEF Finish, Leaves, store
    <2> QED BY <2>1, LeavesSetUp, SetUpParts
  <1> QED BY <1>1, <1>2, <1>3, <1>4, <1>5, <1>6

LEMMA MishapSetUp ==
    ASSUME LoaderAssumption, TypeOK, Placed, SetUp, NEW w \in Containers, Mishap(w)
    PROVE  SetUp'
  <1>1. UNCHANGED <<env, made>> /\ (done' = done \/ done' = [done EXCEPT ![w] = {}])
    BY DEF Mishap, JobFails, BulkFails, BulkAnswerLost, ExportFails, Crash
  <1>2. env'.flags \subseteq made BY <1>1, SetUpParts
  <1>3. AllMade \/ indexed' = indexed
    BY LoadingMade
    DEF Mishap, JobFails, BulkFails, BulkAnswerLost, ExportFails, Crash, Loading, store
  <1>4. CASE Leaves(w) BY <1>1, <1>2, <1>3, <1>4, LeavesSetUp
  <1>5. CASE ~Leaves(w)
    <2>1. Works(w) BY <1>5, MishapMoves
    <2>2. UNCHANGED <<done, job, copy>> /\ pc'[w] \notin {"get", "put"}
      BY <1>5, RaiseLeaves
      DEF Mishap, JobFails, BulkFails, BulkAnswerLost, ExportFails, Crash, RetryBulk, Goto,
          Leaves, AfterError, locals, TypeOK
    <2> QED BY <1>1, <1>3, <2>1, <2>2, WorksSetUp
  <1> QED BY <1>4, <1>5

LEMMA SetUpStep ==
    ASSUME LoaderAssumption, TypeOK, Placed, SetUp, [Next]_vars
    PROVE  SetUp'
  <1>1. ASSUME NEW w \in Containers, Step(w) PROVE SetUp'
    BY <1>1, SetUpStepsSetUp, LoadStepsSetUp DEF Step
  <1>2. ASSUME NEW w \in Containers, Mishap(w) PROVE SetUp' BY <1>2, MishapSetUp
  <1>3. ASSUME NEW w \in Containers, NEW e \in Events, Invoke(w, e) PROVE SetUp'
    <2>1. /\ pc' = [pc EXCEPT ![w] = "init"]
          /\ UNCHANGED <<env, made, indexed, job, copy>>
          /\ done' = [done EXCEPT ![w] = env.flags] \/ done' = done
      BY <1>3 DEF Invoke, Goto, store, locals
    <2>2. AliasLast' /\ env'.flags \subseteq made' BY <2>1, SetUpParts DEF AliasLast
    <2>3. done'[w] \subseteq made' /\ MadeBefore(w)'
      BY <2>1, SetUpParts DEF MadeBefore, TypeOK
    <2>4. \A v \in Containers : v # w =>
            pc'[v] = pc[v] /\ done'[v] = done[v] /\ job'[v] = job[v] /\ copy'[v] = copy[v]
      BY <2>1 DEF TypeOK
    <2> QED BY <2>1, <2>2, <2>3, <2>4, SetUpGrows
  <1>4. ASSUME NEW e \in Events, Redeliver(e) PROVE SetUp'
    BY <1>4, SetUpParts
    DEF Redeliver, store, locals, SetUp, InitialisedFirst, MadeBefore, JobOf
  <1>5. CASE UNCHANGED vars
    BY <1>5 DEF vars, store, locals, SetUp, InitialisedFirst, MadeBefore, JobOf
  <1> QED BY <1>1, <1>2, <1>3, <1>4, <1>5 DEF Next

(* No record is indexed before OpenSearch has what init_idx_env makes, the  *)
(* index is not created before the template, and no flag of the environment *)
(* or of a container is ahead of OpenSearch, although containers overwrite  *)
(* each other's environments.                                               *)
THEOREM SetUpFirst == Spec => []InitialisedFirst
  <1>1. Init => TypeOK /\ Placed /\ SetUp
    <2>1. Init => SetUp
      BY LoaderAssumption, JobFacts DEF Init, SetUp, InitialisedFirst, MadeBefore
    <2> QED BY <2>1, LoaderAssumption, InitPlaced
  <1>2. (TypeOK /\ Placed /\ SetUp) /\ [Next]_vars => (TypeOK /\ Placed /\ SetUp)'
    BY LoaderAssumption, NextPlaced, SetUpStep
  <1>3. SetUp => InitialisedFirst BY DEF SetUp
  <1> QED BY <1>1, <1>2, <1>3, PTL DEF Spec

-----------------------------------------------------------------------------
(* What an invocation has loaded.                                           *)
LEMMA IndexedGrows ==
    ASSUME TypeOK, NEW w \in Containers, ev[w] \in Events,
           NEW units \in SUBSET Units, Indexed(w, units)
    PROVE  /\ \A e \in Events, u \in Units :
                  indexed'[e][u] = IF e = ev[w] /\ u \in units /\ indexed[e][u] < 2
                                   THEN indexed[e][u] + 1 ELSE indexed[e][u]
           /\ \A e \in Events, u \in Units : indexed[e][u] > 0 => indexed'[e][u] > 0
           /\ \A u \in units : indexed'[ev[w]][u] > 0
           /\ \A e \in Events, u \in Units :
                  e # ev[w] \/ u \notin units => indexed'[e][u] = indexed[e][u]
  <1>1. \A e \in Events, u \in Units : indexed[e][u] \in 0..2 BY DEF TypeOK
  <1>2. \A e \in Events, u \in Units :
            indexed'[e][u] = IF e = ev[w] /\ u \in units /\ indexed[e][u] < 2
                             THEN indexed[e][u] + 1 ELSE indexed[e][u]
    BY DEF Indexed, TypeOK
  <1> QED BY <1>1, <1>2

(* What each step of the invocations does to the store.                     *)
LEMMA BulkLoads ==
    ASSUME LoaderAssumption, TypeOK, Placed, NEW w \in Containers, Bulk(w)
    PROVE  /\ pc[w] = "bulk" /\ exports' = exports /\ source' = source /\ cEnv' = cEnv
           /\ accidents' = accidents
           /\ ev[w] \in Events /\ at[w] \in 1..Len0 /\ BatchEnd(w) \in at[w]..Len0
           /\ Batch(w) = at[w]..BatchEnd(w) /\ Batch(w) \subseteq Units
           /\ \E bad \in SUBSET Units :
                 /\ Indexed(w, Batch(w) \ bad)
                 /\ rejected' = [rejected EXCEPT ![w] = bad]
                 /\ \/ /\ bad = {} /\ pc'[w] # "export"
                       /\ at' = [at EXCEPT ![w] = BatchEnd(w) + 1]
                    \/ pc'[w] = "export" /\ at' = at
  <1>1. pc[w] = "bulk" /\ exports' = exports /\ source' = source /\ cEnv' = cEnv
        /\ accidents' = accidents
    BY DEF Bulk, world
  <1>2. ev[w] \in Events /\ cEnv[w] \in Envs /\ at[w] \in 1..Len0
    BY <1>1 DEF Placed, InHand, Place, Loading, TypeOK, LoaderAssumption
  <1>3. /\ BatchEnd(w) \in at[w]..Len0 /\ Batch(w) = at[w]..BatchEnd(w)
        /\ Batch(w) \subseteq Units
    BY <1>2, BatchFacts
  <1>4. PICK bad \in {{}} \union (IF "Rejects" \in Faults THEN {{u} : u \in Batch(w)} ELSE {}) :
           /\ Indexed(w, Batch(w) \ bad)
           /\ rejected' = [rejected EXCEPT ![w] = bad]
           /\ IF bad = {} THEN NextBatch(w) ELSE Goto(w, "export") /\ UNCHANGED <<at, tries>>
    BY DEF Bulk
  <1>5. bad \in SUBSET Units BY <1>3, <1>4
  <1>6. CASE bad = {}
    <2>1. pc'[w] # "export" /\ at' = [at EXCEPT ![w] = BatchEnd(w) + 1]
      BY <1>4, <1>6 DEF NextBatch, Goto, TypeOK
    <2> QED BY <1>1, <1>2, <1>3, <1>4, <1>5, <1>6, <2>1
  <1>7. CASE bad # {}
    <2>1. pc'[w] = "export" /\ at' = at BY <1>4, <1>7 DEF Goto, TypeOK
    <2> QED BY <1>1, <1>2, <1>3, <1>4, <1>5, <2>1
  <1> QED BY <1>6, <1>7

LEMMA ExportSaves ==
    ASSUME LoaderAssumption, TypeOK, Placed, NEW w \in Containers, Export(w)
    PROVE  /\ pc[w] = "export" /\ pc'[w] # "export" /\ source' = source
           /\ indexed' = indexed /\ accidents' = accidents
           /\ ev[w] \in Events /\ at[w] \in 1..Len0 /\ BatchEnd(w) \in at[w]..Len0
           /\ Batch(w) = at[w]..BatchEnd(w)
           /\ at' = [at EXCEPT ![w] = BatchEnd(w) + 1]
           /\ rejected' = [rejected EXCEPT ![w] = {}] /\ cEnv' = cEnv
           /\ \E f \in exports' : \A u \in rejected[w] : <<ev[w], u>> \in f
           /\ "SameSecond" \notin Faults => exports \subseteq exports'
  <1>1. pc[w] = "export" /\ source' = source /\ indexed' = indexed /\ accidents' = accidents
        /\ rejected' = [rejected EXCEPT ![w] = {}] /\ cEnv' = cEnv
    BY DEF Export, world
  <1>2. ev[w] \in Events /\ cEnv[w] \in Envs /\ at[w] \in 1..Len0
    BY <1>1 DEF Placed, InHand, Place, Loading, TypeOK, LoaderAssumption
  <1>3. BatchEnd(w) \in at[w]..Len0 /\ Batch(w) = at[w]..BatchEnd(w) BY <1>2, BatchFacts
  <1>4. pc'[w] # "export" /\ at' = [at EXCEPT ![w] = BatchEnd(w) + 1]
    BY DEF Export, NextBatch, Goto, TypeOK
  <1> DEFINE file == {<<ev[w], u>> : u \in rejected[w]}
  <1>5. PICK g \in SUBSET exports :
            exports' = g \union {file} /\ ("SameSecond" \notin Faults => g = exports)
    BY DEF Export
  <1>6. file \in exports' /\ ("SameSecond" \notin Faults => exports \subseteq exports') BY <1>5
  <1>7. \A u \in rejected[w] : <<ev[w], u>> \in file OBVIOUS
  <1> HIDE DEF file
  <1> QED BY <1>1, <1>2, <1>3, <1>4, <1>6, <1>7

(* The other steps of an invocation that goes on index nothing, unless by   *)
(* accident, and stay where they are.                                       *)
LEMMA OthersStay ==
    ASSUME LoaderAssumption, TypeOK, Placed, NEW w \in Containers, Step(w) \/ Mishap(w),
           ~Bulk(w), ~Export(w)
    PROVE  /\ exports' = exports /\ source' = source
           /\ \/ indexed' = indexed
              \/ /\ accidents' > 0 /\ ev[w] \in Events
                 /\ \E units \in SUBSET Units : Indexed(w, units)
           /\ \A v \in Containers : v # w => cEnv'[v] = cEnv[v]
           /\ ~Leaves(w) => /\ at' = at /\ rejected' = rejected /\ cEnv' = cEnv
                            /\ pc[w] # "export" /\ pc'[w] # "export"
  <1>1. CASE SkipJob(w)
    BY <1>1 DEF SkipJob, NextJob, Goto, world, store, TypeOK
  <1>2. CASE CallJob(w)
    BY <1>2 DEF CallJob, JobDone, Goto, world, store, locals, TypeOK
  <1>3. CASE CreateAlias(w)
    BY <1>3, RaiseLeaves DEF CreateAlias, JobDone, Goto, world, store, locals, TypeOK
  <1>4. CASE GetEnv(w) BY <1>4 DEF GetEnv, NextJob, Goto, world, store, TypeOK
  <1>5. CASE PutEnv(w) BY <1>5 DEF PutEnv, NextJob, Goto, world, store, TypeOK
  <1>6. CASE BulkTooLarge(w)
    BY <1>6 DEF BulkTooLarge, Goto, world, store, locals, TypeOK
  <1>7. CASE GetBatchSize(w) BY <1>7 DEF GetBatchSize, Goto, world, store, TypeOK
  <1>8. CASE PutBatchSize(w) BY <1>8, RaiseLeaves DEF PutBatchSize, world, store
  <1>9. CASE Finish(w) BY <1>9 DEF Finish, Leaves, world, store
  <1>10. CASE JobFails(w)
    BY <1>10, RaiseLeaves DEF JobFails, Goto, world, store, locals, TypeOK
  <1>11. CASE BulkFails(w)
    BY <1>11, RaiseLeaves DEF BulkFails, RetryBulk, world, store, TypeOK
  <1>12. CASE BulkAnswerLost(w)
    <2>1. cEnv[w] \in Envs /\ at[w] \in 1..Len0 /\ ev[w] \in Events
      BY <1>12 DEF BulkAnswerLost, Placed, InHand, Place, Loading, TypeOK, LoaderAssumption
    <2>2. Batch(w) \in SUBSET Units /\ Indexed(w, Batch(w))
      BY <1>12, <2>1, BatchFacts DEF BulkAnswerLost
    <2>3. accidents' > 0 BY <1>12, MishapMoves DEF Mishap
    <2>4. exports' = exports /\ source' = source /\ cEnv' = cEnv /\ pc[w] = "bulk"
      BY <1>12 DEF BulkAnswerLost, world
    <2>5. ~Leaves(w) => at' = at /\ rejected' = rejected /\ pc' = pc
      BY <1>12, RaiseLeaves DEF BulkAnswerLost, RetryBulk
    <2> QED BY <2>1, <2>2, <2>3, <2>4, <2>5
  <1>13. CASE ExportFails(w) BY <1>13, RaiseLeaves DEF ExportFails, world, store
  <1>14. CASE Crash(w)
    BY <1>14, AfterErrorTyped DEF Crash, Leaves, world, store, TypeOK
  <1> QED BY <1>1, <1>2, <1>3, <1>4, <1>5, <1>6, <1>7, <1>8, <1>9, <1>10, <1>11, <1>12,
             <1>13, <1>14 DEF Step, Mishap

LEMMA SameBatch ==
    ASSUME NEW v \in Containers, source' = source, cEnv'[v] = cEnv[v], at'[v] = at[v]
    PROVE  BatchEnd(v)' = BatchEnd(v) /\ Batch(v)' = Batch(v)
  <1>1. BatchEnd(v)' = BatchEnd(v) BY DEF BatchEnd, BatchSize
  <1> QED BY <1>1 DEF Batch

(* What the bookkeeping of another invocation is built from does not change.*)
Apart(v) ==
    /\ at'[v] = at[v] /\ rejected'[v] = rejected[v] /\ pc'[v] = pc[v] /\ ev'[v] = ev[v]
    /\ BatchEnd(v)' = BatchEnd(v) /\ Batch(v)' = Batch(v)

LEMMA OthersApart ==
    ASSUME LoaderAssumption, TypeOK, Placed, NEW w \in Containers, Step(w) \/ Mishap(w)
    PROVE  \A v \in Containers : v # w => Apart(v)
  <1>1. CASE Leaves(w)
    <2>1. PICK o \in {"waiting", "done", "dead"} : Stop(w, o) BY <1>1 DEF Leaves
    <2>2. /\ at' = [at EXCEPT ![w] = 1] /\ rejected' = [rejected EXCEPT ![w] = {}]
          /\ pc' = [pc EXCEPT ![w] = "idle"] /\ ev' = [ev EXCEPT ![w] = NoEvent]
      BY <2>1 DEF Stop, Goto
    <2>3. source' = source /\ \A v \in Containers : v # w => cEnv'[v] = cEnv[v]
      BY BulkLoads, ExportSaves, OthersStay
    <2> QED BY <2>2, <2>3, SameBatch DEF Apart, TypeOK
  <1>2. CASE ~Leaves(w)
    <2>1. Works(w) BY <1>2, StepsMove
    <2>2. source' = source /\ \A v \in Containers : v # w => cEnv'[v] = cEnv[v]
      BY BulkLoads, ExportSaves, OthersStay
    <2>3. \A v \in Containers : v # w => at'[v] = at[v] /\ rejected'[v] = rejected[v]
      <3>1. CASE Bulk(w)
        <4>1. /\ at' = at \/ at' = [at EXCEPT ![w] = BatchEnd(w) + 1]
              /\ \E bad : rejected' = [rejected EXCEPT ![w] = bad]
          BY <3>1, BulkLoads
        <4> QED BY <4>1 DEF TypeOK
      <3>2. CASE Export(w)
        <4>1. /\ at' = [at EXCEPT ![w] = BatchEnd(w) + 1]
              /\ rejected' = [rejected EXCEPT ![w] = {}]
          BY <3>2, ExportSaves
        <4> QED BY <4>1 DEF TypeOK
      <3>3. CASE ~Bulk(w) /\ ~Export(w) BY <1>2, <3>3, OthersStay
      <3> QED BY <3>1, <3>2, <3>3
    <2> QED BY <2>1, <2>2, <2>3, SameBatch DEF Apart, Works
  <1> QED BY <1>1, <1>2

(* Batches of an undisturbed event do not overlap.                          *)
LEMMA OnceParts ==
    Once <=> /\ \A e \in Events : state[e] = "running" => attempts[e] > 0
             /\ accidents = 0 =>
                   /\ \A e \in Events, u \in Units :
                         /\ attempts[e] <= 1 => indexed[e][u] <= 1
                         /\ attempts[e] = 0 => indexed[e][u] = 0
                   /\ \A w \in Containers : Untouched(w)
  BY DEF Once, LoadedOnce, Ahead, Untouched

LEMMA OnceStep ==
    ASSUME LoaderAssumption, TypeOK, Placed, OneHand, Once,
           NEW w \in Containers, Step(w) \/ Mishap(w)
    PROVE  Once'
  <1>1. attempts' = attempts /\ \A e \in Events : state'[e] = "running" => attempts'[e] > 0
    BY StepsMove, OnceParts DEF Leaves, Works, Stop, TypeOK
  <1>2. pc[w] # "idle" /\ (Leaves(w) => pc'[w] = "idle")
    BY StepsMove DEF Leaves, Stop, Goto, TypeOK
  <1>3. ev[w] \in Events /\ attempts[ev[w]] > 0 BY <1>2, OnceParts DEF OneHand, Placed, InHand
  <1> SUFFICES ASSUME accidents' = 0
               PROVE  /\ \A e \in Events, u \in Units :
                            /\ attempts'[e] <= 1 => indexed'[e][u] <= 1
                            /\ attempts'[e] = 0 => indexed'[e][u] = 0
                      /\ \A v \in Containers : Untouched(v)'
    BY <1>1 DEF Once, LoadedOnce, Ahead, Untouched
  <1>4. accidents = 0
    <2>1. accidents' = accidents \/ \E f : Accident(f)
      BY DEF Step, Mishap, SkipJob, CallJob, CreateAlias, GetEnv, PutEnv, Bulk, BulkTooLarge,
             Export, GetBatchSize, PutBatchSize, Finish, JobFails, BulkFails, BulkAnswerLost,
             ExportFails, Crash
    <2> QED BY <2>1 DEF Accident, TypeOK
  <1>5. \A u \in Units : /\ attempts[ev[w]] <= 1
                         /\ u >= at[w] /\ (pc[w] = "export" => u > BatchEnd(w))
                         => indexed[ev[w]][u] = 0
    BY <1>2, <1>4, OnceParts DEF Untouched
  <1>6. \A v \in Containers : v # w /\ pc[v] # "idle" => ev[v] # ev[w]
    BY <1>2 DEF OneHand
  <1>7. \A v \in Containers : v # w => Apart(v) BY OthersApart
  <1>8. ASSUME NEW v \in Containers, v # w,
               \A u \in Units : ev[v] \in Events /\ ev[v] # ev[w] =>
                   indexed'[ev[v]][u] = indexed[ev[v]][u]
        PROVE  Untouched(v)'
    <2>1. Untouched(v) /\ Apart(v) BY <1>4, <1>7, <1>8, OnceParts
    <2>2. pc[v] # "idle" => ev[v] \in Events /\ ev[v] # ev[w]
      BY <1>6, <1>8 DEF Placed, InHand
    <2> QED BY <1>1, <1>4, <1>8, <2>1, <2>2 DEF Untouched, Apart
  <1>9. CASE Bulk(w)
    <2>1. /\ pc[w] = "bulk" /\ BatchEnd(w) \in at[w]..Len0 /\ cEnv' = cEnv /\ source' = source
          /\ at[w] \in 1..Len0 /\ Batch(w) = at[w]..BatchEnd(w) /\ Batch(w) \subseteq Units
      BY <1>9, BulkLoads
    <2>2. PICK bad \in SUBSET Units :
             /\ Indexed(w, Batch(w) \ bad)
             /\ \/ bad = {} /\ pc'[w] # "export" /\ at' = [at EXCEPT ![w] = BatchEnd(w) + 1]
                \/ pc'[w] = "export" /\ at' = at
      BY <1>9, BulkLoads
    <2>3. \A e \in Events, u \in Units :
              indexed'[e][u] = IF e = ev[w] /\ u \in Batch(w) \ bad /\ indexed[e][u] < 2
                               THEN indexed[e][u] + 1 ELSE indexed[e][u]
      BY <1>3, <2>1, <2>2, IndexedGrows
    <2>4. \A e \in Events, u \in Units :
              e # ev[w] \/ u \notin Batch(w) => indexed'[e][u] = indexed[e][u]
      BY <2>3
    <2>5. \A u \in Batch(w) : attempts[ev[w]] <= 1 => indexed[ev[w]][u] = 0
      BY <1>5, <2>1
    <2>6. ASSUME NEW e \in Events, NEW u \in Units
          PROVE  /\ attempts'[e] <= 1 => indexed'[e][u] <= 1
                 /\ attempts'[e] = 0 => indexed'[e][u] = 0
      <3>1. CASE e = ev[w] /\ u \in Batch(w)
        BY <1>1, <1>3, <2>3, <2>5, <3>1
      <3>2. CASE ~(e = ev[w] /\ u \in Batch(w))
        BY <1>1, <1>4, <2>4, <3>2, OnceParts
      <3> QED BY <3>1, <3>2
    <2>7. Untouched(w)'
      <3> SUFFICES ASSUME NEW u \in Units, attempts'[ev'[w]] <= 1, pc'[w] # "idle",
                          u >= at'[w], pc'[w] = "export" => u > BatchEnd(w)'
                   PROVE  indexed'[ev'[w]][u] = 0
        BY DEF Untouched
      <3>1. ev'[w] = ev[w] BY <1>2, StepsMove DEF Works
      <3>2. u \notin Batch(w) /\ u >= at[w]
        <4>1. CASE at' = [at EXCEPT ![w] = BatchEnd(w) + 1]
          <5>1. at'[w] = BatchEnd(w) + 1 BY <4>1 DEF TypeOK
          <5> QED BY <2>1, <5>1 DEF Units, LoaderAssumption
        <4>2. CASE pc'[w] = "export" /\ at' = at
          <5>1. BatchEnd(w)' = BatchEnd(w) BY <2>1, <4>2, SameBatch
          <5> QED BY <2>1, <4>2, <5>1 DEF Units, LoaderAssumption
        <4> QED BY <2>2, <4>1, <4>2
      <3> QED BY <1>1, <1>3, <1>5, <2>1, <2>4, <3>1, <3>2
    <2> QED BY <1>8, <2>4, <2>6, <2>7
  <1>10. CASE Export(w)
    <2>1. /\ pc[w] = "export" /\ pc'[w] # "export" /\ indexed' = indexed
          /\ at[w] \in 1..Len0 /\ BatchEnd(w) \in at[w]..Len0
          /\ at' = [at EXCEPT ![w] = BatchEnd(w) + 1]
      BY <1>10, ExportSaves
    <2>2. Untouched(w)'
      <3> SUFFICES ASSUME NEW u \in Units, attempts'[ev'[w]] <= 1, pc'[w] # "idle",
                          u >= at'[w]
                   PROVE  indexed'[ev'[w]][u] = 0
        BY DEF Untouched
      <3>1. ev'[w] = ev[w] BY <1>2, StepsMove DEF Works
      <3>2. at'[w] = BatchEnd(w) + 1 BY <2>1 DEF TypeOK
      <3>3. u >= at[w] /\ u > BatchEnd(w) BY <2>1, <3>2 DEF Units, LoaderAssumption
      <3> QED BY <1>1, <1>5, <2>1, <3>1, <3>3
    <2> QED BY <1>1, <1>4, <1>8, <2>1, <2>2, OnceParts
  <1>11. CASE ~Bulk(w) /\ ~Export(w)
    <2>1. indexed' = indexed BY <1>11, OthersStay
    <2>2. Untouched(w)'
      <3>1. CASE Leaves(w) BY <1>2, <3>1 DEF Untouched
      <3>2. CASE ~Leaves(w)
        <4>1. at' = at /\ pc[w] # "export" /\ pc'[w] # "export" /\ ev' = ev
          BY <1>11, <3>2, OthersStay, StepsMove DEF Works
        <4> QED BY <1>1, <1>5, <2>1, <4>1 DEF Untouched
      <3> QED BY <3>1, <3>2
    <2> QED BY <1>1, <1>4, <1>8, <2>1, <2>2, OnceParts
  <1> QED BY <1>9, <1>10, <1>11

LEMMA OnceNext ==
    ASSUME LoaderAssumption, TypeOK, Placed, OneHand, Once, [Next]_vars
    PROVE  Once'
  <1>1. ASSUME NEW w \in Containers, NEW e \in Events, Invoke(w, e) PROVE Once'
    <2>1. /\ state[e] = "waiting" /\ state' = [state EXCEPT ![e] = "running"]
          /\ attempts' = [attempts EXCEPT ![e] = IF @ < AsyncAttempts THEN @ + 1 ELSE @]
          /\ pc' = [pc EXCEPT ![w] = "init"] /\ ev' = [ev EXCEPT ![w] = e]
          /\ UNCHANGED <<source, indexed, at, rejected, accidents>>
          /\ \A v \in Containers : v # w => cEnv'[v] = cEnv[v]
      BY <1>1 DEF Invoke, Goto, world, store, locals, TypeOK
    <2>2. attempts'[e] > 0 /\ (attempts'[e] <= 1 => attempts[e] = 0)
          /\ \A f \in Events : f # e => attempts'[f] = attempts[f]
      <3>1. attempts[e] \in 0..3 BY DEF TypeOK, AsyncAttempts
      <3> QED BY <2>1, <3>1 DEF TypeOK, AsyncAttempts
    <2>3. \A f \in Events : state'[f] = "running" => attempts'[f] > 0
      BY <2>1, <2>2, OnceParts DEF TypeOK
    <2> SUFFICES ASSUME accidents' = 0
                 PROVE  /\ \A f \in Events, u \in Units :
                              /\ attempts'[f] <= 1 => indexed'[f][u] <= 1
                              /\ attempts'[f] = 0 => indexed'[f][u] = 0
                        /\ \A v \in Containers : Untouched(v)'
      BY <2>3 DEF Once, LoadedOnce, Ahead, Untouched
    <2>4. /\ \A f \in Events, u \in Units :
                 /\ attempts[f] <= 1 => indexed[f][u] <= 1
                 /\ attempts[f] = 0 => indexed[f][u] = 0
          /\ \A v \in Containers : Untouched(v)
      BY <2>1, OnceParts
    <2>5. ASSUME NEW f \in Events, NEW u \in Units
          PROVE  /\ attempts'[f] <= 1 => indexed'[f][u] <= 1
                 /\ attempts'[f] = 0 => indexed'[f][u] = 0
      BY <2>1, <2>2, <2>4
    <2>6. ASSUME NEW v \in Containers PROVE Untouched(v)'
      <3>1. CASE v = w
        <4>1. ev'[w] = e /\ pc'[w] = "init" BY <2>1 DEF TypeOK
        <4> QED BY <2>1, <2>2, <2>4, <3>1, <4>1 DEF Untouched
      <3>2. CASE v # w
        <4>1. /\ pc'[v] = pc[v] /\ ev'[v] = ev[v] /\ at'[v] = at[v]
              /\ BatchEnd(v)' = BatchEnd(v)
          BY <2>1, <3>2, SameBatch DEF TypeOK
        <4>2. pc[v] # "idle" => ev[v] # e /\ ev[v] \in Events
          BY <2>1 DEF OneHand, Placed, InHand
        <4> QED BY <2>1, <2>2, <2>4, <4>1, <4>2 DEF Untouched
      <3> QED BY <3>1, <3>2
    <2> QED BY <2>5, <2>6
  <1>2. ASSUME NEW e \in Events, Redeliver(e) PROVE Once'
    <2>1. accidents' > 0 BY <1>2 DEF Redeliver, Accident, TypeOK
    <2>2. \A f \in Events : state'[f] = "running" => attempts'[f] > 0
      BY <1>2, OnceParts DEF Redeliver, TypeOK
    <2> QED BY <2>1, <2>2 DEF Once, LoadedOnce, Ahead, Untouched
  <1>3. CASE UNCHANGED vars
    BY <1>3 DEF vars, world, events, store, locals, Once, LoadedOnce, Ahead, Untouched,
                BatchEnd, BatchSize
  <1> QED BY <1>1, <1>2, <1>3, OnceStep DEF Next

(* A file without a failure is indexed once, whatever the batch sizes and   *)
(* however the containers share the events.                                 *)
THEOREM BatchesDoNotOverlap == Spec => []LoadedOnce
  <1>1. Init => TypeOK /\ Placed /\ OneHand /\ Once
    <2>1. Init => OneHand /\ Once BY DEF Init, OneHand, Once, LoadedOnce, Ahead, Untouched
    <2> QED BY <2>1, LoaderAssumption, InitPlaced
  <1>2. (TypeOK /\ Placed /\ OneHand /\ Once) /\ [Next]_vars
            => (TypeOK /\ Placed /\ OneHand /\ Once)'
    BY LoaderAssumption, NextPlaced, OneHandStep, OnceNext
  <1>3. Once => LoadedOnce BY DEF Once
  <1> QED BY <1>1, <1>2, <1>3, PTL DEF Spec

-----------------------------------------------------------------------------
(* No record vanishes.                                                      *)
LEMMA KeptStays ==
    ASSUME LoaderAssumption, TypeOK, Placed, Safe,
           NEW w \in Containers, Step(w) \/ Mishap(w)
    PROVE  \A e \in Events, u \in Units : Kept(e, u) => Kept(e, u)'
  <1>1. exports \subseteq exports' BY BulkLoads, ExportSaves, OthersStay DEF Safe
  <1>2. \A e \in Events, u \in Units : indexed[e][u] > 0 => indexed'[e][u] > 0
    <2>1. CASE Bulk(w)
      <3>1. ev[w] \in Events /\ Batch(w) \subseteq Units BY <2>1, BulkLoads
      <3>2. PICK bad \in SUBSET Units : Indexed(w, Batch(w) \ bad) BY <2>1, BulkLoads
      <3>3. Batch(w) \ bad \in SUBSET Units BY <3>1
      <3> QED BY <3>1, <3>2, <3>3, IndexedGrows
    <2>2. CASE ~Bulk(w)
      <3>1. \/ indexed' = indexed
            \/ ev[w] \in Events /\ \E units \in SUBSET Units : Indexed(w, units)
        BY <2>2, ExportSaves, OthersStay
      <3> QED BY <3>1, IndexedGrows
    <2> QED BY <2>1, <2>2
  <1> QED BY <1>1, <1>2 DEF Kept

(* Only Finish is done with an event, when the source is safe.              *)
LEMMA OnlyFinishes ==
    ASSUME TypeOK, Safe, NEW w \in Containers, Step(w) \/ Mishap(w), ~Finish(w)
    PROVE  \A e \in Events : state'[e] = "done" => state[e] = "done"
  <1>1. CASE Raise(w)
    <2>1. /\ AfterRaise(ev[w]) # "done"
          /\ state' = [state EXCEPT ![ev[w]] = AfterRaise(ev[w])]
      BY <1>1, AfterRaiseTyped DEF Safe, Raise, Stop
    <2> QED BY <2>1 DEF TypeOK
  <1>2. CASE Crash(w)
    <2>1. /\ AfterError(ev[w]) # "done"
          /\ state' = [state EXCEPT ![ev[w]] = AfterError(ev[w])]
      BY <1>2, AfterErrorTyped DEF Crash, Stop
    <2> QED BY <2>1 DEF TypeOK
  <1>3. CASE ~Raise(w) /\ ~Crash(w)
    <2>1. state' = state
      BY <1>3
      DEF Step, Mishap, SkipJob, CallJob, CreateAlias, GetEnv, PutEnv, Bulk, BulkTooLarge,
          Export, GetBatchSize, PutBatchSize, JobFails, BulkFails, BulkAnswerLost,
          ExportFails, RetryBulk, events
    <2> QED BY <2>1
  <1> QED BY <1>1, <1>2, <1>3

LEMMA HandledParts ==
    Handled <=> (Safe => /\ \A e \in Events : state[e] = "done" => \A u \in Units : Kept(e, u)
                         /\ \A w \in Containers : Behind(w))
  BY DEF Handled, Accounted, Kept

LEMMA HandledStep ==
    ASSUME LoaderAssumption, TypeOK, Placed, Handled,
           NEW w \in Containers, Step(w) \/ Mishap(w)
    PROVE  Handled'
  <1> SUFFICES ASSUME Safe'
               PROVE  /\ \A e \in Events : state'[e] = "done" => \A u \in Units : Kept(e, u)'
                      /\ \A v \in Containers : Behind(v)'
    BY DEF Handled, Accounted, Kept
  <1>1. Safe BY BulkLoads, ExportSaves, OthersStay DEF Safe
  <1>2. /\ \A e \in Events : state[e] = "done" => \A u \in Units : Kept(e, u)
        /\ \A v \in Containers : Behind(v)
    BY <1>1, HandledParts
  <1>3. \A e \in Events, u \in Units : Kept(e, u) => Kept(e, u)' BY <1>1, KeptStays
  <1>4. pc[w] # "idle" /\ (Leaves(w) => pc'[w] = "idle")
    BY StepsMove DEF Leaves, Stop, Goto, TypeOK
  <1>5. ev[w] \in Events BY <1>4 DEF Placed, InHand
  <1>6. ASSUME NEW e \in Events, state'[e] = "done", NEW u \in Units PROVE Kept(e, u)'
    <2>1. CASE Finish(w)
      <3>1. pc[w] = "end" /\ state' = [state EXCEPT ![ev[w]] = "done"]
        BY <2>1 DEF Finish, Stop
      <3>2. u < at[w] BY <3>1 DEF Placed, Place, Units, LoaderAssumption
      <3>3. Kept(ev[w], u) BY <1>2, <1>4, <3>2 DEF Behind
      <3>4. e = ev[w] \/ state[e] = "done" BY <1>6, <3>1 DEF TypeOK
      <3> QED BY <1>2, <1>3, <1>5, <3>3, <3>4
    <2>2. CASE ~Finish(w) BY <1>1, <1>2, <1>3, <1>6, <2>2, OnlyFinishes
    <2> QED BY <2>1, <2>2
  <1>7. ASSUME NEW v \in Containers, v # w PROVE Behind(v)'
    <2>1. Apart(v) BY <1>7, OthersApart
    <2>2. pc[v] # "idle" => ev[v] \in Events BY DEF Placed, InHand
    <2> QED BY <1>2, <1>3, <2>1, <2>2 DEF Behind, Apart
  <1>8. Behind(w)'
    <2>1. CASE Leaves(w) BY <1>4, <2>1 DEF Behind
    <2>2. CASE ~Leaves(w)
      <3>1. ev' = ev BY <2>2, StepsMove DEF Works
      <3> SUFFICES ASSUME NEW u \in Units,
                          u < at'[w] \/ (pc'[w] = "export" /\ u \in Batch(w)' \ rejected'[w])
                   PROVE  Kept(ev[w], u)'
        BY <3>1 DEF Behind
      <3>2. u < at[w] => Kept(ev[w], u)' BY <1>2, <1>3, <1>4, <1>5, <3>1 DEF Behind, Kept
      <3>3. CASE Bulk(w)
        <4>1. /\ Batch(w) = at[w]..BatchEnd(w) /\ Batch(w) \subseteq Units
              /\ at[w] \in 1..Len0 /\ BatchEnd(w) \in at[w]..Len0
              /\ cEnv' = cEnv /\ source' = source
          BY <3>3, BulkLoads
        <4>2. PICK bad \in SUBSET Units :
                 /\ Indexed(w, Batch(w) \ bad)
                 /\ rejected' = [rejected EXCEPT ![w] = bad]
                 /\ \/ /\ bad = {} /\ pc'[w] # "export"
                       /\ at' = [at EXCEPT ![w] = BatchEnd(w) + 1]
                    \/ pc'[w] = "export" /\ at' = at
          BY <3>3, BulkLoads
        <4>3. \A n \in Batch(w) \ bad : Kept(ev[w], n)'
          <5>1. Batch(w) \ bad \in SUBSET Units BY <4>1
          <5> QED BY <1>5, <3>1, <4>2, <5>1, IndexedGrows DEF Kept
        <4>4. u < at[w] \/ u \in Batch(w) \ bad
          <5>1. CASE bad = {} /\ pc'[w] # "export" /\ at' = [at EXCEPT ![w] = BatchEnd(w) + 1]
            <6>1. at'[w] = BatchEnd(w) + 1 BY <5>1 DEF TypeOK
            <6>2. u < BatchEnd(w) + 1 BY <5>1, <6>1
            <6> QED BY <4>1, <5>1, <6>2 DEF Units, LoaderAssumption
          <5>2. CASE pc'[w] = "export" /\ at' = at
            <6>1. Batch(w)' = Batch(w) BY <4>1, <5>2, SameBatch
            <6>2. rejected'[w] = bad BY <4>2 DEF TypeOK
            <6> QED BY <5>2, <6>1, <6>2
          <5> QED BY <4>2, <5>1, <5>2
        <4> QED BY <3>2, <4>3, <4>4
      <3>4. CASE Export(w)
        <4>1. /\ pc[w] = "export" /\ pc'[w] # "export"
              /\ at[w] \in 1..Len0 /\ BatchEnd(w) \in at[w]..Len0
              /\ Batch(w) = at[w]..BatchEnd(w)
              /\ at' = [at EXCEPT ![w] = BatchEnd(w) + 1]
              /\ \E f \in exports' : \A n \in rejected[w] : <<ev[w], n>> \in f
          BY <3>4, ExportSaves
        <4>2. at'[w] = BatchEnd(w) + 1 BY <4>1 DEF TypeOK
        <4>3. u < at[w] \/ u \in Batch(w) BY <4>1, <4>2 DEF Units, LoaderAssumption
        <4>4. CASE u \in rejected[w] BY <3>1, <4>1, <4>4 DEF Kept
        <4>5. CASE u \in Batch(w) \ rejected[w]
          <5>1. Kept(ev[w], u) BY <1>2, <1>4, <4>1, <4>5 DEF Behind
          <5> QED BY <1>3, <1>5, <3>1, <5>1 DEF Kept
        <4> QED BY <3>2, <4>3, <4>4, <4>5
      <3>5. CASE ~Bulk(w) /\ ~Export(w)
        <4>1. at' = at /\ pc'[w] # "export" BY <2>2, <3>5, OthersStay
        <4> QED BY <3>2, <4>1
      <3> QED BY <3>3, <3>4, <3>5
    <2> QED BY <2>1, <2>2
  <1> QED BY <1>6, <1>7, <1>8

LEMMA HandledNext ==
    ASSUME LoaderAssumption, TypeOK, Placed, Handled, [Next]_vars
    PROVE  Handled'
  <1>1. ASSUME NEW w \in Containers, NEW e \in Events, Invoke(w, e) PROVE Handled'
    <2>1. /\ state' = [state EXCEPT ![e] = "running"]
          /\ pc[w] = "idle" /\ pc' = [pc EXCEPT ![w] = "init"] /\ ev' = [ev EXCEPT ![w] = e]
          /\ UNCHANGED <<source, indexed, exports, at, rejected>>
          /\ \A v \in Containers : v # w => cEnv'[v] = cEnv[v]
      BY <1>1 DEF Invoke, Goto, world, store, locals, TypeOK
    <2>2. job[w] = 1 /\ at[w] = 1 BY <2>1, JobFacts DEF Placed, Place
    <2> SUFFICES ASSUME Safe'
                 PROVE  /\ \A f \in Events : state'[f] = "done" => \A u \in Units : Kept(f, u)'
                        /\ \A v \in Containers : Behind(v)'
      BY DEF Handled, Accounted, Kept
    <2>3. /\ \A f \in Events : state[f] = "done" => \A u \in Units : Kept(f, u)
          /\ \A v \in Containers : Behind(v)
      BY <2>1, HandledParts DEF Safe
    <2>4. \A f \in Events, u \in Units : Kept(f, u)' <=> Kept(f, u) BY <2>1 DEF Kept
    <2>5. \A f \in Events : state'[f] = "done" => state[f] = "done" BY <2>1 DEF TypeOK
    <2>6. ASSUME NEW v \in Containers PROVE Behind(v)'
      <3>1. CASE v = w BY <2>1, <2>2, <3>1 DEF Behind, TypeOK, Units
      <3>2. CASE v # w
        <4>1. /\ pc'[v] = pc[v] /\ ev'[v] = ev[v] /\ at'[v] = at[v]
              /\ rejected'[v] = rejected[v] /\ Batch(v)' = Batch(v)
          BY <2>1, <3>2, SameBatch DEF TypeOK
        <4>2. pc[v] # "idle" => ev[v] \in Events BY DEF Placed, InHand
        <4> QED BY <2>3, <2>4, <4>1, <4>2 DEF Behind
      <3> QED BY <3>1, <3>2
    <2> QED BY <2>3, <2>4, <2>5, <2>6
  <1>2. ASSUME NEW e \in Events, Redeliver(e) PROVE Handled'
    <2>1. /\ state' = [state EXCEPT ![e] = "waiting"]
          /\ UNCHANGED <<source, indexed, exports, pc, ev, cEnv, at, rejected>>
      BY <1>2 DEF Redeliver, world, store, locals
    <2>2. \A f \in Events : state'[f] = "done" => state[f] = "done" BY <2>1 DEF TypeOK
    <2> QED
      BY <2>1, <2>2 DEF Handled, Safe, Accounted, Behind, Kept, Batch, BatchEnd, BatchSize
  <1>3. CASE UNCHANGED vars
    BY <1>3 DEF vars, world, events, store, locals, Handled, Safe, Accounted, Behind, Kept,
                Batch, BatchEnd, BatchSize
  <1> QED BY <1>1, <1>2, <1>3, HandledStep DEF Next

(* The function is done with an event only when each of its records is in   *)
(* the index or in an exported file: for every source but Kinesis, whose    *)
(* exceptions lambda_handler drops, and as long as no two files of failed   *)
(* records have the key of one second.                                      *)
THEOREM NoRecordVanishes ==
    ASSUME "KDS" \notin Sources, "SameSecond" \notin Faults
    PROVE  Spec => []Accounted
  <1>1. Init => TypeOK /\ Placed /\ Handled
    <2>1. Init => Handled BY DEF Init, Handled, Accounted, Behind
    <2> QED BY <2>1, LoaderAssumption, InitPlaced
  <1>2. (TypeOK /\ Placed /\ Handled) /\ [Next]_vars => (TypeOK /\ Placed /\ Handled)'
    BY LoaderAssumption, NextPlaced, HandledNext
  <1>3. TypeOK /\ Handled => Accounted BY DEF TypeOK, Handled, Safe
  <1> QED BY <1>1, <1>2, <1>3, PTL DEF Spec

-----------------------------------------------------------------------------
(* The batches become small enough.                                         *)
(*                                                                          *)
(* A pipeline that starts with its flags keeps them: no job runs, and every *)
(* copy of the environment that an invocation writes back holds all flags.  *)
FlagsHeld(w) ==
    /\ pc[w] \notin {"create", "get", "put"}
    /\ cEnv[w] \in Envs => cEnv[w].flags = Jobs /\ done[w] = Jobs
    /\ copy[w] \in Envs => copy[w].flags = Jobs

Flagged == ~fresh => env.flags = Jobs /\ \A w \in Containers : FlagsHeld(w)

Calm == ~fresh /\ accidents = 0 /\ limit >= SmallPayload /\ source = "EVENT_BRIDGE"

(* A retry runs with requests of 10 MB, and so is not refused for its size. *)
SmallRetry(w) ==
    pc[w] # "idle" /\ attempts[ev[w]] > 1 =>
        cEnv[w].payload = "small" /\ pc[w] \notin {"shrink", "reduce"}

Shrinking ==
    Calm =>
        /\ \A e \in Events : state[e] # "dead"
        /\ \A e \in Events : state[e] = "waiting" /\ attempts[e] > 0 => env.payload = "small"
        /\ \A w \in Containers : SmallRetry(w)

LEMMA NoEnvApart == ASSUME LoaderAssumption PROVE NoEnv \notin Envs
  BY DEF LoaderAssumption

LEMMA ShrunkFacts ==
    ASSUME NEW e \in Envs
    PROVE  Shrunk(e).flags = e.flags /\ Shrunk(e).payload = "small"
  BY DEF Shrunk, Envs

(* What the flags need of the step of one container.                        *)
LEMMA FlaggedFor ==
    ASSUME TypeOK, Flagged, NEW w \in Containers, fresh' = fresh,
           ~fresh => env'.flags = Jobs /\ FlagsHeld(w)',
           \A v \in Containers : v # w =>
               /\ pc'[v] = pc[v] /\ cEnv'[v] = cEnv[v] /\ done'[v] = done[v]
               /\ copy'[v] = copy[v]
    PROVE  Flagged'
  BY DEF Flagged, FlagsHeld

LEMMA LeavesFlagged ==
    ASSUME LoaderAssumption, TypeOK, Flagged, NEW w \in Containers, Leaves(w), fresh' = fresh,
           env' = env \/ (~fresh => env'.flags = Jobs),
           \/ UNCHANGED <<cEnv, done>>
           \/ cEnv' = [cEnv EXCEPT ![w] = NoEnv] /\ done' = [done EXCEPT ![w] = {}]
    PROVE  Flagged'
  <1>1. PICK o \in {"waiting", "done", "dead"} : Stop(w, o) BY DEF Leaves
  <1>2. pc' = [pc EXCEPT ![w] = "idle"] /\ copy' = [copy EXCEPT ![w] = NoEnv]
    BY <1>1 DEF Stop, Goto
  <1>3. ~fresh => FlagsHeld(w)'
    BY <1>2, NoEnvApart DEF TypeOK, Flagged, FlagsHeld
  <1>4. ~fresh => env'.flags = Jobs BY DEF Flagged
  <1>5. \A v \in Containers : v # w =>
            /\ pc'[v] = pc[v] /\ cEnv'[v] = cEnv[v] /\ done'[v] = done[v] /\ copy'[v] = copy[v]
    BY <1>2 DEF TypeOK
  <1> QED BY <1>3, <1>4, <1>5, FlaggedFor

LEMMA SetUpStepsFlagged ==
    ASSUME LoaderAssumption, TypeOK, Placed, Flagged, NEW w \in Containers,
           SkipJob(w) \/ CallJob(w) \/ CreateAlias(w) \/ GetEnv(w) \/ PutEnv(w)
    PROVE  Flagged'
  <1>1. fresh' = fresh
    BY DEF SkipJob, CallJob, CreateAlias, GetEnv, PutEnv, world
  <1>2. CASE fresh BY <1>1, <1>2 DEF Flagged
  <1>3. CASE ~fresh
    <2>1. FlagsHeld(w) /\ env.flags = Jobs BY <1>3 DEF Flagged
    <2>2. pc[w] = "init" => done[w] = Jobs /\ cEnv[w].flags = Jobs
      BY <2>1 DEF FlagsHeld, Placed, InHand
    <2>3. JobOf(w) \in Jobs BY JobOfFacts
    <2>4. SkipJob(w)
      BY <2>1, <2>2, <2>3 DEF FlagsHeld, CallJob, CreateAlias, GetEnv, PutEnv
    <2>5. NextJob(w) /\ UNCHANGED <<env, cEnv, done, copy>>
      BY <2>2, <2>3, <2>4 DEF SkipJob
    <2>6. pc' = [pc EXCEPT ![w] = "end"] \/ pc' = [pc EXCEPT ![w] = "init"]
             \/ pc' = [pc EXCEPT ![w] = "bulk"]
      BY <2>5 DEF NextJob, Goto
    <2>7. pc'[w] \in {"end", "init", "bulk"} /\ \A v \in Containers : v # w => pc'[v] = pc[v]
      BY <2>6 DEF TypeOK
    <2>8. FlagsHeld(w)' BY <2>1, <2>5, <2>7 DEF FlagsHeld
    <2> QED BY <1>1, <2>1, <2>5, <2>7, <2>8, FlaggedFor
  <1> QED BY <1>2, <1>3

LEMMA LoadStepsFlagged ==
    ASSUME LoaderAssumption, TypeOK, Placed, Flagged, NEW w \in Containers,
           Bulk(w) \/ BulkTooLarge(w) \/ Export(w) \/ GetBatchSize(w) \/ PutBatchSize(w)
               \/ Finish(w)
    PROVE  Flagged'
  <1>1. ASSUME UNCHANGED <<fresh, env, cEnv, done, copy>>,
               pc'[w] \in {"bulk", "init", "export", "shrink"},
               \A v \in Containers : v # w => pc'[v] = pc[v]
        PROVE  Flagged'
    <2>1. ~fresh => env'.flags = Jobs /\ FlagsHeld(w)' BY <1>1 DEF Flagged, FlagsHeld
    <2> QED BY <1>1, <2>1, FlaggedFor
  <1>2. CASE Bulk(w) \/ Export(w)
    <2>1. UNCHANGED <<fresh, env, cEnv, done, copy>>
      BY <1>2 DEF Bulk, Export, world
    <2>2. \E l \in {"bulk", "init", "export"} : pc' = [pc EXCEPT ![w] = l]
      BY <1>2 DEF Bulk, Export, NextBatch, Goto
    <2> QED BY <1>1, <2>1, <2>2 DEF TypeOK
  <1>3. CASE BulkTooLarge(w)
    BY <1>1, <1>3 DEF BulkTooLarge, Goto, world, locals, TypeOK
  <1>4. CASE GetBatchSize(w)
    <2>1. /\ UNCHANGED <<fresh, env, cEnv, done>> /\ copy' = [copy EXCEPT ![w] = env]
          /\ pc' = [pc EXCEPT ![w] = "reduce"]
      BY <1>4 DEF GetBatchSize, Goto, world
    <2>2. ~fresh => env'.flags = Jobs /\ FlagsHeld(w)'
      BY <2>1 DEF Flagged, FlagsHeld, TypeOK
    <2> QED BY <2>1, <2>2, FlaggedFor DEF TypeOK
  <1>5. CASE PutBatchSize(w)
    <2>1. /\ pc[w] = "reduce" /\ Raise(w) /\ UNCHANGED <<fresh, cEnv, done>>
          /\ env' = Shrunk(copy[w]) \/ env' = env
      BY <1>5 DEF PutBatchSize, world
    <2>2. copy[w] \in Envs BY <2>1 DEF Placed, CopyHeld
    <2>3. ~fresh => env'.flags = Jobs
      BY <2>1, <2>2, ShrunkFacts DEF Flagged, FlagsHeld
    <2> QED BY <2>1, <2>3, RaiseLeaves, LeavesFlagged
  <1>6. CASE Finish(w)
    BY <1>6, LeavesFlagged DEF Finish, Leaves, world
  <1> QED BY <1>2, <1>3, <1>4, <1>5, <1>6

LEMMA MishapFlagged ==
    ASSUME LoaderAssumption, TypeOK, Placed, Flagged, NEW w \in Containers, Mishap(w)
    PROVE  Flagged'
  <1>1. CASE Leaves(w)
    <2>1. /\ fresh' = fresh /\ env' = env
          /\ \/ UNCHANGED <<cEnv, done>>
             \/ cEnv' = [cEnv EXCEPT ![w] = NoEnv] /\ done' = [done EXCEPT ![w] = {}]
      BY DEF Mishap, JobFails, BulkFails, BulkAnswerLost, ExportFails, Crash, world
    <2> QED BY <1>1, <2>1, LeavesFlagged
  <1>2. CASE ~Leaves(w)
    <2>1. UNCHANGED <<fresh, env, cEnv, done, copy>>
      BY <1>2, RaiseLeaves, AfterErrorTyped
      DEF Mishap, JobFails, BulkFails, RetryBulk, BulkAnswerLost, ExportFails, Crash, world,
          locals, Leaves
    <2>2. pc' = pc \/ pc' = [pc EXCEPT ![w] = "end"]
      BY <1>2, RaiseLeaves, AfterErrorTyped
      DEF Mishap, JobFails, BulkFails, RetryBulk, BulkAnswerLost, ExportFails, Crash, Goto,
          Leaves
    <2>3. ~fresh => env'.flags = Jobs /\ FlagsHeld(w)'
      BY <2>1, <2>2 DEF Flagged, FlagsHeld, TypeOK
    <2> QED BY <2>1, <2>2, <2>3, FlaggedFor DEF TypeOK
  <1> QED BY <1>1, <1>2

LEMMA FlaggedNext ==
    ASSUME LoaderAssumption, TypeOK, Placed, Flagged, [Next]_vars
    PROVE  Flagged'
  <1>1. ASSUME NEW w \in Containers, NEW e \in Events, Invoke(w, e) PROVE Flagged'
    <2>1. /\ UNCHANGED <<fresh, env, copy>> /\ pc' = [pc EXCEPT ![w] = "init"]
          /\ \/ cEnv' = [cEnv EXCEPT ![w] = env] /\ done' = [done EXCEPT ![w] = env.flags]
             \/ UNCHANGED <<cEnv, done>>
      BY <1>1 DEF Invoke, Goto, world, locals
    <2>2. ~fresh => env'.flags = Jobs /\ FlagsHeld(w)'
      BY <2>1 DEF Flagged, FlagsHeld, TypeOK
    <2> QED BY <2>1, <2>2, FlaggedFor DEF TypeOK
  <1>2. ASSUME NEW e \in Events, Redeliver(e) PROVE Flagged'
    BY <1>2 DEF Redeliver, world, locals, Flagged, FlagsHeld
  <1>3. CASE UNCHANGED vars BY <1>3 DEF vars, world, locals, Flagged, FlagsHeld
  <1> QED
    BY <1>1, <1>2, <1>3, SetUpStepsFlagged, LoadStepsFlagged, MishapFlagged DEF Next, Step

(* A batch of a container that started after the shrinking is accepted.     *)
LEMMA SmallBatch ==
    ASSUME LoaderAssumption, TypeOK, NEW w \in Containers, cEnv[w] \in Envs,
           at[w] \in 1..Len0, source = "EVENT_BRIDGE", cEnv[w].payload = "small"
    PROVE  Cardinality(Batch(w)) <= SmallPayload
  <1>1. BatchSize(w) \in 1..SmallPayload
    BY DEF BatchSize, Fit, Smaller, Envs, DefaultBatch, LoaderAssumption
  <1>2. BatchEnd(w) <= at[w] + BatchSize(w) - 1
    BY <1>1 DEF BatchEnd, Smaller, LoaderAssumption
  <1>3. Batch(w) = at[w]..BatchEnd(w) /\ BatchEnd(w) \in at[w]..Len0 BY BatchFacts
  <1>4. Cardinality(Batch(w)) = BatchEnd(w) - at[w] + 1
    BY <1>3, FS_Interval DEF LoaderAssumption
  <1> QED BY <1>1, <1>2, <1>3, <1>4 DEF LoaderAssumption

LEMMA CalmBefore ==
    ASSUME TypeOK, [Next]_vars, Calm'
    PROVE  Calm /\ accidents' = accidents
  <1>1. UNCHANGED <<source, limit, fresh>>
    BY DEF Next, Step, Mishap, SkipJob, CallJob, CreateAlias, GetEnv, PutEnv, Bulk,
           BulkTooLarge, Export, GetBatchSize, PutBatchSize, Finish, JobFails, BulkFails,
           BulkAnswerLost, ExportFails, Crash, Invoke, Redeliver, vars, world
  <1>2. accidents' = accidents \/ accidents' = accidents + 1
    BY DEF Next, Step, Mishap, SkipJob, CallJob, CreateAlias, GetEnv, PutEnv, Bulk,
           BulkTooLarge, Export, GetBatchSize, PutBatchSize, Finish, JobFails, BulkFails,
           BulkAnswerLost, ExportFails, Crash, Invoke, Redeliver, vars, Accident
  <1>3. accidents \in Nat BY DEF TypeOK
  <1> QED BY <1>1, <1>2, <1>3 DEF Calm

(* The others do not see the step of a container.                           *)
LEMMA ShrinkingFor ==
    ASSUME TypeOK, Placed, Shrinking, Calm, NEW w \in Containers, attempts' = attempts,
           env' = env \/ env'.payload = "small",
           \A e \in Events : state'[e] = state[e] \/ state'[e] = "done"
               \/ (state'[e] = "waiting" /\ env'.payload = "small"),
           SmallRetry(w)',
           \A v \in Containers : v # w =>
               pc'[v] = pc[v] /\ ev'[v] = ev[v] /\ cEnv'[v] = cEnv[v]
    PROVE  Shrinking'
  <1>1. \A v \in Containers : SmallRetry(v)' BY DEF Shrinking, SmallRetry
  <1>2. \A e \in Events : state'[e] # "dead" BY DEF Shrinking
  <1>3. ASSUME NEW e \in Events, state'[e] = "waiting", attempts'[e] > 0
        PROVE  env'.payload = "small"
    BY <1>3 DEF Shrinking
  <1> QED BY <1>1, <1>2, <1>3 DEF Shrinking

LEMMA ShrinkingStep ==
    ASSUME LoaderAssumption, TypeOK, Placed, OneHand, Flagged, Shrinking,
           NEW w \in Containers, Step(w)
    PROVE  Shrinking'
  <1> SUFFICES ASSUME Calm' PROVE Shrinking' BY DEF Shrinking
  <1>1. Calm /\ accidents' = accidents BY CalmBefore DEF Next
  <1>2. SmallRetry(w) /\ FlagsHeld(w) /\ env.flags = Jobs
    BY <1>1 DEF Shrinking, Flagged, Calm
  <1>3. pc[w] # "idle" BY StepsMove
  <1>4. ev[w] \in Events /\ cEnv[w] \in Envs BY <1>3 DEF Placed, InHand
  <1>5. ASSUME UNCHANGED <<env, state, attempts, ev, cEnv>>,
               attempts[ev[w]] > 1 => pc'[w] \notin {"shrink", "reduce"},
               \A v \in Containers : v # w => pc'[v] = pc[v]
        PROVE  Shrinking'
    <2>1. SmallRetry(w)' BY <1>2, <1>3, <1>5 DEF SmallRetry
    <2> QED BY <1>1, <1>5, <2>1, ShrinkingFor
  <1>6. CASE SkipJob(w) \/ CallJob(w) \/ CreateAlias(w) \/ GetEnv(w) \/ PutEnv(w)
    <2>1. pc[w] = "init" => done[w] = Jobs /\ cEnv[w].flags = Jobs
      BY <1>2, <1>4 DEF FlagsHeld
    <2>2. JobOf(w) \in Jobs BY JobOfFacts
    <2>3. SkipJob(w)
      BY <1>2, <1>6, <2>1, <2>2 DEF FlagsHeld, CallJob, CreateAlias, GetEnv, PutEnv
    <2>4. UNCHANGED <<env, state, attempts, ev, cEnv>> BY <2>3 DEF SkipJob, events
    <2>5. \E l \in {"end", "init", "bulk", "get"} : pc' = [pc EXCEPT ![w] = l]
      BY <2>3 DEF SkipJob, NextJob, Goto
    <2> QED BY <1>5, <2>4, <2>5 DEF TypeOK
  <1>7. CASE Bulk(w) \/ Export(w)
    <2>1. UNCHANGED <<env, state, attempts, ev, cEnv>> BY <1>7 DEF Bulk, Export, events
    <2>2. \E l \in {"bulk", "init", "export"} : pc' = [pc EXCEPT ![w] = l]
      BY <1>7 DEF Bulk, Export, NextBatch, Goto
    <2> QED BY <1>5, <2>1, <2>2 DEF TypeOK
  <1>8. CASE BulkTooLarge(w)
    <2>1. /\ UNCHANGED <<env, state, attempts, ev, cEnv>> /\ pc[w] = "bulk"
          /\ pc' = [pc EXCEPT ![w] = "shrink"] /\ Cardinality(Batch(w)) > limit
      BY <1>8 DEF BulkTooLarge, events, Goto
    <2>2. at[w] \in 1..Len0 BY <2>1 DEF Placed, Place, Loading, TypeOK, LoaderAssumption
    <2>3. cEnv[w].payload # "small"
      <3>1. SUFFICES ASSUME cEnv[w].payload = "small" PROVE FALSE OBVIOUS
      <3>2. Cardinality(Batch(w)) <= SmallPayload
        BY <1>1, <1>4, <2>2, <3>1, SmallBatch DEF Calm
      <3>3. Batch(w) = at[w]..BatchEnd(w) /\ BatchEnd(w) \in at[w]..Len0
        BY <1>4, <2>2, BatchFacts
      <3>4. Cardinality(Batch(w)) \in Nat
        <4>1. at[w] \in Int /\ BatchEnd(w) \in Int /\ ~(at[w] > BatchEnd(w))
          BY <2>2, <3>3 DEF LoaderAssumption
        <4>2. Cardinality(Batch(w)) = BatchEnd(w) - at[w] + 1 BY <3>3, <4>1, FS_Interval
        <4> QED BY <4>1, <4>2
      <3>5. limit \in Nat /\ limit >= SmallPayload /\ SmallPayload \in Nat
        BY <1>1 DEF Calm, TypeOK, LoaderAssumption
      <3> QED BY <2>1, <3>2, <3>4, <3>5
    <2>4. ~(attempts[ev[w]] > 1) BY <1>2, <1>3, <2>3 DEF SmallRetry
    <2> QED BY <1>5, <2>1, <2>4 DEF TypeOK
  <1>9. CASE GetBatchSize(w)
    <2>1. /\ UNCHANGED <<env, state, attempts, ev, cEnv>> /\ pc[w] = "shrink"
          /\ pc' = [pc EXCEPT ![w] = "reduce"]
      BY <1>9 DEF GetBatchSize, Goto, events
    <2>2. ~(attempts[ev[w]] > 1) BY <1>2, <1>3, <2>1 DEF SmallRetry
    <2> QED BY <1>5, <2>1, <2>2 DEF TypeOK
  <1>10. CASE PutBatchSize(w)
    <2>1. /\ pc[w] = "reduce" /\ Raise(w) /\ cEnv' = cEnv /\ env' = Shrunk(copy[w])
      BY <1>1, <1>10 DEF PutBatchSize, Accident, TypeOK
    <2>2. env'.payload = "small"
      BY <2>1, ShrunkFacts DEF Placed, CopyHeld
    <2>3. attempts[ev[w]] # AsyncAttempts
      BY <1>2, <1>3, <2>1 DEF SmallRetry, AsyncAttempts
    <2>4. AfterRaise(ev[w]) = "waiting"
      BY <1>1, <2>3 DEF AfterRaise, AfterError, Calm
    <2>5. /\ state' = [state EXCEPT ![ev[w]] = "waiting"] /\ attempts' = attempts
          /\ pc' = [pc EXCEPT ![w] = "idle"] /\ ev' = [ev EXCEPT ![w] = NoEvent]
      BY <2>1, <2>4 DEF Raise, Stop, Goto
    <2>6. SmallRetry(w)' BY <2>5 DEF SmallRetry, TypeOK
    <2> QED BY <1>1, <1>4, <2>1, <2>2, <2>5, <2>6, ShrinkingFor DEF TypeOK
  <1>11. CASE Finish(w)
    <2>1. /\ state' = [state EXCEPT ![ev[w]] = "done"] /\ attempts' = attempts
          /\ pc' = [pc EXCEPT ![w] = "idle"] /\ ev' = [ev EXCEPT ![w] = NoEvent]
          /\ UNCHANGED <<env, cEnv>>
      BY <1>11 DEF Finish, Stop, Goto
    <2>2. SmallRetry(w)' BY <2>1 DEF SmallRetry, TypeOK
    <2> QED BY <1>1, <1>4, <2>1, <2>2, ShrinkingFor DEF TypeOK
  <1> QED BY <1>6, <1>7, <1>8, <1>9, <1>10, <1>11 DEF Step

LEMMA ShrinkingInvoke ==
    ASSUME LoaderAssumption, TypeOK, Placed, OneHand, Shrinking,
           NEW w \in Containers, NEW e \in Events, Invoke(w, e)
    PROVE  Shrinking'
  <1> SUFFICES ASSUME Calm' PROVE Shrinking' BY DEF Shrinking
  <1>1. Calm BY CalmBefore DEF Next
  <1>2. /\ pc[w] = "idle" /\ state[e] = "waiting" /\ env' = env
        /\ state' = [state EXCEPT ![e] = "running"]
        /\ attempts' = [attempts EXCEPT ![e] = IF @ < AsyncAttempts THEN @ + 1 ELSE @]
        /\ pc' = [pc EXCEPT ![w] = "init"] /\ ev' = [ev EXCEPT ![w] = e]
    BY DEF Invoke, Goto
  <1>3. \/ cEnv' = [cEnv EXCEPT ![w] = env]
        \/ cEnv' = cEnv /\ (attempts[e] = 0 \/ cEnv[w] = env)
    BY <1>1 DEF Invoke, Calm
  <1>4. /\ attempts[e] \in 0..3
        /\ attempts'[e] = IF attempts[e] < 3 THEN attempts[e] + 1 ELSE attempts[e]
        /\ \A f \in Events : f # e => attempts'[f] = attempts[f]
    BY <1>2 DEF TypeOK, AsyncAttempts
  <1>5. attempts'[e] > 1 => attempts[e] > 0 BY <1>4
  <1>6. attempts[e] > 0 => env.payload = "small" BY <1>1, <1>2 DEF Shrinking
  <1>7. SmallRetry(w)'
    <2>1. pc'[w] = "init" /\ ev'[w] = e BY <1>2 DEF TypeOK
    <2>2. attempts[e] > 0 => cEnv'[w] = env BY <1>3, <1>4 DEF TypeOK
    <2> QED BY <1>5, <1>6, <2>1, <2>2 DEF SmallRetry
  <1>8. ASSUME NEW v \in Containers, v # w PROVE SmallRetry(v)'
    <2>1. pc'[v] = pc[v] /\ ev'[v] = ev[v] /\ cEnv'[v] = cEnv[v]
      BY <1>2, <1>3, <1>8 DEF TypeOK
    <2>2. pc[v] # "idle" => ev[v] # e /\ ev[v] \in Events
      BY <1>2 DEF OneHand, Placed, InHand
    <2>3. SmallRetry(v) BY <1>1 DEF Shrinking
    <2> QED BY <1>4, <2>1, <2>2, <2>3 DEF SmallRetry
  <1>9. ASSUME NEW f \in Events
        PROVE  /\ state'[f] # "dead"
               /\ state'[f] = "waiting" /\ attempts'[f] > 0 => env'.payload = "small"
    BY <1>1, <1>2, <1>4 DEF Shrinking, TypeOK
  <1> QED BY <1>7, <1>8, <1>9 DEF Shrinking

LEMMA ShrinkingNext ==
    ASSUME LoaderAssumption, TypeOK, Placed, OneHand, Flagged, Shrinking, [Next]_vars
    PROVE  Shrinking'
  <1>1. ASSUME \E w \in Containers : Mishap(w) PROVE Shrinking'
    <2>1. accidents' > 0 BY <1>1, MishapMoves
    <2> QED BY <2>1 DEF Shrinking, Calm
  <1>2. ASSUME NEW e \in Events, Redeliver(e) PROVE Shrinking'
    <2>1. accidents' > 0 BY <1>2 DEF Redeliver, Accident, TypeOK
    <2> QED BY <2>1 DEF Shrinking, Calm
  <1>3. CASE UNCHANGED vars
    BY <1>3 DEF vars, world, events, locals, Shrinking, Calm, SmallRetry
  <1> QED BY <1>1, <1>2, <1>3, ShrinkingStep, ShrinkingInvoke DEF Next

(* Only asynchronous invocations have a dead-letter queue.                  *)
NoQueue == source # "EVENT_BRIDGE" => \A e \in Events : state[e] # "dead"

LEMMA NoQueueNext ==
    ASSUME TypeOK, NoQueue, [Next]_vars
    PROVE  NoQueue'
  <1> SUFFICES ASSUME source' # "EVENT_BRIDGE", NEW e \in Events PROVE state'[e] # "dead"
    BY DEF NoQueue
  <1>1. source' = source
    BY DEF Next, Step, Mishap, SkipJob, CallJob, CreateAlias, GetEnv, PutEnv, Bulk,
           BulkTooLarge, Export, GetBatchSize, PutBatchSize, Finish, JobFails, BulkFails,
           BulkAnswerLost, ExportFails, Crash, Invoke, Redeliver, vars, world
  <1>2. state[e] # "dead" BY <1>1 DEF NoQueue
  <1>3. \A f : AfterError(f) # "dead" /\ AfterRaise(f) # "dead"
    BY <1>1 DEF AfterError, AfterRaise
  <1>4. ASSUME NEW w \in Containers, NEW o, o # "dead", Stop(w, o) PROVE state'[e] # "dead"
    BY <1>2, <1>4 DEF Stop, TypeOK
  <1>5. ASSUME NEW w \in Containers, Step(w) \/ Mishap(w) PROVE state'[e] # "dead"
    <2>1. CASE \E o : o # "dead" /\ Stop(w, o) BY <1>4, <2>1
    <2>2. CASE ~\E o : o # "dead" /\ Stop(w, o)
      <3>1. ~Raise(w) /\ ~Finish(w) /\ ~Crash(w)
        BY <1>3, <2>2 DEF Raise, Finish, Crash
      <3>2. state' = state
        BY <1>5, <3>1
        DEF Step, Mishap, SkipJob, CallJob, CreateAlias, GetEnv, PutEnv, Bulk, BulkTooLarge,
            Export, GetBatchSize, PutBatchSize, JobFails, BulkFails, BulkAnswerLost,
            ExportFails, RetryBulk, events
      <3> QED BY <1>2, <3>2
    <2> QED BY <2>1, <2>2
  <1>6. ASSUME NEW w \in Containers, NEW f \in Events, Invoke(w, f) PROVE state'[e] # "dead"
    BY <1>2, <1>6 DEF Invoke, TypeOK
  <1>7. ASSUME NEW f \in Events, Redeliver(f) PROVE state'[e] # "dead"
    BY <1>2, <1>7 DEF Redeliver, TypeOK
  <1>8. CASE UNCHANGED vars BY <1>2, <1>8 DEF vars, events
  <1> QED BY <1>5, <1>6, <1>7, <1>8 DEF Next

(* When OpenSearch answers 413, a log file is loaded in smaller requests at *)
(* its next delivery, and is not given up: the environment that one         *)
(* invocation shrinks (adjust_bulk_batch_size) is the one every retry, which*)
(* no warm container of before serves, starts with.                         *)
THEOREM BatchesAdapt == Spec => []Adapts
  <1>1. Init => TypeOK /\ Placed /\ OneHand /\ Flagged /\ Shrinking /\ NoQueue
    <2>1. Init => OneHand BY DEF Init, OneHand
    <2>2. Init => Flagged
      BY LoaderAssumption, NoEnvApart DEF Init, Flagged, FlagsHeld
    <2>3. Init => Shrinking BY DEF Init, Shrinking, SmallRetry
    <2>4. Init => NoQueue BY DEF Init, NoQueue
    <2> QED BY <2>1, <2>2, <2>3, <2>4, LoaderAssumption, InitPlaced
  <1>2. (TypeOK /\ Placed /\ OneHand /\ Flagged /\ Shrinking /\ NoQueue) /\ [Next]_vars
            => (TypeOK /\ Placed /\ OneHand /\ Flagged /\ Shrinking /\ NoQueue)'
    BY LoaderAssumption, NextPlaced, OneHandStep, FlaggedNext, ShrinkingNext,
       NoQueueNext
  <1>3. Shrinking /\ NoQueue => Adapts BY DEF Adapts, Shrinking, NoQueue, Calm
  <1> QED BY <1>1, <1>2, <1>3, PTL DEF Spec
=============================================================================
