----------------------------- MODULE LogLoader -----------------------------
(***************************************************************************)
(* The log processor of the OpenSearch engine: a Lambda that initialises   *)
(* the index of its pipeline, loads the records of an event in bulk        *)
(* requests and exports the records OpenSearch rejects.  Several           *)
(* containers of the Lambda run at once.  What they learn (initialisation  *)
(* done, batch size too large) is kept in the Lambda's own environment     *)
(* variables, which are read, changed and written as one document.         *)
(*                                                                         *)
(* Records are counted in units of 2000, the step by which the code        *)
(* shrinks its batches.                                                    *)
(***************************************************************************)
EXTENDS Integers, Sequences, FiniteSets

CONSTANTS
  Containers,    \* execution environments of the Lambda
  Events,        \* S3 notifications (one log file each), or batches of a stream
  Len0,          \* units of records of an event
  Sources,       \* the values of SOURCE considered
  Limits,        \* the largest requests, in units, OpenSearch may be set to accept
  FullPayload,   \* units that fit in the default of MAX_HTTP_PAYLOAD_SIZE_IN_MB
  SmallPayload,  \* units that fit in 10 MB
  InitJobs,      \* the jobs of init_idx_env considered, in their order
  Faults,        \* what may go wrong
  MaxAccidents,  \* bound on crashes, failed calls and duplicate deliveries
  NoEvent,       \* an idle container's event
  NoEnv          \* a container that was not started

Jobs == {InitJobs[i] : i \in 1..Len(InitJobs)} \union {"INDEX_PATTERN"}
Units == 1..Len0
DefaultBatch == 5
TotalRetries == 2
AsyncAttempts == 3
Envs == [batch : 1..DefaultBatch, payload : {"full", "small"}, flags : SUBSET Jobs]

ASSUME LoaderAssumption ==
  /\ Len0 \in Nat \ {0} /\ MaxAccidents \in Nat
  /\ FullPayload \in Nat \ {0} /\ SmallPayload \in 1..FullPayload
  /\ Limits \subseteq Nat \ {0}
  /\ Sources \subseteq {"EVENT_BRIDGE", "KDS", "MSK"}
  /\ InitJobs \in Seq({"MASTER_ROLE", "ISM", "DASHBOARD", "TEMPLATE", "ALIAS", "ROLLOVER"})
  /\ InitJobs # << >>
  /\ \A i, j \in 1..Len(InitJobs) :
       InitJobs[i] \in {"ISM", "TEMPLATE"} /\ InitJobs[j] = "ALIAS" => i < j
  /\ Faults \subseteq {"ServerError", "LostResponse", "Rejects", "ExportError",
                       "SameSecond", "Conflict", "Crash", "Duplicate"}
  /\ NoEvent \notin Events /\ NoEnv \notin Envs

VARIABLES
  source,     \* SOURCE of the pipeline
  limit,      \* the request size beyond which OpenSearch answers 413
  env,        \* the Lambda's environment variables
  fresh,      \* TRUE iff the pipeline starts without its initialisation flags
  made,       \* the jobs whose resource exists in OpenSearch
  state,      \* event -> "waiting", "running", "done" or "dead" (in the DLQ)
  attempts,   \* event -> invocations so far, counted up to AsyncAttempts
  indexed,    \* event -> unit -> how often it was indexed, counted up to 2
  exports,    \* the files of failed records in the backup bucket
  pc, ev,     \* container -> where its invocation is, and its event
  cEnv, done, \* container -> the environment it started with, its init_*_job
  job, at,    \* container -> the job or the record it is at
  tries,      \* container -> bulk requests sent for the current batch
  copy,       \* container -> the environment it has read in order to change it
  rejected,   \* container -> the records it has to export
  accidents   \* accidents so far

world == <<source, limit, fresh>>
events == <<state, attempts>>
store == <<indexed, exports>>
locals == <<job, at, tries, copy, rejected>>
vars == <<world, env, made, events, store, pc, ev, cEnv, done, locals, accidents>>

TypeOK ==
  /\ source \in Sources /\ limit \in Limits /\ fresh \in BOOLEAN
  /\ env \in Envs /\ made \subseteq Jobs
  /\ state \in [Events -> {"waiting", "running", "done", "dead"}]
  /\ attempts \in [Events -> 0..AsyncAttempts]
  /\ indexed \in [Events -> [Units -> 0..2]]
  /\ exports \subseteq SUBSET (Events \X Units)
  /\ pc \in [Containers -> {"idle", "init", "create", "get", "put", "bulk", "export", "shrink",
                           "reduce", "end"}]
  /\ ev \in [Containers -> Events \union {NoEvent}]
  /\ cEnv \in [Containers -> Envs \union {NoEnv}]
  /\ done \in [Containers -> SUBSET Jobs]
  /\ job \in [Containers -> 1..Len(InitJobs) + 1]
  /\ at \in [Containers -> 1..Len0 + 1]
  /\ tries \in [Containers -> 1..TotalRetries]
  /\ copy \in [Containers -> Envs \union {NoEnv}]
  /\ rejected \in [Containers -> SUBSET Units]
  /\ accidents \in 0..MaxAccidents

Init ==
  /\ source \in Sources /\ limit \in Limits /\ fresh \in BOOLEAN
  /\ env = [batch |-> DefaultBatch, payload |-> "full", flags |-> IF fresh THEN {} ELSE Jobs]
  /\ made = env.flags
  /\ state = [e \in Events |-> "waiting"] /\ attempts = [e \in Events |-> 0]
  /\ indexed = [e \in Events |-> [u \in Units |-> 0]] /\ exports = {}
  /\ pc = [w \in Containers |-> "idle"] /\ ev = [w \in Containers |-> NoEvent]
  /\ cEnv = [w \in Containers |-> NoEnv] /\ done = [w \in Containers |-> {}]
  /\ job = [w \in Containers |-> 1] /\ at = [w \in Containers |-> 1]
  /\ tries = [w \in Containers |-> 1] /\ copy = [w \in Containers |-> NoEnv]
  /\ rejected = [w \in Containers |-> {}] /\ accidents = 0

-----------------------------------------------------------------------------
(* An accident of a kind that was switched on, within the bound.           *)
Accident(f) ==
  /\ f \in Faults /\ accidents < MaxAccidents
  /\ accidents' = accidents + 1

Goto(w, l) == pc' = [pc EXCEPT ![w] = l]

(* What the service that invoked the function does when it fails.          *)
AfterError(e) ==
  IF source = "EVENT_BRIDGE" /\ attempts[e] = AsyncAttempts THEN "dead" ELSE "waiting"

(* The handler swallows the exception of an event with "Records" whose     *)
(* first record is not of SQS, which is every event of Kinesis.            *)
AfterRaiseSwallowed(e) == "done"
AfterRaise(e) == IF source = "KDS" THEN "done" ELSE AfterError(e)

Stop(w, outcome) ==
  /\ state' = [state EXCEPT ![ev[w]] = outcome]
  /\ Goto(w, "idle") /\ ev' = [ev EXCEPT ![w] = NoEvent]
  /\ copy' = [copy EXCEPT ![w] = NoEnv] /\ rejected' = [rejected EXCEPT ![w] = {}]
  /\ job' = [job EXCEPT ![w] = 1] /\ at' = [at EXCEPT ![w] = 1]
  /\ tries' = [tries EXCEPT ![w] = 1]
  /\ UNCHANGED attempts

Raise(w) == Stop(w, AfterRaise(ev[w]))

(* A cold start reads the environment; a warm container keeps the one it   *)
(* started with.  Asynchronous retries come minutes later, when a changed  *)
(* configuration has replaced the old containers.                          *)
Invoke(w, e) ==
  /\ pc[w] = "idle" /\ state[e] = "waiting"
  /\ \/ cEnv' = [cEnv EXCEPT ![w] = env] /\ done' = [done EXCEPT ![w] = env.flags]
     \/ /\ cEnv[w] # NoEnv
        /\ source # "EVENT_BRIDGE" \/ attempts[e] = 0 \/ cEnv[w] = env
        /\ UNCHANGED <<cEnv, done>>
  /\ state' = [state EXCEPT ![e] = "running"]
  /\ attempts' = [attempts EXCEPT ![e] = IF @ < AsyncAttempts THEN @ + 1 ELSE @]
  /\ ev' = [ev EXCEPT ![w] = e] /\ Goto(w, "init")
  /\ UNCHANGED <<world, env, made, store, locals, accidents>>

-----------------------------------------------------------------------------
(* init_idx_env: each job runs unless this container has done it, and then *)
(* writes its flag into the environment.                                   *)
JobOf(w) == IF job[w] > Len(InitJobs) THEN "INDEX_PATTERN" ELSE InitJobs[job[w]]

NextJob(w) ==
  IF job[w] > Len(InitJobs) THEN Goto(w, "end") /\ UNCHANGED job
  ELSE /\ job' = [job EXCEPT ![w] = @ + 1]
       /\ Goto(w, IF job[w] = Len(InitJobs) THEN "bulk" ELSE "init")

SkipJob(w) ==
  /\ pc[w] = "init" /\ JobOf(w) \in done[w]
  /\ IF JobOf(w) \in cEnv[w].flags THEN NextJob(w) ELSE Goto(w, "get") /\ UNCHANGED job
  /\ UNCHANGED <<world, env, made, events, store, ev, cEnv, done, at, tries, copy,
                 rejected, accidents>>

JobDone(w) == done' = [done EXCEPT ![w] = @ \union {JobOf(w)}] /\ Goto(w, "get")

(* Templates and policies are put whether or not they exist.  For the      *)
(* alias the code asks first and creates the index in a second call.       *)
CallJob(w) ==
  /\ pc[w] = "init" /\ JobOf(w) \notin done[w]
  /\ IF JobOf(w) = "ALIAS"
     THEN /\ IF "ALIAS" \in made THEN JobDone(w) ELSE Goto(w, "create") /\ UNCHANGED done
          /\ UNCHANGED made
     ELSE made' = made \union {JobOf(w)} /\ JobDone(w)
  /\ UNCHANGED <<world, env, events, store, ev, cEnv, locals, accidents>>

(* Creating an index that another container has created meanwhile is       *)
(* refused, at the retry as well, and the invocation fails.                *)
CreateAlias(w) ==
  /\ pc[w] = "create"
  /\ IF "ALIAS" \in made
     THEN Raise(w) /\ UNCHANGED <<made, done>>
     ELSE made' = made \union {"ALIAS"} /\ JobDone(w) /\ UNCHANGED <<events, ev, locals>>
  /\ UNCHANGED <<world, env, store, cEnv, accidents>>

(* The same, with the flag set before the call.                            *)
JobFailsMarked(w) ==
  /\ pc[w] = "create" \/ (pc[w] = "init" /\ JobOf(w) \notin done[w])
  /\ Accident("ServerError")
  /\ Raise(w) /\ done' = [done EXCEPT ![w] = @ \union {JobOf(w)}]
  /\ UNCHANGED <<world, env, made, store, cEnv>>

(* A failed call fails the invocation, except that put_index_pattern       *)
(* swallows it.                                                            *)
JobFails(w) ==
  /\ pc[w] = "create" \/ (pc[w] = "init" /\ JobOf(w) \notin done[w])
  /\ Accident("ServerError")
  /\ IF JobOf(w) = "INDEX_PATTERN"
     THEN Goto(w, "end") /\ UNCHANGED <<events, ev, locals>>
     ELSE Raise(w)
  /\ UNCHANGED <<world, env, made, store, cEnv, done>>

(* adjust_lambda_env_var: read the environment, and unless the flag is set *)
(* write all of it; an update that is refused is only logged.              *)
GetEnv(w) ==
  /\ pc[w] = "get"
  /\ IF JobOf(w) \in env.flags
     THEN NextJob(w) /\ UNCHANGED copy
     ELSE copy' = [copy EXCEPT ![w] = env] /\ Goto(w, "put") /\ UNCHANGED job
  /\ UNCHANGED <<world, env, made, events, store, ev, cEnv, done, at, tries, rejected, accidents>>

PutEnv(w) ==
  /\ pc[w] = "put"
  /\ \/ env' = [copy[w] EXCEPT !.flags = @ \union {JobOf(w)}] /\ UNCHANGED accidents
     \/ Accident("Conflict") /\ UNCHANGED env
  /\ copy' = [copy EXCEPT ![w] = NoEnv] /\ NextJob(w)
  /\ UNCHANGED <<world, made, events, store, ev, cEnv, done, at, tries, rejected>>

-----------------------------------------------------------------------------
(* process_s3_log_file cuts a file into batches by number and by size, a   *)
(* batch being at least one record; events of a stream are one request.    *)
Fit(p) == IF p = "full" THEN FullPayload ELSE SmallPayload

Smaller(a, b) == IF a < b THEN a ELSE b

BatchSize(w) ==
  IF source = "EVENT_BRIDGE" THEN Smaller(cEnv[w].batch, Fit(cEnv[w].payload)) ELSE Len0

BatchEndUnclamped(w) == at[w] + BatchSize(w) - 1
BatchEnd(w) == Smaller(at[w] + BatchSize(w) - 1, Len0)

Batch(w) == at[w]..BatchEnd(w)

NextBatchKeepsRecords(w) ==
  /\ at' = [at EXCEPT ![w] = IF BatchEnd(w) = Len0 THEN Len0 + 1 ELSE BatchEnd(w)]
  /\ tries' = [tries EXCEPT ![w] = 1]
  /\ Goto(w, IF BatchEnd(w) = Len0 THEN "init" ELSE "bulk")

NextBatch(w) ==
  /\ at' = [at EXCEPT ![w] = BatchEnd(w) + 1] /\ tries' = [tries EXCEPT ![w] = 1]
  /\ Goto(w, IF BatchEnd(w) = Len0 THEN "init" ELSE "bulk")

Indexed(w, units) ==
  indexed' = [indexed EXCEPT ![ev[w]] =
                [u \in Units |-> IF u \in units /\ @[u] < 2 THEN @[u] + 1 ELSE @[u]]]

(* The request is accepted; some of its records may be rejected one by one.*)
Bulk(w) ==
  /\ pc[w] = "bulk" /\ Cardinality(Batch(w)) <= limit
  /\ \E bad \in {{}} \union (IF "Rejects" \in Faults THEN {{u} : u \in Batch(w)} ELSE {}) :
       /\ Indexed(w, Batch(w) \ bad)
       /\ rejected' = [rejected EXCEPT ![w] = bad]
       /\ IF bad = {} THEN NextBatch(w) ELSE Goto(w, "export") /\ UNCHANGED <<at, tries>>
  /\ UNCHANGED <<world, env, made, events, exports, ev, cEnv, done, job, copy, accidents>>

(* Status 413: shrink, for later invocations, and fail this one.           *)
BulkTooLarge(w) ==
  /\ pc[w] = "bulk" /\ Cardinality(Batch(w)) > limit
  /\ Goto(w, "shrink")
  /\ UNCHANGED <<world, env, made, events, store, ev, cEnv, done, locals, accidents>>

RetryBulk(w) ==
  IF tries[w] < TotalRetries
  THEN tries' = [tries EXCEPT ![w] = @ + 1] /\ UNCHANGED <<events, pc, ev, job, at, copy, rejected>>
  ELSE Raise(w)

(* Any other status is retried once.                                       *)
BulkFails(w) ==
  /\ pc[w] = "bulk" /\ Accident("ServerError")
  /\ RetryBulk(w)
  /\ UNCHANGED <<world, env, made, store, cEnv, done>>

(* The records are indexed, but the answer is a gateway's error or is lost.*)
BulkAnswerLost(w) ==
  /\ pc[w] = "bulk" /\ Cardinality(Batch(w)) <= limit /\ Accident("LostResponse")
  /\ Indexed(w, Batch(w))
  /\ RetryBulk(w) \/ Raise(w)
  /\ UNCHANGED <<world, env, made, exports, cEnv, done>>

(* Failed records go to a file whose key, for these sources, is the second *)
(* of the export: another file of that second is replaced.                 *)
Export(w) ==
  /\ pc[w] = "export"
  /\ LET file == {<<ev[w], u>> : u \in rejected[w]}
     IN  \/ exports' = exports \union {file}
         \/ /\ "SameSecond" \in Faults
            /\ \E f \in exports : exports' = (exports \ {f}) \union {file}
  /\ rejected' = [rejected EXCEPT ![w] = {}] /\ NextBatch(w)
  /\ UNCHANGED <<world, env, made, events, indexed, ev, cEnv, done, job, copy, accidents>>

(* The rejected records do not have the columns of the first one, or S3    *)
(* refuses the file.                                                       *)
ExportFails(w) ==
  /\ pc[w] = "export" /\ Accident("ExportError")
  /\ Raise(w)
  /\ UNCHANGED <<world, env, made, store, cEnv, done>>

-----------------------------------------------------------------------------
(* adjust_bulk_batch_size.  Unlike a flag's, its update may fail with an   *)
(* exception; the invocation fails anyway.                                 *)
ShrunkByNumber(e) == [e EXCEPT !.batch = IF @ >= 2 THEN @ - 1 ELSE @]
Shrunk(e) == [e EXCEPT !.batch = IF @ >= 2 THEN @ - 1 ELSE @, !.payload = "small"]

GetBatchSize(w) ==
  /\ pc[w] = "shrink"
  /\ copy' = [copy EXCEPT ![w] = env] /\ Goto(w, "reduce")
  /\ UNCHANGED <<world, env, made, events, store, ev, cEnv, done, job, at, tries, rejected,
                 accidents>>

PutBatchSize(w) ==
  /\ pc[w] = "reduce"
  /\ \/ env' = Shrunk(copy[w]) /\ UNCHANGED accidents
     \/ Accident("Conflict") /\ UNCHANGED env
  /\ Raise(w)
  /\ UNCHANGED <<world, made, store, cEnv, done>>

Finish(w) ==
  /\ pc[w] = "end"
  /\ Stop(w, "done")
  /\ UNCHANGED <<world, env, made, store, cEnv, done, accidents>>

(* A time-out or the loss of a container: an error the service sees, and   *)
(* no warm container is left.                                              *)
Crash(w) ==
  /\ pc[w] # "idle" /\ Accident("Crash")
  /\ Stop(w, AfterError(ev[w]))
  /\ cEnv' = [cEnv EXCEPT ![w] = NoEnv] /\ done' = [done EXCEPT ![w] = {}]
  /\ UNCHANGED <<world, env, made, store>>

(* EventBridge, asynchronous invocation and stream triggers deliver at     *)
(* least once.                                                             *)
Redeliver(e) ==
  /\ state[e] = "done" /\ Accident("Duplicate")
  /\ state' = [state EXCEPT ![e] = "waiting"] /\ attempts' = [attempts EXCEPT ![e] = 0]
  /\ UNCHANGED <<world, env, made, store, pc, ev, cEnv, done, locals>>

Step(w) ==
  \/ SkipJob(w) \/ CallJob(w) \/ CreateAlias(w) \/ GetEnv(w) \/ PutEnv(w)
  \/ Bulk(w) \/ BulkTooLarge(w) \/ Export(w)
  \/ GetBatchSize(w) \/ PutBatchSize(w) \/ Finish(w)

Mishap(w) ==
  JobFails(w) \/ BulkFails(w) \/ BulkAnswerLost(w) \/ ExportFails(w) \/ Crash(w)

Next ==
  \/ \E w \in Containers : Step(w) \/ Mishap(w) \/ (\E e \in Events : Invoke(w, e))
  \/ \E e \in Events : Redeliver(e)

Spec == Init /\ [][Next]_vars

(* AWS goes on with a running invocation, and hands a waiting event to some*)
(* container of the function.                                              *)
Fairness ==
  /\ \A w \in Containers : WF_vars(Step(w))
  /\ \A e \in Events : WF_vars(\E w \in Containers : Invoke(w, e))

FairSpec == Spec /\ Fairness

-----------------------------------------------------------------------------
(* No record vanishes: when the service is done with an event, each of its *)
(* records is in the index or in an exported file, and otherwise the event *)
(* will be delivered again or is in the dead-letter queue.                 *)
Accounted ==
  \A e \in Events : state[e] = "done" =>
    \A u \in Units : indexed[e][u] > 0 \/ \E f \in exports : <<e, u>> \in f

(* Nothing is indexed before the index was set up as the pipeline asks: an *)
(* index created before the template would keep wrong mappings.  A flag in *)
(* the environment, or in a container, is never ahead of OpenSearch.       *)
InitialisedFirst ==
  /\ env.flags \subseteq made /\ \A w \in Containers : done[w] \subseteq made
  /\ (\E e \in Events, u \in Units : indexed[e][u] > 0) =>
         {InitJobs[i] : i \in 1..Len(InitJobs)} \subseteq made
  /\ "ALIAS" \in made => (Jobs \intersect {"ISM", "TEMPLATE"}) \subseteq made

(* As long as nothing failed, a record is indexed at most once: batches do *)
(* not overlap.  (Every retry of an event loads it again from its start.)  *)
LoadedOnce ==
  \A e \in Events : accidents = 0 /\ attempts[e] <= 1 =>
    \A u \in Units : indexed[e][u] <= 1

(* After 413 the batches become small enough in time: a log file is not    *)
(* given up without a fault, if OpenSearch accepts 10 MB.                  *)
Adapts ==
  (~fresh /\ accidents = 0 /\ limit >= SmallPayload) => \A e \in Events : state[e] # "dead"

(* Every event is dealt with, except that a batch of a stream which is too *)
(* large for OpenSearch is retried for as long as the stream keeps it.     *)
Settles ==
  \A e \in Events : (state[e] = "waiting" /\ (source = "EVENT_BRIDGE" \/ limit >= Len0))
                      ~> state[e] \in {"done", "dead"}
=============================================================================
