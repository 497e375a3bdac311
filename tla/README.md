# Centralized Logging with OpenSearch in TLA+

TLA+ models of the parts of this solution whose correctness depends on the
order in which independent programs act: AWS Lambda functions, Step Functions
state machines, SQS queues and DynamoDB items. Each model is checked with TLC on
small instances; most invariants, action properties and refinements that
the runs check are proved with TLAPS for all values of the constants, in part
under assumptions on the faults that section 4 names. Paths below are relative to
`src/source/constructs/`; `MB` is `lambda/microbatch`.

## 1. The system

The solution collects logs (service logs of AWS, application logs of agents on
EC2 and EKS) and offers two engines: the *OpenSearch engine*, in which a
Lambda per pipeline reads log files and loads them into an OpenSearch index, and
the *Light Engine*, in which log files land at a staging prefix in S3 and
scheduled state machines turn them into partitions of a Glue table that Athena
queries.

| component | state it keeps | operations | interacts with |
|---|---|---|---|
| object migration job (`MB/s3_object_scanning`, `MB/s3_object_migration`, `MB/utils/aws/s3`) | ETL log items (parent with `totalSubTask`, one per batch), SQS messages, S3 objects, the task token | list, pack, send, put; receive, copy/merge, update, count, answer | Step Functions (token), SQS with redrive, DynamoDB, S3 |
| LogProcessor (`lib/microbatch/main/services/stepfunction/init-sfn-logprocessor-stack.ts`) | execution state, `archive/<execution>`, temporary table, partition of the delta table, ETL log item | move, format, create, insert, drop, measure, complete / notify, fail | migration job, ETL helper, AthenaWorkflow, SNS |
| LogMerger (`init-sfn-logmerger-stack.ts`) | execution state, `archive/<execution>/{merge,original}`, partitions in Glue | merge, back up, restore, add, drop | migration job, ETL helper, LogProcessor's inserts |
| LogArchive (`init-sfn-logarchive-stack.ts`) | the same with one job | move old partitions, drop them | as above |
| AthenaWorkflow, ETL helper (`MB/etl_helper`) | a query execution, ETL log items | start with retries, record | Athena, Glue |
| schedules (`MB/utils/aws/scheduler`) | EventBridge schedules | create, delete; start executions | the three state machines |
| pipeline resources builder (`MB/pipeline_resources_builder`, `MB/utils/aws/{s3,iam,sqs,glue,scheduler}`, `MB/utils/models/meta.py`) | meta table; Glue table, schedules and role of each pipeline; buckets' notifications and policies, topic and destination policies shared by pipelines | create, update, delete pipeline; create, delete ingestion; read, write and verify a shared document | CloudFormation (custom resource), Glue, S3, SQS, IAM |
| replication (`MB/s3_object_replication`) | cache prefix -> role (900 s) | copy an object to staging | S3 events |
| log processor of the OpenSearch engine (`lambda/pipeline/log-processor`) | batch size, payload and initialisation flags in the Lambda's own environment, copies of them in each container; index, template, alias; exported failed records | initialise, parse, bulk load with retries, shrink batches, export | EventBridge, Kinesis, Kafka or SQS; OpenSearch, S3, Lambda configuration |
| CloudFormation flow (`lambda/main/cfnHelper`, `lambda/main/sfnHelper`, `lib/main/cfn-flow-stack.ts`) | stack status, state of the child execution | start, update or stop a stack, poll, answer the parent's token | CloudFormation, Step Functions |
| pipeline and ingestion APIs and flows, alarm (`lambda/api/{pipeline,app_pipeline,app_log_ingestion}`, `lambda/pipeline/{service,app,common}`) | row of the pipeline, rows of its ingestions, reserved concurrency of its log processor, buffer role | create, update, delete, add an ingestion, throttle, resume; write the result of a flow | DynamoDB, Lambda, IAM, the flows |
| other APIs (`lambda/api/*`: clusters, alarms, log configurations, sources, cross account, Grafana) | one item each | create, read, update, delete | DynamoDB, AWS services |

What is hard here: everything that is started by a message may run late, twice
or never; a job is finished by whichever Lambda counts last; status items are
written by several programs; failures go through `Catch` clauses that must not
hide them; and an execution does not know of others on the same prefix.

What makes each part correct:

* migration job - no object is lost; the answer is truthful; there is an answer;
* LogProcessor - nothing is forgotten, `Succeeded` means loaded, nothing is
  loaded twice, every listed object is dealt with;
* LogMerger, LogArchive - rows stay queryable or backed up, no query sees one
  twice, partitions are dropped only when empty;
* resources builder, replication - shared documents keep every pipeline's part;
* OpenSearch log processor - every record is loaded or exported, none before the
  index is set up, and batches shrink in time;
* flows - the parent is answered once, and the last status written is the true
  one; no stack is left that no row knows.

## 2. Modules

| module | what it is |
|---|---|
| `ObjectMigration` | the migration job, one action per AWS call |
| `MigrationTask` | what workflows may rely on when they wait for the job: the abstract specification, its wrong answer included |
| `ObjectMigrationProofs` | type correctness, no loss, truthful success, for all faults; quiet after success |
| `ObjectMigrationRefinement` | for all faults: truthful completion, truthful `hasObjects = False`, and the job implements `MigrationTask` |
| `LogProcessor`, `LogProcessorProofs` | the LogProcessor and AthenaWorkflow state machines; proofs |
| `LogMerger`, `LogMergerProofs` | the LogMerger state machine; proofs |
| `LogLoader`, `LogLoaderProofs` | the log processor of the OpenSearch engine; proofs |
| `PipelineLifecycle`, `PipelineLifecycleProofs` | the calls on a pipeline, the flows they start and its CloudFormation stack; proofs of what holds for any caller, and a refinement |
| `PipelineConsoleProofs` | proofs of what holds for an operator who acts on what the console shows |
| `SubStackTask` | what a parent flow asks of its child: the abstract specification |
| `PipelineResources`, `PipelineResourcesProofs` | the builder of Light Engine pipelines and the documents they share; proofs |
| `MC*` | instances for TLC (model values, symmetry, constraints) |

The composition follows the code: a workflow knows a job only through its token.
`ObjectMigration` is shown to implement `MigrationTask` under every combination of
faults; `LogProcessor` and `LogMerger` model the job at the level of that promise:
objects are copied, then deleted, and `hasObjects = True` is answered only when
none is left. The promise has a gap, and so have the two workflows. The queue
delivers a message as soon as it is sent, long before the scanner writes the
total; a Lambda that handles it finds 0 Succeeded and a total of 0, and answers
`hasObjects = False` for a listing that is not empty (`misread` in
`MigrationTask`). The fault `EarlyTotal` lets a job do that at any moment
(`JobMisleads` and `Misleads`), also on the way from a failed batch to the answer
that the task has failed, or lets all its Lambdas miss the total, so that the task
is never answered (`JobSilent`); what is still to be moved goes on being moved. The
properties of the two workflows are checked and proved with this fault, and name
the executions it strikes as their exceptions. In the same way a parent flow of
`PipelineLifecycle` knows its child only through a token, and the two are shown
to implement `SubStackTask`. `PipelineResources` is the other side of
such a stack: what a custom resource inside it does.

Some operators are defined directly before the operator they vary, with a name
that says how (`CopyObjectDeletesFirst`, `StatusOfAnyDelete`, ...). They are plausible
defects, not part of any specification: substituting one makes the property
listed with it in `PROJECT.json` fail, which shows that the property speaks about
the code.

### 2.1 ObjectMigration

State and code: `scanPc, found, sent, writing` are the progress of
`lambda_handler`, `migration_task_generator` and `migration_task_writer` of the
scanner; `parentStatus, parentTotal` its ETL log item; `subStatus, linked` the
items of the batches (`linked`: the item was put and so has `parentTaskId`; the
migration Lambda's `update` is an upsert that does not set it); `visible,
inFlight, dead, receives` the queue; `pc, msg, idx, status, counted, total` the
locals of concurrent invocations of the migration Lambda; `src, dst` the objects;
`token` what Step Functions was told first. `misread` is history: a Lambda has
compared 0 Succeeded with a total of 0 although something was listed.

Actions: `PutParent, ListObjects, SendMessage, PutSubtask, UpdateTotal,
SendEmpty` (scanner; the message really is sent before its item is put, and the
total written after all messages); `Receive, CopyObject, DeleteObject,
ObjectFails` (`batch_copy_objects`, whose status is that of the last object),
`Download, Upload, BatchDelete, MergeFails` (`merge_objects`), `UpdateSubtask,
QuerySubtasks, GetParent, UpdateParent, SendSuccess, SendFailure, Return`
(handler and `check_parent_task_completion`: the count is a consistent read, the
total is not); `VisibilityTimeout, Redrive, Crash, ScanCrash`.

`Faults` selects what the environment may do: `EarlyDelivery`, `StaleRead`,
`S3Error`, `Crash`, `ScanCrash`, `Duplicate`, `CallbackError`. `MaxAccidents`
bounds crashes and duplicate deliveries together, since each uses up a receive;
`MaxReceiveCount` bounds the receives, 3 in the stack.

### 2.2 LogProcessor

One `pc` per execution, one action per state and outcome of the state machine:
`Start` (put item), `Scan`/`ScanFails`/`Copy`/`Delete`/`MoveFails`/`JobSucceeds`
(step 1), `Format` (2), `CreateTmpTable[Fails]` (3.1), `Insert`,
`InsertRetried`, `InsertFails` (3.2, including AthenaWorkflow's retries, its
bookkeeping Lambda that can fail after the query has committed, and the 30 minute
time out), `DropTmpTable` (3.3, the target of the Catch of 3.1 and 3.2),
`Choice`, `MeasureKPIs` (3.4), `Complete`, `Notify`, `UpdateFailed`, and
`StateFails` for the four states without a Catch. `copies[e][o]` counts the files
of object `o`'s rows in the partition that belongs to execution `e`. Nothing in
the code keeps two executions apart; `Overlap` switches that. `answer` is what the
job was answered with: `JobMisleads` answers `NoObjects` for a listing that is being
moved, whereupon "Staging has Data?" goes to `Complete`; `MoveFails` may do the same
for the batch that failed (`check_parent_task_completion` comes before
`send_task_failure`); `JobSilent` leaves the execution `unanswered`. `Misled` and
`Stranded` say of an execution that this has happened to it.

### 2.3 LogMerger

Executions for one day, one after the other, with the day's objects at the delta
prefix (`delta`), under `merge/` and `original/` of each execution, and the
partitions Glue knows (`table`). An object is its partition and the rows in it.
Steps 1 to 3 are jobs over objects, steps 4 and 5 `batch_update_partition`, which
lists a prefix, alters the table for what it finds and never fails because an
`ALTER TABLE` did. `Insert` is LogProcessor; `LateInsert` allows it during a merge.
Each of the three jobs has its own `todo` and `copied`, because steps 2 and 3 do not
look at `hasObjects`: after an early answer (`Misleads`, recorded in `early`) the
next job starts while the Lambdas of the one before go on. `MaxEarly` bounds the
early answers of a behaviour.

### 2.4 LogLoader

`Containers` of one Lambda handle `Events` (an S3 notification with its log file,
or a batch of a stream). Each container remembers the environment of its cold
start (`cEnv`) and what it has initialised (`done`); `env` is the Lambda's real
environment, one document, and `made` what exists in OpenSearch. Records are
counted in units of 2000, the step by which the code changes the batch size
(10000 = `DefaultBatch`).

Actions: `Invoke` (cold or warm), `SkipJob`, `CallJob`, `JobFails`,
`CreateAlias`, `GetEnv`, `PutEnv` (`init_idx_env` and its decorators, the last two
being read and write of the environment, with a delay between them), `Bulk`,
`BulkFails`, `BulkAnswerLost` (`bulk` with its two tries), `BulkTooLarge`,
`GetBatchSize`, `PutBatchSize` (status 413: read the environment, shrink, write,
raise), `Export`, `ExportFails`, `Finish`, `Crash`, `Redeliver`. What follows an
exception depends on the source: an asynchronous invocation is tried
`AsyncAttempts` = 3 times and goes to the dead-letter queue; a stream repeats its
batch; for Kinesis the handler swallows the exception (`AfterRaise`).

`Faults`: `ServerError` (OpenSearch or a call fails), `LostResponse`, `Rejects`
(records that OpenSearch refuses), `ExportError` (records with different columns,
or S3), `SameSecond` (two exports under one key), `Conflict` (Lambda refuses
concurrent changes of a configuration), `Crash`, `Duplicate`.

### 2.5 PipelineLifecycle

One pipeline, service or application (`kind`): its row (`item`), its stack, its
role, the reserved concurrency of its log processor, and its ingestions. A `call`
is one invocation of an API handler or of the alarm, cut at its calls of AWS
(`Begin`, `CreateExec`/`CreatePut`, `UpdateExec`/`UpdatePut`,
`DeleteCheck`/`DeleteExec`/`DeleteWrite`, `Ingest`,
`PauseRemember`/`Throttle`/`PauseWrite`, `Restore`/`ResumeWrite`), which may die
at each cut (`CallDies`), the handler of the alarm included. The alarm is raised
(`Raised`) for a stack that has a log processor, whatever its concurrency is by then,
as often as CloudWatch or Lambda's retry of a handler that died call for it: a handler
that runs again after it has set the concurrency to 0 remembers 0, and one that dies
there and is not repeated leaves the row as it was (`HalfPaused`). A call that finds
the row unfit for it is `refused`. A `flow` is the parent and child execution it has
started: `StartStack`, `UpdateStack`, `StopStack`, `WaitElapses`, `Query`,
`Notify`, `UpdateStatus`; `StackEnds` is CloudFormation.

What is assumed, and where from:

* `Careful`: one operator who acts on what the console shows. It offers Delete
  for pipelines that are ACTIVE or ERROR and a new log source when ACTIVE
  (`portal/.../ApplicationLog.tsx:246-251`, `ServiceLog.tsx:147-155`,
  `Ingestion.tsx:482`). Resume is not called while another call or a flow of an
  update runs. The console does not enforce this last part: an alarm during an
  update shows the pipeline as PAUSED, and a resumption then shows it as ACTIVE
  although its stack is being updated. Without it two behaviours of five calls
  break the invariants. (a) Create, update, an alarm while the update runs, resume,
  delete: CloudFormation refuses the deletion, and the flow of the update writes
  ACTIVE over a pipeline whose buffer role is gone. (b) A resumption dies after it
  has restored the concurrency, an alarm is raised once more, and a second
  resumption overlaps it: the pipeline is ACTIVE with concurrency 0.
  `Careful = FALSE` drops all of it: any call at any time, as the API accepts them.
* `Quick`: a child's wait of 15 seconds is longer than a call or one step of
  another flow. The fault `Slow` drops it.
* CloudFormation refuses to delete a stack that is being updated, and ends what it
  began. The two reads of the row in `update_app_pipeline` are taken as one.
* A flow is modelled up to its write of the row; the tasks that create alarms or
  distribute agent configurations come after it.

`Torn` (a call died between starting its flow and writing the row) and `Dead` (a
flow that will never write the row: its child failed on an unbound `stack_id`,
its answer was lost, or its last step raised on an empty id) are the two states
the code cannot recover from; the properties name them as exceptions.

### 2.6 PipelineResources

Each pipeline has two stacks, its own and that of its ingestion, and CloudFormation
runs an operation of each at a time; nothing orders the two. A *job* is one of these
stacks with the invocation that works on it (`stack, plan, phase, snap, shared, tries,
raised`); all jobs interleave freely. `rows` are the items of the metadata table,
`doc` the four shared documents (bucket notification, bucket policy, topic policy,
destination policy), `own` the resources of one pipeline, `tables` the Glue tables.
`plan` holds the steps an invocation has left; a step on a document is `ReadDoc`,
`Scan` (of the metadata table, for what is shared), `WriteDoc`, `VerifyDoc`, repeated
`Tries` times as the loops in `utils/aws/s3` and `utils/aws/iam` do; any other step is
a `Call`. The stack of a pipeline begins or ends with the ingestion it finds in the
metadata table (`Bulk`), an ingestion with the search for its pipeline (`Lookup`).

What is shared is decided as the code does it: a table by its name among the tables
of the database, a destination by the database alone. `meta.py` compares the location
of the item with that of the pipeline it was called for, which is always the same, and
so a deletion keeps its location in the policy while *any* other pipeline exists
(`kept`). `NothingLeft` says what becomes of it: the entry of a deleted pipeline stays,
also when no other pipeline uses the location, and also when all pipelines have gone.

CloudFormation sends the item with every event, so that every `Begin` puts the row
again, for a deletion too. After a failed creation nothing follows: the provider of
the custom resource ignores the deletion of what it has not made, and what the creation
had made by then stays (`createFailed`; no property speaks of it). After a failed
update comes another update or a deletion, and a failed deletion may be tried again.
An update runs the steps of a creation, of an ingestion's stack too: `put_role_policy`
deletes the policy before it puts it (phase `put`), and `torn` are the pipelines
for which it is deleted.

Failures: `CallFails` and `Stops` (an invocation that raises, or ends between
calls), an exception of a write, which may have been done; `DropFails`, an error that
`delete_table` or `delete_schedule` only log; `RoleReadFails`, one that
`get_role_policy` takes for an absent policy, so that the policy is put without having
been deleted, or is not deleted; and the same for `get_bucket_policy` (`swallowed`).

Concurrent builders do lose each other's updates: `raced` records a write that
rested on a stale read, a location that is revoked although another pipeline of it has
come since the scan, or a deletion that keeps a table for pipelines all of
which are being deleted and have looked at it already (`Decided`). `overlapped` are the
pipelines on which both stacks were at work at once: each may then undo what the
other does, in either order. `Complete`, `NothingLeft` and `Granted` hold up to these
histories, `CustomerKept` whatever was raced.

Modelled for ingestions whose objects are announced through SQS (for these
`delete_rule` has nothing to do), pipelines of one database, as the default
deployment has them, a destination bucket other than the staging bucket, and e-mail
notifications through SNS.

## 3. Runs

| run | question | result |
|---|---|---|
| `migration_ordered` | Messages arrive after the scanner has returned; up to three crashes or duplicate deliveries, as many as the queue allows receives: is nothing lost, is the item of the scanner right? With one of them, does the job always answer? | `NoObjectLost`, `ParentTruthful`, `TokenResolved` hold |
| `migration_early` | Early delivery, stale reads, S3 errors, a scanner that stops: what may be answered too early, is a failure always reported, is all quiet after success, and what may a workflow rely on? | `HasObjectsTruthful`, `NoObjectsTruthful`, `FailureAnswered`, `QuietAfterSuccess`, `PromiseSpec` hold |
| `processor_faults` | Overlap, S3, query and Lambda failures, masked objects, partial inserts, jobs answered too early or never: what is forgotten, and in whose archive? | `NothingForgotten`, `SucceededLoaded`, `ListedHandled` hold |
| `processor_once` | Three executions that do not overlap, with jobs that go on after an early answer: is a row loaded twice? | `LoadedOnce` holds |
| `merger_daily` | One merge a day with failing batches and one early answer, or none | `SucceededVisible`, `DropsOnlyEmptied`, `RowsPublished` hold |
| `merger_backup` | Two merges of a day with failures everywhere, late inserts and one early answer | `BackedUp`, `NeverTwice` hold |
| `loader_faults` | Two containers, two events, initialisation and bulk loads interleaved, one accident of any kind | `Accounted`, `InitialisedFirst`, `LoadedOnce`, `Adapts` hold |
| `loader_settles` | One event of any source, two accidents: is it always loaded or given up? | `Settles` holds |
| `loader_kinesis` | A Kinesis batch that OpenSearch fails to take twice | **violated**: the handler swallows the exception and the batch counts as processed |
| `pipeline_console` | One careful operator and an alarm, four calls of which each may die, two failures | `NoOrphan`, `DeleteSticks`, `NoIngestionLeft`, `Unthrottled`, `ActiveWorks`, `RoleKept`, `Settles` hold |
| `pipeline_careless` | Four calls of any kind at any time, slow or quick, one failure | `InactiveMeansDeleted` and the refinement `AnswersOnce` hold |
| `resources_shared` | Two pipelines of one database, with one table and destination or two, and their ingestions: four stacks that are created, updated and deleted, two at once, with two failures | `Complete`, `NothingLeft`, `Granted`, `CustomerKept` hold |

The violation is described, with the lines it is about, under `findings` in
`PROJECT.json`.

Bounds. *Migration*: two batches of two objects, one copied and one merged, two
concurrent Lambdas: enough for a Lambda to count between any two calls of
another, for one batch to fail while another succeeds, and for a status to hide an
object; three receives, so that three accidents reach the dead-letter queue.
*Processor*: two overlapping executions and two objects are enough to take
objects from each other; `processor_once` has three executions and a listing
limit of one, so that what one leaves behind is taken by a later one. *Merger*:
two executions with two files in one partition, and one execution with three
files in two partitions; one early answer (`MaxEarly`), since each is an exception
of the properties from then on; `merger_backup` checks states up to `log` and
`notified`, which no action reads (`VIEW`). *Loader*: two containers are the least that overwrite
each other's environment; two initialisation jobs (`TEMPLATE` before `ALIAS`)
are those whose order matters; two units of records and limits 1 and 2 let a
batch be right at once or after one shrinking, three units in `loader_settles`
let a stream's batch stay too large. *Pipeline*: four calls are a creation, two
calls that meet, and one on what they left behind. *Resources*: two pipelines
are the two sides of every race on a document; two attempts of the code's three
show a lost, a repeated and a last attempt; the pipelines share both table and
location or neither; `FewAccidents` lets two invocations work at once, and a behaviour
have two failures, or one stale write, or one overlap, because a second one is excepted
like the first, and fewer of them the more stacks there are.
Symmetry is used in safety runs only, over identical Lambdas, containers,
calls, pipelines, objects, executions or rows. Deadlock is not checked: all these
programs end.

Fairness. Weak fairness of a Lambda's, state machine's or call's next step: AWS
runs what it has started, and an invocation that stops does so by an action of its
own (`Crash`, `CallDies`), or fails by an outcome of the step. Weak fairness of
delivery and of the visibility time-out: SQS offers a message until it is deleted
or moved to the dead-letter queue; a waiting event is handed to some container.
CloudFormation ends what it has begun. Nothing is assumed of schedules, arrivals,
operators or faults. Liveness runs leave out `CallbackError` (`send_callback`
swallows errors, so a lost answer is never repeated and the task has no time out).

What the properties leave out on purpose, because the code does not provide it:

* `TokenResolved` speaks of at most one crash or duplicate delivery. With two, the
  duplicate can return and delete the message while the Lambda that was given it
  first records the batch as Failed and crashes before it answers; with three,
  the message goes to a queue nothing reads.
* `FailureAnswered` speaks of recorded failures: with early delivery all Lambdas
  can compare their count with a total that is still 0, and nobody compares again
  after the scanner writes it, so that the token is not answered at all. Likewise
  0 Succeeded = total 0 makes the parent item Succeeded and the answer
  `hasObjects = False`: `ParentTruthful` and `NoObjectsTruthful` except a job in which a
  Lambda has made that comparison (`misread`), and nothing else.
* What follows of it downstream is excepted by name: an execution of `LogProcessor` that
  was told so ends as Succeeded with nothing loaded and nothing published, while its
  objects come to lie in an archive that no later execution reads (`Misled`); one
  that is told nothing waits for ever (`Stranded`). In `LogMerger` an early answer of
  step 2 makes step 4 show merged rows beside the originals and step 5 drop partitions
  that still have objects (`MisledAtBackup`); one of step 3 records Succeeded before
  the rows are back (`MisledMoving`). An early answer of step 1 does no harm but that
  the day is left unmerged.
* `QuietAfterSuccess` is what allows the workflows to have no Lambda at work after
  `hasObjects = True`; with a crash or a duplicate delivery a batch whose status hides
  a failed object can be moved once more, which the workflows leave out.
* `LoadedOnce` of `LogProcessor` is checked without `Overlap`, `Masked` and
  `PartialInsert`, with which rows can be loaded twice. `NothingForgotten` assumes
  that the states without a Catch work.
* `SucceededVisible` assumes that `ALTER TABLE` statements succeed, that no insert
  comes between steps 1 and 2, and one merge of a day: a second merge drops the
  merged partition after filling it again, a late insert is backed up unmerged.
  `BackedUp` assumes that no object's failure is masked: a masked one is neither
  queryable nor backed up.
* `LoadedOnce` of `LogLoader` is about an undisturbed event; loading again from the
  start of the file is how every retry of the code works. `Adapts` is about a
  pipeline that is initialised, since a failed initialisation uses up the attempts
  that shrinking needs.
* `Unthrottled` is about service pipelines: an application pipeline that is
  updated while it is paused is shown as ACTIVE and stays throttled; and about
  alarms whose handler neither died (`HalfPaused`) nor ran again after it had set the
  concurrency to 0, so that the row remembers 0. `RoleKept` excepts a deletion whose call
  has died, or is past its checks: `delete_app_pipeline` deletes the role before it starts
  the flow and writes the row, and a failure in between leaves an ACTIVE pipeline without
  its role. `NoOrphan`, `DeleteSticks` and the other console invariants need the careful
  operator: a deletion during CREATING leaves a stack behind.
* `NothingLeft` says nothing of a creation that failed, and leaves the location of a
  deleted pipeline to the others of its database (2.6). `Granted` excepts a pipeline whose
  role policy is being put anew, or could not be (`torn`): objects that are announced
  then are not copied.

## 4. Proofs

All proofs are for arbitrary constants within the module's named assumption, any
number of processes and any bound on faults.

`ObjectMigrationProofs`, for **every** set of faults: `TypeCorrect`
(`Spec => []TypeOK`), `NothingLost` (`NoObjectLost`), `SuccessTruthful`
(`HasObjectsTruthful`). `NoObjectLost` is not inductive: that an object is deleted
only at `"delete"` says nothing until the path to that point is known. The
inductive invariant `IInv` is a conjunction of `TypeInv` (types, and which message
a Lambda at a given `pc` can hold), `DataInv` (what was copied before it is
deleted, what a merging Lambda has uploaded), `ScanInv` (`sent`, `found` and the
total agree with where the scanner is), `StatusInv` (a batch whose item says
Succeeded is settled) and `CountInv` (what a Lambda has counted was Succeeded, so
that a count equal to a non-zero total covers the listing; a set of Succeeded
batches inside `sent`, of the same cardinality, is `sent`).

`SuccessIsQuiet` (`QuietAfterSuccess`) assumes that no message is delivered while a
Lambda works on it and that no Lambda crashes; the other faults may happen. `HandInv`
says that a received message is in the hands of exactly one Lambda, so that none
becomes visible again; `PastInv` that a batch whose Succeeded was read anywhere has
been sent, is not on offer and is moved by nobody (`Past`), which no later step
undoes. The count that leads to hasObjects = True is all of the listing, and each
Lambda that moves an object has a batch of the listing. With a crash and an S3 error
TLC finds the property violated: a batch whose first object failed has its last
one counted, and is moved once more by its second delivery.

`ObjectMigrationRefinement`, for every set of faults: `CompletionTruthful`
(`ParentTruthful`), `NothingToMove` (`NoObjectsTruthful`) and `ImplementsPromise`
(`Spec => PromiseSpec`). Its invariant says of each Lambda that has read the total, and
of the parent item, that the total it acts on is that of the listing or 0, and that
with 0 nothing is concluded of a non-empty listing unless `misread` is set. The
refinement maps `settled` to the listed batches whose vouched objects are at the
destination.

`LogProcessorProofs`: `TypeCorrect`, `SucceededIsLoaded` (every set of faults) and
`NoneForgotten` (without `ServiceError`), both up to the executions that an early
comparison has misled or stranded. `StateInv` ties each execution's state to
its archive prefix: from the end of a job that answered `hasObjects = True` nothing is
added to it, past the choice towards `Succeeded` all of it is loaded, and after a failure
nothing ends before the notification was published; `KeptInv` says that an arrived object
is at staging or under some archive prefix. `RowsLoadedOnce` (`LoadedOnce`) assumes
`OneByOne` (no `Overlap`, `Masked` or `PartialInsert`; early answers are allowed): by
`OnceInv` a loaded object lies under the archive prefix of the one execution that loaded
it, never again at staging, and under no archive whose execution still has its query
ahead, although Lambdas of failed and misled jobs go on moving objects.

`LogMergerProofs`: `TypeCorrect` and `RowsAreBackedUp` (`BackedUp`, without `Masked`).
What has to be shown is that step 5 never hides a row: `RowsInv` says that an
inserted row that is in no backup is where it was inserted, in a known partition;
`ShapeInv` which objects there can be; `JobInv`, per execution whose step 2 was not
answered early, that until its end the job of step 2 holds every object of each partition
it touches, and that after it no unmerged object is left in a partition of the backup.
`RowsCountedOnce` (`NeverTwice`, without `Masked`) adds `OnceInv`: what a restore may still
copy to the delta prefix (`Pending`) shares no row with what is there, nor with what
another execution merges. It becomes true when the job of step 2 ends: until then each
object at the delta prefix that has a row of the merged ones is in that job's hands.
For a day that is merged once (`OneMerge`) `OnlyEmptiedDropped` (`DropsOnlyEmptied`, also
without `Masked`) follows from `OriginalsInv`, the backup holds no merged object, and
`SucceededIsVisible` (`SucceededVisible`, also without late inserts and failing
statements) from `FlowInv`, which follows the rows of the backup from the listing to
the merged objects, back to the delta prefix and into the catalog. Each of the four holds
up to an early answer of step 2 or 3 and, in the case of `BackedUp`, beyond it for all
partitions that step 2 was not at work on.

`LogLoaderProofs`: `TypeCorrect`; `SetUpFirst` (`InitialisedFirst`), though
containers overwrite each other's environments; `BatchesDoNotOverlap`
(`LoadedOnce`); `NoRecordVanishes` (`Accounted`, assuming that Kinesis is not among
the sources and no two exports fall into one second). The invariants build on each
other: `Placed` (where an invocation is, by its `pc`), `OneHand` (an event is with
one container), then `SetUp` (the jobs behind an invocation are made, a flag it
will write is true), `Once` (the records behind it were indexed once, those before
it not at all) and `Handled` (the records behind it are indexed or exported).
`BatchesAdapt` (`Adapts`) rests on two more: `Flagged`, in a pipeline that starts
initialised no job runs, and every copy of the environment, also one that is written
back, has all flags; and `Shrinking`, an event that waits for a retry finds a shrunk
environment, and an invocation that is a retry has one. A small batch has at most
`SmallPayload` records, so a retry is never refused for its size.

`PipelineLifecycleProofs`: `TypeCorrect`; `InactiveOnlyDeleted`
(`InactiveMeansDeleted`, any interleaving, any faults); `AnsweredOnce`
(`Spec => AnswersOnce`, the flows implement `SubStackTask`). `IInv` adds that only
one flow ever creates the stack, that a flow without a call has not begun, that
a stack has a call behind it, and that a result DELETE_COMPLETE is
true of the stack for as long as it is carried around. That a stack is created only
once is what keeps a late answer from becoming false.

`PipelineConsoleProofs`: six theorems about the row and what it stands for, in
layers of which each uses those before it. `Built` holds whatever is called and
whatever fails: it says what the stack can be while a given action is on its way, and
gives `ActiveHasStack` (`ActiveWorks`). `Orderly` needs `Careful`: which calls and
flows exist side by side, what they have read, and what the row says while they run. It
gives `NothingOrphaned` (`NoOrphan`). `Calm` is what holds until a call is torn: a flow
runs for a call that has not returned or for the status that call has left, and a
deletion that was started has the stack to itself. With it follow `NoIngestionOutlives`
(`NoIngestionLeft`), `RoleStays` (`RoleKept`) and `DeletionSticks` (`DeleteSticks`).
`Throttled` (as long as no handler of an alarm has died and none has remembered 0,
a concurrency of 0 is the doing of a handler that is still at work, or shown in the row)
gives `ThrottledIsShown` (`Unthrottled`). Beyond `Careful` only one assumption is made, and
TLC finds a counterexample without it: no fault `Slow` for `DeleteSticks`. The inductive invariants were checked by TLC with five calls before
they were proved, which is how the two behaviours of 2.5 were found.

`PipelineResourcesProofs`: `TypeCorrect` and `CustomersEntriesKept` (`CustomerKept`).
`PhaseFits` says which steps a phase belongs to, `SnapKept` that a document in a local
variable contains the customer's entry, unless `get_bucket_policy` swallowed an error:
whatever is written from it, stale or not, keeps that entry.

Only model-checked: `Complete`, `NothingLeft` and `Granted` of `PipelineResources`, whose
inductive invariant relates four stacks and is left to the plan; and the liveness properties `TokenResolved`, `FailureAnswered`,
`ListedHandled`, `RowsPublished` and `Settles` (of `LogLoader` and of
`PipelineLifecycle`), because fairness and `ENABLED` are out of the prover's reach. What
is proved under an assumption on the faults is model-checked under the same one; the
violation of `Accounted` for Kinesis is what `NoRecordVanishes` excludes.

## 5. Not modelled

* LogArchive: a migration job and a drop of partitions, which are step 2 and step 5
  of `LogMerger` behind the promise of `MigrationTask`.
* S3 object replication: one copy per notification, no retry and no state but a
  cache of roles; that it may read what is announced is `Granted`.
* RDS connector, metadata writer, e-mail, CloudWatch metric helpers, log
  configurations, sources, cross-account links, Grafana: handlers that read, or
  write one item or one resource, or compute a text.
* Parsers of the log formats and the enrichment of records: pure conversions of
  text; in the models a record is a unit, or a row, that is kept or lost whole.
* Import of OpenSearch clusters: a sequence of calls on the network of one VPC with a
  hand-written roll-back, without a concurrent actor in the code.
* Distribution of agent configurations to instances by SSM documents.
* CDK stacks other than the state machines, GraphQL schema and web console, which
  the models use as evidence for who calls what.

Within the modelled components: the packing of a listing into batches by size and
number (any set of batches is considered); object names (Athena gives files unique names); the ETL helper's items for single queries; the content of
notifications; the SQS source, index roll-over and metrics of the log processor;
alarm and ingestion tasks after a flow's last write; EventBridge event drivers,
connectors, ALB bucket policy, Grafana and metric tables of the builder.

The models stand for a small part of the lines of the repository, and cannot stand
for most of them: its Python code is dominated by the copies of `MB/utils` under each
Lambda, by handlers that format requests to AWS for a list of resources, by metric
definitions, parsers and tests, none of which has a state of its own.
What has state that several programs share is in the modules above.

## 6. Plan

1. The rest of the flows: alarm and ingestion tasks after `UpdateStatus`, the
   distribution of agent configurations (`ec2_ingestion_distribution_event`), in
   which concurrent tasks of one instance write its whole configuration.
2. Import and removal of clusters: the calls of `cluster_auto_import_mgr.py` with a
   failure between any two, and a removal after a partial import.
3. `LogArchive`, with the objects and catalog of `LogMerger` in a module of their own.
4. Proofs: a refinement of `LogProcessor` and `LogMerger` each to a statement of what
   the catalog shows, and lemmas for the modules of 1 to 3.
5. Pure functions against reference definitions over bounded inputs: prefix
   conversion, packing into batches, partition DDL batching.
