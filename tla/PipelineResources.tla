------------------------- MODULE PipelineResources -------------------------
(***************************************************************************)
(* The resources a Light Engine pipeline has outside its own CloudFormation*)
(* stack, and the Lambda that makes and removes them as a custom resource  *)
(* of that stack: microbatch/pipeline_resources_builder.  Some of them are *)
(* documents it shares with other pipelines and with the customer: the     *)
(* notification configuration and the policy of the source bucket, the     *)
(* topic policy of the e-mail Lambda and the policy for the destination    *)
(* buckets.  Such a document can only be read and written as a whole, so   *)
(* that each of its updates is a loop of read, write and verify            *)
(* (utils/aws/s3, utils/aws/iam).  Others are calls for one resource.      *)
(*                                                                         *)
(* An ingestion is a CloudFormation stack of its own, and so two           *)
(* invocations can work on a pipeline at once: that of its stack, which    *)
(* also creates or removes its ingestion, and that of the ingestion's.     *)
(* CloudFormation starts one operation of a stack at a time; all others    *)
(* interleave freely.                                                      *)
(***************************************************************************)
EXTENDS Naturals, FiniteSets, Sequences

CONSTANTS
    Pipelines,      \* pipelines of one Glue database, each with one ingestion
    Tables,         \* names of Glue tables
    Locations,      \* destination buckets with their prefix
    Customer,       \* the entry of each document that is not the builder's
    Tries,          \* attempts of an update, 3 in the code
    Failing,        \* the calls that may fail, see CallNames
    MaxFailures     \* bound on the failures of a behaviour

CallNames == {"read", "readBucketPolicy", "readRolePolicy", "write",
              "writeDestination", "call", "drop"}

ASSUME ConstantsAssumption ==
    /\ Tries \in Nat \ {0}
    /\ MaxFailures \in Nat
    /\ Failing \subseteq CallNames
    /\ Customer \notin Pipelines \cup Locations
    /\ Pipelines \cap Locations = {}

Docs == {"notification", "bucketPolicy", "sns", "destination"}
Singles == {"schedule", "rolePolicy", "queuePolicy"}

(* A job is one of the stacks, with the invocation that works on it.       *)
Jobs == [of : Pipelines, kind : {"pipeline", "ingestion"}]
Job(p, kind) == [of |-> p, kind |-> kind]
Pipeline(p) == Job(p, "pipeline")
Ingestion(p) == Job(p, "ingestion")

VARIABLES
    table,      \* table[p]: the table of the pipeline, fixed
    location,   \* location[p]: its destination, fixed
    rows,       \* the stacks with a row in the metadata table
    stack,      \* stack[j]: the stack as CloudFormation sees it
    doc,        \* doc[d]: the entries of a shared document
    own,        \* own[r]: the pipelines that have resource r
    tables,     \* the Glue tables there are
    plan,       \* plan[j]: the steps the invocation has left
    phase,      \* phase[j]: the next call of the step
    snap,       \* snap[j]: the document as the step has read it
    shared,     \* shared[j]: what the scan for other pipelines has said
    tries,      \* tries[j]: attempts left
    raised,     \* raised[j]: an attempt has raised an exception
    failures,   \* failures so far
    raced,      \* history: what was written or decided on stale information
    swallowed,  \* history: what an error was swallowed for
    kept,       \* history: locations left to the other pipelines of the database
    overlapped, \* history: pipelines on which both invocations worked at once
    torn        \* history: pipelines whose role policy is deleted to be put anew

meta == <<table, location, rows, stack>>
cloud == <<doc, own, tables, torn>>
local == <<phase, snap, shared, tries, raised>>
history == <<raced, swallowed, kept>>
vars == <<meta, cloud, plan, local, failures, history, overlapped>>

Stacks == {"absent", "creating", "live", "createFailed", "updating", "updateFailed",
           "deleting", "deleteFailed", "deleted"}
Phases == {"read", "scan", "write", "verify", "call", "put"}
Entries == Pipelines \cup Locations \cup {Customer}

Init ==
    /\ table \in [Pipelines -> Tables]
    /\ location \in [Pipelines -> Locations]
    /\ rows = {} /\ tables = {}
    /\ stack = [j \in Jobs |-> "absent"]
    /\ doc = [d \in Docs |-> {Customer}]
    /\ own = [r \in Singles |-> {}]
    /\ plan = [j \in Jobs |-> << >>]
    /\ phase = [j \in Jobs |-> "read"]
    /\ snap = [j \in Jobs |-> {}]
    /\ shared = [j \in Jobs |-> FALSE]
    /\ tries = [j \in Jobs |-> Tries]
    /\ raised = [j \in Jobs |-> FALSE]
    /\ failures = 0
    /\ raced = {} /\ swallowed = {} /\ kept = {} /\ overlapped = {} /\ torn = {}

-----------------------------------------------------------------------------
(* The order of the steps. *)

IngestSteps == <<"lookup", "bucketPolicy", "rolePolicy", "queuePolicy", "notification">>

(* Both kinds of event drivers are removed, each with the access to the    *)
(* source bucket.                                                          *)
UningestStepsGrantsFirst ==
    <<"lookup", "queuePolicy", "notification", "bucketPolicy", "rolePolicy",
      "bucketPolicy", "rolePolicy", "ingestionRow">>
UningestSteps ==
    <<"lookup", "notification", "queuePolicy", "bucketPolicy", "rolePolicy",
      "bucketPolicy", "rolePolicy", "ingestionRow">>

(* A pipeline begins or ends with the ingestion it has in the metadata     *)
(* table.                                                                  *)
CreateSteps == <<"table", "schedule", "destination", "sns", "bulk">>
DropSteps == <<"table", "schedule", "destination", "sns", "row">>

StepsUp(j) == IF j.kind = "pipeline" THEN CreateSteps ELSE IngestSteps
StepsDown(j) == IF j.kind = "pipeline" THEN <<"bulk">> \o DropSteps ELSE UningestSteps

Removing(j) == stack[j] = "deleting"
Busy(j) == stack[j] \in {"creating", "updating", "deleting"}
At(j, step) == plan[j] # << >> /\ Head(plan[j]) = step

FirstPhase(steps, status) ==
    IF steps # << >> /\ Head(steps) = "table" /\ status = "deleting" THEN "scan"
    ELSE IF steps = << >> \/ Head(steps) \in Docs THEN "read"
    ELSE "call"

(* The locals of the next step; status is that of the stack. *)
Enter(j, steps, status) ==
    /\ plan' = [plan EXCEPT ![j] = steps]
    /\ phase' = [phase EXCEPT ![j] = FirstPhase(steps, status)]
    /\ snap' = [snap EXCEPT ![j] = {}]
    /\ shared' = [shared EXCEPT ![j] = FALSE]
    /\ tries' = [tries EXCEPT ![j] = Tries]
    /\ raised' = [raised EXCEPT ![j] = FALSE]

NextStep(j) == Enter(j, Tail(plan[j]), stack[j])

(* The events of CloudFormation all carry the item of the stack, which     *)
(* Parameters writes to the metadata table, for a deletion too.  Nothing   *)
(* makes an ingestion wait for its pipeline, or the reverse.               *)
Begin(j, status, steps) ==
    /\ stack' = [stack EXCEPT ![j] = status]
    /\ rows' = rows \cup {j}
    /\ overlapped' = IF \E k \in Jobs \ {j} : k.of = j.of /\ Busy(k)
                     THEN overlapped \cup {j.of} ELSE overlapped
    /\ Enter(j, steps, status)
    /\ UNCHANGED <<table, location, cloud, failures, history>>

Create(j) == stack[j] = "absent" /\ Begin(j, "creating", StepsUp(j))

(* An update that failed is rolled back by another one. *)
Update(j) == stack[j] \in {"live", "updateFailed"} /\ Begin(j, "updating", StepsUp(j))

(* A deletion that failed can be tried again.  That of a stack whose       *)
(* creation failed never reaches the builder: the provider of the custom   *)
(* resource ignores it, and what the creation has made stays.              *)
Delete(j) ==
    /\ stack[j] \in {"live", "updateFailed", "deleteFailed"}
    /\ Begin(j, "deleting", StepsDown(j))

Finish(j) ==
    /\ Busy(j) /\ plan[j] = << >>
    /\ stack' = [stack EXCEPT ![j] = IF Removing(j) THEN "deleted" ELSE "live"]
    /\ UNCHANGED <<table, location, rows, cloud, plan, local, failures, history, overlapped>>

(* The invocation raises: the custom resource has failed. *)
FailedStack == [creating |-> "createFailed", updating |-> "updateFailed",
                deleting |-> "deleteFailed"]

Fail(j) ==
    /\ Busy(j)
    /\ stack' = [stack EXCEPT ![j] = FailedStack[@]]
    /\ Enter(j, << >>, "live")
    /\ UNCHANGED <<table, location, rows>>

MayFail(name) ==
    /\ name \in Failing
    /\ failures < MaxFailures
    /\ failures' = failures + 1

-----------------------------------------------------------------------------
(* The ingestion of a pipeline. *)

(* A pipeline looks for its ingestion in the metadata table.               *)
Bulk(j) ==
    /\ At(j, "bulk")
    /\ Enter(j, (IF Ingestion(j.of) \notin rows THEN << >>
                 ELSE IF Removing(j) THEN UningestSteps ELSE IngestSteps) \o Tail(plan[j]),
             stack[j])
    /\ UNCHANGED <<meta, cloud, failures, history, overlapped>>

AfterIngestion(j) == IF j.kind = "pipeline" THEN DropSteps ELSE << >>

(* An ingestion is created for a pipeline that has a row, and removed with *)
(* all it has as long as there is one.                                     *)
Lookup(j) ==
    /\ At(j, "lookup")
    /\ LET ready == {Pipeline(j.of), Ingestion(j.of)} \subseteq rows IN
       \/ ready /\ NextStep(j) /\ UNCHANGED meta
       \/ ~ ready /\ ~ Removing(j) /\ Fail(j)
       \/ /\ ~ ready /\ Removing(j)
          /\ rows' = rows \ {Ingestion(j.of)}
          /\ Enter(j, AfterIngestion(j), stack[j])
          /\ UNCHANGED <<table, location, stack>>
    /\ UNCHANGED <<cloud, failures, history, overlapped>>

-----------------------------------------------------------------------------
(* Sharing, decided by a scan of the metadata table. *)

Others(p) == {q \in Pipelines \ {p} : Pipeline(q) \in rows}
TableUsers(p) == {q \in Others(p) : table[q] = table[p]}
LocationUsers(p) == {q \in Others(p) : location[q] = location[p]}

(* A table is shared by those that have its name.  A destination is kept   *)
(* while any other pipeline uses the database: the location that is        *)
(* compared is the pipeline's own on both sides.                           *)
SharersAndSelf(p, step) ==
    {q \in Pipelines : Pipeline(q) \in rows /\ (step = "table" => table[q] = table[p])}
Sharers(p, step) == IF step = "table" THEN TableUsers(p) ELSE Others(p)

(* A deletion that has decided on its table does not look at it again.     *)
Decided(q) ==
    LET j == Pipeline(q) IN
    Removing(j) /\ ~ \E i \in DOMAIN plan[j] :
        plan[j][i] = "table" /\ (i = 1 => phase[j] = "scan")

Scan(j) ==
    /\ plan[j] # << >> /\ phase[j] = "scan"
    /\ LET sharers == Sharers(j.of, Head(plan[j])) IN
       /\ shared' = [shared EXCEPT ![j] = sharers # {}]
       /\ raced' = IF At(j, "table") /\ sharers # {} /\ \A q \in sharers : Decided(q)
                   THEN raced \cup {"table"} ELSE raced
       /\ kept' = IF At(j, "destination") /\ Removing(j) /\ sharers # {}
                  THEN kept \cup {location[j.of]} ELSE kept
    /\ phase' = [phase EXCEPT ![j] = IF At(j, "table") THEN "call" ELSE "write"]
    /\ UNCHANGED <<meta, cloud, plan, snap, tries, raised, failures, swallowed, overlapped>>

-----------------------------------------------------------------------------
(* A document is read, written as a whole and read again. *)

Statement(entries) == entries \cap Locations

(* The resource a pipeline adds to or takes from the one statement for all *)
(* destinations.                                                           *)
DestinationResources(j) ==
    IF Statement(snap[j]) = {} \/ ~ shared[j] \/ location[j.of] \notin snap[j]
    THEN {location[j.of]} ELSE {}

OwnEntries(j) == IF At(j, "destination") THEN DestinationResources(j) ELSE {j.of}

WrittenAlone(j) == IF Removing(j) THEN {} ELSE OwnEntries(j)
Written(j) ==
    IF Removing(j) THEN snap[j] \ OwnEntries(j) ELSE snap[j] \cup OwnEntries(j)

(* The loops look for the statement they have written, by its identifier.  *)
(* All destinations are resources of one statement; it is deleted with the *)
(* last of them.                                                           *)
VerifiedBlindly(j, entries) == TRUE
Verified(j, entries) ==
    IF At(j, "destination")
    THEN (Statement(entries) = {}) = (Statement(Written(j)) = {})
    ELSE (j.of \in entries) = ~ Removing(j)

(* get_bucket_policy takes an error for an empty policy, the other reads   *)
(* raise it.                                                               *)
ReadFails(j) ==
    /\ At(j, "bucketPolicy") /\ MayFail("readBucketPolicy")
    /\ swallowed' = swallowed \cup {"bucketPolicy"}

ReadDoc(j) ==
    /\ plan[j] # << >> /\ Head(plan[j]) \in Docs /\ phase[j] = "read"
    /\ \/ /\ snap' = [snap EXCEPT ![j] = doc[Head(plan[j])]]
          /\ UNCHANGED <<failures, swallowed>>
       \/ /\ ReadFails(j)
          /\ snap' = [snap EXCEPT ![j] = {}]
    /\ phase' = [phase EXCEPT ![j] = IF At(j, "destination") THEN "scan" ELSE "write"]
    /\ UNCHANGED <<meta, cloud, plan, shared, tries, raised, raced, kept, overlapped>>

(* A write is stale when the document has changed since it was read, or    *)
(* when a location that is taken away is used by another pipeline now.     *)
Stale(j) ==
    \/ snap[j] # doc[Head(plan[j])] /\ Head(plan[j]) \notin swallowed
    \/ /\ At(j, "destination") /\ Removing(j)
       /\ OwnEntries(j) \cap snap[j] # {} /\ LocationUsers(j.of) # {}

(* There is no statement to revoke a destination from. *)
NothingToRevoke(j) ==
    /\ At(j, "destination") /\ phase[j] = "write"
    /\ Removing(j) /\ Statement(snap[j]) = {}
    /\ raced' = IF Stale(j) THEN raced \cup {"destination"} ELSE raced
    /\ NextStep(j)
    /\ UNCHANGED <<meta, cloud, failures, swallowed, kept, overlapped>>

(* An exception of the write is remembered; the write may have been done.  *)
WriteDoc(j) ==
    /\ plan[j] # << >> /\ Head(plan[j]) \in Docs /\ phase[j] = "write"
    /\ ~ (At(j, "destination") /\ Removing(j) /\ Statement(snap[j]) = {})
    /\ \E done, fails \in BOOLEAN :
          /\ done \/ fails
          /\ IF fails
             THEN MayFail(IF At(j, "destination") THEN "writeDestination" ELSE "write")
             ELSE UNCHANGED failures
          /\ raised' = [raised EXCEPT ![j] = @ \/ fails]
          /\ doc' = IF done THEN [doc EXCEPT ![Head(plan[j])] = Written(j)] ELSE doc
          /\ raced' = IF done /\ Stale(j) THEN raced \cup {Head(plan[j])} ELSE raced
    /\ phase' = [phase EXCEPT ![j] = "verify"]
    /\ UNCHANGED <<meta, own, tables, torn, plan, snap, shared, tries, swallowed, kept,
                   overlapped>>

(* After the last attempt the exception is raised, if there was one. *)
AgainOnceMore(j) ==
    /\ tries' = [tries EXCEPT ![j] = @ - 1]
    /\ phase' = [phase EXCEPT ![j] = IF At(j, "destination") THEN "write" ELSE "read"]
    /\ UNCHANGED <<meta, plan, snap, shared, raised>>
Again(j) ==
    /\ tries[j] > 1
    /\ tries' = [tries EXCEPT ![j] = @ - 1]
    /\ phase' = [phase EXCEPT ![j] = IF At(j, "destination") THEN "write" ELSE "read"]
    /\ UNCHANGED <<meta, plan, snap, shared, raised>>

VerifyDoc(j) ==
    /\ plan[j] # << >> /\ phase[j] = "verify"
    /\ \E entries \in {doc[Head(plan[j])], {}} :
          /\ IF entries = doc[Head(plan[j])]
             THEN UNCHANGED <<failures, swallowed>>
             ELSE ReadFails(j)
          /\ IF Verified(j, entries)
             THEN NextStep(j) /\ UNCHANGED meta
             ELSE \/ Again(j)
                  \/ tries[j] = 1 /\ raised[j] /\ Fail(j)
                  \/ tries[j] = 1 /\ ~ raised[j] /\ NextStep(j) /\ UNCHANGED meta
    /\ UNCHANGED <<cloud, raced, kept, overlapped>>

-----------------------------------------------------------------------------
(* A resource of the pipeline alone is made or removed by a call. *)

TableCall(j) ==
    /\ At(j, "table")
    /\ tables' = IF ~ Removing(j) THEN tables \cup {table[j.of]}
                 ELSE IF shared[j] THEN tables ELSE tables \ {table[j.of]}
    /\ raced' = IF Removing(j) /\ ~ shared[j] /\ TableUsers(j.of) # {}
                THEN raced \cup {"table"} ELSE raced
    /\ NextStep(j)
    /\ UNCHANGED <<rows, own, torn>>

RowCall(j) ==
    /\ At(j, "row") \/ At(j, "ingestionRow")
    /\ rows' = rows \ {IF At(j, "row") THEN j ELSE Ingestion(j.of)}
    /\ NextStep(j)
    /\ UNCHANGED <<own, tables, raced, torn>>

ScheduleOrQueueCall(j) ==
    /\ \E r \in {"schedule", "queuePolicy"} :
          /\ At(j, r)
          /\ own' = [own EXCEPT ![r] = IF Removing(j) THEN @ \ {j.of} ELSE @ \cup {j.of}]
    /\ NextStep(j)
    /\ UNCHANGED <<rows, tables, raced, torn>>

(* The role policy is deleted before it is put anew (put_role_policy).     *)
Replaces(j) == ~ Removing(j) /\ phase[j] = "call" /\ j.of \in own["rolePolicy"]

RolePolicyCall(j) ==
    /\ At(j, "rolePolicy")
    /\ own' = [own EXCEPT !["rolePolicy"] =
                   IF Removing(j) \/ Replaces(j) THEN @ \ {j.of} ELSE @ \cup {j.of}]
    /\ IF Replaces(j)
       THEN /\ torn' = torn \cup {j.of}
            /\ phase' = [phase EXCEPT ![j] = "put"]
            /\ UNCHANGED <<plan, snap, shared, tries, raised>>
       ELSE torn' = torn \ {j.of} /\ NextStep(j)
    /\ UNCHANGED <<rows, tables, raced>>

Call(j) ==
    /\ plan[j] # << >> /\ phase[j] \in {"call", "put"}
    /\ TableCall(j) \/ RowCall(j) \/ ScheduleOrQueueCall(j) \/ RolePolicyCall(j)
    /\ UNCHANGED <<table, location, stack, doc, failures, swallowed, kept, overlapped>>

(* get_role_policy takes an error for no policy: the policy is put without *)
(* having been deleted, or is not deleted.                                 *)
RoleReadFails(j) ==
    /\ At(j, "rolePolicy") /\ phase[j] = "call" /\ MayFail("readRolePolicy")
    /\ swallowed' = swallowed \cup {"rolePolicy"}
    /\ own' = IF Removing(j) THEN own ELSE [own EXCEPT !["rolePolicy"] = @ \cup {j.of}]
    /\ torn' = IF Removing(j) THEN torn ELSE torn \ {j.of}
    /\ NextStep(j)
    /\ UNCHANGED <<meta, doc, tables, raced, kept, overlapped>>

(* delete_table and delete_schedule log an exception and go on. *)
Swallowed(j) == Removing(j) /\ Head(plan[j]) \in {"table", "schedule"}

CallFails(j) ==
    /\ plan[j] # << >> /\ phase[j] \in {"call", "put"}
    /\ ~ Swallowed(j) /\ MayFail("call")
    /\ Fail(j)
    /\ UNCHANGED <<cloud, history, overlapped>>

DropFails(j) ==
    /\ plan[j] # << >> /\ phase[j] = "call"
    /\ Swallowed(j) /\ MayFail("drop")
    /\ swallowed' = swallowed \cup {Head(plan[j])}
    /\ NextStep(j)
    /\ UNCHANGED <<meta, cloud, raced, kept, overlapped>>

(* The invocation ends between two calls: a read raises, or its time is up.*)
Stops(j) ==
    /\ plan[j] # << >> /\ MayFail("read")
    /\ Fail(j)
    /\ UNCHANGED <<cloud, history, overlapped>>

Builder(j) ==
    \/ Bulk(j) \/ Lookup(j) \/ ReadDoc(j) \/ Scan(j) \/ NothingToRevoke(j) \/ WriteDoc(j)
    \/ VerifyDoc(j) \/ Call(j) \/ CallFails(j) \/ RoleReadFails(j) \/ DropFails(j)
    \/ Stops(j) \/ Finish(j)

Next == \E j \in Jobs : Create(j) \/ Update(j) \/ Delete(j) \/ Builder(j)

Spec == Init /\ [][Next]_vars
-----------------------------------------------------------------------------
(* Properties. *)

StepNames == Docs \cup Singles \cup {"table", "row", "bulk", "lookup", "ingestionRow"}

TypeOK ==
    /\ table \in [Pipelines -> Tables] /\ location \in [Pipelines -> Locations]
    /\ rows \subseteq Jobs
    /\ stack \in [Jobs -> Stacks]
    /\ doc \in [Docs -> SUBSET Entries]
    /\ own \in [Singles -> SUBSET Pipelines]
    /\ tables \subseteq Tables
    /\ plan \in [Jobs -> Seq(StepNames)]
    /\ phase \in [Jobs -> Phases]
    /\ snap \in [Jobs -> SUBSET Entries]
    /\ shared \in [Jobs -> BOOLEAN]
    /\ tries \in [Jobs -> 1..Tries]
    /\ raised \in [Jobs -> BOOLEAN]
    /\ failures \in 0..MaxFailures
    /\ raced \subseteq Docs \cup {"table"}
    /\ swallowed \subseteq {"bucketPolicy", "rolePolicy", "table", "schedule"}
    /\ kept \subseteq Locations
    /\ overlapped \subseteq Pipelines /\ torn \subseteq Pipelines

Excused == raced \cup swallowed
Has(p, d) == (IF d = "destination" THEN location[p] ELSE p) \in doc[d] \/ d \in Excused
Lacks(p, d) == p \notin doc[d] \/ d \in Excused
LacksOwn(p, r) == p \notin own[r] \/ r \in swallowed

(* create_pipeline and create_ingestion return normally only when what     *)
(* they have made is there, and it stays there whatever is created,        *)
(* updated or deleted for other pipelines.  Exceptions: a document written *)
(* or a table decided on after a stale read (raced), a read of the bucket's*)
(* policy whose error was swallowed, an ingestion that was worked on by    *)
(* both of its stacks at once.                                             *)
Complete ==
    \A p \in Pipelines : stack[Pipeline(p)] = "live" =>
        /\ table[p] \in tables \/ "table" \in Excused
        /\ p \in own["schedule"]
        /\ Has(p, "destination") /\ Has(p, "sns")
        /\ stack[Ingestion(p)] = "live" /\ p \notin overlapped =>
              /\ Has(p, "bucketPolicy") /\ Has(p, "notification")
              /\ p \in own["rolePolicy"] \cap own["queuePolicy"]

(* What a pipeline or an ingestion leaves behind when its deletion has     *)
(* succeeded, after any number of attempts: nothing of the ingestion, no   *)
(* schedule that goes on starting state machines, no table that no other   *)
(* pipeline uses, and no access to a location no other pipeline uses unless*)
(* a deletion left it to the other pipelines of the database (kept): then  *)
(* it stays, also after they have gone.  Exceptions as for Complete, and   *)
(* what an error was swallowed for.                                        *)
NothingLeft ==
    \A p \in Pipelines :
        /\ stack[Pipeline(p)] = "deleted" =>
              /\ Pipeline(p) \notin rows
              /\ LacksOwn(p, "schedule") /\ Lacks(p, "sns")
              /\ TableUsers(p) = {} => table[p] \notin tables \/ "table" \in Excused
              /\ LocationUsers(p) = {} =>
                    \/ location[p] \notin doc["destination"]
                    \/ location[p] \in kept \/ "destination" \in Excused
        /\ stack[Ingestion(p)] = "deleted" /\ p \notin overlapped => Ingestion(p) \notin rows
        /\ "deleted" \in {stack[Pipeline(p)], stack[Ingestion(p)]} /\ p \notin overlapped =>
              /\ LacksOwn(p, "rolePolicy") /\ LacksOwn(p, "queuePolicy")
              /\ Lacks(p, "bucketPolicy") /\ Lacks(p, "notification")

(* The source bucket notifies the queue of a pipeline only while the queue *)
(* accepts the message and the replication role may read the object: a     *)
(* copy that is denied is not tried again.  Exceptions as for Complete, and*)
(* the policy of the role while put_role_policy has deleted it and not yet,*)
(* or for a failure not at all, put it anew (torn).                        *)
Granted ==
    \A p \in Pipelines \ overlapped : p \in doc["notification"] =>
        \/ "notification" \in Excused
        \/ /\ p \in own["queuePolicy"]
           /\ Has(p, "bucketPolicy")
           /\ p \in own["rolePolicy"] \cup torn

(* No document ever loses the entries the customer has in it, unless the   *)
(* read of the bucket's policy failed and was taken for an empty policy.   *)
CustomerKept == \A d \in Docs \ swallowed : Customer \in doc[d]
=============================================================================
