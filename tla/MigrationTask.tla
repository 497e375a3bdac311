--------------------------- MODULE MigrationTask ---------------------------
(***************************************************************************)
(* What the Step Functions workflows may rely on when they start an object *)
(* migration with a task token and wait: the task is answered at most      *)
(* once; with hasObjects = True only after every batch of a non-empty      *)
(* listing was moved; with hasObjects = False after an empty listing, or   *)
(* once a migration Lambda has misread the total.  A batch that was moved  *)
(* never comes back.  The task need not be answered at all.                *)
(***************************************************************************)
CONSTANT Batches

VARIABLES listed, settled, misread, token

vars == <<listed, settled, misread, token>>

Init ==
    /\ listed = {}
    /\ settled = {}
    /\ misread = FALSE
    /\ token = "Pending"

List(S) ==
    /\ token = "Pending" /\ listed = {} /\ ~misread
    /\ listed' = S
    /\ UNCHANGED <<settled, misread, token>>

Move(b) ==
    /\ b \in listed
    /\ settled' = settled \cup {b}
    /\ UNCHANGED <<listed, misread, token>>

Misread ==
    /\ misread' = TRUE
    /\ UNCHANGED <<listed, settled, token>>

HasObjects ==
    /\ listed # {} /\ listed \subseteq settled
    /\ token' = "HasObjects"

NoObjects ==
    /\ listed = {} \/ misread
    /\ token' = "NoObjects"

Answer ==
    /\ token = "Pending"
    /\ HasObjects \/ NoObjects \/ token' = "Failed"
    /\ UNCHANGED <<listed, settled, misread>>

Next ==
    \/ \E S \in SUBSET Batches : List(S)
    \/ \E b \in Batches : Move(b)
    \/ Misread
    \/ Answer

Spec == Init /\ [][Next]_vars
=============================================================================
