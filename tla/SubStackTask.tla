---------------------------- MODULE SubStackTask ----------------------------
(* What a flow that deploys, changes or deletes a sub-stack asks of the child  *)
(* flow it starts: one answer, which holds the final status of the stack.      *)

CONSTANTS
    Tasks,  \* the executions of the parent flow
    Final   \* the statuses that are not in progress any more

VARIABLES
    task,   \* idle, asked or answered
    answer  \* the status a task was answered with

vars == <<task, answer>>

Init ==
    /\ task = [t \in Tasks |-> "idle"]
    /\ answer = [t \in Tasks |-> ""]

(* The parent starts its child and hands it the task token.                    *)
Ask(t) ==
    /\ task[t] = "idle"
    /\ task' = [task EXCEPT ![t] = "asked"]
    /\ UNCHANGED answer

(* The child sends the token back, once.                                       *)
Reply(t) ==
    /\ task[t] = "asked"
    /\ task' = [task EXCEPT ![t] = "answered"]
    /\ \E status \in Final : answer' = [answer EXCEPT ![t] = status]

Next == \E t \in Tasks : Ask(t) \/ Reply(t)

Spec == Init /\ [][Next]_vars
=============================================================================
