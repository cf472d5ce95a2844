------------------------------ MODULE RequestLedger ------------------------------
(***************************************************************************)
(* What the runtime promises of the requests it accepts, whoever retries   *)
(* them and whatever is lost: one caller at a time may work on a request,  *)
(* a request is executed at most once, one that has been executed is never *)
(* offered to another caller, and one that is over stays over.             *)
(*                                                                         *)
(* Conversation.tla implements it with a file that several HTTP requests   *)
(* read and write, a Workflow service and an agent.                        *)
(***************************************************************************)
EXTENDS Integers

CONSTANT Ops     \* the operation ids that clients choose

VARIABLES
    status,      \* "none", "open" (a caller may take it), "taken", "over"
    executions   \* how many Workflows or prompts have been started for it

vars == <<status, executions>>

Init ==
    /\ status = [o \in Ops |-> "none"]
    /\ executions = [o \in Ops |-> 0]

Move(o, from, to) == status[o] = from /\ status' = [status EXCEPT ![o] = to]

Accept(o) == Move(o, "none", "open") /\ UNCHANGED executions

Take(o) == Move(o, "open", "taken") /\ UNCHANGED executions

\* The caller has a question for the user, or the request is for the chat: nothing has been started.
Return(o) == executions[o] = 0 /\ Move(o, "taken", "open") /\ UNCHANGED executions

Execute(o) ==
    /\ status[o] = "taken" /\ executions[o] = 0
    /\ executions' = [executions EXCEPT ![o] = 1]
    /\ UNCHANGED status

Settle(o) == Move(o, "taken", "over") /\ UNCHANGED executions

\* The runtime dies, and its successor settles every request that was taken.
Abandon ==
    /\ status' = [o \in Ops |-> IF status[o] = "taken" THEN "over" ELSE status[o]]
    /\ UNCHANGED executions

Next == Abandon \/ \E o \in Ops : Accept(o) \/ Take(o) \/ Return(o) \/ Execute(o) \/ Settle(o)

Spec == Init /\ [][Next]_vars
=============================================================================
