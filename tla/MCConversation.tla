----------------------------- MODULE MCConversation -----------------------------
(* Conversation for TLC: one operation id, three HTTP requests, two texts. *)
EXTENDS Conversation

CONSTANTS o1, t1, t2

\* What races for one operation id: a dispatch and its retry with another text, which chooses a
\* Workflow, the answer to a question, the hand-over to the chat, a steering message.
SomeArrivals ==
    {[how |-> "dispatch", op |-> o1, text |-> t1], [how |-> "dispatch", op |-> o1, text |-> t2],
     [how |-> "confirm", op |-> o1, text |-> t1],
     [how |-> "prompt", op |-> o1, text |-> t1], [how |-> "steer", op |-> o1, text |-> t1]}
=============================================================================
