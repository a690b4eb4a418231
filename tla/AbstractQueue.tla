--------------------------- MODULE AbstractQueue ---------------------------
(***************************************************************************)
(* What the question queue promises its writers: each command that answers *)
(* took effect whole, at one moment, on what every command before it left. *)
(***************************************************************************)
EXTENDS QueueRules

CONSTANTS Writers, NoReply

VARIABLES queue, reply

Init ==
    /\ queue \in Seq({Corrupt} \cup {Question(text, day) : text \in Texts, day \in Days})
    /\ reply = [w \in Writers |-> NoReply]

Do(w, op) ==
    /\ reply[w] = NoReply
    /\ queue' = Written(queue, op)
    /\ reply' = [reply EXCEPT ![w] = Outcome(queue, op)]

Next == \E w \in Writers, op \in Ops : Do(w, op)

Spec == Init /\ [][Next]_<<queue, reply>>
=============================================================================
