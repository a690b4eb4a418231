---------------------------- MODULE AbstractLock ----------------------------
(***************************************************************************)
(* What the vault lock promises its callers, with nothing of how it is     *)
(* kept: a live process becomes an owner only when there is none, and an   *)
(* owner stops being one only because it lets go or dies.  Owners are the  *)
(* processes that act as such, whatever a file says.                       *)
(***************************************************************************)
CONSTANT Procs   \* the processes that may take the lock

VARIABLES
    owners,   \* the live processes that go on as owners of the lock
    alive     \* the processes that have not died

avars == <<owners, alive>>

Init ==
    /\ owners = {}
    /\ alive = Procs

Take(p) ==
    /\ p \in alive
    /\ owners = {}
    /\ owners' = {p}
    /\ UNCHANGED alive

LetGo(p) ==
    /\ p \in owners
    /\ owners' = owners \ {p}
    /\ UNCHANGED alive

Kill(S) ==
    /\ alive' = alive \ S
    /\ owners' = owners \ S

Next ==
    \/ \E p \in Procs : Take(p) \/ LetGo(p)
    \/ \E S \in SUBSET Procs : Kill(S)

Spec == Init /\ [][Next]_avars
=============================================================================
