----------------------------- MODULE VaultLock ------------------------------
(***************************************************************************)
(* The exclusive lock every writing command takes (src/guards/lock.mjs)    *)
(* at the grain of its system calls: the exclusive link, the read of a     *)
(* lock found taken, the judgement of its holder, the reclaim marker, the  *)
(* rename over a dead lock, the release, and the join of a round's lock by *)
(* the `propose` the round's model runs.  A process can die between any    *)
(* two calls.                                                              *)
(*                                                                         *)
(* A lock file is the process it names: its text carries a token of 128    *)
(* random bits made by one acquire, so "same bytes and same inode" is      *)
(* "the same acquire".  A process is one run of a command and acquires     *)
(* once.                                                                   *)
(***************************************************************************)
EXTENDS Naturals, FiniteSets

CONSTANTS
    Procs,        \* one per run of a command
    NoProc,       \* nothing at that path
    Unreadable,   \* something is there and names no holder
    Judges,       \* <<me, holder>>: `me` can compare its identity with `holder`'s
    ParentOf,     \* the round whose token the process has in its environment
    MaxAttempts   \* MAX_ATTEMPTS

ASSUME ProcsAssumption ==
    /\ NoProc \notin Procs
    /\ Unreadable \notin Procs
    /\ Unreadable # NoProc
ASSUME JudgesAssumption == Judges \subseteq Procs \X Procs
ASSUME ParentAssumption == ParentOf \in [Procs -> Procs \cup {NoProc}]
ASSUME AttemptsAssumption == MaxAttempts \in Nat \ {0}

VARIABLES
    lock,     \* brain-kit.lock: the process it names, Unreadable or NoProc
    marker,   \* brain-kit.lock.reclaim: the process it names or NoProc
    alive,    \* the processes that have not died
    pc,       \* where each process is
    laps,     \* `attempt`, the laps of the acquire's loop already used
    seen,     \* the lock as the process last read it
    found     \* the marker as the process last read it

vars == <<lock, marker, alive, pc, laps, seen, found>>

(***************************************************************************)
(* The points of a run.  "ended" is a release that is complete, or a       *)
(* command that had joined and is over.                                    *)
(***************************************************************************)
Acquiring == {"join", "link", "taken", "judge", "mark", "contended",
              "recheck", "claim", "rename", "unmarkLost", "unmarkWon"}
Holding   == {"held", "ending", "unlinking"}
Owning    == Holding \cup {"unmarkWon"}
Marking   == {"claim", "rename", "unmarkLost", "unmarkWon"}
Refused   == {"lockHeld", "reclaimDied"}
Places    == {"idle", "joined", "ended"} \cup Acquiring \cup Holding \cup Refused

TypeOK ==
    /\ lock \in Procs \cup {NoProc, Unreadable}
    /\ marker \in Procs \cup {NoProc}
    /\ alive \in SUBSET Procs
    /\ pc \in [Procs -> Places]
    /\ laps \in [Procs -> 0 .. MaxAttempts]
    /\ seen \in [Procs -> Procs \cup {NoProc, Unreadable}]
    /\ found \in [Procs -> Procs \cup {NoProc}]

Init ==
    /\ lock \in {NoProc, Unreadable}
    /\ marker = NoProc
    /\ alive = Procs
    /\ pc = [p \in Procs |-> "idle"]
    /\ laps = [p \in Procs |-> 0]
    /\ seen = [p \in Procs |-> NoProc]
    /\ found = [p \in Procs |-> NoProc]

(* isStale: the holder is provably dead.  Which identities can be compared *)
(* is the constant Judges; LockIdentity.tla models the comparison itself.  *)
Stale(holder, me) == holder \notin alive /\ <<me, holder>> \in Judges

Goto(p, place) == pc' = [pc EXCEPT ![p] = place]

(* `continue`: one more lap, or LockHeld when they are used up.            *)
NextLap(p) ==
    /\ laps' = [laps EXCEPT ![p] = @ + 1]
    /\ Goto(p, IF laps[p] + 1 < MaxAttempts THEN "link" ELSE "lockHeld")

(***************************************************************************)
(* The start of a command.  One with a round's token was started by the    *)
(* model of that round: while the round runs, or after the round was       *)
(* killed outright, for the model then lives on.                           *)
(***************************************************************************)
Start(p) ==
    /\ pc[p] = "idle"
    /\ IF ParentOf[p] = NoProc
       THEN Goto(p, "link")
       ELSE pc[ParentOf[p]] = "held" /\ Goto(p, "join")
    /\ UNCHANGED <<lock, marker, alive, laps, seen, found>>

(* joinOrAcquire: join the round's lock when it is there and its holder is *)
(* not provably dead, acquire as any command does otherwise.               *)
Join(p) ==
    /\ pc[p] = "join"
    /\ IF lock = ParentOf[p] /\ ~Stale(lock, p)
       THEN Goto(p, "joined")
       ELSE Goto(p, "link")
    /\ UNCHANGED <<lock, marker, alive, laps, seen, found>>

LinkLock(p) ==
    /\ pc[p] = "link"
    /\ IF lock = NoProc
       THEN lock' = p /\ Goto(p, "held")
       ELSE Goto(p, "taken") /\ UNCHANGED lock
    /\ UNCHANGED <<marker, alive, laps, seen, found>>

ReadTaken(p) ==
    /\ pc[p] = "taken"
    /\ IF lock = NoProc
       THEN NextLap(p) /\ UNCHANGED seen
       ELSE /\ seen' = [seen EXCEPT ![p] = lock]
            /\ Goto(p, "judge")
            /\ UNCHANGED laps
    /\ UNCHANGED <<lock, marker, alive, found>>

Judge(p) ==
    /\ pc[p] = "judge"
    /\ Goto(p, IF Stale(seen[p], p) THEN "mark" ELSE "lockHeld")
    /\ UNCHANGED <<lock, marker, alive, laps, seen, found>>

(* Mutant: the marker is written, not created exclusively.                 *)
LinkMarkerOver(p) ==
    /\ pc[p] = "mark"
    /\ marker' = p
    /\ Goto(p, "claim")
    /\ UNCHANGED <<lock, alive, laps, seen, found>>

LinkMarker(p) ==
    /\ pc[p] = "mark"
    /\ IF marker = NoProc
       THEN marker' = p /\ Goto(p, "claim")
       ELSE Goto(p, "contended") /\ UNCHANGED marker
    /\ UNCHANGED <<lock, alive, laps, seen, found>>

(* Mutant: a marker found taken is waited for.                             *)
ReadMarkerWaiting(p) ==
    /\ pc[p] = "contended"
    /\ marker = NoProc
    /\ NextLap(p)
    /\ UNCHANGED <<lock, marker, alive, seen, found>>

ReadMarker(p) ==
    /\ pc[p] = "contended"
    /\ IF marker = NoProc
       THEN NextLap(p) /\ UNCHANGED found
       ELSE /\ found' = [found EXCEPT ![p] = marker]
            /\ Goto(p, "recheck")
            /\ UNCHANGED laps
    /\ UNCHANGED <<lock, marker, alive, seen>>

(* A marker found taken names its holder only while the lock is still the  *)
(* dead one this process judged.                                           *)
Recheck(p) ==
    /\ pc[p] = "recheck"
    /\ IF lock # seen[p]
       THEN NextLap(p)
       ELSE /\ Goto(p, IF Stale(found[p], p) THEN "reclaimDied" ELSE "lockHeld")
            /\ UNCHANGED laps
    /\ UNCHANGED <<lock, marker, alive, seen, found>>

(* Mutant: the lock is not read again under the marker.                    *)
ClaimUnchecked(p) ==
    /\ pc[p] = "claim"
    /\ Goto(p, "rename")
    /\ UNCHANGED <<lock, marker, alive, laps, seen, found>>

(* Mutant: the lock is compared with this process's own, as in a release.  *)
ClaimOwn(p) ==
    /\ pc[p] = "claim"
    /\ Goto(p, IF lock = p THEN "rename" ELSE "unmarkLost")
    /\ UNCHANGED <<lock, marker, alive, laps, seen, found>>

(* isUnchanged, read while this process holds the marker.                  *)
Claim(p) ==
    /\ pc[p] = "claim"
    /\ Goto(p, IF lock = seen[p] THEN "rename" ELSE "unmarkLost")
    /\ UNCHANGED <<lock, marker, alive, laps, seen, found>>

(* Mutant: delete, then create on the next lap.                            *)
RenameByDelete(p) ==
    /\ pc[p] = "rename"
    /\ lock' = NoProc
    /\ Goto(p, "unmarkLost")
    /\ UNCHANGED <<marker, alive, laps, seen, found>>

Rename(p) ==
    /\ pc[p] = "rename"
    /\ lock' = p
    /\ Goto(p, "unmarkWon")
    /\ UNCHANGED <<marker, alive, laps, seen, found>>

(* The `finally` of reclaim: whatever marker is at that path is removed.   *)
Unmark(p) ==
    /\ pc[p] \in {"unmarkLost", "unmarkWon"}
    /\ marker' = NoProc
    /\ IF pc[p] = "unmarkWon"
       THEN Goto(p, "held") /\ UNCHANGED laps
       ELSE NextLap(p)
    /\ UNCHANGED <<lock, alive, seen, found>>

(* A round ends its model's whole process group before it lets go.         *)
EndGroup(p) ==
    /\ pc[p] = "held"
    /\ alive' = alive \ {c \in Procs : ParentOf[c] = p /\ pc[c] # "idle"}
    /\ Goto(p, "ending")
    /\ UNCHANGED <<lock, marker, laps, seen, found>>

(* The releaser: the lock is read again, and unlinked only when it is      *)
(* still the one this acquire placed.                                      *)
CheckOwn(p) ==
    /\ pc[p] = "ending"
    /\ Goto(p, IF lock = p THEN "unlinking" ELSE "ended")
    /\ UNCHANGED <<lock, marker, alive, laps, seen, found>>

Unlink(p) ==
    /\ pc[p] = "unlinking"
    /\ lock' = NoProc
    /\ Goto(p, "ended")
    /\ UNCHANGED <<marker, alive, laps, seen, found>>

(* A command that joined is over; its release removes nothing.             *)
EndJoined(p) ==
    /\ pc[p] = "joined"
    /\ Goto(p, "ended")
    /\ UNCHANGED <<lock, marker, alive, laps, seen, found>>

(* SIGKILL, a power cut: nothing of the process runs again, and what it    *)
(* placed stays.                                                           *)
Die(p) ==
    /\ pc[p] # "idle"
    /\ alive' = alive \ {p}
    /\ UNCHANGED <<lock, marker, pc, laps, seen, found>>

(* The person removes a marker left by a reclaim that died, having been    *)
(* told of it.                                                             *)
PersonRemovesMarker ==
    /\ marker \in Procs \ alive
    /\ \E p \in Procs : pc[p] = "reclaimDied"
    /\ marker' = NoProc
    /\ UNCHANGED <<lock, alive, pc, laps, seen, found>>

AcquireStep(p) ==
    \/ Join(p) \/ LinkLock(p) \/ ReadTaken(p) \/ Judge(p)
    \/ LinkMarker(p) \/ ReadMarker(p) \/ Recheck(p)
    \/ Claim(p) \/ Rename(p) \/ Unmark(p)

ReleaseStep(p) == EndGroup(p) \/ CheckOwn(p) \/ Unlink(p) \/ EndJoined(p)

Step(p) == p \in alive /\ (Start(p) \/ AcquireStep(p) \/ ReleaseStep(p) \/ Die(p))

Next == (\E p \in Procs : Step(p)) \/ PersonRemovesMarker

Spec == Init /\ [][Next]_vars

(* A process that runs is scheduled: nothing in an acquire waits.          *)
Fairness == \A p \in Procs : WF_vars(p \in alive /\ AcquireStep(p))
FairSpec == Spec /\ Fairness

-----------------------------------------------------------------------------
(***************************************************************************)
(* Properties.                                                             *)
(***************************************************************************)

(* Never two live processes that own the lock at once, whatever died       *)
(* during a reclaim before: the incident of two rounds in one tree.        *)
MutualExclusion ==
    \A p, q \in alive : pc[p] \in Owning /\ pc[q] \in Owning => p = q

(* A live owner's lock is the one on disk: no reclaim took it for dead and *)
(* no release or marker removal of another process removed it.             *)
OwnerIsNamed == \A p \in alive : pc[p] \in Owning => lock = p

(* A lock left by a dead process is replaced and never deleted: its name   *)
(* is not free for one instant, so no plain acquirer slips into a reclaim. *)
DeadLockNeverVacated ==
    [][(lock \in Procs \ alive) /\ lock' # lock => (lock' \in alive)]_vars

(* A command that joined a round never goes on writing past a round that   *)
(* ended by itself: while both live, the round still owns the lock.        *)
JoinedWithinRound ==
    \A c \in alive :
        pc[c] = "joined" /\ ParentOf[c] \in alive =>
            /\ pc[ParentOf[c]] = "held"
            /\ lock = ParentOf[c]

(* No two live writers of different rounds: an owner, and a command that   *)
(* joined a round, never write at once unless that command belongs to the  *)
(* owner.  docs/scheduling.md and curate.mjs promise it even of a round    *)
(* killed by SIGKILL ("the lock is taken back as stale only after that").  *)
WritersOfOneRound ==
    \A p, c \in alive :
        pc[p] \in Holding /\ pc[c] = "joined" => ParentOf[c] = p

Contends(p, d) == p \in alive /\ pc[p] = "mark" /\ seen[p] = d /\ lock = d

(* Every acquire answers: it never waits and never goes round for ever;    *)
(* and reclaimers that contend for one dead lock do not all lose: while    *)
(* one of them lives, the dead lock is replaced, unless a reclaim died and *)
(* left its marker.                                                        *)
AcquireAnswers ==
    /\ \A p \in Procs : pc[p] \in Acquiring ~> (pc[p] \notin Acquiring \/ p \notin alive)
    /\ \A p, d \in Procs :
          Contends(p, d) ~> (lock # d \/ p \notin alive \/ marker \in Procs \ alive)

-----------------------------------------------------------------------------
(***************************************************************************)
(* The inductive invariant.  A lock judged stale names a process that is   *)
(* dead, and stays dead; a live process inside a reclaim is the one the    *)
(* marker names, so there is one; while it is between its last look at the *)
(* lock and its rename the lock stays the dead one it judged; and a live   *)
(* owner is the process the lock names.                                    *)
(***************************************************************************)
Judged == {"mark", "contended", "recheck", "claim", "rename"}

SeenIsDead    == \A p \in Procs : pc[p] \in Judged => seen[p] \in Procs \ alive
MarkerIsMine  == \A p \in alive : pc[p] \in Marking => marker = p
LockStaysDead == \A p \in alive : pc[p] = "rename" => lock = seen[p]
GroupInRound  == \A c \in alive : pc[c] # "idle" /\ ParentOf[c] \in alive => pc[ParentOf[c]] = "held"
LapsLeft      == \A p \in Procs : pc[p] \in Acquiring \cup {"idle"} => laps[p] < MaxAttempts

IInv ==
    /\ TypeOK
    /\ SeenIsDead
    /\ MarkerIsMine
    /\ LockStaysDead
    /\ LapsLeft
    /\ GroupInRound
    /\ OwnerIsNamed

-----------------------------------------------------------------------------
(* The abstract lock: its owners are the live processes that act as such,  *)
(* from the link or the rename that placed their lock to its unlink.       *)
Abstract == INSTANCE AbstractLock WITH
    owners <- {p \in alive : pc[p] \in Owning}
ImplementsAbstractLock == Abstract!Spec
=============================================================================
