--------------------------- MODULE VaultLockProofs --------------------------
(***************************************************************************)
(* For any number of processes, any relation of who can judge whom, any    *)
(* deaths and any number of laps: the invariant of VaultLock is inductive, *)
(* at most one live process owns the lock, and every step of the detailed  *)
(* lock is a step of the abstract one.                                     *)
(***************************************************************************)
EXTENDS VaultLock, TLAPS

USE ProcsAssumption, JudgesAssumption, ParentAssumption, AttemptsAssumption

(* The initial states satisfy the invariant.                               *)
LEMMA InitIInv == Init => IInv
  BY DEF Init, IInv, TypeOK, SeenIsDead, MarkerIsMine, LockStaysDead, LapsLeft, GroupInRound,
         OwnerIsNamed, Places, Judged, Marking, Owning, Holding, Acquiring, Refused

(* A step of a live process keeps the invariant, one case per action.      *)
LEMMA StepIInv ==
  ASSUME IInv, NEW p \in Procs, Step(p)
  PROVE  IInv'
  <1> USE DEF IInv, TypeOK, SeenIsDead, MarkerIsMine, LockStaysDead, LapsLeft, GroupInRound, OwnerIsNamed,
              Places, Judged, Marking, Owning, Holding, Acquiring, Refused, Goto
  <1>a. p \in alive
    BY DEF Step
  <1>1. CASE Start(p)
    BY <1>a, <1>1 DEF Start
  <1>2. CASE Join(p)
    BY <1>a, <1>2 DEF Join
  <1>3. CASE LinkLock(p)
    BY <1>a, <1>3 DEF LinkLock
  <1>4. CASE ReadTaken(p)
    BY <1>a, <1>4 DEF ReadTaken, NextLap
  <1>5. CASE Judge(p)
    BY <1>a, <1>5 DEF Judge, Stale
  <1>6. CASE LinkMarker(p)
    BY <1>a, <1>6 DEF LinkMarker
  <1>7. CASE ReadMarker(p)
    BY <1>a, <1>7 DEF ReadMarker, NextLap
  <1>8. CASE Recheck(p)
    BY <1>a, <1>8 DEF Recheck, NextLap, Stale
  <1>9. CASE Claim(p)
    BY <1>a, <1>9 DEF Claim
  <1>10. CASE Rename(p)
    BY <1>a, <1>10 DEF Rename
  <1>11. CASE Unmark(p)
    BY <1>a, <1>11 DEF Unmark, NextLap
  <1>12. CASE EndGroup(p)
    BY <1>a, <1>12 DEF EndGroup
  <1>13. CASE CheckOwn(p)
    BY <1>a, <1>13 DEF CheckOwn
  <1>14. CASE Unlink(p)
    BY <1>a, <1>14 DEF Unlink
  <1>15. CASE EndJoined(p)
    BY <1>a, <1>15 DEF EndJoined
  <1>16. CASE Die(p)
    BY <1>a, <1>16 DEF Die
  <1> QED
    BY <1>1, <1>2, <1>3, <1>4, <1>5, <1>6, <1>7, <1>8, <1>9, <1>10, <1>11, <1>12, <1>13, <1>14, <1>15, <1>16 DEF Step, AcquireStep, ReleaseStep

(* The removal of a dead reclaim's marker keeps the invariant: the marker  *)
(* of a live reclaim is never the one removed.                             *)
LEMMA PersonIInv == IInv /\ PersonRemovesMarker => IInv'
  BY DEF PersonRemovesMarker, IInv, TypeOK, SeenIsDead, MarkerIsMine, LockStaysDead,
         LapsLeft, GroupInRound, OwnerIsNamed, Judged, Marking, Owning, Holding

(* The invariant holds in every behaviour of the lock.                     *)
THEOREM InvariantHolds == Spec => []IInv
  <1>1. IInv /\ [Next]_vars => IInv'
    <2> SUFFICES ASSUME IInv, [Next]_vars PROVE IInv'
      OBVIOUS
    <2>1. ASSUME NEW p \in Procs, Step(p) PROVE IInv'
      BY <2>1, StepIInv
    <2>2. CASE PersonRemovesMarker
      BY <2>2, PersonIInv
    <2>3. CASE UNCHANGED vars
      BY <2>3 DEF vars, IInv, TypeOK, SeenIsDead, MarkerIsMine, LockStaysDead, LapsLeft, GroupInRound,
                  OwnerIsNamed
    <2> QED
      BY <2>1, <2>2, <2>3 DEF Next
  <1> QED
    BY InitIInv, <1>1, PTL DEF Spec

(* Type correctness of the lock, its marker and every process.             *)
THEOREM TypeCorrect == Spec => []TypeOK
  <1>1. IInv => TypeOK
    BY DEF IInv
  <1> QED
    BY InvariantHolds, <1>1, PTL

(* No reclaim, release or marker removal of another process takes the lock *)
(* from a live owner.                                                      *)
THEOREM OwnerNeverRobbed == Spec => []OwnerIsNamed
  <1>1. IInv => OwnerIsNamed
    BY DEF IInv
  <1> QED
    BY InvariantHolds, <1>1, PTL

(* At most one live process owns the vault lock, for any number of         *)
(* commands dying anywhere in an acquire, a reclaim or a release.          *)
THEOREM OneOwner == Spec => []MutualExclusion
  <1>1. IInv => MutualExclusion
    BY DEF IInv, OwnerIsNamed, MutualExclusion
  <1> QED
    BY InvariantHolds, <1>1, PTL

(* While a round lives, the command its model started that joined its lock *)
(* writes only under that lock: the round ends the group before it lets go.*)
THEOREM JoinedNeverOutlivesRound == Spec => []JoinedWithinRound
  <1>1. IInv => JoinedWithinRound
    BY DEF IInv, GroupInRound, OwnerIsNamed, Owning, Holding, JoinedWithinRound
  <1> QED
    BY InvariantHolds, <1>1, PTL

(* A dead lock's name is never free: a reclaim replaces it, in one step,   *)
(* by the lock of a live process.                                          *)
THEOREM DeadLockReplacedInPlace == Spec => DeadLockNeverVacated
  <1> DEFINE D == (lock \in Procs \ alive) /\ lock' # lock => (lock' \in alive)
  <1>1. IInv /\ [Next]_vars => [D]_vars
    <2> SUFFICES ASSUME IInv, Next PROVE D
      OBVIOUS
    <2>1. ASSUME NEW p \in Procs, Step(p) PROVE D
      <3>1. CASE LinkLock(p)
        BY <3>1 DEF LinkLock
      <3>2. CASE Rename(p)
        BY <2>1, <3>2 DEF Rename, Step
      <3>3. CASE Unlink(p)
        BY <2>1, <3>3 DEF Unlink, Step, IInv, OwnerIsNamed, Owning, Holding
      <3>4. CASE UNCHANGED lock
        BY <3>4
      <3> QED
        BY <2>1, <3>1, <3>2, <3>3, <3>4
           DEF Step, AcquireStep, ReleaseStep, Start, Join, ReadTaken, Judge, LinkMarker,
               ReadMarker, Recheck, Claim, Unmark, EndGroup, CheckOwn, EndJoined, Die
    <2>2. CASE PersonRemovesMarker
      BY <2>2 DEF PersonRemovesMarker
    <2> QED
      BY <2>1, <2>2 DEF Next
  <1> QED
    BY InvariantHolds, <1>1, PTL DEF Spec, DeadLockNeverVacated

-----------------------------------------------------------------------------
(* A step of a process, seen from the abstract lock: the link and the      *)
(* rename take it, the unlink and a death lose it.                         *)
LEMMA StepRefines ==
  ASSUME IInv, NEW p \in Procs, Step(p)
  PROVE  Abstract!Next \/ UNCHANGED Abstract!avars
  <1> DEFINE own == {q \in alive : pc[q] \in Owning}
  <1> USE DEF IInv, TypeOK, Owning, Holding
  <1>a. p \in alive
    BY DEF Step
  <1>1. CASE LinkLock(p) /\ lock = NoProc
    <2>1. own = {}
      BY <1>1 DEF OwnerIsNamed
    <2>2. own' = {p}
      BY <1>a, <1>1, <2>1 DEF LinkLock, Goto
    <2>3. Abstract!Take(p)
      BY <1>a, <1>1, <2>1, <2>2 DEF LinkLock, Abstract!Take
    <2> QED
      BY <2>3 DEF Abstract!Next
  <1>2. CASE Rename(p)
    <2>1. own = {}
      BY <1>a, <1>2 DEF Rename, OwnerIsNamed, LockStaysDead, SeenIsDead, Judged
    <2>2. own' = {p}
      BY <1>a, <1>2, <2>1 DEF Rename, Goto
    <2>3. Abstract!Take(p)
      BY <1>a, <1>2, <2>1, <2>2 DEF Rename, Abstract!Take
    <2> QED
      BY <2>3 DEF Abstract!Next
  <1>3. CASE Unlink(p) \/ CheckOwn(p)
    <2>1. own' = own \/ own' = own \ {p}
      BY <1>a, <1>3 DEF Unlink, CheckOwn, Goto
    <2>2. p \in own /\ alive' = alive
      BY <1>a, <1>3 DEF Unlink, CheckOwn
    <2> QED
      BY <2>1, <2>2 DEF Abstract!Next, Abstract!LetGo, Abstract!avars
  <1>4. CASE EndGroup(p)
    <2> DEFINE S == {c \in Procs : ParentOf[c] = p /\ pc[c] # "idle"}
    <2>1. own' = own \ S /\ alive' = alive \ S
      BY <1>a, <1>4 DEF EndGroup, Goto
    <2>2. S \in SUBSET Procs
      OBVIOUS
    <2> QED
      BY <2>1, <2>2 DEF Abstract!Next, Abstract!Kill
  <1>5. CASE Die(p)
    <2>1. own' = own \ {p} /\ alive' = alive \ {p}
      BY <1>a, <1>5 DEF Die
    <2> QED
      BY <2>1 DEF Abstract!Next, Abstract!Kill
  <1>6. CASE own' = own /\ alive' = alive
    BY <1>6 DEF Abstract!avars
  <1>7. CASE Unmark(p)
    <2>1. own' = own /\ alive' = alive
      BY <1>7 DEF Unmark, NextLap, Goto
    <2> QED
      BY <2>1, <1>6
  <1>8. CASE Start(p) \/ Join(p) \/ (LinkLock(p) /\ lock # NoProc) \/ ReadTaken(p) \/ Judge(p)
             \/ LinkMarker(p) \/ ReadMarker(p) \/ Recheck(p) \/ Claim(p) \/ EndJoined(p)
    <2>1. own' = own /\ alive' = alive
      BY <1>8 DEF Start, Join, LinkLock, ReadTaken, Judge, LinkMarker, ReadMarker, Recheck,
                  Claim, EndJoined, NextLap, Goto
    <2> QED
      BY <2>1, <1>6
  <1> QED
    BY <1>1, <1>2, <1>3, <1>4, <1>5, <1>7, <1>8 DEF Step, AcquireStep, ReleaseStep

(* The vault lock implements the abstract lock.                            *)
THEOREM ImplementsAbstract == Spec => ImplementsAbstractLock
  <1>1. Init => Abstract!Init
    BY DEF Init, Abstract!Init, Owning, Holding
  <1>2. IInv /\ [Next]_vars => [Abstract!Next]_Abstract!avars
    <2> SUFFICES ASSUME IInv, [Next]_vars
                 PROVE  Abstract!Next \/ UNCHANGED Abstract!avars
      OBVIOUS
    <2>1. ASSUME NEW p \in Procs, Step(p)
          PROVE  Abstract!Next \/ UNCHANGED Abstract!avars
      BY <2>1, StepRefines
    <2>2. CASE PersonRemovesMarker \/ UNCHANGED vars
      BY <2>2 DEF PersonRemovesMarker, vars, Abstract!avars
    <2> QED
      BY <2>1, <2>2 DEF Next
  <1> QED
    BY InvariantHolds, <1>1, <1>2, PTL DEF Spec, ImplementsAbstractLock, Abstract!Spec
=============================================================================
