---------------------------- MODULE SessionsProofs ----------------------------
(***************************************************************************)
(* What the hooks promise a person, for any sessions, with an id or        *)
(* without, any rounds, paths and settings of the bridge: a Stop that lets *)
(* a session go leaves none of its work unasked, what it asked about is    *)
(* told to the session that begins next, and the legacy job never works    *)
(* beside a command of the kit.                                            *)
(***************************************************************************)
EXTENDS Sessions, TLAPS

USE SessionsAssumption

-----------------------------------------------------------------------------
(* Type correctness.                                                       *)

LEMMA DirtyIsOfPaths == dirty \subseteq Paths
  BY DEF dirty

LEMMA SinceIsDirty ==
  ASSUME NEW s \in Sessions, NEW readable \in BOOLEAN
  PROVE  Since(s, readable) \subseteq dirty
  BY DEF Since, Proposed

LEMMA RecordTyped ==
  ASSUME TypeOK, NEW s \in Sessions, NEW names \in SUBSET Paths
  PROVE  Record(s, names) \in SUBSET Paths
  <1>1. CASE reminded = Nobody
    BY <1>1 DEF Record, Recorded
  <1>2. CASE reminded # Nobody
    BY <1>2 DEF Record, Recorded, TypeOK, Written
  <1> QED
    BY <1>1, <1>2

LEMMA TypeHolds == TypeOK /\ [Next]_vars => TypeOK'
  <1> SUFFICES ASSUME TypeOK, [Next]_vars PROVE TypeOK'
    OBVIOUS
  <1>1. ASSUME NEW s \in Sessions, SessionStep(s) PROVE TypeOK'
    <2>1. ASSUME NEW source \in {"startup", "compact"}, SessionStart(s, source) PROVE TypeOK'
      <3>1. CASE UNCHANGED vars
        BY <3>1 DEF TypeOK, vars, files, locks, session
      <3>2. CASE source = "startup" /\ at[s] = "off" /\ TakeSnapshot(s)
        <4>1. snapshot' \in Written
          BY <3>2, DirtyIsOfPaths DEF TakeSnapshot, IdOf, Written
        <4>2. before' \in SUBSET Paths
          BY <2>1, <3>2, DirtyIsOfPaths DEF SessionStart, TypeOK, vars, session
        <4> QED
          BY <2>1, <3>2, <4>1, <4>2 DEF SessionStart, TypeOK, vars, files, locks, session, Places
      <3> QED
        BY <2>1, <3>1, <3>2 DEF SessionStart
    <2>2. ASSUME SessionStartFails(s) PROVE TypeOK'
      BY <2>2, DirtyIsOfPaths DEF SessionStartFails, TypeOK, files, locks, Places
    <2>3. ASSUME StopFails(s) PROVE TypeOK'
      BY <2>3 DEF StopFails, Block, Leave, TypeOK, files, locks, Places
    <2>4. ASSUME StopBegins(s) PROVE TypeOK'
      BY <2>4 DEF StopBegins, Release, Block, Leave, GoOn, TypeOK, files, locks, Places
    <2>5. ASSUME StopProbes(s) PROVE TypeOK'
      BY <2>5 DEF StopProbes, Release, Leave, GoOn, TypeOK, files, locks, Places
    <2>6. ASSUME NEW readable \in BOOLEAN, NEW written \in BOOLEAN, StopDecides(s, readable, written)
          PROVE  TypeOK'
      <3> DEFINE names == Since(s, readable)
      <3>1. names \in SUBSET Paths
        BY SinceIsDirty, DirtyIsOfPaths
      <3>2. at' \in [Sessions -> Places] /\ active' \in [Sessions -> BOOLEAN]
        BY <2>6 DEF StopDecides, Ask, Release, Block, Leave, TypeOK, Places
      <3>3. CASE UNCHANGED <<reminded, asked, spoiled>>
        BY <2>6, <3>2, <3>3 DEF StopDecides, TypeOK, locks
      <3>4. CASE Ask(s, names, written)
        <4>1. asked' \in SUBSET Paths
          BY <3>1, <3>4 DEF Ask, TypeOK
        <4>2. reminded' \in Written \cup {Nobody}
          BY <3>1, <3>4, RecordTyped DEF Ask, TypeOK, Written
        <4>3. spoiled' \in BOOLEAN
          BY <3>4 DEF Ask, TypeOK
        <4> QED
          BY <2>6, <3>2, <4>1, <4>2, <4>3 DEF StopDecides, TypeOK, locks
      <3> QED
        BY <2>6, <3>3, <3>4 DEF StopDecides
    <2>7. ASSUME NEW p \in Paths, Edit(s, p) PROVE TypeOK'
      BY <2>7 DEF Edit, TypeOK, locks
    <2>8. ASSUME NEW S \in SUBSET Paths, Propose(s, S) PROVE TypeOK'
      BY <2>8 DEF Propose, TypeOK, locks, session
    <2> QED
      BY <1>1, <2>1, <2>2, <2>3, <2>4, <2>5, <2>6, <2>7, <2>8 DEF SessionStep, StopStep
  <1>2. ASSUME NEW r \in Rounds, RoundStep(r) PROVE TypeOK'
    BY <1>2 DEF RoundStep, LockVault, TakeBridge, ReleaseLocks, RoundDies, RoundWrites, TypeOK,
                files, locks, session
  <1>3. CASE JobStarts \/ JobEnds
    BY <1>3 DEF JobStarts, JobEnds, TypeOK, files, session
  <1>4. ASSUME NEW p \in Paths, Land(p) PROVE TypeOK'
    BY <1>4 DEF Land, TypeOK, locks, session
  <1>5. CASE UNCHANGED vars
    BY <1>5 DEF TypeOK, vars, files, locks, session
  <1> QED
    BY <1>1, <1>2, <1>3, <1>4, <1>5 DEF Next

-----------------------------------------------------------------------------
(* The bridge: who has the legacy file, and who works in the tree.         *)

LEMMA BridgeHolds == TypeOK /\ WorksUnderBridge /\ [Next]_vars => WorksUnderBridge'
  <1> SUFFICES ASSUME TypeOK, WorksUnderBridge, [Next]_vars PROVE WorksUnderBridge'
    OBVIOUS
  <1>1. CASE UNCHANGED <<bridge, locks>>
    BY <1>1 DEF WorksUnderBridge, locks
  <1>2. ASSUME NEW s \in Sessions, SessionStep(s) PROVE UNCHANGED <<bridge, locks>>
    <2>1. ASSUME NEW readable \in BOOLEAN, NEW written \in BOOLEAN, StopDecides(s, readable, written)
          PROVE  UNCHANGED <<bridge, locks>>
      BY <2>1 DEF StopDecides
    <2> QED
      BY <1>2, <2>1 DEF SessionStep, SessionStart, SessionStartFails, StopFails, StopStep, StopBegins,
                        StopProbes, Edit, Propose, files, vars
  <1>3. ASSUME NEW r \in Rounds, RoundStep(r) PROVE WorksUnderBridge'
    <2>1. CASE LockVault(r)
      BY <2>1 DEF LockVault, WorksUnderBridge, TypeOK, files
    <2>2. CASE TakeBridge(r)
      BY <2>2 DEF TakeBridge, WorksUnderBridge, TypeOK, files
    <2>3. CASE ReleaseLocks(r)
      BY <2>3 DEF ReleaseLocks, WorksUnderBridge, TypeOK, files
    <2>4. CASE RoundDies(r)
      BY <2>4 DEF RoundDies, WorksUnderBridge, TypeOK, files
    <2>5. ASSUME NEW p \in Paths, RoundWrites(r, p) PROVE WorksUnderBridge'
      BY <2>5 DEF RoundWrites, WorksUnderBridge, locks
    <2> QED
      BY <1>3, <2>1, <2>2, <2>3, <2>4, <2>5 DEF RoundStep
  <1>4. CASE JobStarts
    BY <1>4 DEF JobStarts, WorksUnderBridge, TypeOK, files
  <1>5. CASE JobEnds
    BY <1>5 DEF JobEnds, WorksUnderBridge, TypeOK, files
  <1>6. ASSUME NEW p \in Paths, Land(p) PROVE UNCHANGED <<bridge, locks>>
    BY <1>6 DEF Land
  <1> QED
    BY <1>1, <1>2, <1>3, <1>4, <1>5, <1>6 DEF Next, vars, files

-----------------------------------------------------------------------------
(* The snapshot and the record: only a session's own start and its own     *)
(* Stop disturb them.                                                      *)

LEMMA OthersLeave ==
  ASSUME TypeOK, [Next]_vars
  PROVE  \/ /\ UNCHANGED <<snapshot, reminded, before, mine, asked, spoiled>>
            /\ at[Watched] = "off" <=> at'[Watched] = "off"
         \/ \E s \in Sessions, source \in {"startup", "compact"} : SessionStart(s, source)
         \/ \E s \in Sessions : SessionStartFails(s)
         \/ \E s \in Sessions, readable, written \in BOOLEAN : StopDecides(s, readable, written)
         \/ \E s \in Sessions, p \in Paths : Edit(s, p)
  <1> DEFINE Kept == /\ UNCHANGED <<snapshot, reminded, before, mine, asked, spoiled>>
                     /\ at[Watched] = "off" <=> at'[Watched] = "off"
  <1>1. ASSUME NEW s \in Sessions, StopFails(s) \/ StopBegins(s) \/ StopProbes(s) PROVE Kept
    <2>1. UNCHANGED <<snapshot, reminded, before, mine, asked, spoiled>>
      BY <1>1 DEF StopFails, StopBegins, StopProbes, files
    <2>2. at[s] # "off" /\ at'[s] # "off" /\ \A t \in Sessions \ {s} : at'[t] = at[t]
      BY <1>1 DEF StopFails, StopBegins, StopProbes, Release, Block, Leave, GoOn, Stopping, TypeOK
    <2> QED
      BY <2>1, <2>2
  <1>2. ASSUME NEW s \in Sessions, NEW S \in SUBSET Paths, Propose(s, S) PROVE Kept
    BY <1>2 DEF Propose, session
  <1>3. ASSUME NEW r \in Rounds, RoundStep(r) PROVE Kept
    BY <1>3 DEF RoundStep, LockVault, TakeBridge, ReleaseLocks, RoundDies, RoundWrites, session, files
  <1>4. CASE JobStarts \/ JobEnds
    BY <1>4 DEF JobStarts, JobEnds, files, session
  <1>5. ASSUME NEW p \in Paths, Land(p) PROVE Kept
    BY <1>5 DEF Land, session
  <1>6. CASE UNCHANGED vars
    BY <1>6 DEF vars, files, session
  <1> QED
    BY <1>1, <1>2, <1>3, <1>4, <1>5, <1>6, Zenon DEF Next, SessionStep, StopStep

LEMMA SnapshotHolds == TypeOK /\ SnapshotIsItsOwn /\ [Next]_vars => SnapshotIsItsOwn'
  <1> SUFFICES ASSUME TypeOK, SnapshotIsItsOwn, [Next]_vars PROVE SnapshotIsItsOwn'
    OBVIOUS
  <1> USE DEF SnapshotIsItsOwn
  <1>1. CASE /\ UNCHANGED <<snapshot, reminded, before, mine, asked, spoiled>>
             /\ at[Watched] = "off" <=> at'[Watched] = "off"
    BY <1>1
  <1>2. ASSUME NEW s \in Sessions, NEW source \in {"startup", "compact"}, SessionStart(s, source)
        PROVE  SnapshotIsItsOwn'
    <2>1. CASE UNCHANGED vars
      BY <2>1 DEF vars, files, session
    <2>2. CASE at[s] = "off" /\ TakeSnapshot(s) /\ at' = [at EXCEPT ![s] = "open"]
               /\ before' = (IF s = Watched THEN dirty ELSE before) /\ UNCHANGED mine
      <3>1. snapshot'.session = Watched => s = Watched
        BY <2>2 DEF TakeSnapshot, IdOf
      <3>2. CASE s = Watched
        BY <2>2, <3>2 DEF TakeSnapshot, TypeOK
      <3>3. CASE s # Watched
        BY <2>2, <3>1, <3>3 DEF TypeOK
      <3> QED
        BY <3>2, <3>3
    <2> QED
      BY <1>2, <2>1, <2>2 DEF SessionStart
  <1>3. ASSUME NEW s \in Sessions, SessionStartFails(s) PROVE SnapshotIsItsOwn'
    <2>1. CASE s = Watched
      BY <1>3, <2>1 DEF SessionStartFails, TypeOK, files
    <2>2. CASE s # Watched
      BY <1>3, <2>2 DEF SessionStartFails, TypeOK, files
    <2> QED
      BY <2>1, <2>2
  <1>4. ASSUME NEW s \in Sessions, NEW readable \in BOOLEAN, NEW written \in BOOLEAN,
               StopDecides(s, readable, written)
        PROVE  SnapshotIsItsOwn'
    BY <1>4 DEF StopDecides, Ask, Release, Block, Leave, TypeOK
  <1>5. ASSUME NEW s \in Sessions, NEW p \in Paths, Edit(s, p) PROVE SnapshotIsItsOwn'
    BY <1>5 DEF Edit, TypeOK
  <1> QED
    BY <1>1, <1>2, <1>3, <1>4, <1>5, OthersLeave, Zenon

LEMMA RecordHolds == TypeOK /\ RecordIsWhole /\ [Next]_vars => RecordIsWhole'
  <1> SUFFICES ASSUME TypeOK, RecordIsWhole, [Next]_vars PROVE RecordIsWhole'
    OBVIOUS
  <1>1. CASE UNCHANGED <<reminded, asked, spoiled>>
    BY <1>1 DEF RecordIsWhole
  <1>2. ASSUME NEW s \in Sessions, NEW readable \in BOOLEAN, NEW written \in BOOLEAN,
               Ask(s, Since(s, readable), written)
        PROVE  RecordIsWhole'
    <2> DEFINE names == Since(s, readable)
    <2>1. CASE s \in Anonymous
      BY <1>2, <2>1 DEF Ask, RecordIsWhole
    <2>2. CASE s \notin Anonymous /\ ~written
      BY <1>2, <2>2 DEF Ask, RecordIsWhole
    <2>3. CASE s \notin Anonymous /\ written
      <3>1. reminded' = [session |-> s, paths |-> Record(s, names)] /\ reminded' # Nobody
        <4>1. Record(s, names) \in SUBSET Paths
          BY RecordTyped, SinceIsDirty, DirtyIsOfPaths
        <4> QED
          BY <1>2, <2>3, <4>1 DEF Ask
      <3>2. CASE s = Watched
        BY <1>2, <2>3, <3>1, <3>2 DEF Ask, RecordIsWhole, Record, Recorded, IdOf
      <3>3. CASE s # Watched
        BY <1>2, <2>3, <3>1, <3>3 DEF Ask, RecordIsWhole
      <3> QED
        BY <3>2, <3>3
    <2> QED
      BY <2>1, <2>2, <2>3
  <1>3. ASSUME NEW s \in Sessions, NEW readable \in BOOLEAN, NEW written \in BOOLEAN,
               StopDecides(s, readable, written)
        PROVE  RecordIsWhole'
    BY <1>1, <1>2, <1>3 DEF StopDecides
  <1>4. ASSUME NEW s \in Sessions, NEW source \in {"startup", "compact"}, SessionStart(s, source)
        PROVE  UNCHANGED <<reminded, asked, spoiled>>
    BY <1>4 DEF SessionStart, vars, files, session
  <1>5. ASSUME NEW s \in Sessions, SessionStartFails(s) PROVE UNCHANGED <<reminded, asked, spoiled>>
    BY <1>5 DEF SessionStartFails, files
  <1>6. ASSUME NEW s \in Sessions, NEW p \in Paths, Edit(s, p) PROVE UNCHANGED <<reminded, asked, spoiled>>
    BY <1>6 DEF Edit
  <1> QED
    BY <1>1, <1>3, <1>4, <1>5, <1>6, OthersLeave, Zenon

-----------------------------------------------------------------------------
(* The theorems.                                                           *)

LEMMA InitHolds == Init => IInv
  <1> SUFFICES ASSUME Init PROVE IInv
    OBVIOUS
  <1>1. machine \in {"ok", "absent", "invalid", "elsewhere"} /\ bridge \in {"off", "on", "unusable", "invalid"}
    BY DEF Init, AllSettings
  <1>2. TypeOK
    BY <1>1 DEF Init, TypeOK, Places
  <1> QED
    BY <1>2 DEF Init, IInv, WorksUnderBridge, SnapshotIsItsOwn, RecordIsWhole

(* Who is under the bridge, whose the snapshot is and what the record      *)
(* names agree in every state (src/hooks/).                                *)
THEOREM SessionsInvariant == Spec => []IInv
  <1>1. IInv /\ [Next]_vars => IInv'
    BY TypeHolds, BridgeHolds, SnapshotHolds, RecordHolds DEF IInv
  <1> QED
    BY InitHolds, <1>1, PTL DEF Spec

(* The legacy job and a command at work are never both in the tree         *)
(* (legacy-lock.mjs, withLegacyLock).                                      *)
THEOREM JobWorksAlone == Spec => []NeverWithTheJob
  <1>1. IInv => NeverWithTheJob
    BY DEF IInv, WorksUnderBridge, NeverWithTheJob
  <1> QED
    BY SessionsInvariant, <1>1, PTL

(* A session that begins is told all the last one was asked about and left *)
(* (session-start.mjs, pendingSentence).                                   *)
THEOREM NextSessionIsTold == Spec => []LeftWorkIsTold
  <1>1. IInv => LeftWorkIsTold
    <2> SUFFICES ASSUME IInv, NEW s \in Sessions \ {Watched}, reminded # Nobody,
                        reminded.session = Watched, ~spoiled
                 PROVE  Pending(s, TRUE) = {p \in asked \cap dirty : <<p, content[p]>> \notin ledger}
      BY DEF LeftWorkIsTold
    <2>1. reminded.paths = asked
      BY DEF IInv, RecordIsWhole
    <2>2. reminded.session # IdOf(s)
      BY DEF IdOf
    <2> QED
      BY <2>1, <2>2 DEF Pending, Proposed
  <1> QED
    BY SessionsInvariant, <1>1, PTL

(* A Stop that lets its session go leaves none of its work unasked, and no *)
(* session is asked twice about the same (stop.mjs).                       *)
THEOREM NoWorkIsLeft == Spec => NothingLeavesUnasked
  <1> DEFINE Asks == at[Watched] = "decide" /\ at'[Watched] = "open" =>
          /\ ~active'[Watched] =>
                \A p \in mine \cap dirty : <<p, content[p]>> \in ledger \/ p \in asked
          /\ reminded' # reminded /\ ~spoiled /\ Watched \notin Anonymous => asked' # asked
  <1>1. IInv /\ [Next]_vars => [Asks]_vars
    <2> SUFFICES ASSUME IInv, Next, at[Watched] = "decide", at'[Watched] = "open" PROVE Asks
      BY DEF vars
    <2>1. StopFails(Watched) \/ \E readable, written \in BOOLEAN : StopDecides(Watched, readable, written)
      <3>1. ASSUME NEW s \in Sessions, SessionStep(s), s # Watched PROVE at'[Watched] = at[Watched]
        <4>1. ASSUME NEW readable \in BOOLEAN, NEW written \in BOOLEAN, StopDecides(s, readable, written)
              PROVE  at'[Watched] = at[Watched]
          BY <3>1, <4>1 DEF StopDecides, Ask, Release, Block, Leave, IInv, TypeOK
        <4> QED
          BY <3>1, <4>1 DEF SessionStep, SessionStart, SessionStartFails, StopFails, StopStep, StopBegins,
                StopProbes, Edit, Propose, Release, Block, Leave, GoOn, session, vars, IInv, TypeOK
      <3>2. SessionStep(Watched) => StopFails(Watched)
              \/ \E readable, written \in BOOLEAN : StopDecides(Watched, readable, written)
        BY DEF SessionStep, SessionStart, SessionStartFails, StopStep, StopBegins, StopProbes, Edit, Propose
      <3>3. ASSUME NEW r \in Rounds, RoundStep(r) PROVE at' = at
        BY <3>3 DEF RoundStep, LockVault, TakeBridge, ReleaseLocks, RoundDies, RoundWrites, session
      <3>4. JobStarts \/ JobEnds => at' = at
        BY DEF JobStarts, JobEnds, session
      <3>5. ASSUME NEW p \in Paths, Land(p) PROVE at' = at
        BY <3>5 DEF Land, session
      <3> QED
        BY <3>1, <3>2, <3>3, <3>4, <3>5 DEF Next
    <2>2. CASE StopFails(Watched)
      BY <2>2 DEF StopFails, Block, Leave, files, IInv, TypeOK
    <2>3. ASSUME NEW readable \in BOOLEAN, NEW written \in BOOLEAN, StopDecides(Watched, readable, written)
          PROVE  Asks
      <3> DEFINE names == Since(Watched, readable)
      <3>1. \A p \in mine \cap dirty : p \in names \/ <<p, content[p]>> \in ledger
        BY DEF Since, Own, IdOf, Proposed, IInv, SnapshotIsItsOwn
      <3>2. Recorded(Watched) \subseteq asked
        BY DEF Recorded, IdOf, IInv, RecordIsWhole
      <3>3. CASE /\ names = {} \/ (Watched \notin Anonymous /\ names \subseteq Recorded(Watched))
                 /\ UNCHANGED reminded
        BY <3>1, <3>2, <3>3
      <3>4. CASE Ask(Watched, names, written) /\ ~(Watched \notin Anonymous /\ names \subseteq Recorded(Watched))
        <4>1. active'[Watched]
          BY <3>4 DEF Ask, Block, Leave, IInv, TypeOK
        <4>2. ~spoiled /\ Watched \notin Anonymous => asked = Recorded(Watched)
          BY <3>2 DEF IInv, RecordIsWhole, Recorded, IdOf
        <4> QED
          BY <3>4, <4>1, <4>2 DEF Ask
      <3> QED
        BY <2>3, <3>3, <3>4 DEF StopDecides
    <2> QED
      BY <2>1, <2>2, <2>3
  <1> QED
    BY SessionsInvariant, <1>1, PTL DEF Spec, NothingLeavesUnasked
==============================================================================
