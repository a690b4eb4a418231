---------------------------- MODULE RoundProofs ----------------------------
(***************************************************************************)
(* What holds of every round, for any rounds, notes, proposes, texts and   *)
(* deaths.  One lemma per conjunct of IInv says that every step keeps it;  *)
(* the theorems follow from IInv.                                          *)
(***************************************************************************)
EXTENDS Round, TLAPS

(***************************************************************************)
(* The states of the parts.                                                *)
(***************************************************************************)
LEMMA PartsTyped ==
  /\ NoModel \in Models
  /\ NoEnd \in RoundEnd
  /\ NoChild \in ChildStates
  /\ AllDead \in [Children -> ChildStates]
  /\ 0 \in Texts
  /\ <<>> \in Seq(Entries)
  /\ MaxTexts \in Nat /\ MaxPushes \in Nat /\ MaxDeaths \in Nat
<1>1. 0 \in Texts
  BY RoundsAssumption DEF Texts
<1>2. <<>> \in Seq(Entries)
  OBVIOUS
<1>3. [p \in Paths |-> 0] \in [Paths -> Texts]
  BY <1>1
<1>4. NoChild \in ChildStates
  BY <1>2, <1>3 DEF NoChild, ChildStates
<1>5. NoModel \in Models
  BY DEF NoModel, Models
<1>6. NoEnd \in RoundEnd
  BY DEF NoEnd, RoundEnd, Exits, Reasons
<1> QED
  BY <1>1, <1>2, <1>4, <1>5, <1>6, RoundsAssumption DEF AllDead

LEMMA ModelTyped ==
  ASSUME TypeOK, NEW r \in Rounds,
         \/ Launch(r) \/ AfterModel(r) \/ Signal(r) \/ Tidy(r) \/ Die(r)
         \/ FirstTurn \/ AbortByLine \/ Timeout \/ CliExits \/ GraceKill \/ Drain \/ Close
  PROVE  model' \in Models
<1>1. model \in Models
  BY DEF TypeOK
<1>2. \A l \in 1 .. 2 : Spawned(l) \subseteq Models
  <2>1. ASSUME NEW m \in Models, NEW a \in {"starting", "closed"}, NEW l \in 1 .. 2
        PROVE  [m EXCEPT !.at = a, !.launch = l] \in Models
    <3>1. l \in 0 .. 2
      OBVIOUS
    <3>2. [m EXCEPT !.at = a] \in Models
      BY DEF Models
    <3>3. \A n \in Models : [n EXCEPT !.launch = l] \in Models
      BY <3>1 DEF Models
    <3> QED
      BY <3>2, <3>3
  <2> SUFFICES ASSUME NEW l \in 1 .. 2, NEW m \in Spawned(l)
               PROVE  m \in Models
    OBVIOUS
  <2>2. PICK a \in {"starting", "closed"} : m = [NoModel EXCEPT !.at = a, !.launch = l]
    BY DEF Spawned
  <2>3. [NoModel EXCEPT !.at = a, !.launch = l] \in Models
    BY <2>1, PartsTyped
  <2> QED
    BY <2>2, <2>3
<1>3. \A m \in Models : Stopped(m) \in Models
  BY DEF Stopped, Models
<1>4. \A a \in {"no", "signal", "isolation", "relaunch"} : [model EXCEPT !.aborted = a] \in Models
  BY <1>1 DEF Models
<1>5. CASE Launch(r)
  BY <1>2, <1>5 DEF Launch
<1>6. CASE AfterModel(r)
  BY <1>1, <1>2, <1>6 DEF AfterModel
<1>7. CASE Signal(r)
  <2>1. (IF model.aborted = "no" THEN "signal" ELSE model.aborted) \in {"no", "signal", "isolation", "relaunch"}
    BY <1>1 DEF Models
  <2> QED
    BY <1>1, <1>3, <1>4, <1>7, <2>1 DEF Signal
<1>8. CASE Tidy(r) \/ Die(r)
  BY <1>1, <1>8, PartsTyped DEF Tidy, Die, modelVars
<1>9. CASE FirstTurn
  BY <1>1, <1>9 DEF FirstTurn, Models
<1>10. CASE AbortByLine
  BY <1>3, <1>4, <1>10 DEF AbortByLine
<1>11. CASE Timeout
  <2>1. [model EXCEPT !.timedOut = TRUE] \in Models
    BY <1>1 DEF Models
  <2> QED
    BY <1>3, <1>11, <2>1 DEF Timeout
<1>12. CASE CliExits
  <2>1. \A ok \in BOOLEAN : [model EXCEPT !.at = "exited", !.ok = ok] \in Models
    BY <1>1 DEF Models
  <2>2. PICK ok \in {FALSE, model.at = "working"} : model' = [model EXCEPT !.at = "exited", !.ok = ok]
    BY <1>12 DEF CliExits
  <2>3. ok \in BOOLEAN
    BY <2>2, Zenon
  <2> QED
    BY <2>1, <2>2, <2>3
<1>13. CASE GraceKill
  <2>1. [model EXCEPT !.at = "exited", !.ok = FALSE] \in Models
    BY <1>1 DEF Models
  <2> QED
    BY <1>1, <1>13, <2>1 DEF GraceKill
<1>14. CASE Drain
  BY <1>1, <1>14 DEF Drain
<1>15. CASE Close
  <2>1. [model EXCEPT !.at = "closed"] \in Models
    BY <1>1 DEF Models
  <2> QED
    BY <1>15, <2>1 DEF Close
<1> QED
  BY <1>5, <1>6, <1>7, <1>8, <1>9, <1>10, <1>11, <1>12, <1>13, <1>14, <1>15

LEMMA ChildTyped ==
  ASSUME TypeOK, ModelIsAwaited, NEW c \in Children, ChildStep(c)
  PROVE  /\ child' \in [Children -> ChildStates]
         /\ record' \in [Rounds -> Seq(Entries)]
<1>1. child[c] \in ChildStates /\ child \in [Children -> ChildStates]
  BY DEF TypeOK
<1>2. record \in [Rounds -> Seq(Entries)] /\ tree \in [Paths -> Texts]
  BY DEF TypeOK
<1>3. \A s \in ChildStates : [child EXCEPT ![c] = s] \in [Children -> ChildStates]
  BY <1>1
<1>4. CASE Propose(c)
  <2>1. PICK chosen \in SUBSET Dirty :
          child' = [child EXCEPT ![c] =
            [NoChild EXCEPT !.at = "built", !.body = [p \in Paths |-> IF p \in chosen THEN tree[p] ELSE 0]]]
    BY <1>4 DEF Propose
  <2>2. [p \in Paths |-> IF p \in chosen THEN tree[p] ELSE 0] \in [Paths -> Texts]
    BY <1>2, PartsTyped
  <2>3. \A s \in ChildStates, b \in [Paths -> Texts] : [s EXCEPT !.at = "built", !.body = b] \in ChildStates
    BY DEF ChildStates
  <2>4. record' = record
    BY <1>4 DEF Propose
  <2> QED
    BY <1>2, <1>3, <2>1, <2>2, <2>3, <2>4, PartsTyped
<1>5. CASE Push(c)
  <2>1. \A opened \in BOOLEAN : [child[c] EXCEPT !.at = "pushed", !.opened = opened] \in ChildStates
    BY <1>1 DEF ChildStates
  <2>2. PICK opened \in BOOLEAN : child' = [child EXCEPT ![c] = [child[c] EXCEPT !.at = "pushed", !.opened = opened]]
    BY <1>1, <1>5 DEF Push
  <2> QED
    BY <1>2, <1>3, <1>5, <2>1, <2>2 DEF Push
<1>6. CASE TakeGuard(c)
  <2>1. child' = [child EXCEPT ![c] = [child[c] EXCEPT !.at = "guarded", !.saw = record[lock]]]
    BY <1>1, <1>6 DEF TakeGuard
  <2>2. record[lock] \in Seq(Entries)
    <3>1. child[c].at # "none"
      BY <1>6 DEF TakeGuard
    <3> QED
      BY <1>2, <3>1 DEF ModelIsAwaited
  <2>3. \A q \in Seq(Entries) : [child[c] EXCEPT !.at = "guarded", !.saw = q] \in ChildStates
    BY <1>1 DEF ChildStates
  <2> QED
    BY <1>2, <1>3, <1>6, <2>1, <2>2, <2>3 DEF TakeGuard
<1>7. CASE AppendEntry(c)
  <2>1. Append(child[c].saw, [body |-> child[c].body, opened |-> child[c].opened]) \in Seq(Entries)
    BY <1>1 DEF ChildStates, Entries
  <2>2. child' = [child EXCEPT ![c] = [child[c] EXCEPT !.at = "recorded"]]
    BY <1>1, <1>7 DEF AppendEntry
  <2>3. [child[c] EXCEPT !.at = "recorded"] \in ChildStates
    BY <1>1 DEF ChildStates
  <2> QED
    BY <1>2, <1>3, <1>7, <2>1, <2>2, <2>3 DEF AppendEntry
<1>8. CASE ReleaseGuard(c) \/ ChildEnds(c)
  BY <1>2, <1>3, <1>8, PartsTyped DEF ReleaseGuard, ChildEnds
<1> QED
  BY <1>4, <1>5, <1>6, <1>7, <1>8 DEF ChildStep

\* Where a step takes the round, with an end for it or without.
Moves(r) ==
  \/ \E exit \in Exits, reason \in Reasons, place \in Places : EndBy(r, exit, reason, place)
  \/ UNCHANGED end /\ \E place \in Places : Goto(r, place)
  \/ UNCHANGED <<end, at>>

LEMMA MovesTyped ==
  ASSUME TypeOK, NEW r \in Rounds, Moves(r)
  PROVE  end' \in [Rounds -> RoundEnd] /\ at' \in [Rounds -> Places]
<1>1. end \in [Rounds -> RoundEnd] /\ at \in [Rounds -> Places]
  BY DEF TypeOK
<1>2. ASSUME NEW exit \in Exits, NEW reason \in Reasons, NEW place \in Places, EndBy(r, exit, reason, place)
      PROVE  end' \in [Rounds -> RoundEnd] /\ at' \in [Rounds -> Places]
  <2>1. [exit |-> exit, reason |-> reason] \in RoundEnd
    BY DEF RoundEnd
  <2> QED
    BY <1>1, <1>2, <2>1 DEF EndBy, Goto
<1>3. ASSUME NEW place \in Places, Goto(r, place)
      PROVE  at' \in [Rounds -> Places]
  BY <1>1, <1>3 DEF Goto
<1> QED
  BY <1>1, <1>2, <1>3 DEF Moves

LEMMA TypeStep ==
  ASSUME TypeOK, ModelIsAwaited, [Next]_vars
  PROVE  TypeOK'
<1>1. ASSUME NEW r \in Rounds,
             \/ MachineInvalid(r) \/ Acquire(r) \/ Refuse(r) \/ EndsEarly(r)
             \/ CheckDirtyTree(r) \/ Throws(r)
      PROVE  TypeOK'
  <2>1. end' \in [Rounds -> RoundEnd] /\ at' \in [Rounds -> Places]
    <3>1. Moves(r)
      BY <1>1 DEF Moves, MachineInvalid, Acquire, Refuse, EndsEarly, CheckDirtyTree, Throws, Exits, Reasons, Places
    <3> QED
      BY <3>1, MovesTyped
  <2> QED
    BY <1>1, <2>1
       DEF TypeOK, MachineInvalid, Acquire, Refuse, EndsEarly, CheckDirtyTree, Throws, modelVars, bookVars, vaultVars, lineVars
<1>2. ASSUME NEW r \in Rounds, Launch(r) \/ AfterModel(r)
      PROVE  TypeOK'
  <2>1. model' \in Models
    BY <1>2, ModelTyped
  <2>2. end' \in [Rounds -> RoundEnd] /\ at' \in [Rounds -> Places]
    <3>1. Moves(r)
      BY <1>2 DEF Moves, Launch, AfterModel, Places, Exits, Reasons
    <3> QED
      BY <3>1, MovesTyped
  <2> QED
    BY <1>2, <2>1, <2>2 DEF TypeOK, Launch, AfterModel, bookVars, vaultVars, lineVars
<1>3. ASSUME NEW r \in Rounds, ReadRecord(r) \/ Compare(r) \/ Restore(r)
      PROVE  end' \in [Rounds -> RoundEnd] /\ at' \in [Rounds -> Places]
  <2>1. Moves(r)
    BY <1>3 DEF Moves, ReadRecord, Compare, Restore, Places, Exits, Reasons
  <2> QED
    BY <2>1, MovesTyped
<1>4. ASSUME NEW r \in Rounds, Decide(r)
       PROVE  TypeOK'
  <2>1. \A unread, stuck \in BOOLEAN : Outcome(r, unread, stuck)[1] \in Exits /\ Outcome(r, unread, stuck)[2] \in Reasons
    BY DEF Outcome, Exits, Reasons
  <2>2. end' \in [Rounds -> RoundEnd] /\ at' \in [Rounds -> Places]
    <3>1. Moves(r)
      BY <1>4, <2>1 DEF Moves, Decide, Places
    <3> QED
      BY <3>1, MovesTyped
  <2> QED
    BY <1>4, <2>2 DEF TypeOK, Decide, modelVars, bookVars, vaultVars, lineVars
<1>5. ASSUME NEW r \in Rounds, AppendIncident(r) \/ PruneRead(r) \/ PruneWrite(r) \/ Release(r)
       PROVE  end' \in [Rounds -> RoundEnd] /\ at' \in [Rounds -> Places]
  <2>1. \E place \in Places : Goto(r, place)
    BY <1>5 DEF AppendIncident, PruneRead, PruneWrite, Release, Places
  <2>2. end' \in [Rounds -> RoundEnd]
    BY <1>5, PartsTyped DEF TypeOK, AppendIncident, PruneRead, PruneWrite, Release
  <2> QED
    BY <2>1, <2>2 DEF TypeOK, Goto
<1> USE DEF TypeOK, Goto
<1>6. ASSUME NEW r \in Rounds, Signal(r) \/ Tidy(r) \/ Die(r)
      PROVE  TypeOK'
  <2>1. model' \in Models
    BY <1>6, ModelTyped
  <2>2. CASE Signal(r)
    BY <2>1, <2>2 DEF Signal, UnchangedByModel, bookVars, vaultVars, lineVars
  <2>3. CASE Tidy(r)
    <3>1. at' \in [Rounds -> Places]
      BY <2>3 DEF Tidy, Places
    <3>2. record' \in [Rounds -> Seq(Entries)] /\ taken' \in [Rounds -> Seq(Entries)]
      BY <2>3, PartsTyped DEF Tidy
    <3> QED
      BY <2>1, <2>3, <3>1, <3>2 DEF Tidy, vaultVars, lineVars
  <2>4. CASE Die(r)
    <3>1. budget' \in [texts : 0 .. MaxTexts, pushes : 0 .. MaxPushes, deaths : 0 .. MaxDeaths]
      <4>1. budget.deaths + 1 \in 0 .. MaxDeaths
        BY <2>4, PartsTyped DEF Die
      <4> QED
        BY <2>4, <4>1 DEF Die
    <3>2. child' \in [Children -> ChildStates]
      BY <2>4, PartsTyped DEF Die, modelVars
    <3>3. end' \in [Rounds -> RoundEnd] /\ at' \in [Rounds -> Places]
      BY <2>4, PartsTyped DEF Die, Places
    <3> QED
      BY <2>1, <2>4, <3>1, <3>2, <3>3 DEF Die, vaultVars
  <2> QED
    BY <1>6, <2>2, <2>3, <2>4
<1>7. ASSUME FirstTurn \/ AbortByLine \/ Timeout \/ CliExits \/ GraceKill \/ Drain \/ Close
      PROVE  TypeOK'
  <2>1. PICK r \in Rounds : TRUE
    BY <1>7 DEF FirstTurn, AbortByLine, Timeout, CliExits, GraceKill, Drain, Close, Running, Up, ModelIsAwaited
  <2>2. model' \in Models
    BY <1>7, <2>1, ModelTyped
  <2>3. child' \in [Children -> ChildStates]
    BY <1>7, PartsTyped DEF FirstTurn, AbortByLine, Timeout, CliExits, GraceKill, Drain, Close
  <2> QED
    BY <1>7, <2>2, <2>3
       DEF FirstTurn, AbortByLine, Timeout, CliExits, GraceKill, Drain, Close, UnchangedByModel,
           bookVars, vaultVars, lineVars
<1>8. ASSUME Spoil
      PROVE  TypeOK'
  <2>1. record' \in [Rounds -> Seq(Entries)]
    BY <1>8, PartsTyped DEF Spoil
  <2> QED
    BY <1>8, <2>1 DEF Spoil, UnchangedByChild, vaultVars, lineVars
<1>9. ASSUME NEW c \in Children, ChildStep(c)
      PROVE  TypeOK'
  <2>1. child' \in [Children -> ChildStates] /\ record' \in [Rounds -> Seq(Entries)]
    BY <1>9, ChildTyped
  <2>2. budget' \in [texts : 0 .. MaxTexts, pushes : 0 .. MaxPushes, deaths : 0 .. MaxDeaths]
    <3>1. CASE Propose(c)
      <4>1. budget.pushes + 1 \in 0 .. MaxPushes
        BY <3>1, PartsTyped DEF Propose
      <4> QED
        BY <3>1, <4>1 DEF Propose
    <3> QED
      BY <1>9, <3>1 DEF ChildStep, Push, TakeGuard, AppendEntry, ReleaseGuard, ChildEnds
  <2>3. pushed' \in SUBSET (1 .. MaxTexts)
    <3>1. child[c] \in ChildStates
      OBVIOUS
    <3>2. \A p \in Paths : child[c].body[p] \in Texts
      BY <3>1 DEF ChildStates
    <3>3. pushed' = pushed \/ pushed' = pushed \cup ({child[c].body[p] : p \in Paths} \ {0})
      BY <1>9 DEF ChildStep, Propose, Push, TakeGuard, AppendEntry, ReleaseGuard, ChildEnds, vaultVars
    <3> SUFFICES ASSUME NEW x \in pushed', x \notin pushed
                 PROVE  x \in 1 .. MaxTexts
      OBVIOUS
    <3>4. PICK p \in Paths : x = child[c].body[p] /\ x # 0
      BY <3>3
    <3> QED
      BY <3>2, <3>4, PartsTyped DEF Texts
  <2> QED
    BY <1>9, <2>1, <2>2, <2>3
       DEF ChildStep, Propose, Push, TakeGuard, AppendEntry, ReleaseGuard, ChildEnds, UnchangedByChild,
           vaultVars, lineVars
<1>10. ASSUME NEW p \in Paths, ModelWrites(p) \/ PersonWrites(p)
      PROVE  TypeOK'
  <2>1. NewText \in Texts /\ NewText \in 0 .. MaxTexts
    BY <1>10, RoundsAssumption DEF ModelWrites, PersonWrites, Writes, NewText, Texts
  <2>2. budget' \in [texts : 0 .. MaxTexts, pushes : 0 .. MaxPushes, deaths : 0 .. MaxDeaths]
    <3>1. budget' = [budget EXCEPT !.texts = NewText]
      BY <1>10 DEF ModelWrites, PersonWrites, Writes
    <3> QED
      BY <2>1, <3>1
  <2>3. tree' \in [Paths -> Texts] /\ written' \in [Paths -> Texts]
    <3>1. tree' = [tree EXCEPT ![p] = NewText]
      BY <1>10 DEF ModelWrites, PersonWrites, Writes
    <3>2. written' = [written EXCEPT ![p] = NewText] \/ written' = [written EXCEPT ![p] = 0]
      BY <1>10 DEF ModelWrites, PersonWrites, Writes
    <3> QED
      BY <2>1, <3>1, <3>2, PartsTyped
  <2> QED
    BY <1>10, <2>2, <2>3 DEF ModelWrites, PersonWrites, Writes, modelVars, bookVars, lineVars
<1>11. ASSUME NEW r \in Rounds, ReadRecord(r) \/ Compare(r) \/ Restore(r)
      PROVE  TypeOK'
  <2>1. matching' \in [Rounds -> SUBSET Paths]
    <3>1. Matching(taken[r]) \in SUBSET Paths
      BY DEF Matching
    <3> QED
      BY <1>11, <3>1 DEF ReadRecord, Compare, Restore, bookVars
  <2>2. tree' \in [Paths -> Texts]
    <3>1. \A ps \in SUBSET Paths : [p \in Paths |-> IF p \in ps THEN 0 ELSE tree[p]] \in [Paths -> Texts]
      BY PartsTyped
    <3>2. matching[r] \in SUBSET Paths
      OBVIOUS
    <3>3. tree' = tree \/ \E ps \in SUBSET matching[r] : BackToHead(ps)
      BY <1>11 DEF ReadRecord, Compare, Restore, vaultVars
    <3> QED
      BY <3>1, <3>2, <3>3 DEF BackToHead
  <2>3. end' \in [Rounds -> RoundEnd] /\ at' \in [Rounds -> Places]
    BY <1>3, <1>11
  <2>4. kept' \in SUBSET Rounds /\ taken' \in [Rounds -> Seq(Entries)]
    BY <1>11 DEF ReadRecord, Compare, Restore, bookVars
  <2> QED
    BY <1>11, <2>1, <2>2, <2>3, <2>4
       DEF ReadRecord, Compare, Restore, modelVars, bookVars, vaultVars, lineVars
<1>12. ASSUME NEW r \in Rounds, AppendIncident(r) \/ PruneRead(r) \/ PruneWrite(r) \/ Release(r)
       PROVE  TypeOK'
  <2>1. incidents' \in SUBSET (Lines \cup {Old})
    <3>1. CASE AppendIncident(r)
      <4>1. [of |-> r, locked |-> lock = r] \in Lines
        BY Zenon DEF Lines
      <4> QED
        BY <3>1, <4>1 DEF AppendIncident
    <3>2. seen[r] \in SUBSET (Lines \cup {Old})
      OBVIOUS
    <3> QED
      BY <1>12, <3>1, <3>2 DEF PruneRead, PruneWrite, Release, lineVars
  <2>2. seen' \in [Rounds -> SUBSET (Lines \cup {Old})]
    <3>1. \A ls \in SUBSET (Lines \cup {Old}) : [seen EXCEPT ![r] = ls] \in [Rounds -> SUBSET (Lines \cup {Old})]
      OBVIOUS
    <3>2. {} \in SUBSET (Lines \cup {Old}) /\ incidents \in SUBSET (Lines \cup {Old})
      OBVIOUS
    <3> QED
      BY <1>12, <3>1, <3>2 DEF AppendIncident, PruneRead, PruneWrite, Release, lineVars
  <2>3. end' \in [Rounds -> RoundEnd] /\ at' \in [Rounds -> Places]
    BY <1>12, <1>5
  <2> QED
    BY <1>12, <2>1, <2>2, <2>3
       DEF AppendIncident, PruneRead, PruneWrite, Release, modelVars, bookVars, vaultVars, lineVars
<1>13. CASE UNCHANGED vars
  BY <1>13 DEF vars
<1> QED
  BY <1>1, <1>2, <1>6, <1>7, <1>8, <1>9, <1>10, <1>11, <1>4, <1>12, <1>13 DEF Next, RoundStep, ModelStep

(***************************************************************************)
(* What the steps leave alone.                                             *)
(***************************************************************************)
\* The steps of the model's process, but for what it leaves in the vault.
ModelSteps == FirstTurn \/ AbortByLine \/ Timeout \/ CliExits \/ GraceKill \/ Drain \/ Close

\* The steps of a round's own process, and its death.
RoundSteps(r) == MachineInvalid(r) \/ Acquire(r) \/ Refuse(r) \/ RoundStep(r) \/ Die(r)

LEMMA StepCases ==
  ASSUME [Next]_vars
  PROVE  \/ \E r \in Rounds : RoundSteps(r)
         \/ \E r \in Rounds : Signal(r)
         \/ ModelSteps
         \/ Spoil
         \/ \E c \in Children : ChildStep(c)
         \/ \E p \in Paths : ModelWrites(p) \/ PersonWrites(p)
         \/ UNCHANGED vars
BY DEF Next, RoundSteps, ModelSteps, ModelStep

LEMMA ModelFrame ==
  ASSUME ModelSteps \/ \E r \in Rounds : Signal(r)
  PROVE  /\ UNCHANGED <<lock, at, end, record, spoiled, guard, kept, taken, matching, tree, pushed, written,
                        incidents, seen>>
         /\ child' = child \/ child' = AllDead
BY DEF ModelSteps, FirstTurn, AbortByLine, Timeout, CliExits, GraceKill, Drain, Close, Signal, UnchangedByModel,
       bookVars, vaultVars, lineVars

LEMMA ChildFrame ==
  ASSUME NEW c \in Children, ChildStep(c)
  PROVE  UNCHANGED <<lock, at, end, interrupted, model, kept, taken, matching, tree, written, incidents, seen, spoiled>>
BY DEF ChildStep, Propose, Push, TakeGuard, AppendEntry, ReleaseGuard, ChildEnds, UnchangedByChild, vaultVars, lineVars

LEMMA SpoilFrame ==
  ASSUME Spoil
  PROVE  UNCHANGED <<lock, at, end, interrupted, model, child, guard, kept, taken, matching, tree, pushed, written,
                     incidents, seen>>
BY DEF Spoil, UnchangedByChild, vaultVars, lineVars

LEMMA WriteFrame ==
  ASSUME NEW p \in Paths, ModelWrites(p) \/ PersonWrites(p)
  PROVE  UNCHANGED <<lock, at, end, interrupted, model, child, record, spoiled, guard, kept, taken, matching,
                     pushed, incidents, seen>>
BY DEF ModelWrites, PersonWrites, Writes, modelVars, bookVars, lineVars

(***************************************************************************)
(* While a round is under the lock and not waiting for its model, no model *)
(* and no propose of any round is there.                                   *)
(***************************************************************************)
LEMMA QuietRound ==
  ASSUME HolderIsHere, ModelIsAwaited, NEW r \in Rounds, at[r] \in UnderLock, at[r] # "model"
  PROVE  /\ lock = r
         /\ ~Running
         /\ \A c \in Children : child[c].at = "none"
BY DEF HolderIsHere, ModelIsAwaited

(***************************************************************************)
(* A place under the lock is the holder's.                                 *)
(***************************************************************************)
LEMMA HolderStep ==
  ASSUME IInv, [Next]_vars
  PROVE  HolderIsHere'
<1> USE DEF UnderLock, AfterClose
<1>1. TypeOK /\ HolderIsHere
  BY DEF IInv
<1>2. CASE UNCHANGED <<lock, at>>
  BY <1>1, <1>2 DEF HolderIsHere
<1>3. ASSUME NEW r \in Rounds, lock' = lock,
             \E place \in Places : Goto(r, place) /\ (place \in UnderLock => at[r] \in UnderLock)
      PROVE  HolderIsHere'
  BY <1>1, <1>3 DEF HolderIsHere, TypeOK, Goto
<1>4. ASSUME NEW r \in Rounds, Acquire(r)
      PROVE  HolderIsHere'
  BY <1>1, <1>4, RoundsAssumption DEF Acquire, HolderIsHere, TypeOK, Goto
<1>5. ASSUME NEW r \in Rounds, AppendIncident(r)
      PROVE  HolderIsHere'
  BY <1>1, <1>5 DEF AppendIncident, HolderIsHere, TypeOK, Goto
<1>6. ASSUME NEW r \in Rounds, Release(r)
      PROVE  HolderIsHere'
  BY <1>1, <1>6 DEF Release, HolderIsHere, TypeOK, Goto
<1>7. ASSUME NEW r \in Rounds, MachineInvalid(r) \/ Refuse(r) \/ EndsEarly(r) \/ CheckDirtyTree(r)
      PROVE  HolderIsHere'
  BY <1>3, <1>7 DEF MachineInvalid, Refuse, EndsEarly, CheckDirtyTree, EndBy, Places
<1>8. ASSUME NEW r \in Rounds, Launch(r) \/ AfterModel(r) \/ ReadRecord(r) \/ Compare(r) \/ Restore(r)
      PROVE  HolderIsHere'
  BY <1>2, <1>3, <1>8 DEF Launch, AfterModel, ReadRecord, Compare, Restore, EndBy, Places
<1>9. ASSUME NEW r \in Rounds, Decide(r) \/ Throws(r) \/ Tidy(r) \/ PruneRead(r) \/ PruneWrite(r) \/ Die(r)
      PROVE  HolderIsHere'
  BY <1>3, <1>9 DEF Decide, Throws, Tidy, PruneRead, PruneWrite, Die, EndBy, Places
<1>10. CASE \E r \in Rounds : RoundSteps(r)
  BY <1>4, <1>5, <1>6, <1>7, <1>8, <1>9, <1>10 DEF RoundSteps, RoundStep
<1> QED
  BY <1>2, <1>10, StepCases, ModelFrame, ChildFrame, SpoilFrame, WriteFrame DEF vars

(***************************************************************************)
(* The model runs only while its round waits for it.                       *)
(***************************************************************************)
LEMMA AwaitedStep ==
  ASSUME IInv, [Next]_vars
  PROVE  ModelIsAwaited'
<1> USE DEF Running, UnderLock, AfterClose
<1>1. TypeOK /\ HolderIsHere /\ ModelIsAwaited
  BY DEF IInv
<1>2. model \in Models /\ at \in [Rounds -> Places]
  BY <1>1 DEF TypeOK
<1>3. CASE UNCHANGED <<lock, at, model, child>>
  BY <1>1, <1>3 DEF ModelIsAwaited
<1>4. ASSUME NEW r \in Rounds, UNCHANGED <<model, child>>, at[r] # "model",
             \E place \in Places : Goto(r, place), lock' = lock \/ ~Running
      PROVE  ModelIsAwaited'
  BY <1>1, <1>2, <1>4 DEF ModelIsAwaited, Goto
<1>5. ASSUME NEW r \in Rounds, Launch(r)
      PROVE  ModelIsAwaited'
  <2>1. lock = r /\ \A c \in Children : child[c].at = "none"
    BY <1>1, <1>5, QuietRound DEF Launch
  <2>2. model'.stopping = FALSE /\ model'.timedOut = FALSE /\ model'.aborted = "no"
    BY <1>5 DEF Launch, Spawned, NoModel
  <2> QED
    BY <1>2, <1>5, <2>1, <2>2 DEF ModelIsAwaited, Launch, Goto
<1>6. ASSUME NEW r \in Rounds, AfterModel(r)
      PROVE  ModelIsAwaited'
  <2>1. \A c \in Children : child[c].at = "none"
    BY <1>1, <1>6 DEF AfterModel, ModelIsAwaited
  <2>2. lock = r
    BY <1>1, <1>6 DEF AfterModel, HolderIsHere
  <2>3. CASE model' \in Spawned(2) /\ UNCHANGED at
    <3>1. model'.stopping = FALSE /\ model'.timedOut = FALSE /\ model'.aborted = "no"
      BY <2>3 DEF Spawned, NoModel
    <3> QED
      BY <1>6, <2>1, <2>2, <2>3, <3>1 DEF ModelIsAwaited, AfterModel
  <2>4. CASE UNCHANGED model
    BY <1>1, <1>6, <2>1, <2>4 DEF ModelIsAwaited, AfterModel
  <2> QED
    BY <1>6, <2>3, <2>4 DEF AfterModel
<1>7. ASSUME NEW r \in Rounds, Tidy(r)
      PROVE  ModelIsAwaited'
  <2>1. \A c \in Children : child[c].at = "none"
    BY <1>1, <1>7, QuietRound DEF Tidy
  <2> QED
    BY <1>7, <2>1 DEF ModelIsAwaited, Tidy, NoModel
<1>8. ASSUME NEW r \in Rounds, Die(r)
      PROVE  ModelIsAwaited'
  <2>1. CASE lock = r
    BY <1>8, <2>1 DEF ModelIsAwaited, Die, NoModel, AllDead, NoChild
  <2>2. CASE lock # r
    BY <1>1, <1>2, <1>8, <2>2 DEF ModelIsAwaited, Die, Goto, modelVars
  <2> QED
    BY <2>1, <2>2
<1>9. ASSUME NEW r \in Rounds,
             \/ MachineInvalid(r) \/ Refuse(r) \/ EndsEarly(r) \/ CheckDirtyTree(r)
             \/ ReadRecord(r) \/ Compare(r) \/ Restore(r) \/ Decide(r) \/ Throws(r)
      PROVE  ModelIsAwaited'
  BY <1>4, <1>9 DEF MachineInvalid, Refuse, EndsEarly, CheckDirtyTree, ReadRecord, Compare, Restore, Decide,
                    Throws, EndBy, Places, modelVars
<1>10. ASSUME NEW r \in Rounds, AppendIncident(r) \/ PruneRead(r) \/ PruneWrite(r)
       PROVE  ModelIsAwaited'
  BY <1>4, <1>10 DEF AppendIncident, PruneRead, PruneWrite, Places, modelVars
<1>11. ASSUME NEW r \in Rounds, Acquire(r)
       PROVE  ModelIsAwaited'
  <2>1. ~Running
    BY <1>1, <1>11, RoundsAssumption DEF Acquire, ModelIsAwaited
  <2> QED
    BY <1>4, <1>11, <2>1 DEF Acquire, Places, modelVars
<1>12. ASSUME NEW r \in Rounds, Release(r)
       PROVE  ModelIsAwaited'
  <2>1. ~Running
    BY <1>1, <1>12, QuietRound DEF Release
  <2> QED
    BY <1>4, <1>12, <2>1 DEF Release, Places, modelVars
<1>13. CASE \E r \in Rounds : RoundSteps(r)
  BY <1>5, <1>6, <1>7, <1>8, <1>9, <1>10, <1>11, <1>12, <1>13 DEF RoundSteps, RoundStep
<1>14. CASE ModelSteps
  <2>1. CASE FirstTurn
    BY <1>1, <1>2, <2>1, ModelFrame DEF FirstTurn, ModelSteps, ModelIsAwaited, Models
  <2>2. CASE AbortByLine
    BY <1>1, <1>2, <2>2, ModelFrame DEF AbortByLine, ModelSteps, ModelIsAwaited, Models, Stopped
  <2>3. CASE Timeout
    BY <1>1, <1>2, <2>3, ModelFrame DEF Timeout, ModelSteps, ModelIsAwaited, Models, Stopped
  <2>4. CASE CliExits
    <3>1. PICK ok \in BOOLEAN : model' = [model EXCEPT !.at = "exited", !.ok = ok]
      BY <2>4, Zenon DEF CliExits
    <3> QED
      BY <1>1, <1>2, <2>4, <3>1, ModelFrame DEF CliExits, ModelSteps, ModelIsAwaited, Models, Up
  <2>5. CASE GraceKill
    BY <1>1, <1>2, <2>5, ModelFrame DEF GraceKill, ModelSteps, ModelIsAwaited, Models, AllDead, NoChild, Up
  <2>6. CASE Drain \/ Close
    BY <1>1, <1>2, <2>6, ModelFrame DEF Drain, Close, ModelSteps, ModelIsAwaited, Models, AllDead, NoChild
  <2> QED
    BY <1>14, <2>1, <2>2, <2>3, <2>4, <2>5, <2>6 DEF ModelSteps
<1>15. ASSUME NEW r \in Rounds, Signal(r)
       PROVE  ModelIsAwaited'
  <2>1. UNCHANGED <<lock, at, child>>
    BY <1>15, ModelFrame DEF Signal
  <2>2. CASE UNCHANGED model
    BY <1>3, <2>1, <2>2
  <2>3. CASE Running /\ model' = Stopped([model EXCEPT !.aborted = IF model.aborted = "no" THEN "signal" ELSE model.aborted])
    BY <1>1, <1>2, <2>1, <2>3 DEF Stopped, Models, ModelIsAwaited
  <2> QED
    BY <1>15, <2>2, <2>3 DEF Signal
<1>16. ASSUME NEW c \in Children, ChildStep(c)
       PROVE  ModelIsAwaited'
  <2>1. \A d \in Children : child'[d].at # "none" => child[d].at # "none" \/ model.at = "working"
    <3>1. CASE Propose(c)
      BY <3>1 DEF Propose
    <3>2. CASE Push(c) \/ TakeGuard(c) \/ AppendEntry(c)
      BY <1>1, <3>2 DEF Push, TakeGuard, AppendEntry, TypeOK
    <3>3. CASE ReleaseGuard(c) \/ ChildEnds(c)
      BY <1>1, <3>3 DEF ReleaseGuard, ChildEnds, NoChild, TypeOK
    <3> QED
      BY <1>16, <3>1, <3>2, <3>3 DEF ChildStep
  <2> QED
    BY <1>1, <1>16, <2>1, ChildFrame DEF ModelIsAwaited
<1> QED
  BY <1>3, <1>13, <1>14, <1>15, <1>16, StepCases, SpoilFrame, WriteFrame DEF vars

(***************************************************************************)
(* A round's own step leaves the proposes alone, or there is none left.    *)
(***************************************************************************)
LEMMA RoundFrame ==
  ASSUME IInv, NEW r \in Rounds, RoundSteps(r)
  PROVE  \/ UNCHANGED <<lock, record, spoiled, guard, child>>
         \/ \A c \in Children : child'[c].at = "none" /\ (child'[c] = child[c] \/ child'[c] = NoChild)
<1>1. TypeOK /\ HolderIsHere /\ ModelIsAwaited
  BY DEF IInv
<1>2. CASE Acquire(r)
  BY <1>1, <1>2, RoundsAssumption DEF Acquire, ModelIsAwaited, Running, modelVars
<1>3. CASE Tidy(r) \/ Release(r)
  BY <1>1, <1>3, QuietRound DEF Tidy, Release, UnderLock, AfterClose, modelVars
<1>4. CASE Die(r)
  <2>1. NoChild.at = "none"
    BY DEF NoChild
  <2>2. CASE lock = r
    BY <1>4, <2>1, <2>2 DEF Die, AllDead
  <2> QED
    BY <1>4, <2>2 DEF Die, modelVars
<1>5. CASE MachineInvalid(r) \/ Refuse(r) \/ EndsEarly(r) \/ CheckDirtyTree(r) \/ Launch(r) \/ AfterModel(r)
  BY <1>5 DEF MachineInvalid, Refuse, EndsEarly, CheckDirtyTree, Launch, AfterModel, modelVars, bookVars
<1>6. CASE ReadRecord(r) \/ Compare(r) \/ Restore(r) \/ Decide(r) \/ Throws(r)
  BY <1>6 DEF ReadRecord, Compare, Restore, Decide, Throws, modelVars, bookVars
<1>7. CASE AppendIncident(r) \/ PruneRead(r) \/ PruneWrite(r)
  BY <1>7 DEF AppendIncident, PruneRead, PruneWrite, modelVars, bookVars
<1> QED
  BY <1>2, <1>3, <1>4, <1>5, <1>6, <1>7 DEF RoundSteps, RoundStep

(***************************************************************************)
(* One propose at a time is inside the record's guard.                     *)
(***************************************************************************)
LEMMA GuardStep ==
  ASSUME IInv, [Next]_vars
  PROVE  GuardIsExclusive'
<1>1. TypeOK /\ ModelIsAwaited /\ GuardIsExclusive
  BY DEF IInv
<1>2. CASE UNCHANGED <<lock, record, spoiled, guard, child>>
  BY <1>1, <1>2 DEF GuardIsExclusive
<1>3. CASE \A c \in Children : child'[c].at = "none"
  BY <1>3 DEF GuardIsExclusive
<1>4. CASE \E r \in Rounds : RoundSteps(r)
  BY <1>2, <1>3, <1>4, RoundFrame
<1>5. CASE ModelSteps \/ \E r \in Rounds : Signal(r)
  BY <1>2, <1>3, <1>5, ModelFrame DEF AllDead, NoChild
<1>6. CASE Spoil
  <2>1. \A c \in Children : child[c].at \notin {"guarded", "recorded"}
    BY <1>1, <1>6 DEF Spoil, GuardIsExclusive
  <2> QED
    BY <1>6, <2>1, SpoilFrame DEF GuardIsExclusive
<1>7. ASSUME NEW c \in Children, ChildStep(c)
      PROVE  GuardIsExclusive'
  <2> USE DEF TypeOK
  <2>1. UNCHANGED <<lock, spoiled>>
    BY <1>7, ChildFrame
  <2>2. CASE Propose(c)
    <3>1. \A d \in Children : child'[d].at \in {"guarded", "recorded"} => child'[d] = child[d]
      <4>1. child'[c].at = "built"
        BY <1>1, <2>2 DEF Propose, NoChild
      <4>2. \A d \in Children \ {c} : child'[d] = child[d]
        BY <1>1, <2>2 DEF Propose
      <4> QED
        BY <4>1, <4>2
    <3>2. UNCHANGED <<record, guard>>
      BY <2>2 DEF Propose
    <3> QED
      BY <1>1, <2>1, <3>1, <3>2 DEF GuardIsExclusive
  <2>3. CASE Push(c)
    <3>1. \A d \in Children : child'[d].at \in {"guarded", "recorded"} => child'[d] = child[d]
      BY <1>1, <2>3 DEF Push, ChildStates
    <3> QED
      BY <1>1, <2>1, <2>3, <3>1 DEF GuardIsExclusive, Push
  <2>4. CASE ReleaseGuard(c) \/ ChildEnds(c)
    <3>1. \A d \in Children : child'[d].at \in {"guarded", "recorded"} => child'[d] = child[d] /\ d # c
      BY <1>1, <2>4 DEF ReleaseGuard, ChildEnds, NoChild
    <3> QED
      BY <1>1, <2>1, <2>4, <3>1 DEF GuardIsExclusive, ReleaseGuard, ChildEnds
  <2>5. CASE TakeGuard(c)
    <3>1. lock \in Rounds
      BY <1>1, <2>5 DEF TakeGuard, ModelIsAwaited
    <3>2. child'[c].at = "guarded" /\ child'[c].saw = record[lock]
      BY <1>1, <2>5 DEF TakeGuard, ChildStates
    <3>3. \A d \in Children \ {c} : child'[d] = child[d]
      BY <1>1, <2>5 DEF TakeGuard
    <3>4. \A d \in Children : child[d].at \notin {"guarded", "recorded"}
      BY <1>1, <2>5 DEF TakeGuard, GuardIsExclusive
    <3> QED
      BY <1>1, <2>1, <2>5, <3>1, <3>2, <3>3, <3>4 DEF GuardIsExclusive, TakeGuard
  <2>6. CASE AppendEntry(c)
    <3>1. child'[c].at = "recorded"
      BY <1>1, <2>6 DEF AppendEntry, ChildStates
    <3>2. \A d \in Children \ {c} : child'[d] = child[d]
      BY <1>1, <2>6 DEF AppendEntry
    <3>3. \A d \in Children : child[d].at \in {"guarded", "recorded"} => d = c
      BY <1>1, <2>6 DEF AppendEntry, GuardIsExclusive
    <3>4. guard[lock] /\ ~spoiled[lock]
      BY <1>1, <2>6 DEF AppendEntry, GuardIsExclusive
    <3> QED
      BY <1>1, <2>1, <2>6, <3>1, <3>2, <3>3, <3>4 DEF GuardIsExclusive, AppendEntry
  <2> QED
    BY <1>7, <2>2, <2>3, <2>4, <2>5, <2>6 DEF ChildStep
<1> QED
  BY <1>2, <1>4, <1>5, <1>6, <1>7, StepCases, WriteFrame DEF vars

(***************************************************************************)
(* What an entry names was pushed before it was written.                   *)
(***************************************************************************)
LEMMA HeldGrows ==
  ASSUME pushed \subseteq pushed', NEW body, Held(body)
  PROVE  Held(body)'
BY DEF Held

LEMMA HeldStep ==
  ASSUME IInv, [Next]_vars
  PROVE  EntriesAreHeld'
<1>1. TypeOK /\ ModelIsAwaited /\ EntriesAreHeld
  BY DEF IInv
<1>2. CASE UNCHANGED <<child, record, taken, pushed>>
  BY <1>1, <1>2 DEF EntriesAreHeld, Held
<1>3. CASE /\ pushed' = pushed
           /\ \A c \in Children : child'[c] = child[c] \/ child'[c] = NoChild
           /\ \A r \in Rounds : record'[r] = record[r] \/ record'[r] = <<>>
           /\ \A r \in Rounds : taken'[r] \in {taken[r], record[r], <<>>}
  BY <1>1, <1>3 DEF EntriesAreHeld, Held, NoChild
<1>4. ASSUME NEW r \in Rounds, RoundSteps(r)
      PROVE  EntriesAreHeld'
  <2>1. pushed' = pushed
    BY <1>4 DEF RoundSteps, RoundStep, MachineInvalid, Acquire, Refuse, EndsEarly, CheckDirtyTree, Launch, AfterModel,
                ReadRecord, Compare, Restore, Decide, Throws, Tidy, AppendIncident, PruneRead, PruneWrite, Release,
                Die, vaultVars
  <2>2. \A c \in Children : child'[c] = child[c] \/ child'[c] = NoChild
    BY <1>4, RoundFrame
  <2>3. \A q \in Rounds : record'[q] = record[q] \/ record'[q] = <<>>
    BY <1>1, <1>4
       DEF TypeOK, RoundSteps, RoundStep, MachineInvalid, Acquire, Refuse, EndsEarly, CheckDirtyTree, Launch,
           AfterModel, ReadRecord, Compare, Restore, Decide, Throws, Tidy, AppendIncident, PruneRead, PruneWrite,
           Release, Die, bookVars
  <2>4. \A q \in Rounds : taken'[q] \in {taken[q], record[q], <<>>}
    BY <1>1, <1>4
       DEF TypeOK, RoundSteps, RoundStep, MachineInvalid, Acquire, Refuse, EndsEarly, CheckDirtyTree, Launch,
           AfterModel, ReadRecord, Compare, Restore, Decide, Throws, Tidy, AppendIncident, PruneRead, PruneWrite,
           Release, Die, bookVars
  <2> QED
    BY <1>3, <2>1, <2>2, <2>3, <2>4
<1>5. CASE ModelSteps \/ \E r \in Rounds : Signal(r)
  BY <1>1, <1>3, <1>5, ModelFrame DEF AllDead
<1>6. CASE Spoil
  BY <1>1, <1>3, <1>6, SpoilFrame DEF Spoil, TypeOK
<1>7. ASSUME NEW c \in Children, ChildStep(c)
      PROVE  EntriesAreHeld'
  <2>1. taken' = taken /\ child[c] \in ChildStates /\ child \in [Children -> ChildStates]
    BY <1>1, <1>7, ChildFrame DEF TypeOK
  <2>2. \A d \in Children \ {c} : child'[d] = child[d]
    BY <1>7, <2>1 DEF ChildStep, Propose, Push, TakeGuard, AppendEntry, ReleaseGuard, ChildEnds
  <2>3. CASE Propose(c)
    <3>1. child'[c].at = "built" /\ child'[c].saw = <<>>
      BY <2>1, <2>3 DEF Propose, NoChild
    <3> QED
      BY <1>1, <2>1, <2>2, <2>3, <3>1 DEF EntriesAreHeld, Held, Propose, vaultVars
  <2>4. CASE Push(c)
    <3>1. child'[c].body = child[c].body /\ child'[c].saw = child[c].saw
      <4>1. PICK opened \in BOOLEAN : child' = [child EXCEPT ![c] = [child[c] EXCEPT !.at = "pushed", !.opened = opened]]
        BY <2>1, <2>4 DEF Push
      <4> QED
        BY <2>1, <4>1 DEF ChildStates
    <3>2. pushed \subseteq pushed' /\ Held(child[c].body)'
      <4>1. pushed' = pushed \cup ({child[c].body[p] : p \in Paths} \ {0})
        BY <2>4 DEF Push
      <4>2. \A p \in Paths : child[c].body[p] \in pushed' \cup {0}
        BY <4>1
      <4> QED
        BY <3>1, <4>1, <4>2 DEF Held
    <3> QED
      BY <1>1, <2>1, <2>2, <2>4, <3>1, <3>2, HeldGrows DEF EntriesAreHeld, Push
  <2>5. CASE TakeGuard(c)
    <3>1. lock \in Rounds
      BY <1>1, <2>5 DEF TakeGuard, ModelIsAwaited
    <3>2. child'[c].body = child[c].body /\ child'[c].saw = record[lock]
      BY <2>1, <2>5 DEF TakeGuard, ChildStates
    <3> QED
      BY <1>1, <2>1, <2>2, <2>5, <3>1, <3>2 DEF EntriesAreHeld, Held, TakeGuard, vaultVars
  <2>6. CASE AppendEntry(c)
    <3>1. child'[c].body = child[c].body /\ child'[c].saw = child[c].saw
      BY <2>1, <2>6 DEF AppendEntry, ChildStates
    <3>2. pushed' = pushed
      BY <2>6 DEF AppendEntry, vaultVars
    <3>3. ASSUME NEW q \in Rounds, NEW i \in DOMAIN record'[q]
          PROVE  Held(record'[q][i].body)
      <4>1. CASE q = lock
        <5>1. child[c].saw \in Seq(Entries)
          BY <2>1 DEF ChildStates
        <5>2. record'[q] = Append(child[c].saw, [body |-> child[c].body, opened |-> child[c].opened])
          BY <1>1, <2>6, <4>1 DEF AppendEntry, TypeOK
        <5>3. record'[q][i] = [body |-> child[c].body, opened |-> child[c].opened]
              \/ (i \in DOMAIN child[c].saw /\ record'[q][i] = child[c].saw[i])
          BY <3>3, <5>1, <5>2
        <5> QED
          BY <1>1, <2>6, <5>3 DEF EntriesAreHeld, AppendEntry
      <4>2. CASE q # lock
        BY <1>1, <2>6, <3>3, <4>2 DEF AppendEntry, TypeOK, EntriesAreHeld
      <4> QED
        BY <4>1, <4>2
    <3> QED
      BY <1>1, <2>1, <2>2, <2>6, <3>1, <3>2, <3>3, HeldGrows DEF EntriesAreHeld, AppendEntry
  <2>7. CASE ReleaseGuard(c) \/ ChildEnds(c)
    <3>1. child'[c] = NoChild
      BY <2>1, <2>7 DEF ReleaseGuard, ChildEnds
    <3>2. pushed' = pushed /\ record' = record
      BY <2>7 DEF ReleaseGuard, ChildEnds, vaultVars
    <3> QED
      BY <1>3, <2>1, <2>2, <3>1, <3>2
  <2> QED
    BY <1>7, <2>3, <2>4, <2>5, <2>6, <2>7 DEF ChildStep
<1> QED
  BY <1>2, <1>4, <1>5, <1>6, <1>7, StepCases, WriteFrame DEF vars

(***************************************************************************)
(* A round's step leaves the other rounds' books alone, and the model and  *)
(* the proposes alone unless the round holds the lock.                     *)
(***************************************************************************)
LEMMA OthersStay ==
  ASSUME IInv, NEW r \in Rounds, RoundSteps(r), NEW q \in Rounds, q # r
  PROVE  /\ at'[q] = at[q] /\ end'[q] = end[q] /\ record'[q] = record[q] /\ spoiled'[q] = spoiled[q]
         /\ taken'[q] = taken[q] /\ matching'[q] = matching[q] /\ seen'[q] = seen[q]
         /\ q \in kept' <=> q \in kept
         /\ at[q] = "model" => model' = model
<1>1. TypeOK /\ HolderIsHere
  BY DEF IInv
<1>2. at'[q] = at[q] /\ end'[q] = end[q]
  BY <1>1 DEF TypeOK, RoundSteps, RoundStep, MachineInvalid, Acquire, Refuse, EndsEarly, CheckDirtyTree, Launch,
              AfterModel, ReadRecord, Compare, Restore, Decide, Throws, Tidy, AppendIncident, PruneRead, PruneWrite,
              Release, Die, EndBy, Goto
<1>3. /\ record'[q] = record[q] /\ spoiled'[q] = spoiled[q] /\ taken'[q] = taken[q] /\ matching'[q] = matching[q]
      /\ q \in kept' <=> q \in kept
  BY <1>1 DEF TypeOK, RoundSteps, RoundStep, MachineInvalid, Acquire, Refuse, EndsEarly, CheckDirtyTree, Launch,
              AfterModel, ReadRecord, Compare, Restore, Decide, Throws, Tidy, AppendIncident, PruneRead, PruneWrite,
              Release, Die, bookVars
<1>4. seen'[q] = seen[q]
  BY <1>1 DEF TypeOK, RoundSteps, RoundStep, MachineInvalid, Acquire, Refuse, EndsEarly, CheckDirtyTree, Launch,
              AfterModel, ReadRecord, Compare, Restore, Decide, Throws, Tidy, AppendIncident, PruneRead, PruneWrite,
              Release, Die, lineVars
<1>5. ASSUME at[q] = "model"
      PROVE  model' = model
  <2>1. lock = q
    BY <1>1, <1>5 DEF HolderIsHere, UnderLock
  <2>2. at[r] \notin UnderLock
    BY <1>1, <2>1 DEF HolderIsHere
  <2> QED
    BY <2>1, <2>2 DEF RoundSteps, RoundStep, MachineInvalid, Acquire, Refuse, EndsEarly, CheckDirtyTree, Launch,
              AfterModel, ReadRecord, Compare, Restore, Decide, Throws, Tidy, AppendIncident, PruneRead, PruneWrite,
              Release, Die, modelVars, UnderLock, AfterClose
<1> QED
  BY <1>2, <1>3, <1>4, <1>5

(***************************************************************************)
(* A propose works for a round that waits for its model, whose model has   *)
(* taken its first turn, and touches that round's record only.             *)
(***************************************************************************)
LEMMA ChildWorks ==
  ASSUME IInv, \/ \E c \in Children : ChildStep(c)
               \/ Spoil
  PROVE  /\ lock \in Rounds /\ at[lock] = "model" /\ model.at # "starting" /\ model.aborted # "relaunch"
         /\ \A q \in Rounds \ {lock} : record'[q] = record[q] /\ spoiled'[q] = spoiled[q]
         /\ UNCHANGED <<at, end, model, kept, taken>>
<1>1. TypeOK /\ ModelIsAwaited
  BY DEF IInv
<1>2. CASE Spoil
  BY <1>1, <1>2, SpoilFrame DEF Spoil, ModelIsAwaited, Running, TypeOK
<1>3. ASSUME NEW c \in Children, ChildStep(c)
      PROVE  /\ lock \in Rounds /\ at[lock] = "model" /\ model.at # "starting" /\ model.aborted # "relaunch"
             /\ \A q \in Rounds \ {lock} : record'[q] = record[q]
  <2>1. model.at = "working" \/ child[c].at # "none"
    BY <1>3 DEF ChildStep, Propose, Push, TakeGuard, AppendEntry, ReleaseGuard, ChildEnds
  <2>2. \A q \in Rounds \ {lock} : record'[q] = record[q]
    BY <1>1, <1>3 DEF ChildStep, Propose, Push, TakeGuard, AppendEntry, ReleaseGuard, ChildEnds, TypeOK
  <2> QED
    BY <1>1, <2>1, <2>2 DEF ModelIsAwaited, Running
<1> QED
  BY <1>2, <1>3, ChildFrame

(***************************************************************************)
(* Nothing is written before the first turn, read before the end, or ended *)
(* before it is said.                                                      *)
(***************************************************************************)
\* A run of the model that has taken no turn.
Unbegun(m) == m.at = "starting" \/ m.aborted = "relaunch"

LEMMA NothingStep ==
  ASSUME IInv, [Next]_vars
  PROVE  NothingYet'
<1> DEFINE Before == {"idle", "checking", "held", "clean"}
           Fine(q) == /\ at[q] \in Before \/ (at[q] = "model" /\ Unbegun(model)) => record[q] = <<>>
                      /\ at[q] \in Before \cup {"model", "record"} => taken[q] = <<>>
                      /\ at[q] \notin {"tidy", "incident"} => end[q] = NoEnd
<1>1. TypeOK /\ HolderIsHere /\ ModelIsAwaited
  BY DEF IInv
<1>2. \A q \in Rounds : Fine(q)
  BY DEF IInv, NothingYet, Unbegun
<1>3. SUFFICES ASSUME NEW q \in Rounds
               PROVE  Fine(q)'
  BY DEF NothingYet, Unbegun
<1>4. CASE UNCHANGED <<at, model, record, taken, end>>
  BY <1>2, <1>4
<1>5. ASSUME NEW r \in Rounds, RoundSteps(r), r # q
      PROVE  Fine(q)'
  <2>1. Fine(q)
    BY <1>2
  <2> QED
    BY <1>5, <2>1, OthersStay
<1>6. CASE RoundSteps(q)
  <2>1. Fine(q) /\ at \in [Rounds -> Places]
    BY <1>1, <1>2 DEF TypeOK
  <2> HIDE DEF Fine
  <2>2. CASE MachineInvalid(q) \/ Refuse(q) \/ EndsEarly(q) \/ Decide(q) \/ Throws(q)
    <3>1. at'[q] \in {"tidy", "incident"}
      BY <2>1, <2>2 DEF MachineInvalid, Refuse, EndsEarly, Decide, Throws, EndBy, Goto
    <3> QED
      BY <3>1 DEF Fine
  <2>3. CASE Acquire(q) \/ CheckDirtyTree(q)
    BY <2>1, <2>3 DEF Acquire, CheckDirtyTree, Goto, Fine, bookVars
  <2>4. CASE Launch(q)
    BY <2>1, <2>4 DEF Launch, Goto, Fine, bookVars
  <2>5. CASE AfterModel(q)
    BY <2>1, <2>5 DEF AfterModel, EndBy, Goto, Fine, bookVars, Unbegun
  <2>6. CASE ReadRecord(q) \/ Compare(q) \/ Restore(q)
    BY <2>1, <2>6 DEF ReadRecord, Compare, Restore, EndBy, Goto, Fine, bookVars
  <2>7. CASE Tidy(q)
    BY <2>1, <2>7 DEF Tidy, Goto, Fine
  <2>8. CASE AppendIncident(q) \/ PruneRead(q) \/ PruneWrite(q) \/ Release(q) \/ Die(q)
    BY <1>1, <2>1, <2>8 DEF AppendIncident, PruneRead, PruneWrite, Release, Die, Goto, Fine, TypeOK
  <2> QED
    BY <1>6, <2>2, <2>3, <2>4, <2>5, <2>6, <2>7, <2>8 DEF RoundSteps, RoundStep
<1>7. CASE ModelSteps \/ \E r \in Rounds : Signal(r)
  <2>1. Unbegun(model') => Unbegun(model) \/ at[q] # "model"
    <3>1. model \in Models
      BY <1>1 DEF TypeOK
    <3>2. CASE FirstTurn \/ AbortByLine \/ Timeout
      BY <3>1, <3>2 DEF FirstTurn, AbortByLine, Timeout, Stopped, Models, Unbegun
    <3>3. CASE CliExits
      BY <3>1, <3>3 DEF CliExits, Models, Unbegun
    <3>4. CASE GraceKill \/ Drain \/ Close
      BY <3>1, <3>4 DEF GraceKill, Drain, Close, Models, Unbegun
    <3>5. CASE \E r \in Rounds : Signal(r)
      <4>1. CASE model' = model
        BY <4>1
      <4>2. CASE model' = Stopped([model EXCEPT !.aborted = IF model.aborted = "no" THEN "signal" ELSE model.aborted])
        BY <3>1, <4>2 DEF Stopped, Models, Unbegun
      <4> QED
        BY <3>5, <4>1, <4>2 DEF Signal
    <3> QED
      BY <1>7, <3>2, <3>3, <3>4, <3>5 DEF ModelSteps
  <2>2. UNCHANGED <<at, end, record, taken>>
    BY <1>7, ModelFrame
  <2> QED
    BY <1>2, <2>1, <2>2
<1>8. CASE Spoil \/ \E c \in Children : ChildStep(c)
  <2>1. CASE q = lock
    BY <1>2, <1>8, <2>1, ChildWorks DEF Unbegun
  <2>2. CASE q # lock
    <3>1. Fine(q)
      BY <1>2
    <3> QED
      BY <1>8, <2>2, <3>1, ChildWorks
  <2> QED
    BY <2>1, <2>2
<1> QED
  BY <1>4, <1>5, <1>6, <1>7, <1>8, StepCases, WriteFrame DEF vars

(***************************************************************************)
(* From its reading to its removal the record is what the round read.      *)
(***************************************************************************)
LEMMA ReadStep ==
  ASSUME IInv, [Next]_vars
  PROVE  ReadIsWhole'
<1> DEFINE Fine(q) == /\ q \in kept => spoiled[q]
                      /\ spoiled[q] => record[q] = <<>>
                      /\ at[q] \in {"compare", "restore", "decide"} => taken[q] = record[q] \/ spoiled[q]
                      /\ at[q] = "tidy" =>
                           taken[q] = record[q] \/ spoiled[q] \/ end[q].reason = "internal_error"
<1>1. TypeOK /\ HolderIsHere /\ NothingYet /\ GuardIsExclusive
  BY DEF IInv
<1>2. \A q \in Rounds : Fine(q)
  BY DEF IInv, ReadIsWhole
<1>3. SUFFICES ASSUME NEW q \in Rounds
               PROVE  Fine(q)'
  BY DEF ReadIsWhole
<1>4. CASE UNCHANGED <<at, record, spoiled, kept, taken, end>>
  BY <1>2, <1>4
<1>5. ASSUME NEW r \in Rounds, RoundSteps(r), r # q
      PROVE  Fine(q)'
  <2>1. Fine(q)
    BY <1>2
  <2> QED
    BY <1>5, <2>1, OthersStay
<1>6. CASE RoundSteps(q)
  <2>1. Fine(q) /\ at \in [Rounds -> Places] /\ end \in [Rounds -> RoundEnd]
    BY <1>1, <1>2 DEF TypeOK
  <2> HIDE DEF Fine
  <2>2. CASE MachineInvalid(q) \/ Refuse(q) \/ Acquire(q) \/ CheckDirtyTree(q) \/ Launch(q)
    BY <2>1, <2>2 DEF MachineInvalid, Refuse, Acquire, CheckDirtyTree, Launch, EndBy, Goto, Fine, bookVars
  <2>3. CASE EndsEarly(q) \/ AfterModel(q)
    <3>1. at'[q] = "tidy" => taken[q] = <<>> /\ record[q] = <<>>
      BY <1>1, <2>1, <2>3 DEF EndsEarly, AfterModel, EndBy, Goto, NothingYet
    <3>2. at'[q] \notin {"compare", "restore", "decide"}
      BY <2>1, <2>3 DEF EndsEarly, AfterModel, EndBy, Goto
    <3>3. UNCHANGED <<record, spoiled, kept, taken>>
      BY <2>3 DEF EndsEarly, AfterModel, bookVars
    <3> QED
      BY <2>1, <3>1, <3>2, <3>3 DEF Fine
  <2>4. CASE ReadRecord(q) \/ Compare(q)
    BY <1>1, <2>1, <2>4 DEF ReadRecord, Compare, Goto, Fine, TypeOK
  <2>5. CASE Restore(q) \/ Throws(q)
    BY <2>1, <2>5 DEF Restore, Throws, EndBy, Goto, Fine, bookVars
  <2>6. CASE Decide(q)
    BY <2>1, <2>6 DEF Decide, EndBy, Goto, Fine, bookVars
  <2>7. CASE Tidy(q)
    <3>1. at'[q] = "incident" /\ q \notin kept'
      BY <2>1, <2>7 DEF Tidy, Goto
    <3>2. spoiled'[q] => spoiled[q] /\ record'[q] = record[q]
      BY <1>1, <2>7 DEF Tidy, TypeOK
    <3> QED
      BY <2>1, <3>1, <3>2 DEF Fine
  <2>8. CASE AppendIncident(q) \/ PruneRead(q) \/ PruneWrite(q) \/ Release(q)
    BY <2>1, <2>8 DEF AppendIncident, PruneRead, PruneWrite, Release, Goto, Fine, bookVars
  <2>9. CASE Die(q)
    BY <2>1, <2>9 DEF Die, Goto, Fine
  <2> QED
    BY <1>6, <2>2, <2>3, <2>4, <2>5, <2>6, <2>7, <2>8, <2>9 DEF RoundSteps, RoundStep
<1>7. CASE ModelSteps \/ \E r \in Rounds : Signal(r)
  BY <1>4, <1>7, ModelFrame
<1>8. CASE Spoil \/ \E c \in Children : ChildStep(c)
  <2>1. Fine(q)
    BY <1>2
  <2>2. CASE q # lock
    BY <1>8, <2>1, <2>2, ChildWorks
  <2>3. CASE q = lock /\ Spoil
    BY <1>1, <2>1, <2>3, ChildWorks DEF Spoil, TypeOK
  <2>4. ASSUME q = lock, NEW c \in Children, ChildStep(c)
        PROVE  Fine(q)'
    <3>1. spoiled[q] => record' = record
      BY <1>1, <2>4 DEF ChildStep, Propose, Push, TakeGuard, AppendEntry, ReleaseGuard, ChildEnds, GuardIsExclusive
    <3> QED
      BY <2>1, <2>4, <3>1, ChildWorks, ChildFrame
  <2> QED
    BY <1>8, <2>2, <2>3, <2>4
<1> QED
  BY <1>4, <1>5, <1>6, <1>7, <1>8, StepCases, WriteFrame DEF vars

(***************************************************************************)
(* What the cleanup takes away is on a branch.                             *)
(***************************************************************************)
LEMMA PushedGrows ==
  ASSUME IInv, [Next]_vars
  PROVE  pushed \subseteq pushed'
<1>1. ASSUME NEW r \in Rounds, RoundSteps(r)
      PROVE  pushed' = pushed
  BY <1>1 DEF RoundSteps, RoundStep, MachineInvalid, Acquire, Refuse, EndsEarly, CheckDirtyTree, Launch, AfterModel,
              ReadRecord, Compare, Restore, Decide, Throws, Tidy, AppendIncident, PruneRead, PruneWrite, Release,
              Die, vaultVars
<1>2. ASSUME NEW c \in Children, ChildStep(c)
      PROVE  pushed \subseteq pushed'
  BY <1>2 DEF ChildStep, Propose, Push, TakeGuard, AppendEntry, ReleaseGuard, ChildEnds, vaultVars
<1> QED
  BY <1>1, <1>2, StepCases, ModelFrame, SpoilFrame, WriteFrame DEF vars

LEMMA OnlyRestoreTakes ==
  ASSUME NEW r \in Rounds, RoundSteps(r)
  PROVE  /\ written' = written
         /\ tree' = tree \/ (Restore(r) /\ \E ps \in SUBSET matching[r] : BackToHead(ps))
BY DEF RoundSteps, RoundStep, MachineInvalid, Acquire, Refuse, EndsEarly, CheckDirtyTree, Launch, AfterModel,
       ReadRecord, Compare, Restore, Decide, Throws, Tidy, AppendIncident, PruneRead, PruneWrite, Release,
       Die, vaultVars

LEMMA FoundStep ==
  ASSUME IInv, [Next]_vars
  PROVE  FoundIsHeld'
<1> DEFINE Safe(p) == /\ written[p] \in pushed \cup {0}
                      /\ Hasty \/ tree[p] \in pushed \cup {0}
<1>1. TypeOK /\ HolderIsHere /\ ModelIsAwaited /\ EntriesAreHeld /\ TextsAreSomewhere /\ pushed \subseteq pushed'
  BY PushedGrows DEF IInv
<1>2. \A q \in Rounds : at[q] = "restore" => \A p \in matching[q] : Safe(p)
  BY DEF IInv, FoundIsHeld
<1>3. SUFFICES ASSUME NEW q \in Rounds, at'[q] = "restore", NEW p \in matching'[q]
               PROVE  Safe(p)'
  BY DEF FoundIsHeld
<1>4. CASE UNCHANGED <<at, matching, tree, written>>
  BY <1>1, <1>2, <1>3, <1>4
<1>5. ASSUME NEW r \in Rounds, RoundSteps(r), r # q
      PROVE  Safe(p)'
  <2>1. at[q] = "restore" /\ matching'[q] = matching[q]
    BY <1>3, <1>5, OthersStay
  <2>2. at[r] # "restore"
    BY <1>1, <1>5, <2>1 DEF HolderIsHere, UnderLock, AfterClose
  <2>3. UNCHANGED <<tree, written>>
    BY <1>5, <2>2, OnlyRestoreTakes DEF Restore
  <2> QED
    BY <1>1, <1>2, <1>3, <2>1, <2>3
<1>6. CASE RoundSteps(q)
  <2>1. Compare(q)
    BY <1>1, <1>3, <1>6
       DEF TypeOK, RoundSteps, RoundStep, MachineInvalid, Acquire, Refuse, EndsEarly, CheckDirtyTree, Launch,
           AfterModel, ReadRecord, Restore, Decide, Throws, Tidy, AppendIncident, PruneRead, PruneWrite, Release,
           Die, EndBy, Goto
  <2>2. p \in Matching(taken[q])
    BY <1>1, <1>3, <2>1 DEF Compare, TypeOK
  <2>3. PICK i \in DOMAIN taken[q] : p \in Paths /\ tree[p] = taken[q][i].body[p]
    BY <2>2 DEF Matching, Latest, Naming
  <2>4. tree[p] \in pushed \cup {0}
    BY <1>1, <2>3 DEF EntriesAreHeld, Held
  <2>5. written[p] \in pushed \cup {0}
    BY <1>1, <2>3, <2>4 DEF TextsAreSomewhere
  <2>6. UNCHANGED <<tree, written>>
    BY <2>1 DEF Compare, vaultVars
  <2> QED
    BY <1>1, <2>4, <2>5, <2>6
<1>7. CASE ModelSteps \/ \E r \in Rounds : Signal(r)
  BY <1>4, <1>7, ModelFrame
<1>8. CASE Spoil \/ \E c \in Children : ChildStep(c)
  BY <1>4, <1>8, SpoilFrame, ChildFrame
<1>9. ASSUME NEW n \in Paths, ModelWrites(n) \/ PersonWrites(n)
      PROVE  Safe(p)'
  <2>1. at[q] = "restore" /\ p \in matching[q] /\ p \in Paths
    BY <1>1, <1>3, <1>9, WriteFrame DEF TypeOK
  <2>2. PersonWrites(n)
    BY <1>1, <1>9, <2>1, QuietRound DEF ModelWrites, Running, UnderLock, AfterClose
  <2>3. Hasty /\ Safe(p) /\ pushed' = pushed
    BY <1>2, <2>1, <2>2, WriteFrame DEF PersonWrites
  <2>4. written'[p] = written[p] \/ written'[p] = 0
    BY <1>1, <2>1, <2>2 DEF PersonWrites, Writes, TypeOK
  <2> QED
    BY <2>3, <2>4
<1> QED
  BY <1>4, <1>5, <1>6, <1>7, <1>8, <1>9, StepCases DEF vars

(***************************************************************************)
(* The model's last text in a note is in the tree or on a branch.          *)
(***************************************************************************)
LEMMA SomewhereStep ==
  ASSUME IInv, [Next]_vars
  PROVE  TextsAreSomewhere'
<1>1. TypeOK /\ TextsAreSomewhere /\ FoundIsHeld /\ pushed \subseteq pushed'
  BY PushedGrows DEF IInv
<1>2. SUFFICES ASSUME NEW p \in Paths
               PROVE  written'[p] \in {0, tree'[p]} \cup pushed'
  BY DEF TextsAreSomewhere
<1>3. CASE UNCHANGED <<tree, written>>
  BY <1>1, <1>3 DEF TextsAreSomewhere
<1>4. ASSUME NEW r \in Rounds, RoundSteps(r)
      PROVE  written'[p] \in {0, tree'[p]} \cup pushed'
  <2>1. CASE tree' = tree
    BY <1>3, <1>4, <2>1, OnlyRestoreTakes
  <2>2. CASE Restore(r) /\ \E ps \in SUBSET matching[r] : BackToHead(ps)
    <3>1. PICK ps \in SUBSET matching[r] : BackToHead(ps)
      BY <2>2
    <3>2. written' = written /\ tree'[p] = IF p \in ps THEN 0 ELSE tree[p]
      BY <1>4, <3>1, OnlyRestoreTakes DEF BackToHead
    <3>3. p \in ps => written[p] \in pushed \cup {0}
      BY <1>1, <2>2 DEF FoundIsHeld, Restore
    <3> QED
      BY <1>1, <3>2, <3>3 DEF TextsAreSomewhere
  <2>3. tree' = tree \/ (Restore(r) /\ \E ps \in SUBSET matching[r] : BackToHead(ps))
    BY <1>4, OnlyRestoreTakes
  <2> QED
    BY <2>1, <2>2, <2>3
<1>5. ASSUME NEW n \in Paths, ModelWrites(n) \/ PersonWrites(n)
      PROVE  written'[p] \in {0, tree'[p]} \cup pushed'
  <2>1. tree \in [Paths -> Texts] /\ written \in [Paths -> Texts]
    BY <1>1 DEF TypeOK
  <2>2. /\ tree' = [tree EXCEPT ![n] = NewText]
        /\ written' = [written EXCEPT ![n] = NewText] \/ written' = [written EXCEPT ![n] = 0]
    BY <1>5 DEF ModelWrites, PersonWrites, Writes
  <2>3. written'[n] \in {0, tree'[n]}
    BY <2>1, <2>2
  <2>4. p # n => written'[p] = written[p] /\ tree'[p] = tree[p]
    BY <2>1, <2>2
  <2> QED
    BY <1>1, <2>3, <2>4 DEF TextsAreSomewhere
<1>6. CASE ModelSteps \/ \E r \in Rounds : Signal(r)
  BY <1>3, <1>6, ModelFrame
<1>7. CASE Spoil \/ \E c \in Children : ChildStep(c)
  BY <1>3, <1>7, SpoilFrame, ChildFrame
<1> QED
  BY <1>3, <1>4, <1>5, <1>6, <1>7, StepCases DEF vars

(***************************************************************************)
(* A prune under way has read every line of a holder.                      *)
(***************************************************************************)
LEMMA PruneStep ==
  ASSUME IInv, [Next]_vars
  PROVE  PruneHasAll'
<1>1. TypeOK /\ HolderIsHere /\ PruneHasAll
  BY DEF IInv
<1>2. SUFFICES ASSUME NEW q \in Rounds, at'[q] = "rewrite", NEW line \in incidents'
               PROVE  line = Old \/ ~line.locked \/ line \in seen'[q]
  BY DEF PruneHasAll
<1>3. CASE UNCHANGED <<at, seen, incidents>>
  BY <1>1, <1>2, <1>3 DEF PruneHasAll
<1>4. ASSUME NEW r \in Rounds, RoundSteps(r), r # q
      PROVE  line = Old \/ ~line.locked \/ line \in seen'[q]
  <2>1. at[q] = "rewrite" /\ seen'[q] = seen[q] /\ lock = q
    BY <1>1, <1>2, <1>4, OthersStay DEF HolderIsHere, UnderLock
  <2>2. line \in incidents \/ ~line.locked
    <3>1. CASE AppendIncident(r)
      <4>1. line \in incidents \/ line = [of |-> r, locked |-> lock = r]
        BY <1>2, <3>1 DEF AppendIncident
      <4>2. lock # r
        BY <1>4, <2>1
      <4>3. [of |-> r, locked |-> lock = r].locked = (lock = r)
        BY Zenon
      <4> QED
        BY <4>1, <4>2, <4>3, Zenon
    <3>2. CASE PruneWrite(r)
      BY <1>1, <1>4, <2>1, <3>2 DEF PruneWrite, HolderIsHere, UnderLock
    <3>3. CASE incidents' = incidents
      BY <1>2, <3>3
    <3> QED
      BY <1>4, <3>1, <3>2, <3>3
         DEF RoundSteps, RoundStep, MachineInvalid, Acquire, Refuse, EndsEarly, CheckDirtyTree, Launch, AfterModel,
             ReadRecord, Compare, Restore, Decide, Throws, Tidy, PruneRead, Release, Die, lineVars
  <2> QED
    BY <1>1, <2>1, <2>2 DEF PruneHasAll
<1>5. CASE RoundSteps(q)
  <2>1. PruneRead(q)
    BY <1>1, <1>2, <1>5
       DEF TypeOK, RoundSteps, RoundStep, MachineInvalid, Acquire, Refuse, EndsEarly, CheckDirtyTree, Launch,
           AfterModel, ReadRecord, Compare, Restore, Decide, Throws, Tidy, AppendIncident, PruneWrite, Release,
           Die, EndBy, Goto
  <2>2. seen'[q] = incidents /\ incidents' = incidents
    BY <1>1, <1>2, <2>1 DEF PruneRead, Goto, TypeOK
  <2> QED
    BY <1>2, <2>2
<1>6. CASE ModelSteps \/ \E r \in Rounds : Signal(r)
  BY <1>3, <1>6, ModelFrame
<1>7. CASE Spoil \/ \E c \in Children : ChildStep(c)
  BY <1>3, <1>7, SpoilFrame, ChildFrame
<1> QED
  BY <1>3, <1>4, <1>5, <1>6, <1>7, StepCases, WriteFrame DEF vars

(***************************************************************************)
(* The invariant.                                                          *)
(***************************************************************************)
LEMMA InitIInv == Init => IInv
<1> SUFFICES ASSUME Init PROVE IInv
  OBVIOUS
<1>1. TypeOK
  <2>1. NoRound \in Rounds \cup {NoRound} /\ "idle" \in Places /\ {Old} \in SUBSET (Lines \cup {Old})
    BY DEF Places
  <2>2. [texts |-> 0, pushes |-> 0, deaths |-> 0] \in [texts : 0 .. MaxTexts, pushes : 0 .. MaxPushes, deaths : 0 .. MaxDeaths]
    BY PartsTyped
  <2> QED
    BY <2>1, <2>2, PartsTyped DEF TypeOK, Init
<1>2. HolderIsHere /\ NothingYet /\ ReadIsWhole /\ FoundIsHeld /\ PruneHasAll
  BY DEF Init, HolderIsHere, UnderLock, AfterClose, NothingYet, ReadIsWhole, FoundIsHeld, PruneHasAll
<1>3. \A c \in Children : child[c] = NoChild
  BY DEF Init, AllDead
<1>4. ModelIsAwaited /\ GuardIsExclusive
  BY <1>3 DEF Init, ModelIsAwaited, GuardIsExclusive, NoChild, NoModel, Running
<1>5. EntriesAreHeld
  BY <1>3 DEF Init, EntriesAreHeld, NoChild
<1>6. TextsAreSomewhere
  BY DEF Init, TextsAreSomewhere
<1> QED
  BY <1>1, <1>2, <1>4, <1>5, <1>6 DEF IInv

LEMMA StepIInv == IInv /\ [Next]_vars => IInv'
<1> SUFFICES ASSUME IInv, [Next]_vars PROVE IInv'
  OBVIOUS
<1>1. TypeOK'
  BY TypeStep DEF IInv
<1> QED
  BY <1>1, HolderStep, AwaitedStep, GuardStep, HeldStep, NothingStep, ReadStep, FoundStep, SomewhereStep, PruneStep
     DEF IInv

\* Every state of every round satisfies the inductive invariant: the lock, the
\* model's run, the record and its guard, the cleanup and the incidents.
THEOREM RoundInvariant == Spec => []IInv
BY InitIInv, StepIInv, PTL DEF Spec

\* No propose the model started is at work once its round has left the wait
\* for the model, nor without that round's lock.
THEOREM NoProposeOutlivesTheModel == Spec => []ChildrenUnderLock
<1>1. IInv => ChildrenUnderLock
  BY DEF IInv, ModelIsAwaited, ChildrenUnderLock
<1> QED
  BY <1>1, RoundInvariant, PTL

(***************************************************************************)
(* The steps that take something away.                                     *)
(***************************************************************************)
\* As long as the person does not write between the look of the cleanup and
\* its git restore, what it takes out of the working tree is on a branch.
THEOREM RestoredIsOnABranch ==
  ASSUME ~Hasty
  PROVE  Spec => RestoresOnlyPushed
<1> DEFINE Kept == \A p \in Paths : tree[p] # 0 /\ tree'[p] = 0 => tree[p] \in pushed
<1>1. IInv /\ [Next]_vars => Kept
  <2> SUFFICES ASSUME IInv, [Next]_vars, NEW p \in Paths, tree[p] # 0, tree'[p] = 0
               PROVE  tree[p] \in pushed
    OBVIOUS
  <2>1. TypeOK /\ FoundIsHeld
    BY DEF IInv
  <2>2. CASE tree' = tree
    BY <2>2
  <2>3. ASSUME NEW r \in Rounds, RoundSteps(r)
        PROVE  tree[p] \in pushed
    <3>1. CASE Restore(r) /\ \E ps \in SUBSET matching[r] : BackToHead(ps)
      <4>1. at[r] = "restore"
        BY <3>1 DEF Restore
      <4>2. p \in matching[r]
        BY <3>1 DEF BackToHead
      <4> QED
        BY <2>1, <4>1, <4>2 DEF FoundIsHeld
    <3>2. tree' = tree \/ (Restore(r) /\ \E ps \in SUBSET matching[r] : BackToHead(ps))
      BY <2>3, OnlyRestoreTakes
    <3> QED
      BY <2>2, <3>1, <3>2
  <2>4. ASSUME NEW n \in Paths, ModelWrites(n) \/ PersonWrites(n)
        PROVE  tree[p] \in pushed
    <3>1. tree' = [tree EXCEPT ![n] = NewText] /\ tree \in [Paths -> Texts]
      BY <2>1, <2>4 DEF ModelWrites, PersonWrites, Writes, TypeOK
    <3>2. NewText # 0
      BY <2>1 DEF TypeOK, NewText
    <3> QED
      BY <3>1, <3>2
  <2> QED
    BY <2>2, <2>3, <2>4, StepCases, ModelFrame, SpoilFrame, ChildFrame DEF vars
<1> QED
  BY <1>1, RoundInvariant, PTL DEF Spec, RestoresOnlyPushed

\* An entry the model's proposes wrote stays in the record until the round has
\* read it, unless something took the record's place or the round says it
\* failed.
THEOREM NoEntryIsLost == Spec => EntriesAreRead
<1> DEFINE Read(r, i) == \/ \E j \in DOMAIN record'[r] : record'[r][j] = record[r][i]
                         \/ \E j \in DOMAIN taken[r] : taken[r][j] = record[r][i]
                         \/ spoiled'[r] \/ end[r].reason = "internal_error"
<1>1. IInv /\ [Next]_vars => \A r \in Rounds : \A i \in DOMAIN record[r] : Read(r, i)
  <2> SUFFICES ASSUME IInv, [Next]_vars, NEW r \in Rounds, NEW i \in DOMAIN record[r]
               PROVE  Read(r, i)
    OBVIOUS
  <2>1. TypeOK /\ ReadIsWhole /\ GuardIsExclusive
    BY DEF IInv
  <2>2. CASE record'[r] = record[r]
    BY <2>2
  <2>3. ASSUME NEW q \in Rounds, RoundSteps(q), q # r
        PROVE  Read(r, i)
    BY <2>2, <2>3, OthersStay
  <2>4. CASE RoundSteps(r)
    <3>1. CASE Tidy(r) /\ r \notin kept
      <4>1. at[r] = "tidy"
        BY <3>1 DEF Tidy
      <4>2. ~spoiled[r]
        BY <2>1 DEF ReadIsWhole
      <4> QED
        BY <2>1, <4>1, <4>2 DEF ReadIsWhole
    <3>2. CASE record' = record
      BY <2>2, <3>2
    <3> QED
      BY <2>4, <3>1, <3>2
         DEF RoundSteps, RoundStep, MachineInvalid, Acquire, Refuse, EndsEarly, CheckDirtyTree, Launch, AfterModel,
             ReadRecord, Compare, Restore, Decide, Throws, Tidy, AppendIncident, PruneRead, PruneWrite, Release,
             Die, bookVars
  <2>5. ASSUME NEW c \in Children, ChildStep(c)
        PROVE  Read(r, i)
    <3>1. CASE r = lock /\ AppendEntry(c)
      <4>1. child[c].saw = record[r] /\ child[c].at = "guarded"
        BY <2>1, <3>1 DEF AppendEntry, GuardIsExclusive
      <4>2. PICK entry \in Entries : record' = [record EXCEPT ![lock] = Append(child[c].saw, entry)]
        BY <2>1, <3>1 DEF AppendEntry, TypeOK, ChildStates, Entries
      <4>3. record[r] \in Seq(Entries) /\ record'[r] = Append(record[r], entry)
        BY <2>1, <3>1, <4>1, <4>2 DEF TypeOK
      <4>4. i \in DOMAIN record'[r] /\ record'[r][i] = record[r][i]
        BY <4>2, <4>3
      <4> QED
        BY <4>4
    <3>2. CASE ~AppendEntry(c)
      BY <2>2, <2>5, <3>2 DEF ChildStep, Propose, Push, TakeGuard, ReleaseGuard, ChildEnds
    <3>3. CASE r # lock
      BY <2>2, <2>5, <3>3, ChildWorks
    <3> QED
      BY <3>1, <3>2, <3>3
  <2>6. CASE Spoil
    <3>1. CASE r = lock
      BY <2>1, <2>6, <3>1 DEF Spoil, TypeOK
    <3>2. CASE r # lock
      BY <2>2, <2>6, <3>2, ChildWorks
    <3> QED
      BY <3>1, <3>2
  <2> QED
    BY <2>2, <2>3, <2>4, <2>5, <2>6, StepCases, ModelFrame, WriteFrame DEF vars
<1> QED
  BY <1>1, RoundInvariant, PTL DEF Spec, EntriesAreRead

\* The prune of incidents.jsonl, a rewrite of what was read before, drops no
\* line of a round that had the lock, the one that tells of a failure included.
THEOREM NoHoldersLineIsLost == Spec => LinesOfHoldersStay
<1> DEFINE Stay == \A line \in incidents \ incidents' : line = Old \/ ~line.locked
<1>1. IInv /\ [Next]_vars => Stay
  <2> SUFFICES ASSUME IInv, [Next]_vars, NEW line \in incidents, line \notin incidents'
               PROVE  line = Old \/ ~line.locked
    OBVIOUS
  <2>1. PruneHasAll
    BY DEF IInv
  <2>2. ASSUME NEW r \in Rounds, RoundSteps(r)
        PROVE  line = Old \/ ~line.locked
    <3>1. CASE PruneWrite(r)
      BY <2>1, <3>1 DEF PruneWrite, PruneHasAll
    <3>2. CASE ~PruneWrite(r)
      BY <2>2, <3>2
         DEF RoundSteps, RoundStep, MachineInvalid, Acquire, Refuse, EndsEarly, CheckDirtyTree, Launch, AfterModel,
             ReadRecord, Compare, Restore, Decide, Throws, Tidy, AppendIncident, PruneRead, Release, Die, lineVars
    <3> QED
      BY <3>1, <3>2
  <2> QED
    BY <2>2, StepCases, ModelFrame, SpoilFrame, ChildFrame, WriteFrame DEF vars
<1> QED
  BY <1>1, RoundInvariant, PTL DEF Spec, LinesOfHoldersStay

(***************************************************************************)
(* What a success says.                                                    *)
(***************************************************************************)
\* A round that gets exit 0 or 3 from its decision had a model that ended by
\* itself, no signal, and a clean tree.
LEMMA SuccessSays ==
  ASSUME IInv, [Next]_vars, NEW r \in Rounds, at[r] = "decide", end'[r].exit \in {"OK", "DEGRADED"}
  PROVE  ModelOk /\ ~interrupted[r] /\ Dirty = {}
<1>1. end[r].exit = "FAILURE" /\ end \in [Rounds -> RoundEnd]
  <2>1. end \in [Rounds -> RoundEnd] /\ NothingYet
    BY DEF IInv, TypeOK
  <2>2. end[r] = NoEnd
    BY <2>1 DEF NothingYet
  <2> QED
    BY <2>1, <2>2 DEF NoEnd
<1>2. end' # end
  BY <1>1
<1>3. ASSUME NEW q \in Rounds, RoundSteps(q)
      PROVE  Decide(r)
  <2>1. q = r
    BY <1>1, <1>3, OthersStay
  <2>2. Decide(r) \/ Throws(r) \/ Die(r)
    BY <1>3, <2>1
       DEF RoundSteps, RoundStep, MachineInvalid, Acquire, Refuse, EndsEarly, CheckDirtyTree, Launch, AfterModel,
           ReadRecord, Compare, Restore, Tidy, AppendIncident, PruneRead, PruneWrite, Release
  <2>3. ~Throws(r)
    BY <1>1 DEF Throws, EndBy
  <2>4. ~Die(r)
    BY <1>1 DEF Die, NoEnd
  <2> QED
    BY <2>2, <2>3, <2>4
<1>4. Decide(r)
  BY <1>2, <1>3, StepCases, ModelFrame, SpoilFrame, ChildFrame, WriteFrame DEF vars
<1>5. PICK unread, stuck \in BOOLEAN : end' = [end EXCEPT ![r] = [exit |-> Outcome(r, unread, stuck)[1],
                                                                  reason |-> Outcome(r, unread, stuck)[2]]]
  BY <1>4 DEF Decide, EndBy
<1>6. Outcome(r, unread, stuck)[1] \in {"OK", "DEGRADED"}
  BY <1>1, <1>5
<1> QED
  BY <1>6 DEF Outcome

\* A round that closes its days leaves no text of its model in the working
\* tree alone.
THEOREM SuccessLeavesNothing == Spec => LeavesNothingUnsaid
<1> DEFINE Said == \A r \in Rounds : at[r] = "decide" /\ end'[r].exit \in {"OK", "DEGRADED"} =>
                     \A p \in Paths : written[p] \in pushed \cup {0}
<1>1. IInv /\ [Next]_vars => Said
  BY SuccessSays DEF Dirty, IInv, TextsAreSomewhere
<1> QED
  BY <1>1, RoundInvariant, PTL DEF Spec, LeavesNothingUnsaid

\* A run the timer or an abort sent a signal to is never reported a success.
THEOREM SuccessWasNotStopped == Spec => StoppedIsNoSuccess
<1> DEFINE Whole == \A r \in Rounds : at[r] = "decide" /\ end'[r].exit \in {"OK", "DEGRADED"} =>
                      ~model.stopping /\ ~interrupted[r]
<1>1. IInv /\ [Next]_vars => Whole
  BY SuccessSays DEF ModelOk, IInv, ModelIsAwaited
<1> QED
  BY <1>1, RoundInvariant, PTL DEF Spec, StoppedIsNoSuccess
=============================================================================
