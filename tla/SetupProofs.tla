---------------------------- MODULE SetupProofs -----------------------------
(***************************************************************************)
(* What the kit writes outside a round (module Setup): the machine's own   *)
(* record of each vault, which `register` moves; the files of the kit in a *)
(* vault, which `update` keeps; what `init` makes and undoes; and the gate *)
(* of a push.  A theorem is about one of them, for any commands that run   *)
(* at once, edits, failures and deaths; the last ones are about Setup,     *)
(* where they stand side by side.                                          *)
(***************************************************************************)
EXTENDS Setup, Integers, SequenceTheorems, FiniteSetTheorems, WellFoundedInduction, TLAPS

(***************************************************************************)
(* A least number, for any set of them.                                    *)
(***************************************************************************)

LEMMA LeastOne ==
  ASSUME NEW S \in SUBSET Nat, S # {}
  PROVE  \E m \in S : \A k \in S : m <= k
  <1> DEFINE T == {0 .. n : n \in S}
  <1>1. T # {} /\ T \subseteq FiniteSubsetsOf(Nat)
    <2>1. \A n \in S : 0 .. n \in SUBSET Nat /\ IsFiniteSet(0 .. n)
      <3> TAKE n \in S
      <3>1. n \in Int /\ 0 \in Int
        OBVIOUS
      <3> QED
        BY <3>1, FS_Interval
    <2> QED
      BY <2>1 DEF FiniteSubsetsOf
  <1> HIDE DEF T
  <1>2. PICK x \in T : \A y \in T : ~(<<y, x>> \in StrictSubsetOrdering(Nat))
    BY <1>1, WFMin, FS_StrictSubsetOrderingWellFounded
  <1>3. PICK m \in S : x = 0 .. m
    BY <1>2 DEF T
  <1>4. ASSUME NEW k \in S, k < m PROVE FALSE
    <2>1. 0 .. k \in T /\ 0 .. k \subseteq 0 .. m /\ 0 .. k # 0 .. m
      BY <1>4 DEF T
    <2>2. 0 .. k \in SUBSET Nat /\ 0 .. m \in SUBSET Nat
      OBVIOUS
    <2> QED
      BY <1>2, <1>3, <2>1, <2>2, Zenon DEF StrictSubsetOrdering
  <1> QED
    BY <1>4

(***************************************************************************)
(* MachineState: the state of each vault is its own.                       *)
(***************************************************************************)

Stores == [VaultPaths -> MachineFile!States]

Steps == {"none", "clear", "move", "write"}

Ops == [step : Steps, vault : Vaults \cup {None}, source : VaultPaths \cup {None}, next : MachineFile!Machines,
        before : Stores \cup {<<>>}, from : VaultPaths \cup {None}, aside : BOOLEAN]

(* No two records have one id.                                             *)
OneId(all) ==
    \A p, q \in VaultPaths :
        (all[p].machine # MachineFile!NoMachine /\ all[q].machine # MachineFile!NoMachine /\ all[p].machine.id = all[q].machine.id)
          => p = q

(* A record's paths lead into the directory that holds it.                 *)
AtHome(all) == \A p \in VaultPaths : all[p].machine # MachineFile!NoMachine => all[p].machine.home = p

(* Nothing but what a refused round leaves.                                *)
Bare(d) == d.machine = MachineFile!NoMachine /\ d.marks = None /\ d.queue = None

Beside(target) ==
    /\ Bare(op.before[target])
    /\ op.step = "clear" => dirs = op.before
    /\ op.step = "move" => dirs = [op.before EXCEPT ![target] = MachineFile!NoDir]
    /\ op.step = "write" =>
          dirs = [op.before EXCEPT ![target] = op.before[op.source], ![op.source] = MachineFile!NoDir]
    /\ op.step # "clear" => op.aside = op.before[target].trace

(* A register under way: what it found, and how far it has come.           *)
UnderWay(target) ==
    /\ op.vault \in Vaults /\ target \in VaultPaths /\ op.source \in VaultPaths /\ op.before \in Stores
    /\ op.before[op.source].machine # MachineFile!NoMachine
    /\ op.next = MachineFile!Rebase(op.before[op.source].machine, op.source, target)
    /\ (op.from \in VaultPaths /\ op.from # target /\ op.before[op.from].machine # MachineFile!NoMachine)
          => op.source = op.from
    /\ op.source = target => op.step = "write" /\ dirs = op.before
    /\ op.source # target => Beside(target)

MachineTyped ==
    /\ at \in [Vaults -> VaultPaths \cup {None}] /\ was \in [Vaults -> VaultPaths \cup {None}]
    /\ dirs \in Stores /\ op \in Ops /\ stopped \in Nat
    /\ op.step = "none" => op = MachineFile!NoOp

MachineInv ==
    /\ MachineTyped
    /\ OneId(dirs)
    /\ op.step # "none" => UnderWay(at[op.vault])
    /\ stopped = 0 => AtHome(MachineFile!Found)

-----------------------------------------------------------------------------

LEMMA NamesAreNone ==
  ASSUME MachineFile!MachineAssumption
  PROVE  /\ None \notin Vaults /\ None \notin VaultPaths
         /\ MachineFile!NoMachine \in MachineFile!Machines /\ MachineFile!NoDir \in MachineFile!States /\ MachineFile!NoOp \in Ops /\ MachineFile!NoOp.step = "none"
         /\ MachineFile!NoMachine.id = None /\ MachineFile!NoMachine.canonical = None /\ MachineFile!NoMachine.home = None
         /\ MachineFile!NoDir.machine = MachineFile!NoMachine /\ MachineFile!NoDir.marks = None /\ MachineFile!NoDir.queue = None /\ MachineFile!NoDir.trace = FALSE
         /\ MachineFile!NoDir.there = FALSE
  BY DEF MachineFile!MachineAssumption, MachineFile!NoMachine, MachineFile!Machines, MachineFile!NoDir, MachineFile!States, MachineFile!NoOp, Ops, Steps

(* The second store holds at least what the first does of every vault.     *)
NoFewer(d, e) ==
    \A w \in Vaults :
        /\ MachineFile!Cardinality({p \in VaultPaths : d[p].marks = w}) <= MachineFile!Cardinality({p \in VaultPaths : e[p].marks = w})
        /\ MachineFile!Cardinality({p \in VaultPaths : d[p].queue = w}) <= MachineFile!Cardinality({p \in VaultPaths : e[p].queue = w})

LEMMA KeptIsNeverLost == NoFewer(dirs, dirs') => MachineFile!StateIsNeverLost
  BY Zenon DEF NoFewer, MachineFile!StateIsNeverLost

LEMMA SameSets ==
  \A S : /\ MachineFile!IsFiniteSet(S) = IsFiniteSet(S)
         /\ MachineFile!Cardinality(S) = Cardinality(S)
  BY Zenon DEF IsFiniteSet, MachineFile!IsFiniteSet, Cardinality, MachineFile!Cardinality

LEMMA SwapKeepsCount ==
  ASSUME MachineFile!MachineAssumption, NEW S \in SUBSET VaultPaths, NEW T \in SUBSET VaultPaths, NEW a \in VaultPaths, NEW b \in VaultPaths,
         \A p \in VaultPaths : p # a /\ p # b => (p \in S <=> p \in T),
         a \in S <=> b \in T, b \in S <=> a \in T
  PROVE  MachineFile!Cardinality(S) <= MachineFile!Cardinality(T)
<1>1. MachineFile!IsFiniteSet(S) /\ MachineFile!IsFiniteSet(T)
  BY SameSets, FS_Subset DEF MachineFile!MachineAssumption
<1>2. MachineFile!Cardinality(S) \in Nat /\ MachineFile!Cardinality(T) \in Nat
  BY <1>1, SameSets, FS_CardinalityType
<1>3. CASE a \in S <=> b \in S
  <2>1. S = T
    BY <1>3
  <2> QED BY <2>1, <1>2
<1>4. CASE a \in S /\ b \notin S
  <2>1. T = (S \ {a}) \cup {b}
    BY <1>4
  <2>2. MachineFile!IsFiniteSet(S \ {a}) /\ MachineFile!Cardinality(S \ {a}) = MachineFile!Cardinality(S) - 1
    BY <1>1, <1>4, SameSets, FS_RemoveElement
  <2>3. b \notin S \ {a}
    BY <1>4
  <2>4. MachineFile!Cardinality(T) = MachineFile!Cardinality(S \ {a}) + 1
    BY <2>1, <2>2, <2>3, SameSets, FS_AddElement
  <2> QED BY <2>2, <2>4, <1>2
<1>5. CASE a \notin S /\ b \in S
  <2>1. T = (S \ {b}) \cup {a}
    BY <1>5
  <2>2. MachineFile!IsFiniteSet(S \ {b}) /\ MachineFile!Cardinality(S \ {b}) = MachineFile!Cardinality(S) - 1
    BY <1>1, <1>5, SameSets, FS_RemoveElement
  <2>3. a \notin S \ {b}
    BY <1>5
  <2>4. MachineFile!Cardinality(T) = MachineFile!Cardinality(S \ {b}) + 1
    BY <2>1, <2>2, <2>3, SameSets, FS_AddElement
  <2> QED BY <2>2, <2>4, <1>2
<1> QED BY <1>3, <1>4, <1>5

LEMMA MoreCountsMore ==
  ASSUME MachineFile!MachineAssumption, NEW S \in SUBSET VaultPaths, NEW T \in SUBSET VaultPaths, S \subseteq T
  PROVE  MachineFile!Cardinality(S) <= MachineFile!Cardinality(T)
<1>1. MachineFile!IsFiniteSet(T)
  BY SameSets, FS_Subset DEF MachineFile!MachineAssumption
<1> QED BY <1>1, SameSets, FS_Subset

(* Two stores, the second with two directories exchanged as far as marks   *)
(* and questions go.                                                       *)
LEMMA SwapLosesNothing ==
  ASSUME MachineFile!MachineAssumption, NEW d \in Stores, NEW e \in Stores, NEW a \in VaultPaths, NEW b \in VaultPaths,
         \A p \in VaultPaths : p # a /\ p # b => d[p].marks = e[p].marks /\ d[p].queue = e[p].queue,
         d[a].marks = e[b].marks, d[b].marks = e[a].marks,
         d[a].queue = e[b].queue, d[b].queue = e[a].queue
  PROVE  NoFewer(d, e)
<1> SUFFICES ASSUME NEW w \in Vaults
             PROVE  /\ MachineFile!Cardinality({p \in VaultPaths : d[p].marks = w}) <= MachineFile!Cardinality({p \in VaultPaths : e[p].marks = w})
                    /\ MachineFile!Cardinality({p \in VaultPaths : d[p].queue = w}) <= MachineFile!Cardinality({p \in VaultPaths : e[p].queue = w})
  BY Zenon DEF NoFewer
<1>1. MachineFile!Cardinality({p \in VaultPaths : d[p].marks = w}) <= MachineFile!Cardinality({p \in VaultPaths : e[p].marks = w})
  <2> DEFINE S == {p \in VaultPaths : d[p].marks = w}
             T == {p \in VaultPaths : e[p].marks = w}
  <2>1. S \in SUBSET VaultPaths /\ T \in SUBSET VaultPaths
    OBVIOUS
  <2>2. /\ \A p \in VaultPaths : p # a /\ p # b => (p \in S <=> p \in T)
        /\ a \in S <=> b \in T
        /\ b \in S <=> a \in T
    OBVIOUS
  <2> HIDE DEF S, T
  <2>3. MachineFile!Cardinality(S) <= MachineFile!Cardinality(T)
    BY <2>1, <2>2, SwapKeepsCount
  <2> QED BY <2>3 DEF S, T
<1>2. MachineFile!Cardinality({p \in VaultPaths : d[p].queue = w}) <= MachineFile!Cardinality({p \in VaultPaths : e[p].queue = w})
  <2> DEFINE S == {p \in VaultPaths : d[p].queue = w}
             T == {p \in VaultPaths : e[p].queue = w}
  <2>1. S \in SUBSET VaultPaths /\ T \in SUBSET VaultPaths
    OBVIOUS
  <2>2. /\ \A p \in VaultPaths : p # a /\ p # b => (p \in S <=> p \in T)
        /\ a \in S <=> b \in T
        /\ b \in S <=> a \in T
    OBVIOUS
  <2> HIDE DEF S, T
  <2>3. MachineFile!Cardinality(S) <= MachineFile!Cardinality(T)
    BY <2>1, <2>2, SwapKeepsCount
  <2> QED BY <2>3 DEF S, T
<1> QED BY <1>1, <1>2

(* Two stores, the second with no mark or question fewer.                  *)
LEMMA GrowthLosesNothing ==
  ASSUME MachineFile!MachineAssumption, NEW d, NEW e,
         \A p \in VaultPaths : /\ d[p].marks \in {e[p].marks, None}
                               /\ d[p].queue \in {e[p].queue, None}
  PROVE  NoFewer(d, e)
<1> SUFFICES ASSUME NEW w \in Vaults
             PROVE  /\ MachineFile!Cardinality({p \in VaultPaths : d[p].marks = w}) <= MachineFile!Cardinality({p \in VaultPaths : e[p].marks = w})
                    /\ MachineFile!Cardinality({p \in VaultPaths : d[p].queue = w}) <= MachineFile!Cardinality({p \in VaultPaths : e[p].queue = w})
  BY Zenon DEF NoFewer
<1>0. w # None
  BY NamesAreNone
<1>1. {p \in VaultPaths : d[p].marks = w} \subseteq {p \in VaultPaths : e[p].marks = w}
  BY <1>0
<1>2. {p \in VaultPaths : d[p].queue = w} \subseteq {p \in VaultPaths : e[p].queue = w}
  BY <1>0
<1> QED BY <1>1, <1>2, MoreCountsMore

-----------------------------------------------------------------------------

LEMMA MachineStarts == MachineFile!MachineAssumption /\ MachineFile!Init => MachineInv
<1> SUFFICES ASSUME MachineFile!MachineAssumption, MachineFile!Init PROVE MachineInv
  OBVIOUS
<1>1. MachineTyped
  BY NamesAreNone DEF MachineFile!Init, MachineTyped, Stores
<1>2. OneId(dirs) /\ AtHome(dirs)
  BY NamesAreNone DEF MachineFile!Init, OneId, AtHome
<1>3. op.step = "none" /\ MachineFile!Found = dirs
  BY NamesAreNone DEF MachineFile!Init, MachineFile!Found
<1> QED BY <1>1, <1>2, <1>3 DEF MachineInv

(* A new record: its id is new.                                            *)
LEMMA WriteIsOneMore ==
  ASSUME MachineFile!MachineAssumption, ~Reuse, dirs \in Stores, OneId(dirs), NEW p \in VaultPaths, MachineFile!NewId(p)
  PROVE  /\ MachineFile!Write(p) \in Stores /\ OneId(MachineFile!Write(p))
         /\ AtHome(dirs) => AtHome(MachineFile!Write(p))
         /\ \A q \in VaultPaths : MachineFile!Write(p)[q].marks = dirs[q].marks /\ MachineFile!Write(p)[q].queue = dirs[q].queue
<1> DEFINE new == [id |-> p, canonical |-> p, home |-> p]
<1>1. new \in MachineFile!Machines /\ new.id = p /\ new.home = p
  BY DEF MachineFile!Machines
<1>2. dirs[p] \in MachineFile!States /\ DOMAIN dirs = VaultPaths
  BY DEF Stores
<1> HIDE DEF new
<1>3. PICK d : d = [dirs[p] EXCEPT !.there = TRUE, !.machine = new]
  OBVIOUS
<1>4. d \in MachineFile!States /\ d.machine = new /\ d.marks = dirs[p].marks /\ d.queue = dirs[p].queue
  BY <1>1, <1>2, <1>3 DEF MachineFile!States
<1>5. MachineFile!Write(p) = [dirs EXCEPT ![p] = d]
  BY <1>3, <1>2, <1>4 DEF MachineFile!Write, new, Stores, MachineFile!States
<1>6. MachineFile!Write(p) \in Stores
  BY <1>5, <1>4 DEF Stores
<1>7. \A q \in VaultPaths : MachineFile!Write(p)[q] = IF q = p THEN d ELSE dirs[q]
  BY <1>5, <1>2
<1>8. OneId(MachineFile!Write(p))
  BY <1>7, <1>4, <1>1 DEF OneId, MachineFile!NewId
<1>9. AtHome(dirs) => AtHome(MachineFile!Write(p))
  BY <1>7, <1>4, <1>1 DEF AtHome
<1>10. \A q \in VaultPaths : MachineFile!Write(p)[q].marks = dirs[q].marks /\ MachineFile!Write(p)[q].queue = dirs[q].queue
  BY <1>7, <1>4
<1> QED BY <1>6, <1>8, <1>9, <1>10

-----------------------------------------------------------------------------

(* A step that answers nothing of a register.                              *)
LEMMA SilentSaysNothing ==
  ASSUME reply' = reply \/ reply' = MachineFile!Silent
  PROVE  MachineFile!RegisterBringsItsOwn /\ MachineFile!FailedIsNone /\ MachineFile!NewHidesNothing /\ MachineFile!PathsFollowWhole
<1>1. reply' = reply \/ reply'.command = "none"
  BY DEF MachineFile!Silent
<1> QED BY <1>1 DEF MachineFile!RegisterBringsItsOwn, MachineFile!FailedIsNone, MachineFile!NewHidesNothing, MachineFile!PathsFollowWhole, MachineFile!PathsFollow, MachineFile!Answered

LEMMA SameStoreLosesNothing ==
  ASSUME MachineFile!MachineAssumption, dirs' = dirs
  PROVE  MachineFile!StateIsNeverLost
<1>1. NoFewer(dirs, dirs')
  BY GrowthLosesNothing
<1> QED BY <1>1, KeptIsNeverLost

(* Nothing is under way, and the step changes no machine.json.             *)
LEMMA IdleStep ==
  ASSUME MachineFile!MachineAssumption, MachineInv, op = MachineFile!NoOp, op' = MachineFile!NoOp,
         at' \in [Vaults -> VaultPaths \cup {None}], was' \in [Vaults -> VaultPaths \cup {None}],
         dirs' \in Stores, stopped' = stopped,
         \A p \in VaultPaths : dirs'[p].machine = dirs[p].machine \/ dirs'[p].machine = MachineFile!NoMachine
  PROVE  MachineInv'
<1>1. MachineTyped'
  BY NamesAreNone DEF MachineInv, MachineTyped
<1>2. OneId(dirs')
  BY DEF OneId, MachineInv
<1>3. (op.step = "none")'
  BY NamesAreNone
<1>4. stopped = 0 => AtHome(dirs)
  BY DEF MachineInv, MachineFile!Found
<1>5. stopped = 0 => AtHome(dirs')
  BY <1>4 DEF AtHome
<1>6. (stopped = 0 => AtHome(MachineFile!Found))'
  BY <1>5 DEF MachineFile!Found
<1> QED BY <1>1, <1>2, <1>3, <1>6 DEF MachineInv

LEMMA PersonSteps ==
  ASSUME MachineFile!MachineAssumption, MachineInv,
         \/ \E v \in Vaults, p \in VaultPaths : MachineFile!Move(v, p)
         \/ \E v \in Vaults : MachineFile!Delete(v)
         \/ \E p \in VaultPaths : MachineFile!RemoveMachine(p)
  PROVE  MachineInv' /\ MachineFile!MachineStateIsKept
<1>t. MachineTyped
  BY DEF MachineInv
<1>1. ASSUME NEW v \in Vaults, NEW p \in VaultPaths, MachineFile!Move(v, p) PROVE MachineInv' /\ MachineFile!MachineStateIsKept
  <2>1. /\ op = MachineFile!NoOp /\ op' = MachineFile!NoOp /\ dirs' = dirs /\ stopped' = stopped /\ reply' = MachineFile!Silent
        /\ at' \in [Vaults -> VaultPaths \cup {None}] /\ was' \in [Vaults -> VaultPaths \cup {None}]
    BY <1>1, <1>t DEF MachineFile!Move, MachineFile!Acts, MachineTyped
  <2>2. MachineInv'
    BY <2>1, <1>t, IdleStep DEF MachineTyped
  <2> QED BY <2>1, <2>2, SilentSaysNothing, SameStoreLosesNothing DEF MachineFile!MachineStateIsKept
<1>2. ASSUME NEW v \in Vaults, MachineFile!Delete(v) PROVE MachineInv' /\ MachineFile!MachineStateIsKept
  <2>1. /\ op = MachineFile!NoOp /\ op' = MachineFile!NoOp /\ dirs' = dirs /\ stopped' = stopped /\ reply' = MachineFile!Silent
        /\ at' \in [Vaults -> VaultPaths \cup {None}] /\ was' \in [Vaults -> VaultPaths \cup {None}]
    BY <1>2, <1>t DEF MachineFile!Delete, MachineFile!Acts, MachineTyped
  <2>2. MachineInv'
    BY <2>1, <1>t, IdleStep DEF MachineTyped
  <2> QED BY <2>1, <2>2, SilentSaysNothing, SameStoreLosesNothing DEF MachineFile!MachineStateIsKept
<1>3. ASSUME NEW p \in VaultPaths, MachineFile!RemoveMachine(p) PROVE MachineInv' /\ MachineFile!MachineStateIsKept
  <2>1. /\ op = MachineFile!NoOp /\ op' = MachineFile!NoOp /\ stopped' = stopped /\ reply' = MachineFile!Silent /\ at' = at /\ was' = was
        /\ dirs' = [dirs EXCEPT ![p].machine = MachineFile!NoMachine]
    BY <1>3 DEF MachineFile!RemoveMachine, MachineFile!Acts
  <2>2. PICK d : d = [dirs[p] EXCEPT !.machine = MachineFile!NoMachine]
    OBVIOUS
  <2>3. dirs[p] \in MachineFile!States /\ DOMAIN dirs = VaultPaths
    BY <1>t DEF MachineTyped, Stores
  <2>4. d \in MachineFile!States /\ d.machine = MachineFile!NoMachine /\ d.marks = dirs[p].marks /\ d.queue = dirs[p].queue
    BY <2>2, <2>3, NamesAreNone DEF MachineFile!States
  <2>5. dirs' = [dirs EXCEPT ![p] = d]
    BY <2>1, <2>2, <2>3
  <2>6. dirs' \in Stores
    BY <2>5, <2>4, <1>t DEF MachineTyped, Stores
  <2>7. \A q \in VaultPaths : dirs'[q] = IF q = p THEN d ELSE dirs[q]
    BY <2>5, <2>3
  <2>8. MachineInv'
    BY <2>1, <2>6, <2>7, <2>4, <1>t, IdleStep DEF MachineTyped
  <2>9. \A q \in VaultPaths : dirs[q].marks = dirs'[q].marks /\ dirs[q].queue = dirs'[q].queue
    BY <2>7, <2>4
  <2>10. MachineFile!StateIsNeverLost
    BY <2>9, GrowthLosesNothing, KeptIsNeverLost
  <2> QED BY <2>1, <2>8, <2>10, SilentSaysNothing DEF MachineFile!MachineStateIsKept
<1> QED BY <1>1, <1>2, <1>3

LEMMA RoundKeepsTheMachine ==
  ASSUME MachineFile!MachineAssumption, MachineInv, NEW v \in Vaults, MachineFile!Round(v)
  PROVE  MachineInv' /\ MachineFile!MachineStateIsKept
<1>t. MachineTyped
  BY DEF MachineInv
<1>1. /\ op = MachineFile!NoOp /\ op' = MachineFile!NoOp /\ stopped' = stopped /\ reply' = MachineFile!Silent /\ at' = at /\ was' = was
      /\ at[v] \in VaultPaths /\ DOMAIN dirs = VaultPaths
  BY <1>t DEF MachineFile!Round, MachineTyped, Stores
<1>2. PICK p \in VaultPaths : p = at[v]
  BY <1>1
<1>3. dirs' \in Stores /\ \A q \in VaultPaths : /\ dirs'[q].machine = dirs[q].machine
                                                /\ dirs[q].marks \in {dirs'[q].marks, None}
                                                /\ dirs[q].queue \in {dirs'[q].queue, None}
  <2>1. CASE ~MachineFile!Registered(p)
    <3>1. dirs' = [dirs EXCEPT ![p].there = TRUE, ![p].trace = TRUE]
      BY <2>1, <1>2 DEF MachineFile!Round
    <3>2. PICK d : d = [dirs[p] EXCEPT !.there = TRUE, !.trace = TRUE]
      OBVIOUS
    <3>3. dirs[p] \in MachineFile!States
      BY <1>t DEF MachineTyped, Stores
    <3>4. /\ d \in MachineFile!States /\ d.machine = dirs[p].machine
          /\ d.marks = dirs[p].marks /\ d.queue = dirs[p].queue
      BY <3>2, <3>3 DEF MachineFile!States
    <3>5. dirs' = [dirs EXCEPT ![p] = d]
      BY <3>1, <3>2, <3>3, <1>1 DEF MachineFile!States
    <3> QED BY <3>5, <3>4, <1>1, <1>t DEF MachineTyped, Stores
  <2>2. CASE MachineFile!Registered(p)
    <3>1. PICK home : home = dirs[p].machine.home
      OBVIOUS
    <3>2. dirs' = [q \in VaultPaths |->
                     [dirs[q] EXCEPT
                        !.there = @ \/ q = p,
                        !.trace = @ \/ q = p,
                        !.marks = IF q = p /\ @ = None THEN v ELSE @,
                        !.queue = IF q = home /\ dirs[q].there /\ @ = None THEN v ELSE @]]
      BY <2>2, <1>2, <3>1, Zenon DEF MachineFile!Round
    <3>3. ASSUME NEW q \in VaultPaths
          PROVE  /\ dirs'[q] \in MachineFile!States /\ dirs'[q].machine = dirs[q].machine
                 /\ dirs[q].marks \in {dirs'[q].marks, None}
                 /\ dirs[q].queue \in {dirs'[q].queue, None}
      <4>1. dirs[q] \in MachineFile!States
        BY <1>t DEF MachineTyped, Stores
      <4>2. PICK b \in BOOLEAN : b = (dirs[q].there \/ q = p)
        OBVIOUS
      <4>3. PICK c \in BOOLEAN : c = (dirs[q].trace \/ q = p)
        OBVIOUS
      <4>4. PICK m : m = IF q = p /\ dirs[q].marks = None THEN v ELSE dirs[q].marks
        OBVIOUS
      <4>5. PICK k : k = IF q = home /\ dirs[q].there /\ dirs[q].queue = None THEN v ELSE dirs[q].queue
        OBVIOUS
      <4>6. dirs'[q] = [dirs[q] EXCEPT !.there = b, !.trace = c, !.marks = m, !.queue = k]
        BY <3>2, <4>2, <4>3, <4>4, <4>5, Zenon
      <4>7. m \in Vaults \cup {None} /\ dirs[q].marks \in {m, None}
        BY <4>1, <4>4 DEF MachineFile!States
      <4>8. k \in Vaults \cup {None} /\ dirs[q].queue \in {k, None}
        BY <4>1, <4>5 DEF MachineFile!States
      <4> HIDE <4>2, <4>3, <4>4, <4>5
      <4> QED BY <4>1, <4>6, <4>7, <4>8 DEF MachineFile!States
    <3> QED BY <3>2, <3>3 DEF Stores
  <2> QED BY <2>1, <2>2
<1>4. MachineInv'
  BY <1>1, <1>3, <1>t, IdleStep DEF MachineTyped
<1>5. MachineFile!StateIsNeverLost
  BY <1>3, GrowthLosesNothing, KeptIsNeverLost
<1> QED BY <1>1, <1>4, <1>5, SilentSaysNothing DEF MachineFile!MachineStateIsKept

LEMMA CreateKeepsTheMachine ==
  ASSUME MachineFile!MachineAssumption, ~Reuse, MachineInv, NEW v \in Vaults, NEW p \in VaultPaths, MachineFile!Create(v, p)
  PROVE  MachineInv' /\ MachineFile!MachineStateIsKept
<1>t. MachineTyped /\ OneId(dirs)
  BY DEF MachineInv
<1>1. /\ op = MachineFile!NoOp /\ op' = MachineFile!NoOp /\ stopped' = stopped /\ was' = was /\ MachineFile!NewId(p) /\ dirs' = MachineFile!Write(p)
      /\ at' \in [Vaults -> VaultPaths \cup {None}] /\ reply'.command = "init"
  BY <1>t DEF MachineFile!Create, MachineTyped
<1>2. /\ dirs' \in Stores /\ OneId(dirs') /\ (AtHome(dirs) => AtHome(dirs'))
      /\ \A q \in VaultPaths : dirs'[q].marks = dirs[q].marks /\ dirs'[q].queue = dirs[q].queue
  BY <1>1, <1>t, WriteIsOneMore DEF MachineTyped
<1>3. MachineTyped'
  BY <1>1, <1>2, <1>t, NamesAreNone DEF MachineTyped
<1>4. (op.step = "none")'
  BY <1>1, NamesAreNone
<1>5. (stopped = 0 => AtHome(MachineFile!Found))'
  BY <1>1, <1>2 DEF MachineInv, MachineFile!Found
<1>6. MachineInv'
  BY <1>2, <1>3, <1>4, <1>5 DEF MachineInv
<1>7. MachineFile!StateIsNeverLost
  BY <1>2, GrowthLosesNothing, KeptIsNeverLost
<1>8. MachineFile!RegisterBringsItsOwn /\ MachineFile!FailedIsNone /\ MachineFile!NewHidesNothing /\ MachineFile!PathsFollowWhole
  BY <1>1 DEF MachineFile!RegisterBringsItsOwn, MachineFile!FailedIsNone, MachineFile!NewHidesNothing, MachineFile!PathsFollowWhole, MachineFile!PathsFollow, MachineFile!Answered
<1> QED BY <1>6, <1>7, <1>8 DEF MachineFile!MachineStateIsKept

LEMMA RegisterNewKeepsTheMachine ==
  ASSUME MachineFile!MachineAssumption, ~Reuse, MachineInv, NEW v \in Vaults, MachineFile!RegisterNew(v)
  PROVE  MachineInv' /\ MachineFile!MachineStateIsKept
<1>t. MachineTyped /\ OneId(dirs)
  BY DEF MachineInv
<1>0. at[v] \in VaultPaths
  BY <1>t DEF MachineFile!RegisterNew, MachineTyped
<1>1. PICK p \in VaultPaths : p = at[v]
  BY <1>0
<1>2. /\ op = MachineFile!NoOp /\ op' = MachineFile!NoOp /\ stopped' = stopped /\ was' = was /\ at' = at /\ MachineFile!NewId(p) /\ dirs' = MachineFile!Write(p)
      /\ MachineFile!LooksMoved(v) = {} /\ reply' = [command |-> "new", vault |-> v, from |-> None]
  BY <1>1 DEF MachineFile!RegisterNew
<1>3. /\ dirs' \in Stores /\ OneId(dirs') /\ (AtHome(dirs) => AtHome(dirs'))
      /\ \A q \in VaultPaths : dirs'[q].marks = dirs[q].marks /\ dirs'[q].queue = dirs[q].queue
  BY <1>2, <1>t, WriteIsOneMore DEF MachineTyped
<1>4. MachineTyped'
  BY <1>2, <1>3, <1>t, NamesAreNone DEF MachineTyped
<1>5. (op.step = "none")'
  BY <1>2, NamesAreNone
<1>6. (stopped = 0 => AtHome(MachineFile!Found))'
  BY <1>2, <1>3 DEF MachineInv, MachineFile!Found
<1>7. MachineInv'
  BY <1>3, <1>4, <1>5, <1>6 DEF MachineInv
<1>8. MachineFile!StateIsNeverLost
  BY <1>3, GrowthLosesNothing, KeptIsNeverLost
<1>9. MachineFile!RegisterBringsItsOwn /\ MachineFile!FailedIsNone /\ MachineFile!PathsFollowWhole
  BY <1>2 DEF MachineFile!RegisterBringsItsOwn, MachineFile!FailedIsNone, MachineFile!PathsFollowWhole, MachineFile!PathsFollow, MachineFile!Answered
<1>10. ASSUME NEW q \in VaultPaths, dirs[q].machine.canonical = q, q # p, MachineFile!Live(q) = {}
       PROVE  NameOf[q] # NameOf[p]
  <2>1. MachineFile!Registered(q)
    BY <1>10, NamesAreNone DEF MachineFile!Registered
  <2>2. ~MachineFile!OtherLive(dirs[q].machine.canonical, v)
    BY <1>10 DEF MachineFile!OtherLive
  <2>3. q \in MachineFile!Orphans(v)
    BY <2>1, <2>2, <1>1, <1>10 DEF MachineFile!Orphans
  <2> QED BY <2>3, <1>10, <1>1, <1>2 DEF MachineFile!LooksMoved
<1>11. MachineFile!NewHidesNothing
  BY <1>10, <1>1, <1>2 DEF MachineFile!NewHidesNothing
<1> QED BY <1>7, <1>8, <1>9, <1>11 DEF MachineFile!MachineStateIsKept

LEMMA RebaseIsAMachine ==
  ASSUME MachineFile!MachineAssumption, NEW m \in MachineFile!Machines, NEW past \in VaultPaths, NEW new \in VaultPaths
  PROVE  /\ MachineFile!Rebase(m, past, new) \in MachineFile!Machines
         /\ MachineFile!Rebase(m, past, new).id = m.id
         /\ MachineFile!Rebase(m, past, new).canonical = new
         /\ m.home = past => MachineFile!Rebase(m, past, new).home = new
         /\ MachineFile!Rebase(m, past, new) # MachineFile!NoMachine
<1>1. /\ MachineFile!Rebase(m, past, new) \in MachineFile!Machines
      /\ MachineFile!Rebase(m, past, new).id = m.id
      /\ MachineFile!Rebase(m, past, new).canonical = new
      /\ m.home = past => MachineFile!Rebase(m, past, new).home = new
  BY DEF MachineFile!Rebase, MachineFile!Machines
<1>2. MachineFile!Rebase(m, past, new).canonical # None
  BY <1>1, NamesAreNone
<1> QED BY <1>1, <1>2, NamesAreNone

LEMMA RegisterKeepsTheMachine ==
  ASSUME MachineFile!MachineAssumption, MachineInv, NEW v \in Vaults, NEW from \in VaultPaths \cup {None}, MachineFile!Register(v, from)
  PROVE  MachineInv' /\ MachineFile!MachineStateIsKept
<1>t. MachineTyped /\ OneId(dirs)
  BY DEF MachineInv
<1>0. at[v] \in VaultPaths /\ op = MachineFile!NoOp
  BY <1>t DEF MachineFile!Register, MachineTyped
<1>1. PICK target \in VaultPaths : target = at[v]
  BY <1>0
<1>2. PICK asked : asked = MachineFile!SourceFor(from, target)
  OBVIOUS
<1>3. PICK source : source = IF asked # target /\ MachineFile!Registered(target) THEN target ELSE asked
  OBVIOUS
<1>4. PICK m : m = dirs[source].machine
  OBVIOUS
<1>5. /\ asked # None /\ MachineFile!Registered(asked) /\ MachineFile!MaySettle(asked, target)
      /\ IF source = target /\ m.canonical = target
         THEN /\ reply' = [command |-> "register", vault |-> v, from |-> from]
              /\ op' = MachineFile!NoOp
         ELSE /\ reply' = MachineFile!Silent
              /\ op' = [step |-> IF source = target THEN "write" ELSE "clear",
                        vault |-> v, source |-> source, from |-> from,
                        next |-> MachineFile!Rebase(m, source, target), before |-> dirs,
                        aside |-> FALSE]
      /\ at' = at /\ was' = was /\ dirs' = dirs /\ stopped' = stopped
  BY <1>1, <1>2, <1>3, <1>4 DEF MachineFile!Register
<1>6. asked \in VaultPaths
  BY <1>2, <1>5 DEF MachineFile!SourceFor
<1>7. source \in VaultPaths /\ m \in MachineFile!Machines /\ m # MachineFile!NoMachine /\ dirs[source].machine = m
  <2>1. source \in VaultPaths /\ MachineFile!Registered(source)
    BY <1>3, <1>5, <1>6
  <2>2. dirs[source] \in MachineFile!States
    BY <2>1, <1>t DEF MachineTyped, Stores
  <2> QED BY <2>1, <2>2, <1>4 DEF MachineFile!Registered, MachineFile!States
<1>8. (from \in VaultPaths /\ from # target /\ dirs[from].machine # MachineFile!NoMachine) => source = from
  <2> SUFFICES ASSUME from \in VaultPaths, from # target, dirs[from].machine # MachineFile!NoMachine PROVE source = from
    OBVIOUS
  <2>1. asked = from
    BY <1>2, NamesAreNone DEF MachineFile!SourceFor, MachineFile!Registered
  <2>2. CASE MachineFile!Registered(target)
    <3>1. dirs[target].machine.id = dirs[from].machine.id
      BY <2>1, <2>2, <1>5 DEF MachineFile!MaySettle
    <3>2. target = from
      BY <3>1, <2>2, <1>t DEF OneId, MachineFile!Registered
    <3> QED BY <3>2
  <2>3. CASE ~MachineFile!Registered(target)
    BY <2>1, <2>3, <1>3
  <2> QED BY <2>2, <2>3
<1>9. source # target => Bare(dirs[target])
  <2> SUFFICES ASSUME source # target PROVE Bare(dirs[target])
    OBVIOUS
  <2>1. source = asked /\ ~MachineFile!Registered(target)
    BY <1>3
  <2>2. ~MachineFile!Beyond(dirs[target])
    BY <2>1, <1>5 DEF MachineFile!MaySettle
  <2> QED BY <2>1, <2>2 DEF MachineFile!Beyond, Bare, MachineFile!Registered
<1>10. MachineFile!StateIsNeverLost
  BY <1>5, SameStoreLosesNothing
<1>11. stopped = 0 => AtHome(dirs)
  BY <1>0 DEF MachineInv, MachineFile!Found
<1>12. CASE source = target /\ m.canonical = target
  <2>1. op' = MachineFile!NoOp /\ reply' = [command |-> "register", vault |-> v, from |-> from]
    BY <1>5, <1>12
  <2>2. MachineInv'
    BY <2>1, <1>5, <1>0, <1>t, IdleStep DEF MachineTyped
  <2>3. MachineFile!RegisterBringsItsOwn
    <3> SUFFICES ASSUME from # None, from # at[v], dirs[from].machine # MachineFile!NoMachine PROVE FALSE
      BY <2>1, <1>0 DEF MachineFile!RegisterBringsItsOwn, MachineFile!Honest, MachineFile!Found
    <3> QED BY <1>8, <1>12, <1>1
  <2>4. MachineFile!FailedIsNone /\ MachineFile!NewHidesNothing
    BY <2>1 DEF MachineFile!FailedIsNone, MachineFile!NewHidesNothing, MachineFile!Answered
  <2>5. MachineFile!PathsFollowWhole
    BY <2>1, <1>5, <1>11, <1>1, <1>7, <1>12 DEF MachineFile!PathsFollowWhole, MachineFile!PathsFollow, AtHome
  <2> QED BY <2>2, <2>3, <2>4, <2>5, <1>10 DEF MachineFile!MachineStateIsKept
<1>13. CASE ~(source = target /\ m.canonical = target)
  <2>1. PICK now : now = IF source = target THEN "write" ELSE "clear"
    OBVIOUS
  <2>2. PICK next : next = MachineFile!Rebase(m, source, target)
    OBVIOUS
  <2>3. /\ reply' = MachineFile!Silent
        /\ op' = [step |-> now, vault |-> v, source |-> source, from |-> from,
                  next |-> next, before |-> dirs, aside |-> FALSE]
    BY <1>5, <1>13, <2>1, <2>2
  <2>4. next \in MachineFile!Machines
    BY <2>2, <1>7, RebaseIsAMachine
  <2>5. now \in {"clear", "write"} /\ (now = "write" <=> source = target)
    BY <2>1
  <2>6. op' \in Ops
    BY <2>3, <2>4, <2>5, <1>7, <1>t DEF Ops, Steps, MachineTyped
  <2>7. MachineTyped'
    BY <2>6, <2>3, <2>5, <1>5, <1>t DEF MachineTyped
  <2>8. UnderWay(at[op.vault])'
    <3>1. /\ op'.vault = v /\ op'.source = source /\ op'.before = dirs /\ op'.next = next /\ op'.from = from
          /\ op'.step = now
      BY <2>3
    <3>2. at'[op'.vault] = target
      BY <3>1, <1>1, <1>5
    <3>3. source # target => Beside(target)'
      BY <3>1, <2>5, <1>5, <1>9 DEF Beside
    <3>4. UnderWay(target)'
      BY <3>1, <3>3, <2>2, <2>5, <1>5, <1>7, <1>8, <1>t DEF UnderWay, MachineTyped
    <3> QED BY <3>2, <3>4 DEF UnderWay, Beside
  <2>9. (stopped = 0 => AtHome(MachineFile!Found))'
    <3>1. op'.before = dirs /\ op'.step # "none"
      BY <2>3, <2>5
    <3>2. MachineFile!Found' = dirs
      BY <3>1, NamesAreNone DEF MachineFile!Found
    <3> QED BY <3>2, <1>5, <1>11 DEF AtHome
  <2>10. MachineInv'
    BY <2>7, <2>8, <2>9, <1>5, <1>t DEF MachineInv, OneId
  <2> QED BY <2>3, <2>10, <1>10, SilentSaysNothing DEF MachineFile!MachineStateIsKept
<1> QED BY <1>12, <1>13

(* Where a register stands, read out of the invariant.                     *)
LEMMA WhereItStands ==
  ASSUME MachineFile!MachineAssumption, MachineInv, op.step # "none"
  PROVE  \E target \in VaultPaths :
            /\ at[op.vault] = target /\ UnderWay(target)
            /\ op.before[op.source] \in MachineFile!States /\ op.before[target] \in MachineFile!States
            /\ op.before[op.source].machine \in MachineFile!Machines
            /\ DOMAIN dirs = VaultPaths /\ DOMAIN op.before = VaultPaths
            /\ \A p \in VaultPaths : dirs[p] \in MachineFile!States /\ op.before[p] \in MachineFile!States
            /\ op # MachineFile!NoOp /\ MachineFile!Found = op.before
<1>1. UnderWay(at[op.vault]) /\ MachineTyped
  BY DEF MachineInv
<1>2. at[op.vault] \in VaultPaths /\ op.before \in Stores /\ op.source \in VaultPaths
  BY <1>1 DEF UnderWay
<1>3. op # MachineFile!NoOp /\ MachineFile!Found = op.before
  BY NamesAreNone DEF MachineFile!Found
<1>4. DOMAIN dirs = VaultPaths /\ DOMAIN op.before = VaultPaths
      /\ \A p \in VaultPaths : dirs[p] \in MachineFile!States /\ op.before[p] \in MachineFile!States
  BY <1>1, <1>2 DEF MachineTyped, Stores
<1>5. op.before[op.source].machine \in MachineFile!Machines
  BY <1>2, <1>4 DEF MachineFile!States
<1> QED BY <1>1, <1>2, <1>3, <1>4, <1>5

LEMMA ClearKeepsTheMachine ==
  ASSUME MachineFile!MachineAssumption, MachineInv, MachineFile!Clear
  PROVE  MachineInv' /\ MachineFile!MachineStateIsKept
<1>t. MachineTyped /\ OneId(dirs) /\ op.step = "clear"
  BY DEF MachineInv, MachineFile!Clear
<1>1. PICK target \in VaultPaths :
            /\ at[op.vault] = target /\ UnderWay(target)
            /\ op.before[op.source] \in MachineFile!States /\ op.before[target] \in MachineFile!States
            /\ op.before[op.source].machine \in MachineFile!Machines
            /\ DOMAIN dirs = VaultPaths /\ DOMAIN op.before = VaultPaths
            /\ \A p \in VaultPaths : dirs[p] \in MachineFile!States /\ op.before[p] \in MachineFile!States
            /\ op # MachineFile!NoOp /\ MachineFile!Found = op.before
  BY <1>t, WhereItStands
<1>2. op.source # target /\ Beside(target) /\ dirs = op.before
  BY <1>1, <1>t DEF UnderWay, Beside
<1>3. PICK t : t = dirs[target].trace
  OBVIOUS
<1>4. /\ dirs' = [dirs EXCEPT ![target] = MachineFile!NoDir]
      /\ op' = [op EXCEPT !.step = "move", !.aside = t]
      /\ at' = at /\ was' = was /\ reply' = reply /\ stopped' = stopped
  BY <1>1, <1>3 DEF MachineFile!Clear
<1>5. t \in BOOLEAN /\ t = op.before[target].trace
  BY <1>1, <1>2, <1>3 DEF MachineFile!States
<1>6. /\ op' \in Ops /\ op'.step = "move" /\ op'.aside = t /\ op'.vault = op.vault /\ op'.source = op.source
      /\ op'.next = op.next /\ op'.before = op.before /\ op'.from = op.from
  BY <1>4, <1>5, <1>t DEF MachineTyped, Ops, Steps
<1>7. dirs' \in Stores
  BY <1>4, <1>t, NamesAreNone DEF MachineTyped, Stores
<1>8. MachineTyped'
  BY <1>4, <1>6, <1>7, <1>t DEF MachineTyped
<1>9. \A p \in VaultPaths : dirs'[p] = IF p = target THEN MachineFile!NoDir ELSE dirs[p]
  BY <1>1, <1>4
<1>10. OneId(dirs')
  BY <1>9, <1>t, NamesAreNone DEF OneId
<1>11. UnderWay(at[op.vault])'
  <2>1. Beside(target)'
    BY <1>2, <1>4, <1>5, <1>6 DEF Beside
  <2>2. UnderWay(target)'
    BY <2>1, <1>1, <1>2, <1>6 DEF UnderWay
  <2> QED BY <2>2, <1>1, <1>4, <1>6 DEF UnderWay, Beside
<1>12. (stopped = 0 => AtHome(MachineFile!Found))'
  <2>1. op' # MachineFile!NoOp
    BY <1>6, NamesAreNone
  <2>2. MachineFile!Found' = op.before
    BY <2>1, <1>6 DEF MachineFile!Found
  <2> QED BY <2>2, <1>1, <1>4 DEF AtHome, MachineInv
<1>13. MachineInv'
  BY <1>8, <1>10, <1>11, <1>12 DEF MachineInv
<1>14. \A p \in VaultPaths : dirs[p].marks = dirs'[p].marks /\ dirs[p].queue = dirs'[p].queue
  BY <1>9, <1>2, NamesAreNone DEF Beside, Bare
<1>15. MachineFile!StateIsNeverLost
  BY <1>14, GrowthLosesNothing, KeptIsNeverLost
<1> QED BY <1>4, <1>13, <1>15, SilentSaysNothing DEF MachineFile!MachineStateIsKept

LEMMA MoveDirKeepsTheMachine ==
  ASSUME MachineFile!MachineAssumption, MachineInv, MachineFile!MoveDir
  PROVE  MachineInv' /\ MachineFile!MachineStateIsKept
<1>t. MachineTyped /\ OneId(dirs) /\ op.step = "move"
  BY DEF MachineInv, MachineFile!MoveDir
<1>1. PICK target \in VaultPaths :
            /\ at[op.vault] = target /\ UnderWay(target)
            /\ op.before[op.source] \in MachineFile!States /\ op.before[target] \in MachineFile!States
            /\ op.before[op.source].machine \in MachineFile!Machines
            /\ DOMAIN dirs = VaultPaths /\ DOMAIN op.before = VaultPaths
            /\ \A p \in VaultPaths : dirs[p] \in MachineFile!States /\ op.before[p] \in MachineFile!States
            /\ op # MachineFile!NoOp /\ MachineFile!Found = op.before
  BY <1>t, WhereItStands
<1>2. /\ op.source # target /\ Beside(target) /\ dirs = [op.before EXCEPT ![target] = MachineFile!NoDir]
      /\ op.source \in VaultPaths
  BY <1>1, <1>t DEF UnderWay, Beside
<1>3. PICK source \in VaultPaths : source = op.source
  BY <1>2
<1>4. /\ dirs' = [dirs EXCEPT ![target] = dirs[source], ![source] = MachineFile!NoDir]
      /\ op' = [op EXCEPT !.step = "write"]
      /\ at' = at /\ was' = was /\ reply' = reply /\ stopped' = stopped
  BY <1>1, <1>3 DEF MachineFile!MoveDir
<1>5. /\ op' \in Ops /\ op'.step = "write" /\ op'.aside = op.aside /\ op'.vault = op.vault
      /\ op'.source = op.source /\ op'.next = op.next /\ op'.before = op.before /\ op'.from = op.from
  BY <1>4, <1>t DEF MachineTyped, Ops, Steps
<1>6. \A p \in VaultPaths : dirs[p] = IF p = target THEN MachineFile!NoDir ELSE op.before[p]
  BY <1>1, <1>2
<1>7. \A p \in VaultPaths : dirs'[p] = IF p = source THEN MachineFile!NoDir ELSE IF p = target THEN op.before[source] ELSE dirs[p]
  BY <1>1, <1>2, <1>3, <1>4, <1>6
<1>8. dirs' \in Stores
  BY <1>4, <1>1, <1>t, NamesAreNone DEF MachineTyped, Stores
<1>9. MachineTyped'
  BY <1>4, <1>5, <1>8, <1>t DEF MachineTyped
<1>10. OneId(dirs')
  BY <1>6, <1>7, <1>2, <1>3, <1>t, NamesAreNone DEF OneId
<1>11. dirs' = [op.before EXCEPT ![target] = op.before[op.source], ![op.source] = MachineFile!NoDir]
  BY <1>1, <1>2, <1>3, <1>4
<1>12. UnderWay(at[op.vault])'
  <2>1. Beside(target)'
    BY <1>2, <1>5, <1>11, <1>t DEF Beside
  <2>2. UnderWay(target)'
    BY <2>1, <1>1, <1>2, <1>5 DEF UnderWay
  <2> QED BY <2>2, <1>1, <1>4, <1>5 DEF UnderWay, Beside
<1>13. (stopped = 0 => AtHome(MachineFile!Found))'
  <2>1. op' # MachineFile!NoOp
    BY <1>5, NamesAreNone
  <2>2. MachineFile!Found' = op.before
    BY <2>1, <1>5 DEF MachineFile!Found
  <2> QED BY <2>2, <1>1, <1>4 DEF AtHome, MachineInv
<1>14. MachineInv'
  BY <1>9, <1>10, <1>12, <1>13 DEF MachineInv
<1>15. NoFewer(dirs, dirs')
  <2>1. /\ \A p \in VaultPaths : p # source /\ p # target => dirs[p] = dirs'[p]
        /\ dirs[source] = dirs'[target] /\ dirs[target] = dirs'[source]
    BY <1>2, <1>3, <1>6, <1>7
  <2>2. dirs \in Stores
    BY <1>t DEF MachineTyped
  <2> QED BY <2>1, <2>2, <1>8, SwapLosesNothing
<1>16. MachineFile!StateIsNeverLost
  BY <1>15, KeptIsNeverLost
<1> QED BY <1>4, <1>14, <1>16, SilentSaysNothing DEF MachineFile!MachineStateIsKept

(* The end of a register, whichever it is.                                 *)
LEMMA OverStep ==
  ASSUME MachineFile!MachineAssumption, MachineInv, op' = MachineFile!NoOp, at' = at, was' = was, dirs' \in Stores, OneId(dirs'),
         stopped' \in Nat, stopped' = 0 => AtHome(dirs')
  PROVE  MachineInv'
<1>1. MachineTyped'
  BY NamesAreNone DEF MachineInv, MachineTyped
<1>2. (op.step = "none")' /\ MachineFile!Found' = dirs'
  BY NamesAreNone DEF MachineFile!Found
<1> QED BY <1>1, <1>2 DEF MachineInv

LEMMA FinishKeepsTheMachine ==
  ASSUME MachineFile!MachineAssumption, MachineInv, MachineFile!Finish
  PROVE  MachineInv' /\ MachineFile!MachineStateIsKept
<1>t. MachineTyped /\ OneId(dirs) /\ op.step = "write"
  BY DEF MachineInv, MachineFile!Finish
<1>1. PICK target \in VaultPaths :
            /\ at[op.vault] = target /\ UnderWay(target)
            /\ op.before[op.source] \in MachineFile!States /\ op.before[target] \in MachineFile!States
            /\ op.before[op.source].machine \in MachineFile!Machines
            /\ DOMAIN dirs = VaultPaths /\ DOMAIN op.before = VaultPaths
            /\ \A p \in VaultPaths : dirs[p] \in MachineFile!States /\ op.before[p] \in MachineFile!States
            /\ op # MachineFile!NoOp /\ MachineFile!Found = op.before
  BY <1>t, WhereItStands
<1>2. PICK source \in VaultPaths : source = op.source
  BY <1>1 DEF UnderWay
<1>3. PICK m \in MachineFile!Machines : m = op.before[source].machine
  BY <1>1, <1>2
<1>4. /\ op.next = MachineFile!Rebase(m, source, target) /\ m # MachineFile!NoMachine
      /\ (op.from \in VaultPaths /\ op.from # target /\ op.before[op.from].machine # MachineFile!NoMachine) => source = op.from
  BY <1>1, <1>2, <1>3 DEF UnderWay
<1>5. PICK next : next = op.next
  OBVIOUS
<1>6. /\ next \in MachineFile!Machines /\ next.id = m.id /\ next # MachineFile!NoMachine
      /\ m.home = source => next.home = target
  BY <1>4, <1>5, RebaseIsAMachine
<1>7. /\ dirs' = [dirs EXCEPT ![target].machine = next]
      /\ reply' = [command |-> "register", vault |-> op.vault, from |-> op.from]
      /\ op' = MachineFile!NoOp /\ at' = at /\ was' = was /\ stopped' = stopped
  BY <1>1, <1>5 DEF MachineFile!Finish
<1>8. /\ dirs[target] = op.before[source]
      /\ \A p \in VaultPaths : p # target => dirs[p] = IF p = source THEN MachineFile!NoDir ELSE op.before[p]
  <2>1. CASE source = target
    BY <2>1, <1>1, <1>2 DEF UnderWay
  <2>2. CASE source # target
    <3>1. dirs = [op.before EXCEPT ![target] = op.before[source], ![source] = MachineFile!NoDir]
      BY <2>2, <1>1, <1>2, <1>t DEF UnderWay, Beside
    <3> QED BY <3>1, <2>2, <1>1
  <2> QED BY <2>1, <2>2
<1>9. PICK d : d = [dirs[target] EXCEPT !.machine = next]
  OBVIOUS
<1>10. /\ d \in MachineFile!States /\ d.machine = next /\ d.marks = dirs[target].marks /\ d.queue = dirs[target].queue
  BY <1>1, <1>6, <1>9 DEF MachineFile!States
<1>11. dirs' = [dirs EXCEPT ![target] = d]
  BY <1>1, <1>7, <1>9
<1>12. \A p \in VaultPaths : dirs'[p] = IF p = target THEN d ELSE dirs[p]
  BY <1>1, <1>11
<1>13. dirs' \in Stores
  BY <1>10, <1>11, <1>t DEF MachineTyped, Stores
<1>14. dirs[target].machine = m
  BY <1>3, <1>8
<1>15. OneId(dirs')
  BY <1>4, <1>6, <1>10, <1>12, <1>14, <1>t DEF OneId
<1>16. stopped = 0 => AtHome(dirs')
  <2> SUFFICES ASSUME stopped = 0 PROVE AtHome(dirs')
    OBVIOUS
  <2>1. AtHome(op.before)
    BY <1>1 DEF MachineInv
  <2>2. m.home = source
    BY <2>1, <1>3, <1>4 DEF AtHome
  <2> QED BY <2>1, <2>2, <1>6, <1>8, <1>10, <1>12, NamesAreNone DEF AtHome
<1>17. MachineInv'
  BY <1>7, <1>13, <1>15, <1>16, <1>t, OverStep DEF MachineTyped
<1>18. \A p \in VaultPaths : dirs[p].marks = dirs'[p].marks /\ dirs[p].queue = dirs'[p].queue
  BY <1>10, <1>12
<1>19. MachineFile!StateIsNeverLost
  BY <1>18, GrowthLosesNothing, KeptIsNeverLost
<1>20. MachineFile!RegisterBringsItsOwn
  <2> SUFFICES ASSUME op.from # None, op.from # target, op.before[op.from].machine # MachineFile!NoMachine,
                      op.before[op.from].marks \in {op.vault, None}
               PROVE  dirs'[target].marks \in {op.vault, None}
    BY <1>1, <1>7 DEF MachineFile!RegisterBringsItsOwn, MachineFile!Honest
  <2>1. op.from \in VaultPaths
    BY <1>t DEF MachineTyped, Ops
  <2>2. source = op.from
    BY <2>1, <1>4
  <2> QED BY <2>2, <1>8, <1>18
<1>21. MachineFile!FailedIsNone /\ MachineFile!NewHidesNothing
  BY <1>7 DEF MachineFile!FailedIsNone, MachineFile!NewHidesNothing, MachineFile!Answered
<1>22. MachineFile!PathsFollowWhole
  <2>1. ASSUME stopped = 0 PROVE dirs'[target].machine.home = target
    BY <2>1, <1>6, <1>10, <1>12, <1>16 DEF AtHome
  <2> QED BY <2>1, <1>1, <1>7 DEF MachineFile!PathsFollowWhole, MachineFile!PathsFollow
<1> QED BY <1>17, <1>19, <1>20, <1>21, <1>22 DEF MachineFile!MachineStateIsKept

LEMMA UndoKeepsTheMachine ==
  ASSUME MachineFile!MachineAssumption, MachineInv, MachineFile!Undo
  PROVE  MachineInv' /\ MachineFile!MachineStateIsKept
<1>t. MachineTyped /\ OneId(dirs) /\ op.step \in {"move", "write"}
  BY DEF MachineInv, MachineFile!Undo
<1>1. PICK target \in VaultPaths :
            /\ at[op.vault] = target /\ UnderWay(target)
            /\ op.before[op.source] \in MachineFile!States /\ op.before[target] \in MachineFile!States
            /\ op.before[op.source].machine \in MachineFile!Machines
            /\ DOMAIN dirs = VaultPaths /\ DOMAIN op.before = VaultPaths
            /\ \A p \in VaultPaths : dirs[p] \in MachineFile!States /\ op.before[p] \in MachineFile!States
            /\ op # MachineFile!NoOp /\ MachineFile!Found = op.before
  BY <1>t, WhereItStands
<1>2. PICK source \in VaultPaths : source = op.source
  BY <1>1 DEF UnderWay
<1>3. PICK trace : trace = [MachineFile!NoDir EXCEPT !.there = op.aside, !.trace = op.aside]
  OBVIOUS
<1>4. op.aside \in BOOLEAN
  BY <1>t DEF MachineTyped, Ops
<1>5. /\ trace \in MachineFile!States /\ trace.machine = MachineFile!NoMachine /\ trace.marks = None /\ trace.queue = None
      /\ trace.trace = op.aside
  BY <1>3, <1>4, NamesAreNone DEF MachineFile!States
<1>6. /\ dirs' = IF op.step = "write" /\ source = target THEN dirs
                 ELSE IF op.step = "write" THEN [dirs EXCEPT ![source] = dirs[target], ![target] = trace]
                 ELSE [dirs EXCEPT ![target] = trace]
      /\ reply' = [command |-> "failed", vault |-> op.vault, from |-> op.from]
      /\ op' = MachineFile!NoOp /\ at' = at /\ was' = was /\ stopped' = stopped
  BY <1>1, <1>2, <1>3 DEF MachineFile!Undo
<1>7. /\ dirs' \in Stores
      /\ \A p \in VaultPaths : IF source # target /\ p = target
                          THEN dirs'[p] = trace /\ Bare(op.before[p]) /\ op.aside = op.before[p].trace
                          ELSE dirs'[p] = op.before[p]
      /\ NoFewer(dirs, dirs')
  <2>0. dirs \in Stores
    BY <1>t DEF MachineTyped
  <2>1. CASE source = target
    <3>1. dirs' = dirs /\ dirs = op.before
      BY <2>1, <1>1, <1>2, <1>6 DEF UnderWay
    <3>2. NoFewer(dirs, dirs')
      BY <3>1, GrowthLosesNothing
    <3> QED BY <2>0, <2>1, <3>1, <3>2
  <2>2. CASE source # target /\ op.step = "write"
    <3>1. /\ dirs = [op.before EXCEPT ![target] = op.before[source], ![source] = MachineFile!NoDir]
          /\ Bare(op.before[target]) /\ op.aside = op.before[target].trace
      BY <2>2, <1>1, <1>2 DEF UnderWay, Beside
    <3>2. dirs' = [dirs EXCEPT ![source] = dirs[target], ![target] = trace]
      BY <2>2, <1>6
    <3>3. dirs' \in Stores
      BY <3>2, <2>0, <1>5 DEF Stores
    <3>4. \A p \in VaultPaths : dirs'[p] = IF p = target THEN trace ELSE op.before[p]
      BY <3>1, <3>2, <2>2, <1>1
    <3>5. dirs[target] = op.before[source] /\ dirs[source] = MachineFile!NoDir
      BY <3>1, <2>2, <1>1
    <3>6. \A p \in VaultPaths : p # source /\ p # target => dirs[p] = op.before[p]
      BY <3>1, <1>1
    <3>7. NoFewer(dirs, dirs')
      BY <2>0, <3>3, <3>4, <3>5, <3>6, <2>2, <1>5, NamesAreNone, SwapLosesNothing
    <3> QED BY <3>1, <3>3, <3>4, <3>7, <2>2
  <2>3. CASE source # target /\ op.step = "move"
    <3>1. /\ dirs = [op.before EXCEPT ![target] = MachineFile!NoDir]
          /\ Bare(op.before[target]) /\ op.aside = op.before[target].trace
      BY <2>3, <1>1, <1>2 DEF UnderWay, Beside
    <3>2. dirs' = [dirs EXCEPT ![target] = trace]
      BY <2>3, <1>6
    <3>3. dirs' \in Stores
      BY <3>2, <2>0, <1>5 DEF Stores
    <3>4. \A p \in VaultPaths : dirs'[p] = IF p = target THEN trace ELSE op.before[p]
      BY <3>1, <3>2, <1>1
    <3>5. \A p \in VaultPaths : dirs[p] = IF p = target THEN MachineFile!NoDir ELSE op.before[p]
      BY <3>1, <1>1
    <3>6. NoFewer(dirs, dirs')
      BY <3>4, <3>5, <1>5, NamesAreNone, GrowthLosesNothing
    <3> QED BY <3>1, <3>3, <3>4, <3>6, <2>3
  <2> QED BY <2>1, <2>2, <2>3, <1>t
<1>8. \A p \in VaultPaths : dirs'[p].machine = op.before[p].machine
  BY <1>5, <1>7 DEF Bare
<1>9. \A p \in VaultPaths : [dirs'[p] EXCEPT !.there = FALSE] = [op.before[p] EXCEPT !.there = FALSE]
  <2> SUFFICES ASSUME NEW p \in VaultPaths
               PROVE  [dirs'[p] EXCEPT !.there = FALSE] = [op.before[p] EXCEPT !.there = FALSE]
    OBVIOUS
  <2>1. CASE source # target /\ p = target
    <3>1. /\ dirs'[p] = trace /\ op.before[p] \in MachineFile!States
          /\ trace.machine = op.before[p].machine /\ trace.marks = op.before[p].marks
          /\ trace.queue = op.before[p].queue /\ trace.trace = op.before[p].trace
      BY <2>1, <1>1, <1>5, <1>7 DEF Bare
    <3> QED BY <3>1, <1>5 DEF MachineFile!States
  <2>2. CASE ~(source # target /\ p = target)
    BY <2>2, <1>7
  <2> QED BY <2>1, <2>2
<1>10. MachineFile!FailedIsNone
  BY <1>9 DEF MachineFile!FailedIsNone, MachineFile!Contents
<1>11. OneId(op.before)
  <2>1. CASE source = target
    BY <2>1, <1>1, <1>2, <1>t DEF UnderWay
  <2>2. CASE source # target /\ op.step = "write"
    <3>1. /\ dirs = [op.before EXCEPT ![target] = op.before[source], ![source] = MachineFile!NoDir]
          /\ Bare(op.before[target])
      BY <2>2, <1>1, <1>2 DEF UnderWay, Beside
    <3>2. dirs[target] = op.before[source] /\ \A p \in VaultPaths : p # source /\ p # target => dirs[p] = op.before[p]
      BY <3>1, <2>2, <1>1
    <3> QED BY <3>1, <3>2, <1>t DEF OneId, Bare
  <2>3. CASE source # target /\ op.step = "move"
    <3>1. dirs = [op.before EXCEPT ![target] = MachineFile!NoDir] /\ Bare(op.before[target])
      BY <2>3, <1>1, <1>2 DEF UnderWay, Beside
    <3>2. \A p \in VaultPaths : p # target => dirs[p] = op.before[p]
      BY <3>1, <1>1
    <3> QED BY <3>1, <3>2, <1>t DEF OneId, Bare
  <2> QED BY <2>1, <2>2, <2>3, <1>t
<1>12. OneId(dirs')
  BY <1>8, <1>11 DEF OneId
<1>13. stopped = 0 => AtHome(dirs')
  BY <1>1, <1>8 DEF MachineInv, AtHome
<1>14. MachineInv'
  BY <1>6, <1>7, <1>12, <1>13, <1>t, OverStep DEF MachineTyped
<1>15. MachineFile!StateIsNeverLost
  BY <1>7, KeptIsNeverLost
<1>16. MachineFile!RegisterBringsItsOwn /\ MachineFile!NewHidesNothing /\ MachineFile!PathsFollowWhole
  BY <1>6 DEF MachineFile!RegisterBringsItsOwn, MachineFile!NewHidesNothing, MachineFile!PathsFollowWhole, MachineFile!PathsFollow, MachineFile!Answered
<1> QED BY <1>10, <1>14, <1>15, <1>16 DEF MachineFile!MachineStateIsKept

LEMMA CutKeepsTheMachine ==
  ASSUME MachineFile!MachineAssumption, MachineInv, MachineFile!Cut
  PROVE  MachineInv' /\ MachineFile!MachineStateIsKept
<1>1. /\ op' = MachineFile!NoOp /\ at' = at /\ was' = was /\ dirs' = dirs /\ stopped' = stopped + 1 /\ reply' = MachineFile!Silent
  BY DEF MachineFile!Cut
<1>2. stopped' \in Nat /\ stopped' # 0
  BY <1>1 DEF MachineInv, MachineTyped
<1>3. MachineInv'
  BY <1>1, <1>2, OverStep DEF MachineInv, MachineTyped
<1> QED BY <1>1, <1>3, SilentSaysNothing, SameStoreLosesNothing DEF MachineFile!MachineStateIsKept

LEMMA MachineStep ==
  ASSUME MachineFile!MachineAssumption, ~Reuse, MachineInv, [MachineFile!Next]_(MachineFile!vars)
  PROVE  MachineInv' /\ (MachineFile!MachineStateIsKept \/ UNCHANGED MachineFile!vars)
<1>1. CASE UNCHANGED MachineFile!vars
  <2>1. MachineInv'
    BY <1>1 DEF MachineFile!vars, MachineInv, MachineTyped, UnderWay, Beside, MachineFile!Found
  <2> QED BY <2>1, <1>1
<1>2. CASE MachineFile!Next
  BY <1>2, PersonSteps, RoundKeepsTheMachine, CreateKeepsTheMachine, RegisterNewKeepsTheMachine,
     RegisterKeepsTheMachine, ClearKeepsTheMachine, MoveDirKeepsTheMachine, FinishKeepsTheMachine,
     UndoKeepsTheMachine, CutKeepsTheMachine, Zenon DEF MachineFile!Next
<1> QED BY <1>1, <1>2

(* The state directories of a machine, as the records in them and a        *)
(* register under way leave them.                                          *)
THEOREM MachineInvariant == MachineFile!MachineAssumption /\ ~Reuse => (MachineFile!Spec => []MachineInv)
<1> SUFFICES ASSUME MachineFile!MachineAssumption, ~Reuse PROVE MachineFile!Spec => []MachineInv
  OBVIOUS
<1>1. MachineFile!Init => MachineInv
  BY MachineStarts
<1>2. MachineInv /\ [MachineFile!Next]_(MachineFile!vars) => MachineInv'
  BY MachineStep
<1> QED BY <1>1, <1>2, PTL DEF MachineFile!Spec

(* What `register`, its undo and a killed command never do to the state a  *)
(* machine keeps: bring a vault another's marks, delete marks or questions *)
(* of anyone, answer a failure and leave a change, start beside the        *)
(* vault's own state, leave a record's paths behind.                       *)
THEOREM MachineStateIsAlwaysKept ==
  MachineFile!MachineAssumption /\ ~Reuse => (MachineFile!Spec => [][MachineFile!MachineStateIsKept]_(MachineFile!vars))
<1> SUFFICES ASSUME MachineFile!MachineAssumption, ~Reuse PROVE MachineFile!Spec => [][MachineFile!MachineStateIsKept]_(MachineFile!vars)
  OBVIOUS
<1>1. MachineInv /\ [MachineFile!Next]_(MachineFile!vars) => [MachineFile!MachineStateIsKept]_(MachineFile!vars)
  BY MachineStep
<1>2. MachineFile!Spec => []MachineInv
  BY MachineInvariant
<1> QED BY <1>1, <1>2, PTL DEF MachineFile!Spec

(* The bounds of what the person does and of what is killed.               *)
MachineBounds == moved \in 0 .. MaxMoves /\ stopped \in 0 .. MaxStops

LEMMA MachineTypes ==
  MachineFile!MachineAssumption /\ ~Reuse => (MachineFile!Spec => []MachineFile!TypeOK)
  <1> SUFFICES ASSUME MachineFile!MachineAssumption, ~Reuse PROVE MachineFile!Spec => []MachineFile!TypeOK
    OBVIOUS
  <1> USE DEF MachineBounds
  <1>1. MaxMoves \in Nat /\ MaxStops \in Nat
    BY DEF MachineFile!MachineAssumption
  <1>2. MachineFile!Init => MachineBounds
    BY <1>1 DEF MachineFile!Init
  <1>3. MachineBounds /\ [MachineFile!Next]_(MachineFile!vars) => MachineBounds'
    <2> SUFFICES ASSUME MachineBounds, [MachineFile!Next]_(MachineFile!vars) PROVE MachineBounds'
      OBVIOUS
    <2>1. ASSUME MachineFile!Acts, UNCHANGED stopped PROVE MachineBounds'
      BY <1>1, <2>1 DEF MachineFile!Acts
    <2>2. ASSUME NEW v \in Vaults, NEW p \in VaultPaths, MachineFile!Create(v, p) PROVE MachineBounds'
      BY <1>1, <2>2 DEF MachineFile!Create
    <2>3. CASE MachineFile!Cut
      BY <1>1, <2>3 DEF MachineFile!Cut
    <2>4. ASSUME UNCHANGED <<moved, stopped>> PROVE MachineBounds'
      BY <2>4
    <2>5. ASSUME NEW v \in Vaults, NEW p \in VaultPaths, MachineFile!Move(v, p) \/ MachineFile!Delete(v) \/ MachineFile!RemoveMachine(p)
          PROVE  MachineFile!Acts /\ UNCHANGED stopped
      BY <2>5, Zenon DEF MachineFile!Move, MachineFile!Delete, MachineFile!RemoveMachine
    <2>6. ASSUME NEW v \in Vaults, MachineFile!Delete(v) PROVE MachineFile!Acts /\ UNCHANGED stopped
      BY <2>6, Zenon DEF MachineFile!Delete
    <2>7. ASSUME NEW p \in VaultPaths, MachineFile!RemoveMachine(p) PROVE MachineFile!Acts /\ UNCHANGED stopped
      BY <2>7, Zenon DEF MachineFile!RemoveMachine
    <2>8. ASSUME NEW v \in Vaults, NEW from \in VaultPaths \cup {None},
                 MachineFile!Round(v) \/ MachineFile!RegisterNew(v) \/ MachineFile!Register(v, from)
          PROVE  UNCHANGED <<moved, stopped>>
      BY <2>8, Zenon DEF MachineFile!Round, MachineFile!RegisterNew, MachineFile!Register
    <2>9. ASSUME \/ MachineFile!Clear \/ MachineFile!MoveDir \/ MachineFile!Finish \/ MachineFile!Undo \/ UNCHANGED MachineFile!vars
          PROVE  UNCHANGED <<moved, stopped>>
      BY <2>9, Zenon DEF MachineFile!Clear, MachineFile!MoveDir, MachineFile!Finish, MachineFile!Undo, MachineFile!vars
    <2>10. None \in VaultPaths \cup {None}
      OBVIOUS
    <2> QED
      BY <2>1, <2>2, <2>3, <2>4, <2>5, <2>6, <2>7, <2>8, <2>9, <2>10, Zenon DEF MachineFile!Next
  <1>4. MachineInv /\ MachineBounds => MachineFile!TypeOK
    BY DEF MachineInv, MachineTyped, Stores, Ops, Steps, MachineFile!TypeOK
  <1> QED
    BY <1>2, <1>3, <1>4, MachineInvariant, PTL DEF MachineFile!Spec

(***************************************************************************)
(* ManagedFiles: what `update` promises the person.                        *)
(***************************************************************************)

(* The inductive invariant.                                                *)

Manifests == [ManagedNames -> Managed!Texts \cup {None}]
Words     == {"current", "refresh", "kept", "offer", "blocked", "missing", "raced", "failed"}
Verdicts  == UNION {[S -> Words] : S \in SUBSET ManagedNames}

CommandStates ==
    [step : {"idle", "write", "bump", "accept", "unlink"}, kit : Managed!Versions \cup {0}, stamp : Managed!Stamps,
     read : Manifests \cup {<<>>}, outcome : Verdicts \cup Manifests \cup {<<>>}, left : SUBSET ManagedNames,
     from : Managed!Versions \cup {0}, failed : BOOLEAN, exit : {None, 0, 1, 3}]

CommandTyped == updates \in [UpdateRuns -> CommandStates]

Updates(c) == updates[c].step \in {"write", "bump"}
Accepts(c) == updates[c].step \in {"accept", "unlink"}

(* A command's decisions are about the files of the manifest it read.      *)
CommandAgrees(c) ==
    /\ Updates(c) =>
          /\ updates[c].read \in Manifests
          /\ updates[c].outcome \in [Managed!Managed(updates[c].read) -> Words]
          /\ updates[c].left \subseteq Managed!Managed(updates[c].read)
          /\ updates[c].kit \in Managed!Versions /\ updates[c].kit <= kit
          /\ updates[c].from \in Managed!Versions /\ updates[c].from <= updates[c].kit /\ updates[c].from <= config
          /\ updates[c].failed => ~whole
          /\ updates[c].exit = None
          /\ \A f \in DOMAIN updates[c].outcome : updates[c].outcome[f] = "failed" => updates[c].failed
    /\ updates[c].step = "bump" => updates[c].left = {}
    /\ Accepts(c) => updates[c].read \in Manifests /\ updates[c].outcome \in Manifests

CommandsAgree == \A c \in UpdateRuns : CommandAgrees(c)

(* What is recorded of a file is a text the kit shipped for it, whole, and *)
(* of no kit newer than the one installed; so never the person's own.      *)
OfAKit(t, f, newest) == \E v \in Managed!Versions : v <= newest /\ t = Managed!VersionAt(v, f, t.at)

BaselinesAreTheKits ==
    /\ \A f \in ManagedNames : recorded[f] # None => OfAKit(recorded[f], f, kit)
    /\ \A c \in UpdateRuns, f \in ManagedNames :
          /\ Updates(c) /\ updates[c].read[f] # None => OfAKit(updates[c].read[f], f, updates[c].kit)
          /\ Accepts(c) /\ updates[c].outcome[f] # None => OfAKit(updates[c].outcome[f], f, kit)

(* A file is refreshed away from a text that is not this kit's.            *)
RefreshesAreNew ==
    \A c \in UpdateRuns : Updates(c) =>
        \A f \in DOMAIN updates[c].outcome : updates[c].outcome[f] = "refresh" =>
            updates[c].read[f] # Managed!VersionAt(updates[c].kit, f, updates[c].read[f].at)

(* The texts the person has had in a file, or beside it, hold what is in   *)
(* it, what is recorded of it, and what an update need not offer again.    *)
DealtHolds ==
    /\ dealt \in [ManagedNames -> SUBSET Managed!AllTexts]
    /\ \A f \in ManagedNames : file[f] # None => file[f].of \in dealt[f]
    /\ \A f \in ManagedNames : recorded[f] # None => recorded[f].of \in dealt[f]
    /\ \A c \in UpdateRuns, f \in ManagedNames :
          /\ Updates(c) /\ updates[c].read[f] # None => updates[c].read[f].of \in dealt[f]
          /\ Accepts(c) /\ updates[c].outcome[f] # None => updates[c].outcome[f].of \in dealt[f]
    /\ \A c \in UpdateRuns : Updates(c) => \A f \in DOMAIN updates[c].outcome :
          \/ updates[c].outcome[f] \in {"current", "kept"}
          \/ updates[c].outcome[f] = "refresh" /\ f \notin updates[c].left
          => KitText[updates[c].kit][f] \in dealt[f]

(* Two updates that both raise kit_version, or one whose kit_version was   *)
(* raised by another meanwhile: one of them is going to fail.              *)
Raises(c) == Updates(c) /\ updates[c].from < updates[c].kit
Doubtful ==
    \/ \E c, d \in UpdateRuns : c # d /\ Raises(c) /\ Raises(d)
    \/ \E c \in UpdateRuns : Raises(c) /\ updates[c].from # config

(* Until then, a file no one touched is the one recorded, of the kit the   *)
(* configuration names; but for the one update that raises it, which has   *)
(* it, once it was its turn, at its own kit's text.                        *)
UntouchedBetween(f) ==
    (\A c \in UpdateRuns : ~Raises(c)) => file[f] = recorded[f] /\ file[f] = Managed!VersionAt(config, f, file[f].at)
UntouchedIn(c, f) ==
    LET run == updates[c]
        new == run.outcome[f] = "current" \/ f \notin run.left
        old == run.outcome[f] = "current" \/ f \in run.left \/ run.step = "bump"
    IN  /\ run.read[f] # None
        /\ run.outcome[f] \in {"current", "refresh"}
        /\ run.step = "write" => run.read[f] = recorded[f]
        /\ new => file[f] = Managed!VersionAt(run.kit, f, file[f].at)
        /\ old => file[f] = recorded[f]
        /\ (run.outcome[f] = "refresh" /\ f \notin run.left) => file[f] = Managed!VersionAt(run.kit, f, run.stamp)
UntouchedBeside(c, f) ==
    /\ (Updates(c) /\ ~Raises(c)) => updates[c].read[f] # None /\ updates[c].outcome[f] = "current"
    /\ Accepts(c) => f \notin updates[c].left /\ updates[c].outcome[f] = updates[c].read[f]

Untouched(f) ==
    /\ file[f] # None /\ recorded[f] # None /\ beside[f] = None
    /\ UntouchedBetween(f)
    /\ \A c \in UpdateRuns : UntouchedBeside(c, f) /\ (Raises(c) => UntouchedIn(c, f))

UntouchedAreRecorded == (whole /\ ~Doubtful) => \A f \in ManagedNames \ touched : Untouched(f)

-----------------------------------------------------------------------------
(* Type correctness.                                                       *)

LEMMA VersionTyped ==
  ASSUME Managed!ManagedAssumption, NEW v \in Managed!Versions, NEW f \in ManagedNames, NEW stamp \in Managed!Stamps
  PROVE  /\ Managed!VersionAt(v, f, stamp) \in Managed!Texts
         /\ Managed!VersionAt(v, f, stamp) = Managed!VersionAt(v, f, Managed!VersionAt(v, f, stamp).at)
         /\ Managed!VersionAt(v, f, stamp).of = KitText[v][f]
         /\ ~Managed!VersionAt(v, f, stamp).mine
  BY DEF Managed!ManagedAssumption, Managed!VersionAt, Managed!Texts, Managed!AllTexts, Managed!Stamps

LEMMA VersionsAreNumbers == Managed!ManagedAssumption => Managed!Versions \subseteq Int
  <1> SUFFICES ASSUME Managed!ManagedAssumption, NEW v \in Managed!Versions PROVE v \in Int
    OBVIOUS
  <1>1. v \in 1 .. Managed!Cardinality(Managed!Versions)
    BY DEF Managed!ManagedAssumption
  <1> QED
    BY <1>1

Typed == Managed!TypeOK /\ CommandTyped /\ CommandsAgree

LEMMA InitTyped == Managed!ManagedAssumption /\ Managed!Init => Typed
  <1> SUFFICES ASSUME Managed!ManagedAssumption, Managed!Init PROVE Typed
    OBVIOUS
  <1>1. 1 \in Managed!Versions /\ 0 \in Managed!Stamps /\ MaxRuns \in Nat /\ MaxPerson \in Nat /\ MaxCuts \in Nat
    BY DEF Managed!ManagedAssumption, Managed!Stamps
  <1>2. \A f \in ManagedNames : Managed!VersionAt(1, f, 0) \in Managed!Texts
    BY <1>1, VersionTyped
  <1>3. Managed!TypeOK
    BY <1>1, <1>2 DEF Managed!Init, Managed!TypeOK, Managed!Idle
  <1>4. Managed!Idle \in [step : {"idle"}, kit : {0}, stamp : Managed!Stamps, read : {<<>>}, outcome : {<<>>}, left : SUBSET ManagedNames,
                  from : {0}, failed : BOOLEAN, exit : {None}]
    BY <1>1 DEF Managed!Idle
  <1>5. CommandTyped
    BY <1>4 DEF Managed!Init, CommandTyped, CommandStates
  <1>6. CommandsAgree
    BY DEF Managed!Init, CommandsAgree, CommandAgrees, Managed!Idle, Updates, Accepts
  <1> QED
    BY <1>3, <1>5, <1>6 DEF Typed

(* What a command's step changes of its own is all that can disturb what   *)
(* is said of commands, as long as the kit and the configuration only get  *)
(* newer and a failure is never taken back.                                *)
LEMMA OthersAgree ==
  ASSUME Managed!ManagedAssumption, Typed, config' \in Managed!Versions, kit' \in Managed!Versions, kit <= kit', config <= config', ~whole => ~whole',
         NEW d \in UpdateRuns, updates'[d] = updates[d]
  PROVE  CommandAgrees(d)'
  <1>1. CommandAgrees(d)
    BY DEF Typed, CommandsAgree
  <1>2. config \in Int /\ kit \in Int /\ config' \in Int /\ kit' \in Int
    BY VersionsAreNumbers DEF Typed, Managed!TypeOK
  <1>3. Updates(d) => updates[d].kit \in Int /\ updates[d].from \in Int
    BY <1>1, VersionsAreNumbers DEF CommandAgrees
  <1> QED
    BY <1>1, <1>2, <1>3 DEF CommandAgrees, Updates, Accepts, Managed!Managed

LEMMA PersonTyped ==
  ASSUME Managed!ManagedAssumption, Typed, UNCHANGED <<recorded, config, kit, updates, runs, whole>>,
         file' \in [ManagedNames -> Managed!Texts \cup {None}], beside' = beside, cuts' = cuts, Managed!Acts
  PROVE  Typed'
  <1>1. Managed!TypeOK'
    BY DEF Typed, Managed!TypeOK, Managed!Acts, Managed!ManagedAssumption
  <1>2. CommandTyped'
    BY DEF Typed, CommandTyped, Manifests
  <1>3. ASSUME NEW c \in UpdateRuns PROVE CommandAgrees(c)'
    <2>1. CommandAgrees(c)
      BY DEF Typed, CommandsAgree
    <2> QED
      BY <2>1 DEF CommandAgrees, Updates, Accepts, Managed!Managed, Manifests
  <1> QED
    BY <1>1, <1>2, <1>3 DEF Typed, CommandsAgree

LEMMA CommandTypes ==
  ASSUME Managed!ManagedAssumption, Typed, Managed!TypeOK', kit' = kit, config <= config', ~whole => ~whole',
         NEW c \in UpdateRuns, NEW run \in CommandStates,
         updates' = [updates EXCEPT ![c] = run], CommandAgrees(c)'
  PROVE  Typed'
  <1>1. CommandTyped'
    BY DEF Typed, CommandTyped
  <1>2. ASSUME NEW d \in UpdateRuns, d # c PROVE CommandAgrees(d)'
    <2>1. config' \in Managed!Versions /\ kit' \in Managed!Versions /\ kit <= kit'
      BY VersionsAreNumbers DEF Typed, Managed!TypeOK
    <2>2. updates'[d] = updates[d]
      BY <1>2 DEF Typed, CommandTyped
    <2> QED
      BY <2>1, <2>2, OthersAgree
  <1> QED
    BY <1>1, <1>2 DEF Typed, CommandsAgree

LEMMA IdleTyped == Managed!ManagedAssumption => Managed!Idle \in CommandStates
  <1> SUFFICES ASSUME Managed!ManagedAssumption PROVE Managed!Idle \in CommandStates
    OBVIOUS
  <1>1. 0 \in Managed!Stamps
    BY DEF Managed!ManagedAssumption, Managed!Stamps
  <1> QED
    BY <1>1 DEF Managed!Idle, CommandStates

LEMMA TypedHolds == Managed!ManagedAssumption /\ Typed /\ [Managed!Next]_(Managed!vars) => Typed'
  <1> SUFFICES ASSUME Managed!ManagedAssumption, Typed, [Managed!Next]_(Managed!vars) PROVE Typed'
    OBVIOUS
  <1>a. config \in Int /\ kit \in Int /\ \A v \in Managed!Versions : v \in Int
    BY VersionsAreNumbers DEF Typed, Managed!TypeOK
  <1>b. runs \in Managed!Stamps /\ MaxRuns \in Nat
    BY DEF Typed, Managed!TypeOK, Managed!Stamps, Managed!ManagedAssumption
  <1>1. CASE Managed!Upgrade
    <2>1. kit' \in Managed!Versions /\ kit <= kit'
      BY <1>1, <1>a DEF Managed!Upgrade
    <2>2. Managed!TypeOK' /\ CommandTyped'
      BY <1>1, <2>1 DEF Managed!Upgrade, Typed, Managed!TypeOK, CommandTyped
    <2>3. ASSUME NEW d \in UpdateRuns PROVE CommandAgrees(d)'
      BY <1>1, <1>a, <2>1, OthersAgree DEF Managed!Upgrade, Typed, Managed!TypeOK
    <2> QED
      BY <2>2, <2>3 DEF Typed, CommandsAgree
  <1>2. ASSUME NEW f \in ManagedNames, Managed!Edit(f) PROVE Typed'
    <2>1. PICK t \in {file[f].at, runs} : file' = [file EXCEPT ![f] = [of |-> file[f].of, at |-> t, mine |-> TRUE]]
      BY <1>2 DEF Managed!Edit
    <2>2. file[f] \in Managed!Texts
      BY <1>2 DEF Managed!Edit, Typed, Managed!TypeOK
    <2>3. [of |-> file[f].of, at |-> t, mine |-> TRUE] \in Managed!Texts
      BY <1>b, <2>2 DEF Managed!Texts
    <2>4. file' \in [ManagedNames -> Managed!Texts \cup {None}]
      BY <2>1, <2>3 DEF Typed, Managed!TypeOK
    <2> QED
      BY <1>2, <2>4, PersonTyped DEF Managed!Edit
  <1>3. ASSUME NEW f \in ManagedNames, Managed!Take(f) PROVE Typed'
    <2>1. PICK mine \in BOOLEAN, t \in {file[f].at, runs} :
             file' = [file EXCEPT ![f] = [of |-> beside[f], at |-> t, mine |-> mine]]
      BY <1>3 DEF Managed!Take
    <2>2. file[f] \in Managed!Texts /\ beside[f] \in Managed!AllTexts
      BY <1>3 DEF Managed!Take, Typed, Managed!TypeOK
    <2>3. [of |-> beside[f], at |-> t, mine |-> mine] \in Managed!Texts
      BY <1>b, <2>1, <2>2 DEF Managed!Texts
    <2>4. file' \in [ManagedNames -> Managed!Texts \cup {None}]
      BY <2>1, <2>3 DEF Typed, Managed!TypeOK
    <2> QED
      BY <1>3, <2>4, PersonTyped DEF Managed!Take
  <1>4. ASSUME NEW f \in ManagedNames, Managed!Delete(f) PROVE Typed'
    <2>1. file' \in [ManagedNames -> Managed!Texts \cup {None}]
      BY <1>4 DEF Managed!Delete, Typed, Managed!TypeOK
    <2> QED
      BY <1>4, <2>1, PersonTyped DEF Managed!Delete
  <1>5. ASSUME NEW c \in UpdateRuns, Managed!Start(c) PROVE Typed'
    <2> DEFINE run == updates'[c]
    <2>1. kit \in Managed!Versions /\ config \in Managed!Versions /\ recorded \in Manifests /\ runs' \in Managed!Stamps /\ kit >= config
      BY <1>5, <1>b DEF Managed!Start, Typed, Managed!TypeOK, Manifests, Managed!Stamps
    <2>2. run.step = "write" /\ run.kit = kit /\ run.stamp = runs' /\ run.read = recorded /\ run.from = config
          /\ run.left = Managed!Managed(recorded) /\ run.failed = FALSE /\ run.exit = None
          /\ run.outcome = [f \in Managed!Managed(recorded) |-> Managed!Classify(kit, f, recorded)]
      BY <1>5 DEF Managed!Start, Managed!Idle, Typed, CommandTyped
    <2>3. run.outcome \in [Managed!Managed(recorded) -> Words \ {"failed"}]
      BY <2>2 DEF Managed!Classify, Words
    <2>4. Managed!Managed(recorded) \subseteq ManagedNames
      BY DEF Managed!Managed
    <2>5. run \in CommandStates
      <3>1. run.outcome \in Verdicts
        BY <2>3, <2>4 DEF Verdicts, Words
      <3>2. Managed!Idle \in CommandStates /\ run.outcome = [f \in Managed!Managed(recorded) |-> Managed!Classify(kit, f, recorded)]
        BY <2>2, IdleTyped
      <3>3. run = [Managed!Idle EXCEPT !.step = "write", !.kit = kit, !.stamp = runs', !.read = recorded, !.from = config,
                               !.left = Managed!Managed(recorded), !.outcome = run.outcome]
        BY <1>5, <2>2 DEF Managed!Start, Typed, CommandTyped
      <3> QED
        BY <2>1, <2>4, <3>1, <3>2, <3>3 DEF CommandStates
    <2>6. CommandAgrees(c)'
      BY <1>5, <1>a, <2>1, <2>2, <2>3 DEF Managed!Start, CommandAgrees, Updates, Accepts, Words
    <2>7. Managed!TypeOK'
      BY <1>5, <2>1, <2>2 DEF Managed!Start, Typed, Managed!TypeOK, CommandTyped, CommandStates, Managed!Stamps
    <2>8. updates' = [updates EXCEPT ![c] = run] /\ config <= config'
      BY <1>5, <1>a, <2>1 DEF Managed!Start, Typed, CommandTyped
    <2> QED
      BY <1>5, <2>5, <2>6, <2>7, <2>8, CommandTypes DEF Managed!Start
  <1>6. ASSUME NEW c \in UpdateRuns, NEW f \in ManagedNames, Managed!WriteFile(c, f) PROVE Typed'
    <2> DEFINE run == updates'[c]
    <2>1. updates[c].step = "write" /\ f \in Managed!Managed(updates[c].read) /\ updates[c].kit \in Managed!Versions
          /\ updates[c] \in CommandStates /\ CommandAgrees(c) /\ f \in DOMAIN updates[c].outcome
      BY <1>6 DEF Managed!WriteFile, Typed, CommandTyped, CommandsAgree, CommandAgrees, Updates
    <2>2. Managed!VersionAt(updates[c].kit, f, updates[c].stamp) \in Managed!Texts
      BY <2>1, VersionTyped DEF CommandStates
    <2>3. file' \in [ManagedNames -> Managed!Texts \cup {None}] /\ beside' \in [ManagedNames -> Managed!AllTexts \cup {None}]
      <3>1. KitText[updates[c].kit][f] \in Managed!AllTexts
        BY <2>1 DEF Managed!AllTexts
      <3> QED
        BY <1>6, <2>2, <3>1 DEF Managed!WriteFile, Managed!Replace, Managed!Offer, Typed, Managed!TypeOK
    <2>4. PICK outcome \in [DOMAIN updates[c].outcome -> Words] :
             /\ updates' = [updates EXCEPT ![c] = [updates[c] EXCEPT !.left = @ \ {f}, !.outcome = outcome]]
             /\ outcome = updates[c].outcome
                \/ \E w \in {"raced", "blocked"} : outcome = [updates[c].outcome EXCEPT ![f] = w]
      <3>1. updates[c].outcome \in [DOMAIN updates[c].outcome -> Words]
        BY <2>1 DEF CommandAgrees, Updates
      <3>2. \A w \in {"raced", "blocked"} : [updates[c].outcome EXCEPT ![f] = w] \in [DOMAIN updates[c].outcome -> Words]
        BY <3>1 DEF Words
      <3>3. updates[c] = [updates[c] EXCEPT !.outcome = updates[c].outcome]
        BY <2>1 DEF CommandStates
      <3>4. \/ updates' = [updates EXCEPT ![c].left = @ \ {f}]
            \/ \E w \in {"raced", "blocked"} : updates' = [updates EXCEPT ![c].left = @ \ {f}, ![c].outcome[f] = w]
        BY <1>6 DEF Managed!WriteFile, Managed!Replace, Managed!Offer
      <3>5. CASE updates' = [updates EXCEPT ![c].left = @ \ {f}]
        <4>1. [updates[c] EXCEPT !.left = @ \ {f}] = [updates[c] EXCEPT !.left = @ \ {f}, !.outcome = updates[c].outcome]
          BY <2>1 DEF CommandStates
        <4> QED
          BY <3>1, <3>5, <4>1
      <3>6. ASSUME NEW w \in {"raced", "blocked"},
                   updates' = [updates EXCEPT ![c].left = @ \ {f}, ![c].outcome[f] = w]
            PROVE  updates' = [updates EXCEPT ![c] = [updates[c] EXCEPT !.left = @ \ {f},
                                                                 !.outcome = [updates[c].outcome EXCEPT ![f] = w]]]
        BY <2>1, <3>6 DEF Typed, CommandTyped, CommandStates
      <3> QED
        BY <3>1, <3>2, <3>4, <3>5, <3>6
    <2>5. run = [updates[c] EXCEPT !.left = @ \ {f}, !.outcome = outcome]
      BY <2>4 DEF Typed, CommandTyped
    <2>6. outcome \in Verdicts
      BY <2>1, <2>4 DEF Verdicts, CommandAgrees, Updates, Managed!Managed
    <2>7. run \in CommandStates
      BY <2>1, <2>5, <2>6 DEF CommandStates
    <2>8. CommandAgrees(c)'
      BY <1>6, <2>1, <2>4, <2>5 DEF CommandAgrees, Updates, Accepts, Managed!WriteFile, CommandStates, Managed!Managed
    <2>9. Managed!TypeOK'
      BY <1>6, <2>3, <2>5, <2>4, <2>1 DEF Managed!WriteFile, Typed, Managed!TypeOK, CommandTyped, CommandStates
    <2> QED
      <3>1. updates' = [updates EXCEPT ![c] = run]
        BY <2>4, <2>5
      <3>2. UNCHANGED <<kit, config, whole>>
        BY <1>6 DEF Managed!WriteFile
      <3> QED
        BY <1>a, <2>7, <2>8, <2>9, <3>1, <3>2, CommandTypes
  <1>7. ASSUME NEW c \in UpdateRuns, NEW f \in ManagedNames, Managed!WriteFails(c, f) PROVE Typed'
    <2> DEFINE run == updates'[c]
    <2>1. updates[c].step = "write" /\ f \in Managed!Managed(updates[c].read)
          /\ updates[c] \in CommandStates /\ CommandAgrees(c)
      BY <1>7 DEF Managed!WriteFails, Typed, CommandTyped, CommandsAgree, CommandAgrees, Updates
    <2>2. run = [updates[c] EXCEPT !.left = @ \ {f}, !.outcome = [updates[c].outcome EXCEPT ![f] = "failed"], !.failed = TRUE]
          /\ updates' = [updates EXCEPT ![c] = run]
      BY <1>7 DEF Managed!WriteFails, Typed, CommandTyped
    <2>3. [updates[c].outcome EXCEPT ![f] = "failed"] \in [Managed!Managed(updates[c].read) -> Words]
      BY <2>1 DEF CommandAgrees, Updates, Words, CommandStates
    <2>4. [updates[c].outcome EXCEPT ![f] = "failed"] \in Verdicts
      BY <2>3 DEF Verdicts, Managed!Managed
    <2>5. run \in CommandStates
      BY <2>1, <2>2, <2>4 DEF CommandStates
    <2>6. run.step = "write" /\ run.left = updates[c].left \ {f} /\ run.failed /\ run.read = updates[c].read
          /\ run.kit = updates[c].kit /\ run.from = updates[c].from /\ run.exit = updates[c].exit
          /\ run.outcome = [updates[c].outcome EXCEPT ![f] = "failed"]
      BY <2>1, <2>2 DEF CommandStates
    <2>7. UNCHANGED <<kit, config>> /\ ~whole'
      BY <1>7 DEF Managed!WriteFails
    <2>8. CommandAgrees(c)'
      BY <2>1, <2>3, <2>6, <2>7 DEF CommandAgrees, Updates, Accepts, Managed!Managed
    <2>9. Managed!TypeOK'
      BY <1>7, <2>2, <2>5, <2>1 DEF Managed!WriteFails, Managed!MayFail, Typed, Managed!TypeOK, CommandTyped, CommandStates, Managed!ManagedAssumption
    <2>10. updates' = [updates EXCEPT ![c] = run] /\ config <= config' /\ kit' = kit
      BY <1>a, <2>2, <2>7
    <2> QED
      BY <2>5, <2>7, <2>8, <2>9, <2>10, CommandTypes
  <1>8. ASSUME NEW c \in UpdateRuns, Managed!Record(c) PROVE Typed'
    <2>1. updates[c].step = "write" /\ updates[c].left = {} /\ updates[c] \in CommandStates /\ CommandAgrees(c)
      BY <1>8 DEF Managed!Record, Typed, CommandTyped, CommandsAgree
    <2>2. Managed!Written(c) \in Manifests
      <3>1. \A f \in ManagedNames : Managed!VersionAt(updates[c].kit, f, updates[c].stamp) \in Managed!Texts
        BY <2>1, VersionTyped DEF CommandAgrees, Updates, CommandStates
      <3> QED
        BY <2>1, <3>1 DEF Managed!Written, CommandAgrees, Updates, Manifests
    <2>3. PICK fails \in BOOLEAN :
             /\ updates' = [updates EXCEPT ![c] = [updates[c] EXCEPT !.step = "bump", !.failed = fails]]
             /\ fails => updates[c].failed \/ ~whole'
             /\ updates[c].failed => fails
      <3>1. updates[c] = [updates[c] EXCEPT !.failed = updates[c].failed] /\ updates[c].failed \in BOOLEAN
        BY <2>1 DEF CommandStates
      <3>2. CASE updates' = [updates EXCEPT ![c].step = "bump", ![c].failed = TRUE] /\ ~whole'
        BY <3>2
      <3>3. CASE updates' = [updates EXCEPT ![c].step = "bump"]
        <4>1. [updates[c] EXCEPT !.step = "bump"] = [updates[c] EXCEPT !.step = "bump", !.failed = updates[c].failed]
          BY <2>1 DEF CommandStates
        <4> QED
          BY <3>1, <3>3, <4>1
      <3> QED
        BY <1>8, <3>2, <3>3 DEF Managed!Record
    <2>4. updates'[c] = [updates[c] EXCEPT !.step = "bump", !.failed = fails]
      BY <2>3 DEF Typed, CommandTyped
    <2>5. updates'[c] \in CommandStates
      BY <2>1, <2>4 DEF CommandStates
    <2>6. ~whole => ~whole'
      BY <1>8 DEF Managed!Record
    <2>7. CommandAgrees(c)'
      BY <1>8, <2>1, <2>3, <2>4, <2>6 DEF CommandAgrees, Updates, Accepts, Managed!Record, CommandStates, Managed!Managed
    <2>8. Managed!TypeOK'
      BY <1>8, <2>2, <2>4, <2>3, <2>1 DEF Managed!Record, Typed, Managed!TypeOK, CommandTyped, CommandStates, Manifests
    <2> QED
      <3>1. UNCHANGED <<kit, config>>
        BY <1>8 DEF Managed!Record
      <3>2. updates' = [updates EXCEPT ![c] = updates'[c]]
        BY <2>3, <2>4
      <3> QED
        BY <1>a, <2>5, <2>6, <2>7, <2>8, <3>1, <3>2, CommandTypes
  <1>9. ASSUME NEW c \in UpdateRuns, Managed!Bump(c) PROVE Typed'
    <2> DEFINE run == updates[c]
    <2>1. run.step = "bump" /\ run \in CommandStates /\ CommandAgrees(c)
      BY <1>9 DEF Managed!Bump, Typed, CommandTyped, CommandsAgree
    <2>2. run.kit \in Managed!Versions /\ run.from \in Managed!Versions
      BY <2>1 DEF CommandAgrees, Updates
    <2>3. config' \in Managed!Versions /\ config <= config'
      BY <1>9, <1>a, <2>2 DEF Managed!Bump, Typed, Managed!TypeOK
    <2>4. PICK exit \in {None, 0, 1, 3} : updates' = [updates EXCEPT ![c] = [Managed!Idle EXCEPT !.exit = exit, !.kit = run.kit]]
      BY <1>9 DEF Managed!Bump
    <2>5. [Managed!Idle EXCEPT !.exit = exit, !.kit = run.kit] \in CommandStates
      BY <2>2, IdleTyped DEF CommandStates
    <2>6. updates'[c] = [Managed!Idle EXCEPT !.exit = exit, !.kit = run.kit]
      BY <2>4 DEF Typed, CommandTyped
    <2>7. CommandAgrees(c)'
      BY <2>6 DEF CommandAgrees, Updates, Accepts, Managed!Idle
    <2>8. Managed!TypeOK'
      BY <1>9, <2>3, <2>5, <2>4 DEF Managed!Bump, Typed, Managed!TypeOK, CommandTyped, CommandStates
    <2> QED
      BY <1>9, <2>3, <2>4, <2>5, <2>7, <2>8, CommandTypes DEF Managed!Bump
  <1>10. ASSUME NEW c \in UpdateRuns, NEW f \in ManagedNames, Managed!Accept(c, f) PROVE Typed'
    <2> DEFINE run == updates'[c]
               outcome == [recorded EXCEPT ![f] = IF file[f] = None THEN None ELSE Managed!Baseline(kit, f)]
    <2>1. kit \in Managed!Versions /\ recorded \in Manifests /\ runs' \in 0 .. MaxRuns
      BY <1>10 DEF Managed!Accept, Typed, Managed!TypeOK, Manifests, Managed!Stamps, Managed!ManagedAssumption
    <2>2. outcome \in Manifests
      <3>1. file[f] # None => Managed!Baseline(kit, f) \in Managed!Texts
        <4>1. file[f] # None => file[f].at \in Managed!Stamps
          BY DEF Typed, Managed!TypeOK, Managed!Texts
        <4> QED
          BY <2>1, <4>1, VersionTyped DEF Managed!Baseline
      <3> QED
        BY <2>1, <3>1 DEF Manifests
    <2> HIDE DEF outcome
    <2>3. run = [Managed!Idle EXCEPT !.step = "accept", !.kit = kit, !.read = recorded, !.left = {f}, !.outcome = outcome]
          /\ updates' = [updates EXCEPT ![c] = run]
      BY <1>10 DEF Managed!Accept, Typed, CommandTyped, outcome
    <2>4. run \in CommandStates
      <3>1. Managed!Idle \in CommandStates /\ outcome \in Verdicts \cup Manifests \cup {<<>>} /\ {f} \in SUBSET ManagedNames
            /\ recorded \in Manifests \cup {<<>>} /\ kit \in Managed!Versions \cup {0}
        BY <2>1, <2>2, IdleTyped
      <3> QED
        BY <2>3, <3>1 DEF CommandStates
    <2>5. run.step = "accept" /\ run.read = recorded /\ run.outcome = outcome
      BY <2>3, IdleTyped DEF CommandStates
    <2>6. CommandAgrees(c)'
      BY <2>1, <2>2, <2>5 DEF CommandAgrees, Updates, Accepts
    <2>7. Managed!TypeOK'
      BY <1>10, <2>1, <2>3, <2>4 DEF Managed!Accept, Managed!Acts, Typed, Managed!TypeOK, CommandTyped, CommandStates, Managed!ManagedAssumption
    <2>8. config <= config' /\ UNCHANGED <<kit, whole>>
      BY <1>10, <1>a DEF Managed!Accept
    <2> QED
      BY <2>3, <2>4, <2>6, <2>7, <2>8, CommandTypes
  <1>11. ASSUME NEW c \in UpdateRuns, Managed!RecordAccept(c) PROVE Typed'
    <2>1. updates[c] \in CommandStates /\ CommandAgrees(c) /\ updates[c].step = "accept"
      BY <1>11 DEF Managed!RecordAccept, Typed, CommandTyped, CommandsAgree
    <2>2. UNCHANGED <<kit, config>> /\ config <= config' /\ (~whole => ~whole')
      BY <1>a, <1>11 DEF Managed!RecordAccept
    <2>3. CASE updates' = [updates EXCEPT ![c] = [Managed!Idle EXCEPT !.exit = 1]] /\ UNCHANGED recorded
      <3>1. [Managed!Idle EXCEPT !.exit = 1] \in CommandStates
        BY IdleTyped DEF CommandStates
      <3>2. CommandAgrees(c)'
        BY <2>3, <3>1 DEF CommandAgrees, Updates, Accepts, Managed!Idle, Typed, CommandTyped
      <3>3. Managed!TypeOK'
        BY <1>11, <2>3, <3>1 DEF Managed!RecordAccept, Typed, Managed!TypeOK, CommandTyped, CommandStates
      <3> QED
        BY <2>2, <2>3, <3>1, <3>2, <3>3, CommandTypes
    <2>4. CASE updates' = [updates EXCEPT ![c].step = "unlink"] /\ recorded' = updates[c].outcome
      <3> DEFINE run == updates'[c]
      <3>1. run = [updates[c] EXCEPT !.step = "unlink"] /\ updates' = [updates EXCEPT ![c] = run]
        BY <2>4 DEF Typed, CommandTyped
      <3>2. run \in CommandStates
        BY <2>1, <3>1 DEF CommandStates
      <3>3. CommandAgrees(c)'
        BY <2>1, <3>1 DEF CommandAgrees, Updates, Accepts, CommandStates
      <3>4. Managed!TypeOK'
        BY <1>11, <2>1, <2>4, <3>1, <3>2 DEF Managed!RecordAccept, Typed, Managed!TypeOK, CommandTyped, CommandStates,
                                             CommandAgrees, Accepts, Manifests
      <3> QED
        BY <2>2, <3>1, <3>2, <3>3, <3>4, CommandTypes
    <2> QED
      BY <1>11, <2>3, <2>4 DEF Managed!RecordAccept
  <1>12. ASSUME NEW c \in UpdateRuns, Managed!RemoveOffer(c) \/ Managed!Cut(c) PROVE Typed'
    <2>1. updates' = [updates EXCEPT ![c] = Managed!Idle] /\ Managed!Idle \in CommandStates
      BY <1>12, IdleTyped DEF Managed!RemoveOffer, Managed!Cut
    <2>2. CommandAgrees(c)'
      BY <2>1 DEF CommandAgrees, Updates, Accepts, Managed!Idle, Typed, CommandTyped
    <2>3. UNCHANGED <<kit, config>> /\ config <= config' /\ (~whole => ~whole')
      BY <1>a, <1>12 DEF Managed!RemoveOffer, Managed!Cut
    <2>4. Managed!TypeOK'
      BY <1>12, <2>1 DEF Managed!RemoveOffer, Managed!Cut, Managed!MayFail, Typed, Managed!TypeOK, CommandTyped, CommandStates, Managed!ManagedAssumption
    <2> QED
      BY <2>1, <2>2, <2>3, <2>4, CommandTypes
  <1>13. CASE UNCHANGED Managed!vars
    <2>1. Managed!TypeOK' /\ CommandTyped' /\ kit' = kit /\ config' = config /\ whole' = whole
      BY <1>13 DEF Managed!vars, Typed, Managed!TypeOK, CommandTyped
    <2>2. kit <= kit' /\ config <= config'
      BY <1>a, <2>1
    <2>3. ASSUME NEW d \in UpdateRuns PROVE CommandAgrees(d)'
      BY <1>13, <2>1, <2>2, OthersAgree DEF Managed!vars, Typed, Managed!TypeOK
    <2> QED
      BY <2>1, <2>3 DEF Typed, CommandsAgree
  <1> QED
    BY <1>1, <1>2, <1>3, <1>4, <1>5, <1>6, <1>7, <1>8, <1>9, <1>10, <1>11, <1>12, <1>13 DEF Managed!Next

-----------------------------------------------------------------------------
(* What a step does to the commands.                                       *)

Writes(c) == Managed!Record(c) \/ \E f \in ManagedNames : Managed!WriteFile(c, f) \/ Managed!WriteFails(c, f)
Ends(c)   == Managed!Bump(c) \/ Managed!RemoveOffer(c) \/ Managed!Cut(c)
Others(c) == \A d \in UpdateRuns \ {c} : updates'[d] = updates[d]
ByPerson  == Managed!Upgrade \/ \E f \in ManagedNames : Managed!Edit(f) \/ Managed!Take(f) \/ Managed!Delete(f)

LEMMA StepIsOneOf ==
  ASSUME [Managed!Next]_(Managed!vars)
  PROVE  \/ ByPerson
         \/ UNCHANGED Managed!vars
         \/ \E c \in UpdateRuns : Managed!Start(c) \/ Writes(c) \/ Ends(c) \/ Managed!RecordAccept(c) \/ \E f \in ManagedNames : Managed!Accept(c, f)
  BY DEF Managed!Next, Writes, Ends, ByPerson

LEMMA StartDoes ==
  ASSUME Typed, NEW c \in UpdateRuns, Managed!Start(c)
  PROVE  /\ Others(c)
         /\ updates'[c].step = "write" /\ updates'[c].kit = kit /\ updates'[c].stamp = runs'
         /\ updates'[c].read = recorded /\ updates'[c].from = config /\ updates'[c].left = Managed!Managed(recorded)
         /\ ~updates'[c].failed
         /\ updates'[c].outcome = [f \in Managed!Managed(recorded) |-> Managed!Classify(kit, f, recorded)]
         /\ kit >= config
         /\ UNCHANGED <<file, beside, recorded, config, kit, dealt, whole, touched>>
  BY DEF Managed!Start, Managed!Idle, Typed, CommandTyped, Others

LEMMA WritesDo ==
  ASSUME Typed, NEW c \in UpdateRuns, Writes(c)
  PROVE  /\ Others(c) /\ updates[c].step = "write" /\ Updates(c) /\ Updates(c)'
         /\ updates'[c].read = updates[c].read /\ updates'[c].kit = updates[c].kit
         /\ updates'[c].stamp = updates[c].stamp /\ updates'[c].from = updates[c].from
         /\ updates'[c].left \subseteq updates[c].left
         /\ DOMAIN updates'[c].outcome = DOMAIN updates[c].outcome
         /\ \A g \in DOMAIN updates[c].outcome :
               updates'[c].outcome[g] = updates[c].outcome[g] \/ updates'[c].outcome[g] \in {"raced", "blocked", "failed"}
         /\ UNCHANGED <<config, kit, touched>>
  <1>1. updates[c] \in CommandStates /\ CommandAgrees(c)
    BY DEF Typed, CommandTyped, CommandsAgree
  <1>2. updates[c].step = "write" /\ UNCHANGED <<config, kit, touched>>
    BY DEF Writes, Managed!Record, Managed!WriteFile, Managed!WriteFails
  <1>3. DOMAIN updates[c].outcome = Managed!Managed(updates[c].read)
    BY <1>1, <1>2 DEF CommandAgrees, Updates
  <1>4. CASE Managed!Record(c)
    BY <1>1, <1>2, <1>4 DEF Managed!Record, Updates, Others, Typed, CommandTyped, CommandStates
  <1>5. ASSUME NEW f \in ManagedNames, Managed!WriteFails(c, f)
        PROVE  updates' = [updates EXCEPT ![c].left = @ \ {f}, ![c].outcome[f] = "failed", ![c].failed = TRUE]
    BY <1>5 DEF Managed!WriteFails
  <1>6. ASSUME NEW f \in ManagedNames, Managed!WriteFile(c, f)
        PROVE  \/ updates' = [updates EXCEPT ![c].left = @ \ {f}]
               \/ updates' = [updates EXCEPT ![c].left = @ \ {f}, ![c].outcome[f] = "raced"]
               \/ updates' = [updates EXCEPT ![c].left = @ \ {f}, ![c].outcome[f] = "blocked"]
    BY <1>6 DEF Managed!WriteFile, Managed!Replace, Managed!Offer
  <1> DEFINE Keeps(f) ==
               /\ Others(c) /\ updates'[c].step = "write"
               /\ updates'[c].read = updates[c].read /\ updates'[c].kit = updates[c].kit
               /\ updates'[c].stamp = updates[c].stamp /\ updates'[c].from = updates[c].from
               /\ updates'[c].left \subseteq updates[c].left
               /\ \/ updates'[c].outcome = updates[c].outcome
                  \/ \E w \in {"raced", "blocked", "failed"} : updates'[c].outcome = [updates[c].outcome EXCEPT ![f] = w]
  <1>7. ASSUME NEW f \in ManagedNames, Managed!WriteFile(c, f) \/ Managed!WriteFails(c, f) PROVE Keeps(f)
    <2>1. CASE updates' = [updates EXCEPT ![c].left = @ \ {f}, ![c].outcome[f] = "failed", ![c].failed = TRUE]
      BY <1>1, <1>2, <2>1 DEF Others, Typed, CommandTyped, CommandStates
    <2>2. CASE updates' = [updates EXCEPT ![c].left = @ \ {f}]
      BY <1>1, <1>2, <2>2 DEF Others, Typed, CommandTyped, CommandStates
    <2>3. CASE updates' = [updates EXCEPT ![c].left = @ \ {f}, ![c].outcome[f] = "raced"]
      BY <1>1, <1>2, <2>3 DEF Others, Typed, CommandTyped, CommandStates
    <2>4. CASE updates' = [updates EXCEPT ![c].left = @ \ {f}, ![c].outcome[f] = "blocked"]
      BY <1>1, <1>2, <2>4 DEF Others, Typed, CommandTyped, CommandStates
    <2> QED
      BY <1>5, <1>6, <1>7, <2>1, <2>2, <2>3, <2>4
  <1>8. CASE \E f \in ManagedNames : Managed!WriteFile(c, f) \/ Managed!WriteFails(c, f)
    <2>1. PICK f \in ManagedNames : Managed!WriteFile(c, f) \/ Managed!WriteFails(c, f)
      BY <1>8
    <2>2. Keeps(f)
      BY <1>7, <2>1
    <2>3. DOMAIN updates'[c].outcome = DOMAIN updates[c].outcome
      BY <1>1, <1>2, <2>2 DEF CommandAgrees, Updates
    <2>4. \A g \in DOMAIN updates[c].outcome :
             updates'[c].outcome[g] = updates[c].outcome[g] \/ updates'[c].outcome[g] \in {"raced", "blocked", "failed"}
      BY <1>1, <1>2, <2>2 DEF CommandAgrees, Updates
    <2> QED
      BY <1>2, <2>2, <2>3, <2>4 DEF Updates
  <1> QED
    BY <1>4, <1>8 DEF Writes

LEMMA EndsDo ==
  ASSUME Typed, NEW c \in UpdateRuns, Ends(c)
  PROVE  Others(c) /\ updates'[c].step = "idle" /\ UNCHANGED <<file, recorded, kit, dealt, touched>>
  <1>1. CASE Managed!Bump(c)
    <2>1. PICK exit : updates' = [updates EXCEPT ![c] = [Managed!Idle EXCEPT !.exit = exit, !.kit = updates[c].kit]]
      BY <1>1 DEF Managed!Bump
    <2> QED
      BY <1>1, <2>1 DEF Managed!Bump, Managed!Idle, Others, Typed, CommandTyped
  <1>2. CASE Managed!RemoveOffer(c)
    BY <1>2 DEF Managed!RemoveOffer, Managed!Idle, Others, Typed, CommandTyped
  <1>3. CASE Managed!Cut(c)
    BY <1>3 DEF Managed!Cut, Managed!Idle, Others, Typed, CommandTyped
  <1> QED
    BY <1>1, <1>2, <1>3 DEF Ends

LEMMA AcceptDoes ==
  ASSUME Typed, NEW c \in UpdateRuns, NEW f \in ManagedNames, Managed!Accept(c, f)
  PROVE  /\ Others(c)
         /\ updates'[c].step = "accept" /\ updates'[c].read = recorded /\ updates'[c].left = {f}
         /\ updates'[c].outcome = [recorded EXCEPT ![f] = IF file[f] = None THEN None ELSE Managed!Baseline(kit, f)]
         /\ UNCHANGED <<file, beside, recorded, config, kit, whole, touched>>
  BY DEF Managed!Accept, Managed!Idle, Others, Typed, CommandTyped

LEMMA RecordAcceptDoes ==
  ASSUME Typed, NEW c \in UpdateRuns, Managed!RecordAccept(c)
  PROVE  /\ Others(c) /\ updates[c].step = "accept"
         /\ UNCHANGED <<file, beside, config, kit, dealt, touched>>
         /\ \/ updates'[c].step = "idle" /\ ~whole' /\ UNCHANGED recorded
            \/ /\ updates'[c].step = "unlink" /\ updates'[c].read = updates[c].read
               /\ updates'[c].outcome = updates[c].outcome /\ updates'[c].left = updates[c].left
               /\ recorded = updates[c].read /\ recorded' = updates[c].outcome /\ UNCHANGED whole
  BY DEF Managed!RecordAccept, Managed!Idle, Others, Typed, CommandTyped, CommandStates

LEMMA ByPersonDoes ==
  ASSUME ByPerson
  PROVE  UNCHANGED <<beside, recorded, config, updates, whole>>
  BY DEF ByPerson, Managed!Upgrade, Managed!Edit, Managed!Take, Managed!Delete

LEMMA KitsGetNewer == Managed!ManagedAssumption /\ Typed /\ [Managed!Next]_(Managed!vars) => kit <= kit' /\ config <= config'
  <1> SUFFICES ASSUME Managed!ManagedAssumption, Typed, [Managed!Next]_(Managed!vars) PROVE kit <= kit' /\ config <= config'
    OBVIOUS
  <1>1. config \in Int /\ kit \in Int /\ \A v \in Managed!Versions : v \in Int
    BY VersionsAreNumbers DEF Typed, Managed!TypeOK
  <1>2. CASE ByPerson
    BY <1>1, <1>2 DEF ByPerson, Managed!Upgrade, Managed!Edit, Managed!Take, Managed!Delete
  <1>3. ASSUME NEW c \in UpdateRuns, Ends(c) PROVE kit <= kit' /\ config <= config'
    <2>1. CASE Managed!Bump(c)
      <3>1. updates[c].kit \in Int /\ updates[c].from \in Int /\ updates[c].from <= config
        BY <1>1, <2>1 DEF Managed!Bump, Typed, CommandsAgree, CommandAgrees, Updates
      <3> QED
        BY <1>1, <2>1, <3>1 DEF Managed!Bump
    <2>2. CASE Managed!RemoveOffer(c) \/ Managed!Cut(c)
      BY <1>1, <2>2 DEF Managed!RemoveOffer, Managed!Cut
    <2> QED
      BY <1>3, <2>1, <2>2 DEF Ends
  <1>4. CASE UNCHANGED <<kit, config>>
    BY <1>1, <1>4
  <1>5. ASSUME NEW c \in UpdateRuns, Managed!Start(c) \/ Writes(c) \/ Managed!RecordAccept(c) \/ \E f \in ManagedNames : Managed!Accept(c, f)
        PROVE  UNCHANGED <<kit, config>>
    BY <1>5 DEF Managed!Start, Writes, Managed!WriteFile, Managed!WriteFails, Managed!Record, Managed!Accept, Managed!RecordAccept
  <1> QED
    BY <1>2, <1>3, <1>4, <1>5, StepIsOneOf DEF Managed!vars

-----------------------------------------------------------------------------
(* What is recorded is a kit's.                                            *)

LEMMA OfANewerKit ==
  ASSUME Managed!ManagedAssumption, NEW t, NEW f, NEW v \in Managed!Versions, NEW w \in Managed!Versions, v <= w, OfAKit(t, f, v)
  PROVE  OfAKit(t, f, w)
  BY VersionsAreNumbers DEF OfAKit

LEMMA ThisKits ==
  ASSUME Managed!ManagedAssumption, NEW v \in Managed!Versions, NEW f \in ManagedNames, NEW stamp \in Managed!Stamps
  PROVE  OfAKit(Managed!VersionAt(v, f, stamp), f, v)
  BY VersionTyped, VersionsAreNumbers DEF OfAKit

LEMMA InitBaselines == Managed!ManagedAssumption /\ Managed!Init => BaselinesAreTheKits /\ RefreshesAreNew
  <1> SUFFICES ASSUME Managed!ManagedAssumption, Managed!Init PROVE BaselinesAreTheKits /\ RefreshesAreNew
    OBVIOUS
  <1>1. 1 \in Managed!Versions /\ 0 \in Managed!Stamps
    BY DEF Managed!ManagedAssumption, Managed!Stamps
  <1>2. \A f \in ManagedNames : OfAKit(Managed!VersionAt(1, f, 0), f, 1)
    BY <1>1, ThisKits
  <1> QED
    BY <1>2 DEF Managed!Init, BaselinesAreTheKits, RefreshesAreNew, Updates, Accepts, Managed!Idle

LEMMA BaselinesHold ==
  Managed!ManagedAssumption /\ Typed /\ BaselinesAreTheKits /\ [Managed!Next]_(Managed!vars) => BaselinesAreTheKits'
  <1> SUFFICES ASSUME Managed!ManagedAssumption, Typed, BaselinesAreTheKits, [Managed!Next]_(Managed!vars) PROVE BaselinesAreTheKits'
    OBVIOUS
  <1> DEFINE Own(c) == \A f \in ManagedNames :
                /\ Updates(c) /\ updates[c].read[f] # None => OfAKit(updates[c].read[f], f, updates[c].kit)
                /\ Accepts(c) /\ updates[c].outcome[f] # None => OfAKit(updates[c].outcome[f], f, kit)
             Recorded == \A f \in ManagedNames : recorded[f] # None => OfAKit(recorded[f], f, kit)
  <1>1. kit \in Managed!Versions /\ kit' \in Managed!Versions /\ kit <= kit'
    BY TypedHolds, KitsGetNewer DEF Typed, Managed!TypeOK
  <1>2. \A t, f : OfAKit(t, f, kit) => OfAKit(t, f, kit')
    BY <1>1, OfANewerKit
  <1>3. ASSUME NEW c \in UpdateRuns, updates'[c] = updates[c] PROVE Own(c)'
    BY <1>2, <1>3 DEF BaselinesAreTheKits, Updates, Accepts
  <1>4. CASE ByPerson \/ UNCHANGED Managed!vars
    <2>1. UNCHANGED <<recorded, updates>>
      BY <1>4, ByPersonDoes DEF Managed!vars
    <2> QED
      BY <1>2, <1>3, <2>1 DEF BaselinesAreTheKits
  <1>5. ASSUME NEW c \in UpdateRuns, Managed!Start(c) PROVE Own(c)' /\ Recorded' /\ Others(c)
    BY <1>5, StartDoes DEF BaselinesAreTheKits, Updates, Accepts
  <1>6. ASSUME NEW c \in UpdateRuns, Writes(c) PROVE Own(c)' /\ Recorded' /\ Others(c)
    <2>1. Own(c)'
      BY <1>6, WritesDo DEF BaselinesAreTheKits, Updates, Accepts
    <2>2. updates[c].kit \in Managed!Versions /\ updates[c].kit <= kit /\ updates[c].stamp \in Managed!Stamps
      BY <1>6, WritesDo DEF Typed, CommandTyped, CommandStates, CommandsAgree, CommandAgrees
    <2>3. \A f \in ManagedNames : Managed!Written(c)[f] # None => OfAKit(Managed!Written(c)[f], f, kit)
      BY <1>1, <1>6, <2>2, WritesDo, ThisKits, OfANewerKit DEF Managed!Written, BaselinesAreTheKits
    <2>4. recorded' = recorded \/ recorded' = Managed!Written(c)
      BY <1>6 DEF Writes, Managed!Record, Managed!WriteFile, Managed!WriteFails
    <2> QED
      BY <1>2, <1>6, <2>1, <2>3, <2>4, WritesDo DEF BaselinesAreTheKits
  <1>7. ASSUME NEW c \in UpdateRuns, Ends(c) PROVE Own(c)' /\ Recorded' /\ Others(c)
    BY <1>7, EndsDo DEF BaselinesAreTheKits, Updates, Accepts
  <1>8. ASSUME NEW c \in UpdateRuns, NEW f \in ManagedNames, Managed!Accept(c, f) PROVE Own(c)' /\ Recorded' /\ Others(c)
    <2>1. file[f] # None => OfAKit(Managed!Baseline(kit, f), f, kit)
      <3>1. file[f] # None => file[f].at \in Managed!Stamps
        BY DEF Typed, Managed!TypeOK, Managed!Texts
      <3> QED
        BY <1>1, <3>1, ThisKits DEF Managed!Baseline
    <2>2. recorded \in [ManagedNames -> Managed!Texts \cup {None}]
      BY DEF Typed, Managed!TypeOK
    <2>3. \A g \in ManagedNames : updates'[c].outcome[g] =
             IF g = f THEN IF file[f] = None THEN None ELSE Managed!Baseline(kit, f) ELSE recorded[g]
      <3>1. updates'[c].outcome = [recorded EXCEPT ![f] = IF file[f] = None THEN None ELSE Managed!Baseline(kit, f)]
        BY <1>8, AcceptDoes
      <3> QED
        BY <2>2, <3>1
    <2>4. Own(c)'
      BY <1>8, <2>1, <2>3, AcceptDoes DEF BaselinesAreTheKits, Updates, Accepts
    <2> QED
      BY <1>8, <2>4, AcceptDoes DEF BaselinesAreTheKits
  <1>9. ASSUME NEW c \in UpdateRuns, Managed!RecordAccept(c) PROVE Own(c)' /\ Recorded' /\ Others(c)
    BY <1>9, RecordAcceptDoes DEF BaselinesAreTheKits, Updates, Accepts
  <1> QED
    BY <1>3, <1>4, <1>5, <1>6, <1>7, <1>8, <1>9, StepIsOneOf DEF BaselinesAreTheKits, Others

LEMMA RefreshesStayNew == Managed!ManagedAssumption /\ Typed /\ RefreshesAreNew /\ [Managed!Next]_(Managed!vars) => RefreshesAreNew'
  <1> SUFFICES ASSUME Managed!ManagedAssumption, Typed, RefreshesAreNew, [Managed!Next]_(Managed!vars) PROVE RefreshesAreNew'
    OBVIOUS
  <1> DEFINE Own(c) == Updates(c) =>
                \A f \in DOMAIN updates[c].outcome : updates[c].outcome[f] = "refresh" =>
                    updates[c].read[f] # Managed!VersionAt(updates[c].kit, f, updates[c].read[f].at)
  <1>1. CASE ByPerson \/ UNCHANGED Managed!vars
    <2>1. UNCHANGED updates
      BY <1>1, ByPersonDoes DEF Managed!vars
    <2> QED
      BY <2>1 DEF RefreshesAreNew, Updates
  <1>2. ASSUME NEW c \in UpdateRuns, updates'[c] = updates[c] PROVE Own(c)'
    BY <1>2 DEF RefreshesAreNew, Updates
  <1>3. ASSUME NEW c \in UpdateRuns, Managed!Start(c) PROVE Own(c)' /\ Others(c)
    <2>1. \A f \in Managed!Managed(recorded) : Managed!Classify(kit, f, recorded) = "refresh" =>
             recorded[f] # Managed!VersionAt(kit, f, recorded[f].at)
      BY DEF Managed!Classify
    <2> QED
      BY <1>3, <2>1, StartDoes
  <1>4. ASSUME NEW c \in UpdateRuns, Writes(c) PROVE Own(c)' /\ Others(c)
    BY <1>4, WritesDo DEF RefreshesAreNew
  <1>5. ASSUME NEW c \in UpdateRuns, Ends(c) PROVE Own(c)' /\ Others(c)
    BY <1>5, EndsDo DEF Updates
  <1>6. ASSUME NEW c \in UpdateRuns, NEW f \in ManagedNames, Managed!Accept(c, f) PROVE Own(c)' /\ Others(c)
    BY <1>6, AcceptDoes DEF Updates
  <1>7. ASSUME NEW c \in UpdateRuns, Managed!RecordAccept(c) PROVE Own(c)' /\ Others(c)
    BY <1>7, RecordAcceptDoes DEF Updates
  <1> QED
    BY <1>1, <1>2, <1>3, <1>4, <1>5, <1>6, <1>7, StepIsOneOf DEF RefreshesAreNew, Others

FilesInv == Typed /\ BaselinesAreTheKits /\ RefreshesAreNew

LEMMA FilesInvariant == ASSUME Managed!ManagedAssumption PROVE Managed!Spec => []FilesInv
  <1>1. Managed!Init => FilesInv
    BY InitTyped, InitBaselines DEF FilesInv
  <1>2. FilesInv /\ [Managed!Next]_(Managed!vars) => FilesInv'
    BY TypedHolds, BaselinesHold, RefreshesStayNew DEF FilesInv
  <1> QED
    BY <1>1, <1>2, PTL DEF Managed!Spec

-----------------------------------------------------------------------------
(* What a command does to a file.                                          *)

(* Only a refresh changes a file: from what the manifest recorded of it, a *)
(* text of an older kit, to the one of its own.                            *)
LEMMA OnlyARefreshWrites ==
  ASSUME Managed!ManagedAssumption, FilesInv, [Managed!Next]_(Managed!vars), person' = person, NEW f \in ManagedNames, file'[f] # file[f]
  PROVE  \E c \in UpdateRuns :
            /\ Managed!WriteFile(c, f) /\ updates[c].outcome[f] = "refresh"
            /\ file[f] = updates[c].read[f]
            /\ file'[f] = Managed!VersionAt(updates[c].kit, f, updates[c].stamp)
  <1>1. person \in Nat
    BY DEF FilesInv, Typed, Managed!TypeOK
  <1>2. CASE ByPerson \/ UNCHANGED Managed!vars
    BY <1>1, <1>2 DEF ByPerson, Managed!Upgrade, Managed!Edit, Managed!Take, Managed!Delete, Managed!Acts, Managed!vars
  <1>3. ASSUME NEW c \in UpdateRuns, Managed!Start(c) \/ Ends(c) \/ Managed!RecordAccept(c) \/ \E g \in ManagedNames : Managed!Accept(c, g) PROVE file' = file
    BY <1>3, EndsDo DEF Managed!Start, Managed!RecordAccept, Managed!Accept, FilesInv
  <1>4. ASSUME NEW c \in UpdateRuns, Writes(c)
        PROVE  /\ Managed!WriteFile(c, f) /\ updates[c].outcome[f] = "refresh"
               /\ file[f] = updates[c].read[f]
               /\ file'[f] = Managed!VersionAt(updates[c].kit, f, updates[c].stamp)
    <2>1. PICK g \in ManagedNames : Managed!WriteFile(c, g)
      BY <1>4 DEF Writes, Managed!Record, Managed!WriteFails
    <2>2. updates[c].outcome[g] = "refresh" /\ Managed!Replace(c, g)
      BY <2>1 DEF Managed!WriteFile, Managed!Offer
    <2>3. file[g] = updates[c].read[g] /\ file' = [file EXCEPT ![g] = Managed!VersionAt(updates[c].kit, g, updates[c].stamp)]
      BY <2>2 DEF Managed!Replace
    <2>4. g = f
      BY <2>3
    <2> QED
      BY <2>1, <2>2, <2>3, <2>4 DEF FilesInv, Typed, Managed!TypeOK
  <1> QED
    BY <1>2, <1>3, <1>4, StepIsOneOf

LEMMA WritesWhatIsManaged ==
  ASSUME FilesInv, NEW c \in UpdateRuns, NEW f \in ManagedNames, Managed!WriteFile(c, f)
  PROVE  /\ Updates(c) /\ f \in DOMAIN updates[c].outcome /\ updates[c].read[f] # None
         /\ updates[c].kit \in Managed!Versions /\ updates[c].stamp \in Managed!Stamps
  BY DEF FilesInv, Typed, CommandTyped, CommandStates, CommandsAgree, CommandAgrees, Managed!WriteFile, Updates, Managed!Managed

(* No command ever replaces a file that holds a line of the person's, at   *)
(* this version of the kit or a later one, with how many updates at once,  *)
(* in whatever order they, the person and deaths come (replaceIfUnchanged, *)
(* src/commands/update.mjs; the baseline is never the person's bytes).     *)
THEOREM EditsAreNotOverwritten == ASSUME Managed!ManagedAssumption PROVE Managed!Spec => [][Managed!NoEditOverwritten]_(Managed!vars)
  <1>1. FilesInv /\ [Managed!Next]_(Managed!vars) => [Managed!NoEditOverwritten]_(Managed!vars)
    <2> SUFFICES ASSUME FilesInv, [Managed!Next]_(Managed!vars),
                        NEW f \in ManagedNames, file[f] # None, file[f].mine, person' = person, file'[f] # file[f]
                 PROVE  FALSE
      BY DEF Managed!NoEditOverwritten
    <2>1. PICK c \in UpdateRuns : Managed!WriteFile(c, f) /\ file[f] = updates[c].read[f]
      BY OnlyARefreshWrites
    <2>2. OfAKit(updates[c].read[f], f, updates[c].kit)
      BY <2>1, WritesWhatIsManaged DEF FilesInv, BaselinesAreTheKits
    <2> QED
      BY <2>1, <2>2 DEF OfAKit, Managed!VersionAt
  <1> QED
    BY <1>1, FilesInvariant, PTL DEF Managed!Spec

(* The kit's texts in a file only ever get newer, with a command of an     *)
(* older kit still at work: a refresh leads from the text of one kit to    *)
(* the text of a later one.                                                *)
THEOREM FilesOnlyGetNewer == ASSUME Managed!ManagedAssumption PROVE Managed!Spec => [][Managed!NeverBackwards]_(Managed!vars)
  <1>1. FilesInv /\ [Managed!Next]_(Managed!vars) => [Managed!NeverBackwards]_(Managed!vars)
    <2> SUFFICES ASSUME FilesInv, [Managed!Next]_(Managed!vars),
                        NEW f \in ManagedNames, file[f] # None, file'[f] # file[f], person' = person
                 PROVE  \E a, b \in Managed!Versions : a < b /\ file[f].of = KitText[a][f] /\ file'[f].of = KitText[b][f]
      BY DEF Managed!NeverBackwards
    <2>1. PICK c \in UpdateRuns : /\ Managed!WriteFile(c, f) /\ updates[c].outcome[f] = "refresh"
                                  /\ file[f] = updates[c].read[f]
                                  /\ file'[f] = Managed!VersionAt(updates[c].kit, f, updates[c].stamp)
      BY OnlyARefreshWrites
    <2>2. OfAKit(updates[c].read[f], f, updates[c].kit) /\ updates[c].kit \in Managed!Versions
      BY <2>1, WritesWhatIsManaged DEF FilesInv, BaselinesAreTheKits
    <2>3. PICK a \in Managed!Versions : a <= updates[c].kit /\ file[f] = Managed!VersionAt(a, f, file[f].at)
      BY <2>1, <2>2 DEF OfAKit
    <2>4. a # updates[c].kit
      BY <2>1, <2>3, WritesWhatIsManaged DEF FilesInv, RefreshesAreNew
    <2>5. file[f].of = KitText[a][f] /\ file'[f].of = KitText[updates[c].kit][f]
      BY <2>1, <2>3 DEF Managed!VersionAt
    <2>6. a < updates[c].kit
      BY <2>2, <2>3, <2>4, VersionsAreNumbers
    <2> QED
      BY <2>2, <2>5, <2>6
  <1> QED
    BY <1>1, FilesInvariant, PTL DEF Managed!Spec

-----------------------------------------------------------------------------
(* What was dealt.                                                         *)

(* A file that left an update's list as refreshed was replaced, and was up *)
(* to then what the manifest said.                                         *)
LEMMA RefreshedIsReplaced ==
  ASSUME Typed, NEW c \in UpdateRuns, Writes(c), NEW f \in updates[c].left \ updates'[c].left,
         updates'[c].outcome[f] = "refresh"
  PROVE  /\ Managed!WriteFile(c, f) /\ file[f] = updates[c].read[f]
         /\ file' = [file EXCEPT ![f] = Managed!VersionAt(updates[c].kit, f, updates[c].stamp)]
         /\ dealt' = [dealt EXCEPT ![f] = @ \cup {KitText[updates[c].kit][f]}]
  <1>1. updates[c] \in CommandStates /\ CommandAgrees(c) /\ Updates(c) /\ f \in DOMAIN updates[c].outcome
    BY WritesDo DEF Typed, CommandTyped, CommandsAgree, CommandAgrees
  <1>2. ~Managed!Record(c)
    BY DEF Managed!Record
  <1>3. PICK g \in ManagedNames : Managed!WriteFile(c, g) \/ Managed!WriteFails(c, g)
    BY <1>2 DEF Writes
  <1>4. updates'[c].left = updates[c].left \ {g}
    BY <1>1, <1>3 DEF Managed!WriteFile, Managed!WriteFails, Managed!Replace, Managed!Offer, Typed, CommandTyped, CommandStates
  <1>5. g = f
    BY <1>4
  <1>6. ~Managed!WriteFails(c, f)
    BY <1>1, <1>3 DEF Managed!WriteFails, Typed, CommandTyped, CommandStates, CommandAgrees
  <1>7. Managed!WriteFile(c, f)
    BY <1>3, <1>5, <1>6
  <1>8. updates[c].outcome[f] = "refresh"
    BY <1>1, WritesDo
  <1>9. Managed!Replace(c, f)
    BY <1>7, <1>8 DEF Managed!WriteFile
  <1>10. CASE file[f] = updates[c].read[f]
    BY <1>7, <1>9, <1>10 DEF Managed!Replace
  <1>11. CASE file[f] # updates[c].read[f]
    <2>1. updates' = [updates EXCEPT ![c].left = @ \ {f}, ![c].outcome[f] = "raced"]
      BY <1>9, <1>11 DEF Managed!Replace
    <2>2. updates'[c].outcome = [updates[c].outcome EXCEPT ![f] = "raced"]
      BY <1>1, <2>1 DEF Typed, CommandTyped, CommandStates
    <2> QED
      BY <1>1, <2>2 DEF CommandAgrees
  <1> QED
    BY <1>10, <1>11

LEMMA DealtGrows ==
  ASSUME Managed!ManagedAssumption, FilesInv, DealtHolds, [Managed!Next]_(Managed!vars)
  PROVE  dealt' \in [ManagedNames -> SUBSET Managed!AllTexts] /\ \A f \in ManagedNames : dealt[f] \subseteq dealt'[f]
  <1>1. dealt \in [ManagedNames -> SUBSET Managed!AllTexts] /\ beside \in [ManagedNames -> Managed!AllTexts \cup {None}]
    BY DEF DealtHolds, FilesInv, Typed, Managed!TypeOK
  <1>2. CASE UNCHANGED dealt
    BY <1>1, <1>2
  <1>3. ASSUME NEW f \in ManagedNames, NEW S \in SUBSET Managed!AllTexts, dealt' = [dealt EXCEPT ![f] = @ \cup S]
        PROVE  dealt' \in [ManagedNames -> SUBSET Managed!AllTexts] /\ \A g \in ManagedNames : dealt[g] \subseteq dealt'[g]
    BY <1>1, <1>3
  <1>4. CASE ByPerson
    <2>1. ASSUME NEW f \in ManagedNames, Managed!Take(f) PROVE \E S \in SUBSET Managed!AllTexts : dealt' = [dealt EXCEPT ![f] = @ \cup S]
      BY <1>1, <2>1 DEF Managed!Take
    <2> QED
      BY <1>2, <1>3, <1>4, <2>1 DEF ByPerson, Managed!Upgrade, Managed!Edit, Managed!Delete
  <1>5. ASSUME NEW c \in UpdateRuns, Writes(c)
        PROVE  UNCHANGED dealt \/ \E f \in ManagedNames, S \in SUBSET Managed!AllTexts : dealt' = [dealt EXCEPT ![f] = @ \cup S]
    <2>1. ASSUME NEW f \in ManagedNames, Managed!WriteFile(c, f), Managed!Replace(c, f) PROVE {KitText[updates[c].kit][f]} \in SUBSET Managed!AllTexts
      BY <2>1, WritesWhatIsManaged DEF Managed!AllTexts
    <2> QED
      BY <1>5, <2>1 DEF Writes, Managed!Record, Managed!WriteFails, Managed!WriteFile, Managed!Replace, Managed!Offer
  <1>6. ASSUME NEW c \in UpdateRuns, NEW f \in ManagedNames, Managed!Accept(c, f)
        PROVE  \E S \in SUBSET Managed!AllTexts : dealt' = [dealt EXCEPT ![f] = @ \cup S]
    BY <1>1, <1>6 DEF Managed!Accept
  <1>7. ASSUME NEW c \in UpdateRuns, Managed!Start(c) \/ Ends(c) \/ Managed!RecordAccept(c) PROVE UNCHANGED dealt
    BY <1>7, EndsDo DEF Managed!Start, Managed!RecordAccept, FilesInv
  <1> QED
    BY <1>2, <1>3, <1>4, <1>5, <1>6, <1>7, StepIsOneOf DEF Managed!vars

LEMMA WhatIsThereWasDealt ==
  ASSUME Managed!ManagedAssumption, FilesInv, DealtHolds, [Managed!Next]_(Managed!vars), NEW f \in ManagedNames, file'[f] # None
  PROVE  file'[f].of \in dealt'[f]
  <1>1. dealt \in [ManagedNames -> SUBSET Managed!AllTexts] /\ file \in [ManagedNames -> Managed!Texts \cup {None}] /\ dealt[f] \subseteq dealt'[f]
    BY DealtGrows DEF DealtHolds, FilesInv, Typed, Managed!TypeOK
  <1>2. CASE file'[f] = file[f]
    BY <1>1, <1>2 DEF DealtHolds
  <1>3. ASSUME NEW g \in ManagedNames, Managed!Edit(g) PROVE file'[f].of \in dealt'[f]
    <2>1. CASE g = f
      <3>1. PICK t : file' = [file EXCEPT ![f] = [of |-> file[f].of, at |-> t, mine |-> TRUE]]
        BY <1>3, <2>1 DEF Managed!Edit
      <3>2. file[f] # None /\ file'[f].of = file[f].of
        BY <1>1, <1>3, <2>1, <3>1 DEF Managed!Edit
      <3> QED
        BY <1>1, <3>2 DEF DealtHolds
    <2>2. CASE g # f
      BY <1>1, <1>2, <1>3, <2>2 DEF Managed!Edit
    <2> QED
      BY <2>1, <2>2
  <1>4. ASSUME NEW g \in ManagedNames, Managed!Take(g) PROVE file'[f].of \in dealt'[f]
    <2>1. CASE g = f
      <3>1. PICK t, mine : file' = [file EXCEPT ![f] = [of |-> beside[f], at |-> t, mine |-> mine]]
        BY <1>4, <2>1 DEF Managed!Take
      <3>2. file'[f].of = beside[f] /\ beside[f] \in dealt'[f]
        BY <1>1, <1>4, <2>1, <3>1 DEF Managed!Take
      <3> QED
        BY <3>2
    <2>2. CASE g # f
      BY <1>1, <1>2, <1>4, <2>2 DEF Managed!Take
    <2> QED
      BY <2>1, <2>2
  <1>5. ASSUME NEW g \in ManagedNames, Managed!Delete(g) PROVE file'[f] = file[f]
    BY <1>1, <1>5 DEF Managed!Delete
  <1>6. ASSUME NEW c \in UpdateRuns, Writes(c) PROVE file'[f].of \in dealt'[f]
    <2>1. CASE file' # file
      <3>1. PICK g \in ManagedNames : Managed!WriteFile(c, g)
        BY <1>6, <2>1 DEF Writes, Managed!Record, Managed!WriteFails
      <3>2. Managed!Replace(c, g) /\ file' = [file EXCEPT ![g] = Managed!VersionAt(updates[c].kit, g, updates[c].stamp)]
            /\ dealt' = [dealt EXCEPT ![g] = @ \cup {KitText[updates[c].kit][g]}]
        BY <2>1, <3>1 DEF Managed!WriteFile, Managed!Replace, Managed!Offer
      <3>3. CASE g = f
        BY <1>1, <3>2, <3>3 DEF Managed!VersionAt
      <3>4. CASE g # f
        BY <1>1, <1>2, <3>2, <3>4
      <3> QED
        BY <3>3, <3>4
    <2> QED
      BY <1>2, <2>1
  <1>7. ASSUME NEW c \in UpdateRuns, Managed!Start(c) \/ Ends(c) \/ Managed!RecordAccept(c) \/ \E g \in ManagedNames : Managed!Accept(c, g)
        PROVE  UNCHANGED file
    BY <1>7, EndsDo DEF Managed!Start, Managed!RecordAccept, Managed!Accept, FilesInv
  <1>8. Managed!Upgrade \/ UNCHANGED Managed!vars => UNCHANGED file
    BY DEF Managed!Upgrade, Managed!vars
  <1> QED
    BY <1>2, <1>3, <1>4, <1>5, <1>6, <1>7, <1>8, StepIsOneOf DEF ByPerson

LEMMA DealtHoldsOn ==
  Managed!ManagedAssumption /\ ~AcceptsUnseen /\ FilesInv /\ DealtHolds /\ [Managed!Next]_(Managed!vars) => DealtHolds'
  <1> SUFFICES ASSUME Managed!ManagedAssumption, ~AcceptsUnseen, FilesInv, DealtHolds, [Managed!Next]_(Managed!vars) PROVE DealtHolds'
    OBVIOUS
  <1> DEFINE Own(c) ==
                /\ \A f \in ManagedNames :
                      /\ Updates(c) /\ updates[c].read[f] # None => updates[c].read[f].of \in dealt[f]
                      /\ Accepts(c) /\ updates[c].outcome[f] # None => updates[c].outcome[f].of \in dealt[f]
                /\ Updates(c) => \A f \in DOMAIN updates[c].outcome :
                      \/ updates[c].outcome[f] \in {"current", "kept"}
                      \/ updates[c].outcome[f] = "refresh" /\ f \notin updates[c].left
                      => KitText[updates[c].kit][f] \in dealt[f]
             Recorded == \A f \in ManagedNames : recorded[f] # None => recorded[f].of \in dealt[f]
  <1>0. Typed
    BY DEF FilesInv
  <1>1. \A f \in ManagedNames : dealt[f] \subseteq dealt'[f]
    BY DealtGrows
  <1>2. \A c \in UpdateRuns : Updates(c) => DOMAIN updates[c].outcome \subseteq ManagedNames
    BY <1>0 DEF Typed, CommandsAgree, CommandAgrees, Managed!Managed
  <1>3. ASSUME NEW c \in UpdateRuns, updates'[c] = updates[c] PROVE Own(c)'
    BY <1>1, <1>2, <1>3 DEF DealtHolds, Updates, Accepts
  <1>4. ASSUME UNCHANGED recorded PROVE Recorded'
    BY <1>1, <1>4 DEF DealtHolds
  <1>5. CASE ByPerson \/ UNCHANGED Managed!vars
    <2>1. UNCHANGED <<recorded, updates>>
      BY <1>5, ByPersonDoes DEF Managed!vars
    <2> QED
      BY <1>3, <1>4, <2>1, DealtGrows, WhatIsThereWasDealt DEF DealtHolds
  <1>6. ASSUME NEW c \in UpdateRuns, Managed!Start(c) PROVE Own(c)' /\ Recorded' /\ Others(c)
    <2>1. ASSUME NEW f \in Managed!Managed(recorded), Managed!Classify(kit, f, recorded) \in {"current", "kept"}
          PROVE  KitText[kit][f] \in dealt[f]
      <3>1. CASE file[f] # None /\ file[f] = Managed!VersionAt(kit, f, file[f].at)
        <4>1. file[f].of = KitText[kit][f]
          BY <3>1 DEF Managed!VersionAt
        <4> QED
          BY <3>1, <4>1 DEF DealtHolds, Managed!Managed
      <3>2. CASE Managed!Kept(kit, f, recorded)
        <4>1. recorded[f].of = KitText[kit][f]
          BY <3>2 DEF Managed!Kept, Managed!VersionAt
        <4> QED
          BY <4>1 DEF DealtHolds, Managed!Managed
      <3> QED
        BY <2>1, <3>1, <3>2 DEF Managed!Classify
    <2>2. Own(c)'
      BY <1>0, <1>1, <1>6, <2>1, StartDoes DEF DealtHolds, Updates, Accepts, Managed!Managed
    <2> QED
      BY <1>0, <1>4, <1>6, <2>2, StartDoes
  <1>7. ASSUME NEW c \in UpdateRuns, Writes(c) PROVE Own(c)' /\ Recorded' /\ Others(c)
    <2>1. ASSUME NEW f \in DOMAIN updates[c].outcome,
                 \/ updates'[c].outcome[f] \in {"current", "kept"}
                 \/ updates'[c].outcome[f] = "refresh" /\ f \notin updates'[c].left
          PROVE  KitText[updates[c].kit][f] \in dealt'[f]
      <3>1. updates'[c].outcome[f] = updates[c].outcome[f] /\ f \in ManagedNames /\ Updates(c)
        BY <1>0, <1>2, <1>7, <2>1, WritesDo
      <3>2. CASE f \in updates[c].left /\ updates'[c].outcome[f] = "refresh"
        <4>1. dealt' = [dealt EXCEPT ![f] = @ \cup {KitText[updates[c].kit][f]}]
          BY <1>0, <1>7, <2>1, <3>2, RefreshedIsReplaced
        <4> QED
          BY <3>1, <4>1 DEF DealtHolds
      <3>3. CASE f \notin updates[c].left \/ updates'[c].outcome[f] # "refresh"
        BY <1>1, <2>1, <3>1, <3>3 DEF DealtHolds
      <3> QED
        BY <3>2, <3>3
    <2>2. Own(c)'
      BY <1>0, <1>1, <1>7, <2>1, WritesDo DEF DealtHolds, Accepts, Updates
    <2>3. Recorded'
      <3>1. CASE Managed!Record(c)
        <4>1. updates[c].left = {} /\ UNCHANGED dealt
          BY <3>1 DEF Managed!Record
        <4>2. \A f \in ManagedNames : Managed!Written(c)[f] # None => Managed!Written(c)[f].of \in dealt[f]
          BY <1>0, <1>7, <4>1, WritesDo DEF Managed!Written, Managed!Refreshed, Managed!VersionAt, DealtHolds
        <4> QED
          BY <1>4, <3>1, <4>1, <4>2 DEF Managed!Record
      <3>2. CASE ~Managed!Record(c)
        BY <1>4, <1>7, <3>2 DEF Writes, Managed!WriteFile, Managed!WriteFails
      <3> QED
        BY <3>1, <3>2
    <2> QED
      BY <1>0, <1>7, <2>2, <2>3, WritesDo
  <1>8. ASSUME NEW c \in UpdateRuns, Ends(c) PROVE Own(c)' /\ Recorded' /\ Others(c)
    BY <1>0, <1>4, <1>8, EndsDo DEF Updates, Accepts
  <1>9. ASSUME NEW c \in UpdateRuns, NEW f \in ManagedNames, Managed!Accept(c, f) PROVE Own(c)' /\ Recorded' /\ Others(c)
    <2>1. updates'[c].outcome = [recorded EXCEPT ![f] = IF file[f] = None THEN None ELSE Managed!Baseline(kit, f)]
      BY <1>0, <1>9, AcceptDoes
    <2>2. file[f] # None => Managed!Baseline(kit, f).of \in dealt'[f]
      <3>1. file[f] # None => beside[f] # None /\ beside[f] = KitText[kit][f]
        BY <1>9 DEF Managed!Accept
      <3>2. beside[f] # None => beside[f] \in dealt'[f]
        BY <1>9 DEF Managed!Accept, DealtHolds
      <3> QED
        BY <3>1, <3>2 DEF Managed!Baseline, Managed!VersionAt
    <2>3. recorded \in [ManagedNames -> Managed!Texts \cup {None}]
      BY <1>0 DEF Typed, Managed!TypeOK
    <2>4. \A g \in ManagedNames : updates'[c].outcome[g] # None => updates'[c].outcome[g].of \in dealt'[g]
      BY <1>1, <2>1, <2>2, <2>3 DEF DealtHolds
    <2>5. Own(c)'
      BY <1>0, <1>9, <2>4, AcceptDoes DEF Updates, Accepts
    <2> QED
      BY <1>0, <1>4, <1>9, <2>5, AcceptDoes
  <1>10. ASSUME NEW c \in UpdateRuns, Managed!RecordAccept(c) PROVE Own(c)' /\ Recorded' /\ Others(c)
    <2>1. Accepts(c)
      BY <1>0, <1>10, RecordAcceptDoes DEF Accepts
    <2> QED
      BY <1>0, <1>1, <1>10, <2>1, RecordAcceptDoes DEF DealtHolds, Updates, Accepts
  <1> QED
    BY <1>3, <1>5, <1>6, <1>7, <1>8, <1>9, <1>10, StepIsOneOf, DealtGrows, WhatIsThereWasDealt DEF DealtHolds, Others

LEMMA InitDealt == Managed!ManagedAssumption /\ Managed!Init => DealtHolds
  <1> SUFFICES ASSUME Managed!ManagedAssumption, Managed!Init PROVE DealtHolds
    OBVIOUS
  <1>1. 1 \in Managed!Versions
    BY DEF Managed!ManagedAssumption
  <1>2. dealt \in [ManagedNames -> SUBSET Managed!AllTexts]
    BY <1>1 DEF Managed!Init, Managed!AllTexts
  <1>3. \A f \in ManagedNames : Managed!VersionAt(1, f, 0).of \in dealt[f]
    BY DEF Managed!Init, Managed!VersionAt
  <1> QED
    BY <1>2, <1>3 DEF Managed!Init, DealtHolds, Updates, Accepts, Managed!Idle

LEMMA DealtInvariant == ASSUME Managed!ManagedAssumption, ~AcceptsUnseen PROVE Managed!Spec => []DealtHolds
  <1>1. Managed!Init => DealtHolds
    BY InitDealt
  <1>2. FilesInv /\ DealtHolds /\ [Managed!Next]_(Managed!vars) => DealtHolds'
    BY DealtHoldsOn
  <1> QED
    BY <1>1, <1>2, FilesInvariant, PTL DEF Managed!Spec

(* An exit code of 0 is the last step of an update nothing failed of and   *)
(* that asked for no attention.                                            *)
LEMMA ZeroMeansAllWell ==
  ASSUME Managed!ManagedAssumption, FilesInv, [Managed!Next]_(Managed!vars), NEW c \in UpdateRuns, updates[c].step = "bump", updates'[c].exit = 0
  PROVE  \A f \in DOMAIN updates[c].outcome :
            \/ updates[c].outcome[f] \in {"current", "kept"}
            \/ updates[c].outcome[f] = "refresh" /\ f \notin updates[c].left
  <1>0. Typed /\ CommandAgrees(c) /\ Updates(c) /\ None # 0
    BY DEF FilesInv, Typed, CommandsAgree, Updates, Managed!ManagedAssumption
  <1>1. updates[c].exit # 0 /\ updates'[c] # updates[c]
    BY <1>0 DEF CommandAgrees
  <1>2. ASSUME NEW d \in UpdateRuns, Managed!Start(d) \/ Writes(d) \/ Managed!RecordAccept(d) \/ \E f \in ManagedNames : Managed!Accept(d, f)
        PROVE  FALSE
    <2>1. updates[d].step # "bump"
      BY <1>0, <1>2, WritesDo, RecordAcceptDoes DEF Managed!Start, Managed!Accept
    <2>2. Others(d)
      BY <1>0, <1>2, StartDoes, WritesDo, AcceptDoes, RecordAcceptDoes
    <2> QED
      BY <1>1, <2>1, <2>2 DEF Others
  <1>3. ~(ByPerson \/ UNCHANGED Managed!vars)
    BY <1>1, ByPersonDoes DEF Managed!vars
  <1>4. PICK d \in UpdateRuns : Ends(d)
    BY <1>2, <1>3, StepIsOneOf
  <1>5. d = c
    BY <1>0, <1>1, <1>4, EndsDo DEF Others
  <1>6. Managed!Bump(c)
    BY <1>0, <1>4, <1>5 DEF Ends, Managed!RemoveOffer, Managed!Cut, Managed!Idle, Typed, CommandTyped
  <1>7. ~updates[c].failed /\ \A f \in DOMAIN updates[c].outcome : updates[c].outcome[f] \notin Managed!Attention
    <2> DEFINE run   == updates[c]
               bumps == run.kit > run.from /\ ~run.failed
               fails == run.failed \/ (bumps /\ config # run.from)
               exit  == IF fails THEN 1
                        ELSE IF \E f \in DOMAIN run.outcome : run.outcome[f] \in Managed!Attention THEN 3 ELSE 0
    <2>1. updates' = [updates EXCEPT ![c] = [Managed!Idle EXCEPT !.exit = exit, !.kit = run.kit]]
      BY <1>6 DEF Managed!Bump
    <2> HIDE DEF exit
    <2>2. exit = 0
      BY <1>0, <2>1 DEF Typed, CommandTyped, Managed!Idle
    <2> USE DEF exit
    <2> QED
      BY <2>2
  <1> QED
    BY <1>0, <1>7 DEF CommandAgrees, Words, Managed!Attention

(* An update that answers 0 has hidden nothing: every file it managed has  *)
(* had its kit's text, in it or beside it, where the person could see it;  *)
(* as long as they accept only what they saw (src/commands/update.mjs).    *)
THEOREM NothingIsHidden == ASSUME Managed!ManagedAssumption, ~AcceptsUnseen PROVE Managed!Spec => [][Managed!NothingNewIsHidden]_(Managed!vars)
  <1>1. FilesInv /\ DealtHolds /\ [Managed!Next]_(Managed!vars) => [Managed!NothingNewIsHidden]_(Managed!vars)
    <2> SUFFICES ASSUME FilesInv, DealtHolds, [Managed!Next]_(Managed!vars),
                        NEW c \in UpdateRuns, updates[c].step = "bump", updates'[c].exit = 0,
                        NEW f \in DOMAIN updates[c].outcome
                 PROVE  KitText[updates[c].kit][f] \in dealt[f]
      BY DEF Managed!NothingNewIsHidden
    <2> QED
      BY ZeroMeansAllWell DEF DealtHolds, Updates
  <1> QED
    BY <1>1, FilesInvariant, DealtInvariant, PTL DEF Managed!Spec

-----------------------------------------------------------------------------
(* Files no one touched.                                                   *)

(* A doubt ends only with an update that fails.                            *)
LEMMA DoubtsEndInFailure ==
  ASSUME Managed!ManagedAssumption, FilesInv, [Managed!Next]_(Managed!vars), whole', ~Doubtful'
  PROVE  whole /\ ~Doubtful
  <1>0. Typed /\ Typed' /\ (\A v \in Managed!Versions : v \in Int) /\ config \in Int
    BY TypedHolds, VersionsAreNumbers DEF FilesInv, Typed, Managed!TypeOK
  <1>1. ASSUME NEW c \in UpdateRuns, updates'[c] = updates[c] PROVE Raises(c)' = Raises(c)
    BY <1>1 DEF Raises, Updates
  <1>2. CASE ByPerson \/ UNCHANGED Managed!vars
    <2>1. UNCHANGED <<updates, config, whole>>
      BY <1>2, ByPersonDoes DEF Managed!vars
    <2> QED
      BY <1>1, <2>1 DEF Doubtful
  <1>3. ASSUME NEW c \in UpdateRuns, Managed!Start(c) PROVE whole /\ ~Doubtful
    <2>1. Others(c) /\ UNCHANGED <<config, whole>> /\ ~Raises(c)
      BY <1>0, <1>3, StartDoes DEF Managed!Start, Raises, Updates
    <2> QED
      BY <1>1, <2>1 DEF Doubtful, Others
  <1>4. ASSUME NEW c \in UpdateRuns, Writes(c) PROVE whole /\ ~Doubtful
    <2>1. Others(c) /\ UNCHANGED config /\ Raises(c)' = Raises(c) /\ updates'[c].from = updates[c].from
      BY <1>0, <1>4, WritesDo DEF Raises
    <2>2. whole
      BY <1>4 DEF Writes, Managed!Record, Managed!WriteFile, Managed!WriteFails
    <2> QED
      BY <1>1, <2>1, <2>2 DEF Doubtful, Others
  <1>5. ASSUME NEW c \in UpdateRuns, \/ Managed!RemoveOffer(c) \/ Managed!RecordAccept(c) \/ \E f \in ManagedNames : Managed!Accept(c, f)
        PROVE whole /\ ~Doubtful
    <2>1. Others(c) /\ UNCHANGED <<config, whole>> /\ ~Raises(c)
      BY <1>0, <1>5, EndsDo, AcceptDoes, RecordAcceptDoes DEF Ends, Managed!RemoveOffer, Managed!Accept, Raises, Updates
    <2> QED
      BY <1>1, <2>1 DEF Doubtful, Others
  <1>6. ASSUME NEW c \in UpdateRuns, Managed!Cut(c) PROVE FALSE
    BY <1>6 DEF Managed!Cut
  <1>7. ASSUME NEW c \in UpdateRuns, Managed!Bump(c) PROVE whole /\ ~Doubtful
    <2> DEFINE run   == updates[c]
               bumps == run.kit > run.from /\ ~run.failed
               fails == run.failed \/ (bumps /\ config # run.from)
    <2>1. whole /\ ~fails /\ config' = IF bumps THEN run.kit ELSE config
      BY <1>7 DEF Managed!Bump
    <2>2. Others(c) /\ ~Raises(c)'
      BY <1>0, <1>7, EndsDo DEF Ends, Raises, Updates
    <2>3. run.kit \in Int /\ run.from \in Int /\ Updates(c) /\ (Raises(c) <=> bumps)
      BY <1>0, <1>7, <2>1 DEF Managed!Bump, Raises, Updates, Typed, CommandsAgree, CommandAgrees
    <2>4. ASSUME NEW d \in UpdateRuns, d # c, Raises(d) PROVE updates[d].from = config /\ ~Raises(c)
      <3>1. Raises(d)' /\ updates'[d] = updates[d]
        BY <1>1, <2>2, <2>4 DEF Others
      <3>2. updates[d].from = config'
        BY <3>1 DEF Doubtful
      <3>3. updates[d].from \in Int /\ updates[d].from <= config
        BY <1>0, <2>4 DEF Raises, Updates, Typed, CommandsAgree, CommandAgrees
      <3> QED
        BY <1>0, <2>1, <2>3, <3>2, <3>3
    <2>5. Raises(c) => run.from = config
      BY <2>1, <2>3
    <2>6. ASSUME NEW d \in UpdateRuns, NEW e \in UpdateRuns, d # e, Raises(d), Raises(e) PROVE FALSE
      <3>1. CASE d = c \/ e = c
        BY <2>4, <2>6, <3>1
      <3>2. CASE d # c /\ e # c
        BY <1>1, <2>2, <2>6, <3>2 DEF Doubtful, Others
      <3> QED
        BY <3>1, <3>2
    <2> QED
      BY <2>1, <2>4, <2>5, <2>6 DEF Doubtful
  <1> QED
    BY <1>2, <1>3, <1>4, <1>5, <1>6, <1>7, StepIsOneOf DEF Ends

LEMMA TouchedGrows == FilesInv /\ [Managed!Next]_(Managed!vars) => touched \subseteq touched'
  <1> SUFFICES ASSUME FilesInv, [Managed!Next]_(Managed!vars) PROVE touched \subseteq touched'
    OBVIOUS
  <1>1. ASSUME NEW c \in UpdateRuns,
               Managed!Start(c) \/ Writes(c) \/ Ends(c) \/ Managed!RecordAccept(c) \/ \E f \in ManagedNames : Managed!Accept(c, f)
        PROVE  UNCHANGED touched
    BY <1>1, StartDoes, WritesDo, EndsDo, RecordAcceptDoes, AcceptDoes DEF FilesInv
  <1> QED
    BY <1>1, StepIsOneOf DEF ByPerson, Managed!Upgrade, Managed!Edit, Managed!Take, Managed!Delete, Managed!vars

(* A step of one command that leaves the file, its entry and its offer     *)
(* alone, and raises no more and no less than before.                      *)
LEMMA StillUntouched ==
  ASSUME NEW f \in ManagedNames, Untouched(f),
         file'[f] = file[f], recorded'[f] = recorded[f], beside'[f] = beside[f], config' = config,
         NEW c \in UpdateRuns, Others(c), Raises(c)' <=> Raises(c),
         UntouchedBeside(c, f)', Raises(c)' => UntouchedIn(c, f)'
  PROVE  Untouched(f)'
  <1>1. \A d \in UpdateRuns : Raises(d)' <=> Raises(d)
    BY DEF Others, Raises, Updates
  <1>2. UntouchedBetween(f)'
    BY <1>1 DEF Untouched, UntouchedBetween
  <1>3. ASSUME NEW d \in UpdateRuns, d # c PROVE UntouchedBeside(d, f)' /\ (Raises(d)' => UntouchedIn(d, f)')
    <2>1. updates'[d] = updates[d]
      BY <1>3 DEF Others
    <2>2. UntouchedBeside(d, f)'
      BY <2>1 DEF Untouched, UntouchedBeside, Raises, Updates, Accepts
    <2>3. Raises(d)' => UntouchedIn(d, f)'
      BY <1>1, <2>1 DEF Untouched, UntouchedIn
    <2> QED
      BY <2>2, <2>3
  <1> QED
    BY <1>2, <1>3 DEF Untouched

(* Beside the one update that raises it, what the others think of the file *)
(* depends on nothing else.                                                *)
LEMMA UntouchedElsewhere ==
  ASSUME ~Doubtful, NEW f \in ManagedNames, Untouched(f), NEW c \in UpdateRuns, Others(c), Raises(c), Raises(c)',
         file'[f] # None, recorded'[f] # None, beside'[f] = None,
         UntouchedBeside(c, f)', UntouchedIn(c, f)'
  PROVE  Untouched(f)'
  <1>1. ASSUME NEW d \in UpdateRuns, d # c PROVE UntouchedBeside(d, f)' /\ ~Raises(d)'
    <2>1. updates'[d] = updates[d] /\ ~Raises(d)
      BY <1>1 DEF Others, Doubtful
    <2> QED
      BY <2>1 DEF Untouched, UntouchedBeside, Raises, Updates, Accepts
  <1> QED
    BY <1>1 DEF Untouched, UntouchedBetween

LEMMA UntouchedAtStart ==
  ASSUME Managed!ManagedAssumption, FilesInv, ~Doubtful, ~Doubtful',
         NEW f \in ManagedNames, Untouched(f), NEW c \in UpdateRuns, Managed!Start(c)
  PROVE  Untouched(f)'
  <1>0. /\ Typed /\ config \in Int /\ kit \in Int /\ config \in Managed!Versions /\ kit \in Managed!Versions /\ config <= kit
        /\ ~Raises(c)
    BY VersionsAreNumbers, StartDoes DEF FilesInv, Typed, Managed!TypeOK, Managed!Start, Raises, Updates
  <1>1. /\ Others(c) /\ updates'[c].step = "write" /\ updates'[c].kit = kit /\ updates'[c].from = config
        /\ updates'[c].read = recorded /\ updates'[c].left = Managed!Managed(recorded)
        /\ updates'[c].outcome[f] = Managed!Classify(kit, f, recorded)
        /\ UNCHANGED <<file, beside, recorded, config, kit>>
    BY <1>0, StartDoes DEF Managed!Managed, Untouched
  <1>2. (Raises(c)' <=> config < kit) /\ Updates(c)' /\ ~Accepts(c)'
    BY <1>1 DEF Raises, Updates, Accepts
  <1>3. ASSUME NEW d \in UpdateRuns, Raises(d) PROVE FALSE
    <2>1. d # c /\ updates[d].from = config /\ updates[d].from < updates[d].kit /\ updates[d].kit <= kit
          /\ updates[d].kit \in Int
      BY <1>0, <1>3, VersionsAreNumbers DEF Doubtful, Raises, Typed, CommandsAgree, CommandAgrees
    <2>2. Raises(d)'
      BY <1>1, <1>3, <2>1 DEF Others, Raises, Updates
    <2> QED
      BY <1>0, <1>2, <2>1, <2>2 DEF Doubtful
  <1>4. file[f] # None /\ file[f] = recorded[f] /\ file[f] = Managed!VersionAt(config, f, file[f].at)
    BY <1>3 DEF Untouched, UntouchedBetween
  <1>5. CASE kit = config
    <2>1. updates'[c].outcome[f] = "current"
      BY <1>1, <1>4, <1>5 DEF Managed!Classify
    <2>2. UntouchedBeside(c, f)' /\ ~Raises(c)'
      BY <1>0, <1>1, <1>2, <1>4, <1>5, <2>1 DEF UntouchedBeside
    <2>3. file'[f] = file[f] /\ recorded'[f] = recorded[f] /\ beside'[f] = beside[f] /\ config' = config /\ Others(c)
      BY <1>1
    <2> QED
      BY <1>0, <2>2, <2>3, StillUntouched
  <1>6. CASE config < kit
    <2>1. /\ updates'[c].outcome[f] \in {"current", "refresh"}
          /\ updates'[c].outcome[f] = "current" => file[f] = Managed!VersionAt(kit, f, file[f].at)
      BY <1>1, <1>4 DEF Managed!Classify
    <2>2. f \in updates'[c].left
      BY <1>1, <1>4 DEF Managed!Managed
    <2>3. UntouchedIn(c, f)' /\ UntouchedBeside(c, f)' /\ Raises(c)'
      BY <1>1, <1>2, <1>4, <1>6, <2>1, <2>2 DEF UntouchedIn, UntouchedBeside
    <2>4. ASSUME NEW d \in UpdateRuns, d # c PROVE UntouchedBeside(d, f)' /\ ~Raises(d)'
      <3>1. updates'[d] = updates[d]
        BY <1>1, <2>4 DEF Others
      <3> QED
        BY <1>3, <3>1 DEF Untouched, UntouchedBeside, Raises, Updates, Accepts
    <2> QED
      BY <1>1, <2>3, <2>4 DEF Untouched, UntouchedBetween
  <1> QED
    BY <1>0, <1>5, <1>6

(* What writing, or not writing, one file does to the update's decision    *)
(* about another, and about one that needs nothing.                        *)
LEMMA WriteFileDoes ==
  ASSUME FilesInv, NEW c \in UpdateRuns, NEW g \in ManagedNames, Managed!WriteFile(c, g), NEW f \in DOMAIN updates[c].outcome
  PROVE  /\ updates'[c].step = "write" /\ updates'[c].left = updates[c].left \ {g} /\ recorded' = recorded
         /\ (f # g \/ updates[c].outcome[f] = "current") =>
               /\ file'[f] = file[f] /\ beside'[f] = beside[f]
               /\ updates'[c].outcome[f] = updates[c].outcome[f]
  <1>1. /\ updates[c] \in CommandStates /\ updates \in [UpdateRuns -> CommandStates] /\ CommandAgrees(c) /\ Updates(c)
        /\ f \in ManagedNames /\ updates[c].step = "write" /\ recorded' = recorded
        /\ file \in [ManagedNames -> Managed!Texts \cup {None}] /\ beside \in [ManagedNames -> Managed!AllTexts \cup {None}]
    BY DEF FilesInv, Typed, Managed!TypeOK, CommandTyped, CommandsAgree, CommandAgrees, Managed!WriteFile, Updates, Managed!Managed
  <1>2. updates[c].outcome \in [DOMAIN updates[c].outcome -> Words]
    BY <1>1 DEF CommandAgrees
  <1>3. \/ updates' = [updates EXCEPT ![c].left = @ \ {g}] /\ (updates[c].outcome[g] = "current" => UNCHANGED <<file, beside>>)
        \/ /\ updates[c].outcome[g] # "current"
           /\ \E w \in {"raced", "blocked"} : updates' = [updates EXCEPT ![c].left = @ \ {g}, ![c].outcome[g] = w]
    BY DEF Managed!WriteFile, Managed!Replace, Managed!Offer
  <1>4. f # g => file'[f] = file[f] /\ beside'[f] = beside[f]
    BY <1>1 DEF Managed!WriteFile, Managed!Replace, Managed!Offer
  <1>5. CASE updates' = [updates EXCEPT ![c].left = @ \ {g}] /\ (updates[c].outcome[g] = "current" => UNCHANGED <<file, beside>>)
    BY <1>1, <1>4, <1>5 DEF CommandStates
  <1>6. ASSUME NEW w \in {"raced", "blocked"}, updates[c].outcome[g] # "current",
               updates' = [updates EXCEPT ![c].left = @ \ {g}, ![c].outcome[g] = w]
        PROVE  /\ updates'[c].step = "write" /\ updates'[c].left = updates[c].left \ {g}
               /\ f # g => updates'[c].outcome[f] = updates[c].outcome[f]
    BY <1>1, <1>2, <1>6 DEF CommandStates
  <1> QED
    BY <1>1, <1>3, <1>4, <1>5, <1>6

LEMMA UntouchedAtWrite ==
  ASSUME Managed!ManagedAssumption, FilesInv, ~Doubtful,
         NEW f \in ManagedNames, Untouched(f), NEW c \in UpdateRuns, NEW g \in ManagedNames, Managed!WriteFile(c, g)
  PROVE  Untouched(f)'
  <1>0. Writes(c) /\ Typed /\ CommandAgrees(c)
    BY DEF Writes, FilesInv, Typed, CommandsAgree
  <1>1. /\ Others(c) /\ Updates(c) /\ Updates(c)' /\ updates[c].step = "write" /\ g \in updates[c].left
        /\ updates'[c].read = updates[c].read /\ updates'[c].kit = updates[c].kit
        /\ updates'[c].stamp = updates[c].stamp /\ updates'[c].from = updates[c].from /\ config' = config
    BY <1>0, WritesDo DEF Managed!WriteFile
  <1>2. Raises(c)' <=> Raises(c)
    BY <1>1 DEF Raises
  <1>3. f \in DOMAIN updates[c].outcome /\ updates[c].read[f] # None
    BY <1>0, <1>1 DEF Untouched, UntouchedBeside, UntouchedIn, CommandAgrees, Managed!Managed
  <1>4. /\ updates'[c].step = "write" /\ updates'[c].left = updates[c].left \ {g} /\ recorded' = recorded
        /\ (f # g \/ updates[c].outcome[f] = "current") =>
              /\ file'[f] = file[f] /\ beside'[f] = beside[f]
              /\ updates'[c].outcome[f] = updates[c].outcome[f]
    BY <1>3, WriteFileDoes
  <1>5. CASE f # g \/ updates[c].outcome[f] = "current"
    <2>1. UntouchedBeside(c, f)'
      BY <1>1, <1>2, <1>4, <1>5 DEF Untouched, UntouchedBeside, Updates, Accepts
    <2>2. Raises(c)' => UntouchedIn(c, f)'
      BY <1>1, <1>2, <1>4, <1>5 DEF Untouched, UntouchedIn
    <2>3. file'[f] = file[f] /\ recorded'[f] = recorded[f] /\ beside'[f] = beside[f] /\ config' = config
      BY <1>1, <1>4, <1>5
    <2> QED
      BY <1>1, <1>2, <2>1, <2>2, <2>3, StillUntouched
  <1>6. CASE f = g /\ updates[c].outcome[f] # "current"
    <2>1. Raises(c) /\ updates[c].outcome[f] = "refresh"
      BY <1>1, <1>6 DEF Untouched, UntouchedBeside, UntouchedIn
    <2>2. file[f] = updates[c].read[f] /\ updates[c].read[f] = recorded[f]
      BY <1>1, <1>6, <2>1 DEF Untouched, UntouchedIn
    <2>3. Managed!Replace(c, f) /\ UNCHANGED beside
      BY <1>6, <2>1 DEF Managed!WriteFile
    <2>4. /\ file' = [file EXCEPT ![f] = Managed!VersionAt(updates[c].kit, f, updates[c].stamp)]
          /\ updates' = [updates EXCEPT ![c].left = @ \ {f}]
      BY <2>2, <2>3 DEF Managed!Replace
    <2>5. /\ file'[f] = Managed!VersionAt(updates[c].kit, f, updates[c].stamp)
          /\ updates'[c].outcome = updates[c].outcome
      BY <1>0, <2>4 DEF Typed, Managed!TypeOK, CommandTyped, CommandStates
    <2>6. updates[c].kit \in Managed!Versions /\ updates[c].stamp \in Managed!Stamps
      BY <1>0, <1>1 DEF Typed, CommandTyped, CommandStates, CommandAgrees
    <2>7. file'[f] = Managed!VersionAt(updates[c].kit, f, file'[f].at) /\ file'[f] # None
      <3>1. file' \in [ManagedNames -> Managed!Texts \cup {None}] /\ Managed!VersionAt(updates[c].kit, f, updates[c].stamp) \in Managed!Texts
        BY <2>5, <2>6, <1>0, <2>4, VersionTyped DEF Typed, Managed!TypeOK
      <3>2. None \notin Managed!Texts
        BY DEF Managed!ManagedAssumption
      <3> QED
        BY <2>5, <2>6, <3>1, <3>2, VersionTyped
    <2>8. UntouchedIn(c, f)' /\ UntouchedBeside(c, f)' /\ Raises(c)'
      BY <1>1, <1>2, <1>4, <1>6, <2>1, <2>2, <2>5, <2>7 DEF Untouched, UntouchedIn, UntouchedBeside, Updates, Accepts
    <2>9. recorded'[f] # None /\ beside'[f] = None
      BY <1>4, <2>3 DEF Untouched
    <2> QED
      BY <1>1, <2>1, <2>7, <2>8, <2>9, UntouchedElsewhere
  <1> QED
    BY <1>5, <1>6

LEMMA UntouchedAtRecord ==
  ASSUME Managed!ManagedAssumption, FilesInv, ~Doubtful, whole',
         NEW f \in ManagedNames, Untouched(f), NEW c \in UpdateRuns, Managed!Record(c)
  PROVE  Untouched(f)'
  <1>0. Writes(c) /\ Typed /\ CommandAgrees(c)
    BY DEF Writes, FilesInv, Typed, CommandsAgree
  <1>1. /\ Others(c) /\ Updates(c) /\ Updates(c)' /\ updates[c].step = "write" /\ updates[c].left = {}
        /\ updates'[c].read = updates[c].read /\ updates'[c].kit = updates[c].kit
        /\ updates'[c].stamp = updates[c].stamp /\ updates'[c].from = updates[c].from
        /\ UNCHANGED <<config, file, beside>>
    BY <1>0, WritesDo DEF Managed!Record
  <1>2. Raises(c)' <=> Raises(c)
    BY <1>1 DEF Raises
  <1>3. f \in DOMAIN updates[c].outcome /\ updates[c].read[f] # None
    BY <1>0, <1>1 DEF Untouched, UntouchedBeside, UntouchedIn, CommandAgrees, Managed!Managed
  <1>4. /\ Managed!Refreshed(c) = {} \/ recorded = updates[c].read
        /\ recorded' = IF Managed!Refreshed(c) = {} THEN recorded ELSE Managed!Written(c)
        /\ updates' = [updates EXCEPT ![c].step = "bump"]
    BY DEF Managed!Record
  <1>5. /\ updates'[c].step = "bump" /\ updates'[c].left = {}
        /\ updates'[c].outcome = updates[c].outcome
    BY <1>0, <1>1, <1>4 DEF Typed, CommandTyped, CommandStates
  <1>6. Raises(c) => recorded'[f] = file[f]
    <2> SUFFICES ASSUME Raises(c) PROVE recorded'[f] = file[f]
      OBVIOUS
    <2>1. UntouchedIn(c, f) /\ f \notin updates[c].left
      BY <1>1 DEF Untouched
    <2>2. CASE updates[c].outcome[f] = "refresh"
      <3>1. f \in Managed!Refreshed(c) /\ file[f] = Managed!VersionAt(updates[c].kit, f, updates[c].stamp)
        BY <1>3, <2>1, <2>2 DEF Managed!Refreshed, UntouchedIn
      <3> QED
        BY <1>4, <3>1 DEF Managed!Written
    <2>3. CASE updates[c].outcome[f] = "current"
      <3>1. f \notin Managed!Refreshed(c) /\ file[f] = recorded[f] /\ updates[c].read[f] = recorded[f]
        BY <1>1, <2>1, <2>3 DEF Managed!Refreshed, UntouchedIn
      <3> QED
        BY <1>4, <3>1 DEF Managed!Written
    <2> QED
      BY <2>1, <2>2, <2>3 DEF UntouchedIn
  <1>7. CASE Raises(c)
    <2>1. recorded'[f] # None /\ Raises(c)'
      BY <1>2, <1>6, <1>7 DEF Untouched
    <2>2. UntouchedIn(c, f)' /\ UntouchedBeside(c, f)'
      BY <1>1, <1>5, <1>6, <1>7, <2>1 DEF Untouched, UntouchedIn, UntouchedBeside, Updates, Accepts
    <2> QED
      BY <1>1, <1>5, <1>6, <1>7, <2>1, <2>2, UntouchedElsewhere DEF Untouched
  <1>8. CASE ~Raises(c)
    <2>1. recorded'[f] = recorded[f]
      <3>1. f \notin Managed!Refreshed(c)
        BY <1>1, <1>8 DEF Untouched, UntouchedBeside, Managed!Refreshed
      <3> QED
        BY <1>4, <3>1 DEF Managed!Written
    <2>2. UntouchedBeside(c, f)' /\ ~Raises(c)'
      BY <1>1, <1>2, <1>5, <1>8 DEF Untouched, UntouchedBeside, Updates, Accepts
    <2>3. file'[f] = file[f] /\ beside'[f] = beside[f] /\ config' = config
      BY <1>1
    <2> QED
      BY <1>1, <1>2, <2>1, <2>2, <2>3, StillUntouched
  <1> QED
    BY <1>7, <1>8

LEMMA UntouchedAtBump ==
  ASSUME Managed!ManagedAssumption, FilesInv, ~Doubtful, whole', whole,
         NEW f \in ManagedNames, Untouched(f), NEW c \in UpdateRuns, Managed!Bump(c)
  PROVE  Untouched(f)'
  <1> DEFINE run   == updates[c]
             bumps == run.kit > run.from /\ ~run.failed
             fails == run.failed \/ (bumps /\ config # run.from)
  <1>0. Typed /\ CommandAgrees(c) /\ run.step = "bump" /\ Updates(c) /\ Ends(c)
    BY DEF FilesInv, Typed, CommandsAgree, Managed!Bump, Updates, Ends
  <1>1. /\ Others(c) /\ updates'[c].step = "idle" /\ UNCHANGED <<file, recorded, beside>>
    BY <1>0, EndsDo DEF Managed!Bump
  <1>2. run.left = {} /\ ~run.failed /\ run.kit \in Int /\ run.from \in Int
    BY <1>0, VersionsAreNumbers DEF CommandAgrees
  <1>3. ~fails /\ config' = (IF bumps THEN run.kit ELSE config)
    BY DEF Managed!Bump
  <1>4. ~Raises(c)' /\ UntouchedBeside(c, f)'
    BY <1>1 DEF Raises, UntouchedBeside, Updates, Accepts
  <1>5. CASE Raises(c)
    <2>1. config' = run.kit
      BY <1>2, <1>3, <1>5 DEF Raises
    <2>2. file[f] = recorded[f] /\ file[f] = Managed!VersionAt(run.kit, f, file[f].at)
      BY <1>0, <1>2, <1>5 DEF Untouched, UntouchedIn
    <2>3. UntouchedBetween(f)'
      BY <1>1, <2>1, <2>2 DEF UntouchedBetween
    <2>4. ASSUME NEW d \in UpdateRuns, d # c PROVE UntouchedBeside(d, f)' /\ ~Raises(d)'
      <3>1. updates'[d] = updates[d] /\ ~Raises(d)
        BY <1>1, <1>5, <2>4 DEF Others, Doubtful
      <3> QED
        BY <3>1 DEF Untouched, UntouchedBeside, Raises, Updates, Accepts
    <2> QED
      BY <1>1, <1>4, <2>3, <2>4 DEF Untouched
  <1>6. CASE ~Raises(c)
    <2>1. config' = config
      BY <1>0, <1>2, <1>3, <1>6 DEF Raises
    <2>2. file'[f] = file[f] /\ recorded'[f] = recorded[f] /\ beside'[f] = beside[f] /\ (Raises(c)' <=> Raises(c))
      BY <1>1, <1>4, <1>6
    <2> QED
      BY <1>1, <1>4, <2>1, <2>2, StillUntouched
  <1> QED
    BY <1>5, <1>6

LEMMA UntouchedAtAccept ==
  ASSUME Managed!ManagedAssumption, FilesInv, whole', NEW f \in ManagedNames, Untouched(f), NEW c \in UpdateRuns,
         Managed!RemoveOffer(c) \/ Managed!RecordAccept(c) \/ \E g \in ManagedNames : Managed!Accept(c, g)
  PROVE  Untouched(f)'
  <1>0. Typed /\ CommandAgrees(c)
    BY DEF FilesInv, Typed, CommandsAgree
  <1>1. CASE Managed!RemoveOffer(c)
    <2>1. Others(c) /\ updates'[c].step = "idle" /\ UNCHANGED <<file, recorded, config>> /\ ~Raises(c)
      BY <1>0, <1>1, EndsDo DEF Ends, Managed!RemoveOffer, Raises, Updates
    <2>2. beside'[f] = beside[f]
      BY <1>1 DEF Managed!RemoveOffer, Untouched
    <2>3. ~Raises(c)' /\ UntouchedBeside(c, f)'
      BY <2>1 DEF Raises, UntouchedBeside, Updates, Accepts
    <2>4. file'[f] = file[f] /\ recorded'[f] = recorded[f] /\ config' = config
      BY <2>1
    <2> QED
      BY <2>1, <2>2, <2>3, <2>4, StillUntouched
  <1>2. CASE Managed!RecordAccept(c)
    <2>1. /\ Others(c) /\ updates[c].step = "accept" /\ UNCHANGED <<file, beside, config>>
          /\ updates'[c].step = "unlink" /\ updates'[c].read = updates[c].read
          /\ updates'[c].outcome = updates[c].outcome /\ updates'[c].left = updates[c].left
          /\ recorded = updates[c].read /\ recorded' = updates[c].outcome
      BY <1>0, <1>2, RecordAcceptDoes
    <2>2. ~Raises(c) /\ ~Raises(c)' /\ UntouchedBeside(c, f)'
      BY <2>1 DEF Untouched, UntouchedBeside, Raises, Updates, Accepts
    <2>3. recorded'[f] = recorded[f]
      BY <2>1 DEF Untouched, UntouchedBeside, Accepts
    <2>4. file'[f] = file[f] /\ beside'[f] = beside[f] /\ config' = config
      BY <2>1
    <2> QED
      BY <2>1, <2>2, <2>3, <2>4, StillUntouched
  <1>3. ASSUME NEW g \in ManagedNames, Managed!Accept(c, g) PROVE Untouched(f)'
    <2>1. /\ Others(c) /\ updates'[c].step = "accept" /\ updates'[c].read = recorded /\ updates'[c].left = {g}
          /\ updates'[c].outcome = [recorded EXCEPT ![g] = IF file[g] = None THEN None ELSE Managed!Baseline(kit, g)]
          /\ UNCHANGED <<file, beside, recorded, config>> /\ updates[c].step = "idle"
      BY <1>0, <1>3, AcceptDoes DEF Managed!Accept
    <2>2. f # g
      BY <1>3 DEF Managed!Accept, Untouched
    <2>3. updates'[c].outcome[f] = updates'[c].read[f]
      BY <1>0, <2>1, <2>2 DEF Typed, Managed!TypeOK
    <2>4. ~Raises(c) /\ ~Raises(c)' /\ UntouchedBeside(c, f)'
      BY <2>1, <2>2, <2>3 DEF UntouchedBeside, Raises, Updates, Accepts
    <2>5. file'[f] = file[f] /\ recorded'[f] = recorded[f] /\ beside'[f] = beside[f] /\ config' = config
      BY <2>1
    <2> QED
      BY <2>1, <2>4, <2>5, StillUntouched
  <1> QED
    BY <1>1, <1>2, <1>3

LEMMA UntouchedByAPerson ==
  ASSUME FilesInv, NEW f \in ManagedNames \ touched', Untouched(f), ByPerson \/ UNCHANGED Managed!vars
  PROVE  Untouched(f)'
  <1>1. UNCHANGED <<beside, recorded, config, updates>>
    BY ByPersonDoes DEF Managed!vars
  <1>2. file'[f] = file[f]
    BY DEF ByPerson, Managed!Upgrade, Managed!Edit, Managed!Take, Managed!Delete, Managed!vars, FilesInv, Typed, Managed!TypeOK
  <1>3. \A c \in UpdateRuns : /\ Raises(c)' <=> Raises(c)
                              /\ UntouchedBeside(c, f)' <=> UntouchedBeside(c, f)
                              /\ UntouchedIn(c, f)' <=> UntouchedIn(c, f)
    BY <1>1, <1>2 DEF Raises, UntouchedBeside, UntouchedIn, Updates, Accepts
  <1> QED
    BY <1>1, <1>2, <1>3 DEF Untouched, UntouchedBetween

LEMMA UntouchedStayRecorded ==
  Managed!ManagedAssumption /\ FilesInv /\ UntouchedAreRecorded /\ [Managed!Next]_(Managed!vars) => UntouchedAreRecorded'
  <1> SUFFICES ASSUME Managed!ManagedAssumption, FilesInv, UntouchedAreRecorded, [Managed!Next]_(Managed!vars), whole', ~Doubtful',
                      NEW f \in ManagedNames \ touched'
               PROVE  Untouched(f)'
    BY DEF UntouchedAreRecorded
  <1>1. whole /\ ~Doubtful
    BY DoubtsEndInFailure
  <1>2. Untouched(f)
    BY <1>1, TouchedGrows DEF UntouchedAreRecorded
  <1>3. ASSUME NEW c \in UpdateRuns, Writes(c) PROVE Untouched(f)'
    BY <1>1, <1>2, <1>3, UntouchedAtWrite, UntouchedAtRecord DEF Writes, Managed!WriteFails
  <1>4. ASSUME NEW c \in UpdateRuns, Ends(c) PROVE Untouched(f)'
    BY <1>1, <1>2, <1>4, UntouchedAtBump, UntouchedAtAccept DEF Ends, Managed!Cut
  <1>5. ASSUME NEW c \in UpdateRuns, Managed!Start(c) \/ Managed!RecordAccept(c) \/ \E g \in ManagedNames : Managed!Accept(c, g) PROVE Untouched(f)'
    BY <1>1, <1>2, <1>5, UntouchedAtStart, UntouchedAtAccept
  <1> QED
    BY <1>2, <1>3, <1>4, <1>5, StepIsOneOf, UntouchedByAPerson

LEMMA InitUntouched == Managed!ManagedAssumption /\ Managed!Init => UntouchedAreRecorded
  <1> SUFFICES ASSUME Managed!ManagedAssumption, Managed!Init, NEW f \in ManagedNames PROVE Untouched(f)
    BY DEF UntouchedAreRecorded
  <1>1. 1 \in Managed!Versions /\ 0 \in Managed!Stamps /\ None \notin Managed!Texts
    BY DEF Managed!ManagedAssumption, Managed!Stamps
  <1>2. Managed!VersionAt(1, f, 0) \in Managed!Texts /\ Managed!VersionAt(1, f, 0) = Managed!VersionAt(1, f, Managed!VersionAt(1, f, 0).at)
    BY <1>1, VersionTyped
  <1>3. \A c \in UpdateRuns : ~Updates(c) /\ ~Accepts(c) /\ ~Raises(c)
    BY DEF Managed!Init, Managed!Idle, Updates, Accepts, Raises
  <1>4. file[f] = Managed!VersionAt(1, f, 0) /\ recorded[f] = Managed!VersionAt(1, f, 0) /\ beside[f] = None /\ config = 1
    BY DEF Managed!Init
  <1>5. file[f] # None
    BY <1>1, <1>2, <1>4
  <1> QED
    BY <1>2, <1>3, <1>4, <1>5 DEF Untouched, UntouchedBetween, UntouchedBeside

(* The manifest says what is there: when every update ended and none was   *)
(* killed or failed, a file no one edited is the one recorded, so the next *)
(* kit replaces it instead of offering the person what they never changed. *)
(* However many ran at once: of two that both raise kit_version, one fails *)
(* (the compare before `kit_version` is written, src/commands/update.mjs). *)
THEOREM ManifestHolds == ASSUME Managed!ManagedAssumption PROVE Managed!Spec => []Managed!ManifestIsTrue
  <1>1. Managed!Init => UntouchedAreRecorded
    BY InitUntouched
  <1>2. FilesInv /\ UntouchedAreRecorded /\ [Managed!Next]_(Managed!vars) => UntouchedAreRecorded'
    BY UntouchedStayRecorded
  <1>3. UntouchedAreRecorded => Managed!ManifestIsTrue
    <2> SUFFICES ASSUME UntouchedAreRecorded, whole, \A c \in UpdateRuns : updates[c].step = "idle",
                        NEW f \in ManagedNames \ touched
                 PROVE  file[f] = recorded[f]
      BY DEF Managed!ManifestIsTrue
    <2>1. \A c \in UpdateRuns : ~Raises(c)
      BY DEF Raises, Updates
    <2> QED
      BY <2>1 DEF UntouchedAreRecorded, Doubtful, Untouched, UntouchedBetween
  <1> QED
    BY <1>1, <1>2, <1>3, FilesInvariant, PTL DEF Managed!Spec

(***************************************************************************)
(* InitLedger: what a command made is in its ledger, and its undo removes  *)
(* no more.                                                                *)
(***************************************************************************)

EntrySet == [kind : {"file", "dir", "tree", "mode"}, path : Places]

LedgerTypes ==
    /\ Ledger!TypeOK
    /\ phase # "idle" => command \in DOMAIN Plans
    /\ step \in Nat \ {0} /\ signal \in BOOLEAN /\ failed \in BOOLEAN
    /\ before \in [loose : BOOLEAN, hooksPath : {None, "ours", "elsewhere"}]

(* What is there is in directories.                                        *)
TreeInv == \A p \in Places : Ledger!There(p) => \A q \in Ledger!Parents(p) : Ledger!There(q) /\ fs[q].dir

(* An entry is of something this command made and nobody else can have.    *)
IsOurs(e) ==
    /\ e.kind = "mode" => e.path = State /\ before.loose
    /\ e.kind = "tree" => e.path = Git /\ fs[Git] = Ledger!Dir("run")
    /\ e.kind \in {"file", "dir"} =>
          /\ e.path # Git /\ Git \notin Ledger!Parents(e.path)
          /\ Ledger!There(e.path) /\ fs[e.path].by = "run" /\ (e.kind = "file" => ~fs[e.path].dir)
EntriesAreOurs ==
    /\ \A i \in DOMAIN ledger : IsOurs(ledger[i])
    /\ \A i, j \in DOMAIN ledger :
          (i # j /\ ledger[i].kind # "mode" /\ ledger[j].kind # "mode") => ledger[i].path # ledger[j].path

(* What the run made is named, or has an entry to undo it by.              *)
InLedger(p) == \E i \in DOMAIN ledger : ledger[i].path = p /\ ledger[i].kind # "mode"
WillGo(p) == p \in left \/ InLedger(p)
OursAreKnown ==
    \A p \in Places : (Ledger!There(p) /\ fs[p].by = "run") =>
        WillGo(p) \/ (\E q \in Ledger!Parents(p) : q \in left) \/ (Git \in Ledger!Parents(p) /\ InLedger(Git))

ModeIsKnown ==
    /\ loose => before.loose
    /\ before.loose /\ ~loose => State \in left \/ \E i \in DOMAIN ledger : ledger[i].kind = "mode"

GitIsKnown ==
    /\ wiredHere => command = "gate" /\ phase # "idle" /\ before.hooksPath = None
    /\ phase \in {"undo", "undone"} \/ ~wiredHere => hooksPath = before.hooksPath
    /\ phase = "write" /\ command = "gate" => before.hooksPath # "elsewhere"
    /\ listed => /\ command = "gate"
                 /\ phase = "done" \/ (phase = "write" /\ ~failed /\ step > Len(Plans[command]))
    /\ signal => command # "gate" /\ phase \notin {"idle", "done"}
    /\ failed => phase \notin {"idle", "done"}

(* What fills .git comes after it was made.                                *)
GitIsMade ==
    phase = "write" =>
        \A j \in 1 .. step - 1 : j \in DOMAIN Plans[command] /\ Plans[command][j].does = "own" => InLedger(Git)

LedgerInv ==
    /\ LedgerTypes /\ TreeInv /\ EntriesAreOurs /\ OursAreKnown /\ ModeIsKnown /\ GitIsKnown /\ GitIsMade
    /\ phase = "undone" => ledger = <<>>

(***************************************************************************)
(* Chains of directories.                                                  *)
(***************************************************************************)

IsChain(chain) ==
    /\ chain \in Seq(Places)
    /\ \A i \in 1 .. Len(chain) : Ledger!Parents(chain[i]) = {chain[j] : j \in 1 .. i - 1}
    /\ \A i, j \in 1 .. Len(chain) : chain[i] = chain[j] => i = j

LEMMA ChainsAre ==
  ASSUME Ledger!LedgerAssumption, NEW p \in Places
  PROVE  /\ IsChain(Chain[p]) /\ Len(Chain[p]) \in Nat \ {0} /\ Chain[p][Len(Chain[p])] = p
         /\ Ledger!Parents(p) \in SUBSET Places /\ p \notin Ledger!Parents(p)
         /\ \A q \in Ledger!Parents(p) : Ledger!Parents(q) \subseteq Ledger!Parents(p)
  <1> DEFINE chain == Chain[p]
  <1>1. chain \in Seq(Places) /\ chain # <<>> /\ Len(chain) \in Nat \ {0} /\ Ledger!Last(chain) = p
    BY DEF Ledger!LedgerAssumption
  <1>2. chain[Len(chain)] = p
    BY <1>1 DEF Ledger!Last
  <1>3. ASSUME NEW i \in 1 .. Len(chain)
        PROVE  /\ chain[i] \in Places /\ Len(Chain[chain[i]]) = i
               /\ \A j \in 1 .. i : Chain[chain[i]][j] = chain[j]
    <2>1. chain[i] \in Places /\ Chain[chain[i]] = SubSeq(chain, 1, i)
      <3>1. i \in DOMAIN Chain[p] /\ Chain[p][i] \in Places
        BY <1>1
      <3> QED
        BY <3>1 DEF Ledger!LedgerAssumption
    <2>2. Len(SubSeq(chain, 1, i)) = i /\ \A j \in 1 .. i : SubSeq(chain, 1, i)[j] = chain[j]
      BY <1>1
    <2> QED
      BY <2>1, <2>2
  <1> HIDE DEF chain
  <1>4. \A i \in 1 .. Len(chain) : Ledger!Parents(chain[i]) = {chain[j] : j \in 1 .. i - 1}
    <2> TAKE i \in 1 .. Len(chain)
    <2>1. \A j \in 1 .. i - 1 : Chain[chain[i]][j] = chain[j]
      BY <1>1, <1>3
    <2> QED
      BY <1>3, <2>1 DEF Ledger!Parents, Ledger!Above
  <1>5. \A i, j \in 1 .. Len(chain) : chain[i] = chain[j] => i = j
    BY <1>3
  <1>6. Ledger!Parents(p) = {chain[j] : j \in 1 .. Len(chain) - 1}
    BY DEF Ledger!Parents, Ledger!Above, chain
  <1>7. Ledger!Parents(p) \in SUBSET Places
    BY <1>1, <1>6
  <1>8. p \notin Ledger!Parents(p)
    BY <1>1, <1>2, <1>5, <1>6
  <1>9. ASSUME NEW q \in Ledger!Parents(p) PROVE Ledger!Parents(q) \subseteq Ledger!Parents(p)
    <2>1. PICK i \in 1 .. Len(chain) - 1 : q = chain[i]
      BY <1>6
    <2>2. i \in 1 .. Len(chain) /\ \A j \in 1 .. i - 1 : j \in 1 .. Len(chain) - 1
      BY <1>1
    <2>3. Ledger!Parents(q) = {chain[j] : j \in 1 .. i - 1}
      BY <1>4, <2>1, <2>2
    <2> QED
      BY <1>6, <2>2, <2>3
  <1>10. IsChain(chain)
    BY <1>1, <1>4, <1>5 DEF IsChain
  <1> QED
    BY <1>1, <1>2, <1>7, <1>8, <1>9, <1>10 DEF chain

LEMMA FrontIsAChain ==
  ASSUME NEW chain, IsChain(chain), Len(chain) \in Nat \ {0}
  PROVE  /\ IsChain(Ledger!Front(chain)) /\ Len(Ledger!Front(chain)) = Len(chain) - 1
         /\ \A i \in 1 .. Len(chain) - 1 : Ledger!Front(chain)[i] = chain[i]
  <1>1. chain \in Seq(Places)
    BY DEF IsChain
  <1>2. /\ Ledger!Front(chain) \in Seq(Places) /\ Len(Ledger!Front(chain)) = Len(chain) - 1
        /\ \A i \in 1 .. Len(chain) - 1 : Ledger!Front(chain)[i] = chain[i]
    <2>1. \A i \in 1 .. Len(chain) - 1 : chain[i] \in Places
      BY <1>1
    <2>2. Len(chain) - 1 \in Nat /\ 1 \in Int
      OBVIOUS
    <2>3. /\ SubSeq(chain, 1, Len(chain) - 1) \in Seq(Places)
          /\ Len(SubSeq(chain, 1, Len(chain) - 1)) = Len(chain) - 1
          /\ \A i \in 1 .. Len(chain) - 1 : SubSeq(chain, 1, Len(chain) - 1)[i] = chain[i]
      <3>1. PICK n \in Nat : n = Len(chain) - 1
        BY <2>2
      <3>2. /\ SubSeq(chain, 1, n) \in Seq(Places)
            /\ Len(SubSeq(chain, 1, n)) = IF 1 <= n THEN n - 1 + 1 ELSE 0
            /\ \A i \in 1 .. n - 1 + 1 : SubSeq(chain, 1, n)[i] = chain[1 + i - 1]
        BY <2>1, <3>1, SubSeqProperties, 1 \in Int, n \in Int, \A i \in 1 .. n : chain[i] \in Places
      <3>3. Len(SubSeq(chain, 1, n)) = n
        BY <3>2
      <3>4. \A i \in 1 .. n : SubSeq(chain, 1, n)[i] = chain[i]
        <4> TAKE i \in 1 .. n
        <4>1. i \in 1 .. n - 1 + 1 /\ 1 + i - 1 = i
          OBVIOUS
        <4> QED
          BY <3>2, <4>1
      <3> QED
        BY <3>1, <3>2, <3>3, <3>4
    <2> QED
      BY <2>3 DEF Ledger!Front
  <1>3. PICK short : short = Ledger!Front(chain)
    OBVIOUS
  <1>4. \A i \in 1 .. Len(short) : i \in 1 .. Len(chain) /\ short[i] = chain[i]
    BY <1>2, <1>3
  <1>5. \A i \in 1 .. Len(short) : Ledger!Parents(short[i]) = {short[j] : j \in 1 .. i - 1}
    <2> TAKE i \in 1 .. Len(short)
    <2>1. \A j \in 1 .. i - 1 : short[j] = chain[j]
      BY <1>2, <1>3
    <2>2. Ledger!Parents(chain[i]) = {chain[j] : j \in 1 .. i - 1}
      BY <1>4 DEF IsChain
    <2> QED
      BY <1>4, <2>1, <2>2
  <1>6. IsChain(short)
    <2>1. \A i, j \in 1 .. Len(short) : short[i] = short[j] => i = j
      <3> TAKE i, j \in 1 .. Len(short)
      <3>1. i \in 1 .. Len(chain) /\ j \in 1 .. Len(chain) /\ short[i] = chain[i] /\ short[j] = chain[j]
        BY <1>4
      <3> QED
        BY <3>1 DEF IsChain
    <2>2. short \in Seq(Places)
      BY <1>2, <1>3
    <2> QED
      BY <1>5, <2>1, <2>2, Zenon DEF IsChain
  <1> QED
    BY <1>2, <1>3, <1>6

LEMMA FoundIs ==
  ASSUME NEW chain \in Seq(Places)
  PROVE  /\ Ledger!Found(chain) \in 0 .. Len(chain)
         /\ \A i \in 1 .. Ledger!Found(chain) : Ledger!There(chain[i])
         /\ Ledger!Found(chain) < Len(chain) => ~Ledger!There(chain[Ledger!Found(chain) + 1])
  <1> DEFINE Fits(n) == (\A i \in 1 .. n : Ledger!There(chain[i])) /\ (n < Len(chain) => ~Ledger!There(chain[n + 1]))
             gone == {i \in 1 .. Len(chain) : ~Ledger!There(chain[i])}
  <1>1. \E n \in 0 .. Len(chain) : Fits(n)
    <2>1. CASE gone = {}
      BY <2>1
    <2>2. CASE gone # {}
      <3>1. gone \in SUBSET Nat
        OBVIOUS
      <3> HIDE DEF gone
      <3>2. PICK m \in gone : \A k \in gone : m <= k
        BY <2>2, <3>1, LeastOne
      <3>3. m \in 1 .. Len(chain) /\ ~Ledger!There(chain[m])
        BY DEF gone
      <3>4. \A i \in 1 .. m - 1 : Ledger!There(chain[i])
        <4> TAKE i \in 1 .. m - 1
        <4>1. i \notin gone
          BY <3>2, <3>3
        <4> QED
          BY <3>3, <4>1 DEF gone
      <3>5. m - 1 \in 0 .. Len(chain) /\ (m - 1) + 1 = m
        BY <3>3
      <3> QED
        BY <3>3, <3>4, <3>5
    <2> QED
      BY <2>1, <2>2
  <1> QED
    BY <1>1, Zenon DEF Ledger!Found

LEMMA MissingIs ==
  ASSUME TreeInv, NEW chain, IsChain(chain)
  PROVE  /\ Ledger!Missing(chain) \in Seq(Places)
         /\ \A i, j \in 1 .. Len(Ledger!Missing(chain)) : Ledger!Missing(chain)[i] = Ledger!Missing(chain)[j] => i = j
         /\ \A q \in Ledger!ToSet(Ledger!Missing(chain)) : ~Ledger!There(q) /\ q \in Places /\ \E i \in 1 .. Len(chain) : q = chain[i]
         /\ \A i \in 1 .. Len(chain) : Ledger!There(chain[i]) \/ chain[i] \in Ledger!ToSet(Ledger!Missing(chain))
  <1>1. chain \in Seq(Places) /\ Len(chain) \in Nat
    BY DEF IsChain
  <1>2. PICK n \in 0 .. Len(chain) : /\ n = Ledger!Found(chain) /\ \A i \in 1 .. n : Ledger!There(chain[i])
                                     /\ n < Len(chain) => ~Ledger!There(chain[n + 1])
    BY <1>1, FoundIs
  <1>3. PICK some : some = Ledger!Missing(chain)
    OBVIOUS
  <1>4. some = [i \in 1 .. Len(chain) - n |-> chain[n + i]]
    BY <1>2, <1>3 DEF Ledger!Missing
  <1>5. \A i \in 1 .. Len(chain) - n : n + i \in 1 .. Len(chain)
    BY <1>1, <1>2
  <1>6. some \in Seq(Places) /\ Len(some) = Len(chain) - n
    <2>1. Len(chain) - n \in Nat /\ some \in [1 .. Len(chain) - n -> Places]
      BY <1>1, <1>2, <1>4, <1>5
    <2> QED
      BY <2>1
  <1>7. \A i \in 1 .. Len(some) : some[i] = chain[n + i] /\ n + i \in 1 .. Len(chain)
    BY <1>4, <1>5, <1>6
  <1>8. \A i \in n + 1 .. Len(chain) : ~Ledger!There(chain[i])
    <2> TAKE i \in n + 1 .. Len(chain)
    <2>1. n + 1 \in 1 .. Len(chain) /\ ~Ledger!There(chain[n + 1]) /\ i \in 1 .. Len(chain)
      BY <1>1, <1>2
    <2>2. CASE i = n + 1
      BY <2>1, <2>2
    <2>3. CASE i # n + 1
      <3>1. n + 1 \in 1 .. i - 1
        BY <1>1, <1>2, <2>3
      <3>2. chain[n + 1] \in Ledger!Parents(chain[i]) /\ chain[i] \in Places
        BY <1>1, <2>1, <3>1 DEF IsChain
      <3> QED
        BY <2>1, <3>2 DEF TreeInv
    <2> QED
      BY <2>2, <2>3
  <1>9. \A q \in Ledger!ToSet(some) : ~Ledger!There(q) /\ q \in Places /\ \E i \in 1 .. Len(chain) : q = chain[i]
    <2> TAKE q \in Ledger!ToSet(some)
    <2>1. PICK i \in 1 .. Len(some) : q = some[i]
      BY <1>6 DEF Ledger!ToSet
    <2>2. n + i \in n + 1 .. Len(chain) /\ q = chain[n + i]
      BY <1>1, <1>2, <1>6, <1>7, <2>1
    <2> QED
      BY <1>1, <1>7, <1>8, <2>1, <2>2
  <1>10. \A i \in 1 .. Len(chain) : Ledger!There(chain[i]) \/ chain[i] \in Ledger!ToSet(some)
    <2> TAKE i \in 1 .. Len(chain)
    <2>1. CASE i <= n
      BY <1>2, <2>1
    <2>2. CASE i > n
      <3>1. i - n \in 1 .. Len(some) /\ n + (i - n) = i
        BY <1>1, <1>2, <1>6, <2>2
      <3>2. some[i - n] = chain[i]
        BY <1>7, <3>1
      <3> QED
        BY <1>6, <3>1, <3>2 DEF Ledger!ToSet
    <2> QED
      BY <1>1, <1>2, <2>1, <2>2
  <1>11. \A i, j \in 1 .. Len(some) : some[i] = some[j] => i = j
    <2> TAKE i, j \in 1 .. Len(some)
    <2> HAVE some[i] = some[j]
    <2>1. n + i = n + j
      BY <1>7 DEF IsChain
    <2> QED
      BY <1>2, <1>6, <2>1
  <1> QED
    BY <1>3, <1>6, <1>9, <1>10, <1>11

LEMMA Joined ==
  ASSUME NEW S, NEW a \in Seq(S), NEW b \in Seq(S)
  PROVE  /\ a \o b \in Seq(S) /\ Len(a \o b) = Len(a) + Len(b)
         /\ \A i \in DOMAIN a : i \in DOMAIN (a \o b) /\ (a \o b)[i] = a[i]
         /\ \A j \in DOMAIN b : Len(a) + j \in DOMAIN (a \o b) /\ (a \o b)[Len(a) + j] = b[j]
         /\ \A i \in DOMAIN (a \o b) : i \in DOMAIN a \/ \E j \in DOMAIN b : i = Len(a) + j
  <1>1. a \o b \in Seq(S) /\ Len(a \o b) = Len(a) + Len(b) /\ Len(a) \in Nat /\ Len(b) \in Nat
    OBVIOUS
  <1>2. DOMAIN a = 1 .. Len(a) /\ DOMAIN b = 1 .. Len(b) /\ DOMAIN (a \o b) = 1 .. Len(a) + Len(b)
    BY <1>1
  <1>3. ASSUME NEW i \in DOMAIN (a \o b), i \notin DOMAIN a PROVE \E j \in DOMAIN b : i = Len(a) + j
    <2>1. i - Len(a) \in DOMAIN b /\ i = Len(a) + (i - Len(a))
      BY <1>1, <1>2, <1>3
    <2> QED
      BY <2>1
  <1>4. \A i \in DOMAIN a : i \in DOMAIN (a \o b) /\ (a \o b)[i] = a[i]
    BY <1>1, <1>2
  <1>5. \A j \in DOMAIN b : Len(a) + j \in DOMAIN (a \o b) /\ (a \o b)[Len(a) + j] = b[j]
    BY <1>1, <1>2
  <1> QED
    BY <1>1, <1>3, <1>4, <1>5

(***************************************************************************)
(* What a step writes, it records.                                         *)
(***************************************************************************)

LEMMA NotNone ==
  ASSUME Ledger!LedgerAssumption
  PROVE  Ledger!Dir("run") # None /\ Ledger!File("run") # None /\ Ledger!Dir("run").dir = TRUE /\ Ledger!File("run").dir = FALSE
         /\ Ledger!Dir("run").by = "run" /\ Ledger!File("run").by = "run"
  <1>1. Ledger!Dir("run") \in [by : {"run", "other", "start"}, dir : BOOLEAN] /\ Ledger!File("run") \in [by : {"run", "other", "start"}, dir : BOOLEAN]
    BY DEF Ledger!Dir, Ledger!File
  <1>2. None \notin [by : {"run", "other", "start"}, dir : BOOLEAN]
    BY DEF Ledger!LedgerAssumption
  <1>3. Ledger!Dir("run").dir = TRUE /\ Ledger!File("run").dir = FALSE /\ Ledger!Dir("run").by = "run" /\ Ledger!File("run").by = "run"
    BY DEF Ledger!Dir, Ledger!File
  <1> QED
    BY <1>1, <1>2, <1>3

LEMMA AddEntries ==
  ASSUME Ledger!LedgerAssumption, LedgerInv, NEW more \in Seq(EntrySet), ledger' = ledger \o more,
         \A j \in DOMAIN more : IsOurs(more[j])' /\ (more[j].kind # "mode" => ~Ledger!There(more[j].path)),
         \A i, j \in DOMAIN more :
             (i # j /\ more[i].kind # "mode" /\ more[j].kind # "mode") => more[i].path # more[j].path,
         \A p \in Places : Ledger!There(p) => fs'[p] = fs[p],
         \A p \in Places : (~Ledger!There(p) /\ Ledger!There(p)' /\ fs'[p].by = "run") =>
             \E j \in DOMAIN more : more[j].path = p /\ more[j].kind # "mode",
         Git \in Places, UNCHANGED <<left, before>>
  PROVE  /\ ledger' \in Seq(EntrySet) /\ EntriesAreOurs' /\ OursAreKnown'
         /\ \A p : InLedger(p) => InLedger(p)'
         /\ (\E i \in DOMAIN ledger : ledger[i].kind = "mode") => \E i \in DOMAIN ledger' : ledger'[i].kind = "mode"
         /\ \A j \in DOMAIN more : \E i \in DOMAIN ledger' : ledger'[i] = more[j]
  <1> USE DEF LedgerInv
  <1>1. ledger \in Seq(EntrySet)
    BY DEF LedgerTypes, Ledger!TypeOK, EntrySet
  <1>0. PICK now : now = ledger'
    OBVIOUS
  <1>2. /\ now \in Seq(EntrySet)
        /\ \A i \in DOMAIN ledger : i \in DOMAIN now /\ now[i] = ledger[i]
        /\ \A j \in DOMAIN more : Len(ledger) + j \in DOMAIN now /\ now[Len(ledger) + j] = more[j]
        /\ \A i \in DOMAIN now : i \in DOMAIN ledger \/ \E j \in DOMAIN more : i = Len(ledger) + j
    BY <1>0, <1>1, Joined
  <1>3. \A i \in DOMAIN ledger : /\ ledger[i] \in EntrySet /\ \A e : e = ledger[i] => IsOurs(e)'
                                 /\ ledger[i].kind # "mode" => Ledger!There(ledger[i].path)
    <2> TAKE i \in DOMAIN ledger
    <2>1. ledger[i] \in EntrySet /\ IsOurs(ledger[i])
      BY <1>1 DEF EntriesAreOurs
    <2>2. PICK e : e = ledger[i]
      OBVIOUS
    <2>3. e.kind # "mode" => Ledger!There(e.path)
      <3>1. CASE e.kind = "tree"
        <4>1. fs[e.path] = Ledger!Dir("run") => Ledger!There(e.path)
          BY NotNone DEF Ledger!There
        <4>2. fs[Git] = Ledger!Dir("run")
          BY <2>1, <2>2, <3>1 DEF IsOurs
        <4>3. e.path = Git
          BY <2>1, <2>2, <3>1 DEF IsOurs
        <4> QED
          BY <4>1, <4>2, <4>3
      <3> QED
        BY <2>1, <2>2, <3>1 DEF IsOurs, EntrySet
    <2>4. e.kind # "mode" => fs'[e.path] = fs[e.path]
      BY <2>1, <2>2, <2>3 DEF EntrySet
    <2>5. IsOurs(e)'
      BY <2>1, <2>2, <2>3, <2>4 DEF IsOurs, Ledger!There, EntrySet
    <2> QED
      BY <2>1, <2>2, <2>3, <2>5
  <1>4. EntriesAreOurs'
    <2>1. ASSUME NEW i \in DOMAIN now PROVE IsOurs(now[i])'
      <3>1. CASE i \in DOMAIN ledger
        <4>1. PICK e : e = ledger[i]
          OBVIOUS
        <4>2. IsOurs(e)' /\ now[i] = e
          BY <1>2, <1>3, <3>1, <4>1
        <4> QED
          BY <4>2
      <3>2. CASE i \notin DOMAIN ledger
        <4>1. PICK k \in DOMAIN more : i = Len(ledger) + k
          BY <1>2, <3>2
        <4>2. now[i] = more[k]
          BY <1>2, <4>1
        <4> QED
          BY <4>2
      <3> QED
        BY <3>1, <3>2
    <2>2. ASSUME NEW i \in DOMAIN now, NEW j \in DOMAIN now, i # j,
                 now[i].kind # "mode", now[j].kind # "mode"
          PROVE  now[i].path # now[j].path
      <3>1. CASE i \in DOMAIN ledger /\ j \in DOMAIN ledger
        BY <1>2, <2>2, <3>1 DEF EntriesAreOurs
      <3>2. CASE i \in DOMAIN ledger /\ j \notin DOMAIN ledger
        <4>1. PICK k \in DOMAIN more : j = Len(ledger) + k
          BY <1>2, <3>2
        <4> QED
          BY <1>2, <1>3, <2>2, <3>2, <4>1
      <3>3. CASE i \notin DOMAIN ledger /\ j \in DOMAIN ledger
        <4>1. PICK k \in DOMAIN more : i = Len(ledger) + k
          BY <1>2, <3>3
        <4> QED
          BY <1>2, <1>3, <2>2, <3>3, <4>1
      <3>4. CASE i \notin DOMAIN ledger /\ j \notin DOMAIN ledger
        <4>1. PICK k \in DOMAIN more : i = Len(ledger) + k
          BY <1>2, <3>4
        <4>2. PICK l \in DOMAIN more : j = Len(ledger) + l
          BY <1>2, <3>4
        <4> QED
          <5>1. k # l /\ now[i] = more[k] /\ now[j] = more[l]
            BY <1>2, <2>2, <4>1, <4>2
          <5> QED
            BY <2>2, <5>1
      <3> QED
        BY <3>1, <3>2, <3>3, <3>4
    <2> QED
      BY <1>0, <2>1, <2>2 DEF EntriesAreOurs
  <1>5. \A p : InLedger(p) => InLedger(p)'
    BY <1>0, <1>2 DEF InLedger
  <1>6. OursAreKnown'
    <2> SUFFICES ASSUME NEW p \in Places, Ledger!There(p)', fs'[p].by = "run"
                 PROVE  WillGo(p)' \/ (\E q \in Ledger!Parents(p) : q \in left) \/ (Git \in Ledger!Parents(p) /\ InLedger(Git)')
      BY DEF OursAreKnown, Ledger!Parents, Ledger!Above
    <2>1. CASE Ledger!There(p)
      <3>1. fs[p].by = "run"
        BY <2>1
      <3>2. WillGo(p) \/ (\E q \in Ledger!Parents(p) : q \in left) \/ (Git \in Ledger!Parents(p) /\ InLedger(Git))
        BY <2>1, <3>1 DEF OursAreKnown
      <3> QED
        BY <1>5, <3>2 DEF WillGo
    <2>2. CASE ~Ledger!There(p)
      <3>1. PICK j \in DOMAIN more : more[j].path = p /\ more[j].kind # "mode"
        BY <2>2
      <3> QED
        <4>1. Len(ledger) + j \in DOMAIN now /\ now[Len(ledger) + j] = more[j]
          BY <1>2
        <4>2. InLedger(p)'
          BY <1>0, <3>1, <4>1 DEF InLedger
        <4> QED
          BY <4>2 DEF WillGo
    <2> QED
      BY <2>1, <2>2
  <1>7. (\E i \in DOMAIN ledger : ledger[i].kind = "mode") => \E i \in DOMAIN now : now[i].kind = "mode"
    BY <1>2
  <1>8. \A j \in DOMAIN more : \E i \in DOMAIN now : now[i] = more[j]
    <2> TAKE j \in DOMAIN more
    <2>1. Len(ledger) + j \in DOMAIN now /\ now[Len(ledger) + j] = more[j]
      BY <1>2
    <2> QED
      BY <2>1
  <1> QED
    BY <1>0, <1>2, <1>4, <1>5, <1>6, <1>7, <1>8

(* The directories mkdir makes down to the last of a chain.                *)
LEMMA DirsAreMade ==
  ASSUME Ledger!LedgerAssumption, LedgerInv, NEW chain, IsChain(chain), Git \notin {chain[i] : i \in 1 .. Len(chain)},
         \A i \in 1 .. Len(chain) : Git \notin Ledger!Parents(chain[i]),
         \A i \in 1 .. Len(chain) : Ledger!There(chain[i]) => fs[chain[i]].dir
  PROVE  LET new == Ledger!ToSet(Ledger!Missing(chain)) IN
         /\ Ledger!Made(chain) \in Seq(EntrySet)
         /\ \A j \in DOMAIN Ledger!Made(chain) : Ledger!Made(chain)[j].kind = "dir" /\ Ledger!Made(chain)[j].path \in new
         /\ \A i, j \in DOMAIN Ledger!Made(chain) : i # j => Ledger!Made(chain)[i].path # Ledger!Made(chain)[j].path
         /\ \A q \in new : \E j \in DOMAIN Ledger!Made(chain) : Ledger!Made(chain)[j].path = q /\ Ledger!Made(chain)[j].kind = "dir"
         /\ new \in SUBSET Places /\ \A q \in new : ~Ledger!There(q) /\ q # Git /\ Git \notin Ledger!Parents(q)
         /\ \A q \in new : \E i \in 1 .. Len(chain) : q = chain[i]
         /\ Ledger!WithDirs(chain) = [q \in Places |-> IF q \in new THEN Ledger!Dir("run") ELSE fs[q]]
         /\ \A i \in 1 .. Len(chain) : Ledger!There(chain[i]) \/ chain[i] \in new
         /\ \A q \in Places : Ledger!WithDirs(chain)[q] # None =>
                \A r \in Ledger!Parents(q) : Ledger!WithDirs(chain)[r] # None /\ Ledger!WithDirs(chain)[r].dir
  <1>1. PICK some : some = Ledger!Missing(chain)
    OBVIOUS
  <1>2. PICK new : new = Ledger!ToSet(some)
    OBVIOUS
  <1>3. /\ some \in Seq(Places)
        /\ \A i, j \in 1 .. Len(some) : some[i] = some[j] => i = j
        /\ \A q \in new : ~Ledger!There(q) /\ q \in Places /\ \E i \in 1 .. Len(chain) : q = chain[i]
        /\ \A i \in 1 .. Len(chain) : Ledger!There(chain[i]) \/ chain[i] \in new
    BY <1>1, <1>2, MissingIs DEF LedgerInv
  <1>4. PICK made : made = Ledger!Made(chain)
    OBVIOUS
  <1>5. made = [i \in 1 .. Len(some) |-> [kind |-> "dir", path |-> some[i]]]
    BY <1>1, <1>4 DEF Ledger!Made
  <1>6. made \in Seq(EntrySet) /\ DOMAIN made = 1 .. Len(some)
    <2>1. \A i \in 1 .. Len(some) : [kind |-> "dir", path |-> some[i]] \in EntrySet
      BY <1>3 DEF EntrySet
    <2>2. made \in [1 .. Len(some) -> EntrySet] /\ Len(some) \in Nat
      BY <1>3, <1>5, <2>1
    <2> QED
      BY <2>2
  <1>7. \A j \in DOMAIN made : made[j].kind = "dir" /\ made[j].path = some[j] /\ made[j].path \in new
    BY <1>2, <1>3, <1>5, <1>6 DEF Ledger!ToSet
  <1>8. \A i, j \in DOMAIN made : i # j => made[i].path # made[j].path
    BY <1>3, <1>6, <1>7
  <1>9. \A q \in new : \E j \in DOMAIN made : made[j].path = q /\ made[j].kind = "dir"
    <2> TAKE q \in new
    <2>1. PICK i \in DOMAIN some : q = some[i]
      BY <1>2 DEF Ledger!ToSet
    <2>2. i \in DOMAIN made
      BY <1>3, <1>6, <2>1
    <2> QED
      BY <1>7, <2>1, <2>2
  <1>10. Ledger!WithDirs(chain) = [q \in Places |-> IF q \in new THEN Ledger!Dir("run") ELSE fs[q]]
    BY <1>1, <1>2 DEF Ledger!WithDirs
  <1>11. \A q \in new : ~Ledger!There(q) /\ q # Git /\ Git \notin Ledger!Parents(q)
    BY <1>3
  <1>12. PICK then : then = Ledger!WithDirs(chain)
    OBVIOUS
  <1>13. Ledger!Dir("run").dir = TRUE /\ Ledger!Dir("run") # None
    BY NotNone
  <1>14. ASSUME NEW q \in Places, then[q] # None, NEW r \in Ledger!Parents(q) PROVE then[r] # None /\ then[r].dir
    <2>1. r \in Places
      BY <1>14, ChainsAre
    <2>2. CASE q \in new
      <3>1. PICK i \in 1 .. Len(chain) : q = chain[i]
        BY <1>3, <2>2
      <3>2. PICK j \in 1 .. i - 1 : r = chain[j]
        BY <1>14, <3>1 DEF IsChain
      <3>3. j \in 1 .. Len(chain)
        BY <1>3, <3>1, <3>2 DEF IsChain
      <3>4. CASE r \in new
        BY <1>10, <1>12, <1>13, <2>1, <3>4
      <3>5. CASE r \notin new
        BY <1>3, <1>10, <1>12, <2>1, <3>2, <3>3, <3>5 DEF Ledger!There
      <3> QED
        BY <3>4, <3>5
    <2>3. CASE q \notin new
      <3>1. Ledger!There(q)
        BY <1>10, <1>12, <1>14, <2>3 DEF Ledger!There
      <3>2. Ledger!There(r) /\ fs[r].dir
        BY <1>14, <3>1 DEF LedgerInv, TreeInv
      <3>3. r \notin new
        BY <1>11, <3>2
      <3> QED
        BY <1>10, <1>12, <2>1, <3>2, <3>3 DEF Ledger!There
    <2> QED
      BY <2>2, <2>3
  <1>15. made = Ledger!Made(chain) /\ new = Ledger!ToSet(Ledger!Missing(chain)) /\ then = Ledger!WithDirs(chain)
    BY <1>1, <1>2, <1>4, <1>12
  <1>16. new \in SUBSET Places
    BY <1>3
  <1>17. then = [q \in Places |-> IF q \in new THEN Ledger!Dir("run") ELSE fs[q]]
    BY <1>10, <1>12
  <1>18. /\ Ledger!Made(chain) \in Seq(EntrySet)
         /\ \A j \in DOMAIN Ledger!Made(chain) : Ledger!Made(chain)[j].kind = "dir" /\ Ledger!Made(chain)[j].path \in new
         /\ \A i, j \in DOMAIN Ledger!Made(chain) : i # j => Ledger!Made(chain)[i].path # Ledger!Made(chain)[j].path
         /\ \A q \in new : \E j \in DOMAIN Ledger!Made(chain) : Ledger!Made(chain)[j].path = q /\ Ledger!Made(chain)[j].kind = "dir"
    BY <1>6, <1>7, <1>8, <1>9, <1>15
  <1>19. /\ Ledger!WithDirs(chain) = [q \in Places |-> IF q \in new THEN Ledger!Dir("run") ELSE fs[q]]
         /\ \A q \in Places : Ledger!WithDirs(chain)[q] # None =>
                \A r \in Ledger!Parents(q) : Ledger!WithDirs(chain)[r] # None /\ Ledger!WithDirs(chain)[r].dir
    BY <1>14, <1>15, <1>17
  <1>20. new = Ledger!ToSet(Ledger!Missing(chain))
    BY <1>15
  <1> QED
    BY <1>3, <1>11, <1>16, <1>18, <1>19, <1>20

LEMMA PlannedStep ==
  ASSUME Ledger!LedgerAssumption, LedgerInv, NEW does, NEW p, Ledger!At(does, p)
  PROVE  /\ p \in Places /\ step \in DOMAIN Plans[command] /\ step <= Len(Plans[command]) /\ command \in DOMAIN Plans
         /\ phase = "write" /\ ~failed /\ ~listed
         /\ does = "private" => p = State
         /\ does \in {"private", "new"} => Git \notin Ledger!Parents(p) \cup {p}
         /\ does = "own" => p = Git
         /\ does = "fill" => Git \in Ledger!Parents(p) /\ Ledger!Parents(p) \subseteq Ledger!Parents(Git) \cup {Git} /\ InLedger(Git)
         /\ does \in {"wire", "record"} => command = "gate"
         /\ does = "record" => step = Len(Plans[command])
         /\ Plans[command][step].does = does
  <1>1. phase = "write" /\ ~failed /\ command \in DOMAIN Plans /\ step \in Nat \ {0}
    BY DEF Ledger!At, LedgerInv, LedgerTypes
  <1>2. Plans[command] \in Seq([does : Ledger!Does, path : Places]) /\ Ledger!PlanIsTheKits(command)
    BY <1>1 DEF Ledger!LedgerAssumption
  <1>3. step <= Len(Plans[command]) /\ step \in DOMAIN Plans[command]
    BY <1>1, <1>2 DEF Ledger!At
  <1>4. Plans[command][step] \in [does : Ledger!Does, path : Places] /\ Plans[command][step] = [does |-> does, path |-> p]
    BY <1>2, <1>3 DEF Ledger!At
  <1>5. PICK now : now = Plans[command][step]
    OBVIOUS
  <1>6. now.does = does /\ now.path = p /\ p \in Places
    BY <1>4, <1>5
  <1>7. /\ now.does = "private" => now.path = State
        /\ now.does \in {"private", "new"} => Git \notin Ledger!Above(now.path) \cup {now.path}
        /\ now.does = "own" => now.path = Git
        /\ now.does = "fill" => /\ Git \in Ledger!Above(now.path) /\ Ledger!Above(now.path) \subseteq Ledger!Above(Git) \cup {Git}
                                /\ \E j \in 1 .. step - 1 : Plans[command][j].does = "own"
        /\ now.does \in {"wire", "record"} => command = "gate"
        /\ now.does = "record" => step = Len(Plans[command])
    BY <1>2, <1>3, <1>5 DEF Ledger!PlanIsTheKits
  <1>8. ASSUME does = "fill" PROVE InLedger(Git)
    <2>1. PICK j \in 1 .. step - 1 : Plans[command][j].does = "own"
      BY <1>6, <1>7, <1>8
    <2>2. j \in DOMAIN Plans[command]
      BY <1>1, <1>2, <1>3
    <2> QED
      BY <1>1, <2>1, <2>2 DEF LedgerInv, GitIsMade
  <1>9. ~listed
    BY <1>1, <1>2, <1>3 DEF LedgerInv, GitIsKnown
  <1> QED
    BY <1>1, <1>3, <1>5, <1>6, <1>7, <1>8, <1>9 DEF Ledger!Parents

LEMMA NextStep ==
  ASSUME Ledger!LedgerAssumption, LedgerInv, NEW does, NEW p, Ledger!At(does, p), step' = step + 1,
         UNCHANGED <<phase, failed, wiredHere, left, command, signal, before, hooksPath, listed>>,
         \A q : InLedger(q) => InLedger(q)', does = "own" => InLedger(Git)'
  PROVE  GitIsKnown' /\ GitIsMade' /\ step' \in Nat \ {0}
  <1>1. ~listed /\ phase = "write" /\ step \in Nat \ {0} /\ Plans[command][step].does = does
    BY PlannedStep DEF LedgerInv, LedgerTypes
  <1>2. GitIsKnown'
    BY <1>1 DEF LedgerInv, GitIsKnown
  <1>3. GitIsMade'
    <2> SUFFICES ASSUME NEW j \in 1 .. step' - 1, j \in DOMAIN Plans[command], Plans[command][j].does = "own"
                 PROVE  InLedger(Git)'
      BY DEF GitIsMade
    <2>1. CASE j = step
      BY <1>1, <2>1
    <2>2. CASE j # step
      <3>1. j \in 1 .. step - 1
        BY <1>1, <2>2
      <3> QED
        BY <1>1, <3>1 DEF LedgerInv, GitIsMade
    <2> QED
      BY <2>1, <2>2
  <1> QED
    BY <1>1, <1>2, <1>3

LEMMA PrivateKeeps ==
  ASSUME Ledger!LedgerAssumption, LedgerInv, NEW p \in Places, Ledger!Private(p)
  PROVE  LedgerInv'
  <1> DEFINE chain == Chain[p]
             new == Ledger!ToSet(Ledger!Missing(chain))
             mode == IF loose THEN <<[kind |-> "mode", path |-> p]>> ELSE <<>>
  <1>1. Ledger!At("private", p) /\ fs' = Ledger!WithDirs(chain) /\ loose' = FALSE /\ ledger' = (ledger \o Ledger!Made(chain)) \o mode
        /\ Ledger!Reached(p) /\ (Ledger!There(p) => fs[p].dir) /\ step' = step + 1
        /\ UNCHANGED <<phase, failed, wiredHere, left, command, signal, before, hooksPath, listed>>
    BY DEF Ledger!Private, Ledger!Wrote, Ledger!kept
  <1>2. p = State /\ Git \notin Ledger!Parents(p) /\ p # Git /\ phase = "write"
    BY <1>1, PlannedStep
  <1>3. IsChain(chain) /\ Len(chain) \in Nat \ {0} /\ chain[Len(chain)] = p
    BY ChainsAre
  <1>4. \A i \in 1 .. Len(chain) : chain[i] \in Ledger!Parents(p) \cup {p} /\ chain[i] # Git /\ Git \notin Ledger!Parents(chain[i])
    <2> TAKE i \in 1 .. Len(chain)
    <2>1. chain[i] \in Ledger!Parents(p) \cup {p}
      <3>1. CASE i = Len(chain)
        BY <1>3, <3>1
      <3>2. CASE i # Len(chain)
        <4>1. i \in 1 .. Len(Chain[p]) - 1
          BY <1>3, <3>2
        <4> QED
          BY <4>1 DEF Ledger!Parents, Ledger!Above
      <3> QED
        BY <3>1, <3>2
    <2> HIDE DEF chain
    <2> QED
      BY <1>2, <2>1, ChainsAre
  <1>5. \A i \in 1 .. Len(chain) : Ledger!There(chain[i]) => fs[chain[i]].dir
    <2> HIDE DEF chain
    <2> QED
      BY <1>1, <1>4 DEF Ledger!Reached
  <1> HIDE DEF chain
  <1>6. /\ Ledger!Made(chain) \in Seq(EntrySet)
        /\ \A j \in DOMAIN Ledger!Made(chain) : Ledger!Made(chain)[j].kind = "dir" /\ Ledger!Made(chain)[j].path \in new
        /\ \A i, j \in DOMAIN Ledger!Made(chain) : i # j => Ledger!Made(chain)[i].path # Ledger!Made(chain)[j].path
        /\ \A q \in new : \E j \in DOMAIN Ledger!Made(chain) : Ledger!Made(chain)[j].path = q /\ Ledger!Made(chain)[j].kind = "dir"
        /\ new \in SUBSET Places /\ \A q \in new : ~Ledger!There(q) /\ q # Git /\ Git \notin Ledger!Parents(q)
        /\ fs' = [q \in Places |-> IF q \in new THEN Ledger!Dir("run") ELSE fs[q]]
        /\ \A q \in Places : fs'[q] # None => \A r \in Ledger!Parents(q) : fs'[r] # None /\ fs'[r].dir
    <2>1. Git \notin {chain[i] : i \in 1 .. Len(chain)}
      BY <1>4
    <2> QED
      BY <1>1, <1>3, <1>4, <1>5, <2>1, DirsAreMade
  <1> HIDE DEF new
  <1>7. PICK made : made = Ledger!Made(chain)
    OBVIOUS
  <1>8. mode \in Seq(EntrySet) /\ \A j \in DOMAIN mode : mode[j] = [kind |-> "mode", path |-> p] /\ loose
    <2>1. [kind |-> "mode", path |-> p] \in EntrySet
      BY DEF EntrySet
    <2>2. CASE loose
      BY <2>1, <2>2
    <2>3. CASE ~loose
      BY <2>3
    <2> QED
      BY <2>2, <2>3
  <1>9. ASSUME loose PROVE \E j \in DOMAIN mode : mode[j].kind = "mode"
    <2>1. 1 \in DOMAIN mode /\ mode[1].kind = "mode"
      BY <1>9
    <2> QED
      BY <2>1
  <1> HIDE DEF mode
  <1>10. PICK more : more = made \o mode
    OBVIOUS
  <1>11. /\ more \in Seq(EntrySet)
         /\ \A i \in DOMAIN made : i \in DOMAIN more /\ more[i] = made[i]
         /\ \A j \in DOMAIN mode : Len(made) + j \in DOMAIN more /\ more[Len(made) + j] = mode[j]
         /\ \A i \in DOMAIN more : i \in DOMAIN made \/ \E j \in DOMAIN mode : i = Len(made) + j
    BY <1>6, <1>7, <1>8, <1>10, Joined
  <1>12. ledger' = ledger \o more
    <2>1. ledger \in Seq(EntrySet)
      BY DEF LedgerInv, LedgerTypes, Ledger!TypeOK, EntrySet
    <2>2. made \in Seq(EntrySet)
      BY <1>6, <1>7
    <2>3. ledger' = (ledger \o made) \o mode
      BY <1>1, <1>7
    <2>4. (ledger \o made) \o mode = ledger \o (made \o mode)
      BY <1>8, <2>1, <2>2, ConcatAssociative
    <2> QED
      BY <1>10, <2>3, <2>4
  <1>13. \A j \in DOMAIN more : IsOurs(more[j])' /\ (more[j].kind # "mode" => ~Ledger!There(more[j].path))
    <2> TAKE j \in DOMAIN more
    <2>1. CASE j \in DOMAIN made
      <3>1. more[j].kind = "dir" /\ more[j].path \in new
        BY <1>6, <1>7, <1>11, <2>1
      <3>2. fs'[more[j].path] = Ledger!Dir("run") /\ more[j].path # Git /\ Git \notin Ledger!Parents(more[j].path)
        BY <1>6, <3>1
      <3> QED
        BY <1>6, <3>1, <3>2, NotNone DEF IsOurs, Ledger!There
    <2>2. CASE j \notin DOMAIN made
      <3>1. more[j] = [kind |-> "mode", path |-> p] /\ loose
        BY <1>8, <1>11, <2>2
      <3> QED
        BY <1>1, <1>2, <3>1 DEF IsOurs, LedgerInv, ModeIsKnown
    <2> QED
      BY <2>1, <2>2
  <1>14. \A i, j \in DOMAIN more :
            (i # j /\ more[i].kind # "mode" /\ more[j].kind # "mode") => more[i].path # more[j].path
    <2>1. \A i \in DOMAIN more : more[i].kind # "mode" => i \in DOMAIN made
      BY <1>8, <1>11
    <2> QED
      BY <1>6, <1>7, <1>11, <2>1
  <1>15. \A q \in Places : /\ Ledger!There(q) => fs'[q] = fs[q]
                           /\ (~Ledger!There(q) /\ Ledger!There(q)' /\ fs'[q].by = "run") =>
                                 \E j \in DOMAIN more : more[j].path = q /\ more[j].kind # "mode"
    <2> TAKE q \in Places
    <2>1. CASE q \in new
      <3>1. PICK j \in DOMAIN made : made[j].path = q /\ made[j].kind = "dir"
        BY <1>6, <1>7, <2>1
      <3> QED
        BY <1>6, <1>11, <2>1, <3>1
    <2>2. CASE q \notin new
      BY <1>6, <2>2 DEF Ledger!There
    <2> QED
      BY <2>1, <2>2
  <1>16. /\ ledger' \in Seq(EntrySet) /\ EntriesAreOurs' /\ OursAreKnown' /\ \A q : InLedger(q) => InLedger(q)'
         /\ (\E i \in DOMAIN ledger : ledger[i].kind = "mode") => \E i \in DOMAIN ledger' : ledger'[i].kind = "mode"
         /\ \A j \in DOMAIN more : \E i \in DOMAIN ledger' : ledger'[i] = more[j]
    <2>1. Git \in Places /\ UNCHANGED <<left, before>>
      BY <1>1 DEF Ledger!LedgerAssumption
    <2> QED
      BY <1>11, <1>12, <1>13, <1>14, <1>15, <2>1, AddEntries
  <1>17. GitIsKnown' /\ GitIsMade' /\ step' \in Nat \ {0}
    BY <1>1, <1>16, NextStep
  <1>18. ModeIsKnown'
    <2>1. loose => \E i \in DOMAIN ledger' : ledger'[i].kind = "mode"
      BY <1>9, <1>11, <1>16
    <2> QED
      BY <1>1, <1>16, <2>1 DEF LedgerInv, ModeIsKnown
  <1>19. LedgerTypes'
    <2>1. fs' \in [Places -> {None} \cup [by : {"run", "other", "start"}, dir : BOOLEAN]]
      BY <1>6 DEF LedgerInv, LedgerTypes, Ledger!TypeOK, Ledger!Dir
    <2> QED
      BY <1>1, <1>16, <1>17, <2>1 DEF LedgerInv, LedgerTypes, Ledger!TypeOK, EntrySet
  <1>20. TreeInv'
    BY <1>6 DEF TreeInv, Ledger!There, Ledger!Parents, Ledger!Above
  <1> QED
    BY <1>1, <1>2, <1>16, <1>17, <1>18, <1>19, <1>20 DEF LedgerInv

(* A file is opened exclusively, in directories made down to it.           *)
LEMMA FileIsMade ==
  ASSUME Ledger!LedgerAssumption, LedgerInv, NEW p \in Places, Ledger!At("new", p), Ledger!Reached(p), ~Ledger!There(p),
         fs' = [Ledger!WithDirs(Ledger!Front(Chain[p])) EXCEPT ![p] = Ledger!File("run")],
         ledger' = ledger \o Ledger!Made(Ledger!Front(Chain[p])) \o <<[kind |-> "file", path |-> p]>>,
         UNCHANGED <<loose, left, before>>
  PROVE  /\ fs' \in [Places -> {None} \cup [by : {"run", "other", "start"}, dir : BOOLEAN]]
         /\ ledger' \in Seq(EntrySet) /\ \A q : InLedger(q) => InLedger(q)'
         /\ TreeInv' /\ EntriesAreOurs' /\ OursAreKnown' /\ ModeIsKnown'
  <1>1. PICK chain : chain = Ledger!Front(Chain[p])
    OBVIOUS
  <1>2. PICK new : new = Ledger!ToSet(Ledger!Missing(chain))
    OBVIOUS
  <1>3. PICK made : made = Ledger!Made(chain)
    OBVIOUS
  <1>4. PICK end : end = <<[kind |-> "file", path |-> p]>>
    OBVIOUS
  <1>5. Git \notin Ledger!Parents(p) /\ p # Git
    BY PlannedStep
  <1>6. /\ IsChain(chain) /\ {chain[i] : i \in 1 .. Len(chain)} = Ledger!Parents(p)
        /\ p \notin Ledger!Parents(p) /\ Ledger!Parents(p) \in SUBSET Places
        /\ \A q \in Ledger!Parents(p) : Ledger!Parents(q) \subseteq Ledger!Parents(p)
    <2>1. /\ IsChain(Chain[p]) /\ Len(Chain[p]) \in Nat \ {0} /\ p \notin Ledger!Parents(p) /\ Ledger!Parents(p) \in SUBSET Places
          /\ \A q \in Ledger!Parents(p) : Ledger!Parents(q) \subseteq Ledger!Parents(p)
      BY ChainsAre
    <2>2. IsChain(chain) /\ Len(chain) = Len(Chain[p]) - 1 /\ \A i \in 1 .. Len(Chain[p]) - 1 : chain[i] = Chain[p][i]
      BY <1>1, <2>1, FrontIsAChain
    <2> QED
      BY <2>1, <2>2 DEF Ledger!Parents, Ledger!Above
  <1>7. \A i \in 1 .. Len(chain) : /\ chain[i] \in Ledger!Parents(p) /\ Git \notin Ledger!Parents(chain[i])
                                   /\ Ledger!There(chain[i]) => fs[chain[i]].dir
    BY <1>5, <1>6 DEF Ledger!Reached
  <1>8. PICK then : then = Ledger!WithDirs(chain)
    OBVIOUS
  <1>9. /\ made \in Seq(EntrySet)
        /\ \A j \in DOMAIN made : made[j].kind = "dir" /\ made[j].path \in new
        /\ \A i, j \in DOMAIN made : i # j => made[i].path # made[j].path
        /\ \A q \in new : \E j \in DOMAIN made : made[j].path = q /\ made[j].kind = "dir"
        /\ new \in SUBSET Places /\ \A q \in new : ~Ledger!There(q) /\ q # Git /\ Git \notin Ledger!Parents(q)
        /\ new \subseteq Ledger!Parents(p)
        /\ then = [q \in Places |-> IF q \in new THEN Ledger!Dir("run") ELSE fs[q]]
        /\ \A q \in Ledger!Parents(p) : Ledger!There(q) \/ q \in new
        /\ \A q \in Places : then[q] # None => \A r \in Ledger!Parents(q) : then[r] # None /\ then[r].dir
    <2>1. /\ Ledger!Made(chain) \in Seq(EntrySet)
          /\ \A j \in DOMAIN Ledger!Made(chain) : Ledger!Made(chain)[j].kind = "dir" /\ Ledger!Made(chain)[j].path \in Ledger!ToSet(Ledger!Missing(chain))
          /\ \A i, j \in DOMAIN Ledger!Made(chain) : i # j => Ledger!Made(chain)[i].path # Ledger!Made(chain)[j].path
          /\ \A q \in Ledger!ToSet(Ledger!Missing(chain)) : \E j \in DOMAIN Ledger!Made(chain) : Ledger!Made(chain)[j].path = q /\ Ledger!Made(chain)[j].kind = "dir"
          /\ Ledger!ToSet(Ledger!Missing(chain)) \in SUBSET Places
          /\ \A q \in Ledger!ToSet(Ledger!Missing(chain)) : ~Ledger!There(q) /\ q # Git /\ Git \notin Ledger!Parents(q)
          /\ \A q \in Ledger!ToSet(Ledger!Missing(chain)) : \E i \in 1 .. Len(chain) : q = chain[i]
          /\ Ledger!WithDirs(chain) = [q \in Places |-> IF q \in Ledger!ToSet(Ledger!Missing(chain)) THEN Ledger!Dir("run") ELSE fs[q]]
          /\ \A i \in 1 .. Len(chain) : Ledger!There(chain[i]) \/ chain[i] \in Ledger!ToSet(Ledger!Missing(chain))
          /\ \A q \in Places : Ledger!WithDirs(chain)[q] # None =>
                \A r \in Ledger!Parents(q) : Ledger!WithDirs(chain)[r] # None /\ Ledger!WithDirs(chain)[r].dir
      BY <1>5, <1>6, <1>7, DirsAreMade
    <2>2. \A q \in Ledger!Parents(p) : Ledger!There(q) \/ q \in Ledger!ToSet(Ledger!Missing(chain))
      BY <1>6, <2>1
    <2>3. Ledger!ToSet(Ledger!Missing(chain)) \subseteq Ledger!Parents(p)
      BY <1>7, <2>1
    <2> QED
      BY <1>2, <1>3, <1>8, <2>1, <2>2, <2>3
  <1>10. end \in Seq(EntrySet) /\ DOMAIN end = {1} /\ end[1] = [kind |-> "file", path |-> p]
    <2>1. [kind |-> "file", path |-> p] \in EntrySet
      BY DEF EntrySet
    <2> QED
      BY <1>4, <2>1
  <1>11. PICK more : more = made \o end
    OBVIOUS
  <1>12. /\ more \in Seq(EntrySet)
         /\ \A i \in DOMAIN made : i \in DOMAIN more /\ more[i] = made[i]
         /\ \A j \in DOMAIN end : Len(made) + j \in DOMAIN more /\ more[Len(made) + j] = end[j]
         /\ \A i \in DOMAIN more : i \in DOMAIN made \/ \E j \in DOMAIN end : i = Len(made) + j
    BY <1>9, <1>10, <1>11, Joined
  <1>13. \A i \in DOMAIN more : i \in DOMAIN made \/ (i = Len(made) + 1 /\ more[i] = [kind |-> "file", path |-> p])
    BY <1>10, <1>12
  <1>14. Len(made) + 1 \in DOMAIN more /\ more[Len(made) + 1] = [kind |-> "file", path |-> p]
    BY <1>10, <1>12
  <1>15. ledger' = ledger \o more
    <2>1. ledger \in Seq(EntrySet)
      BY DEF LedgerInv, LedgerTypes, Ledger!TypeOK, EntrySet
    <2>2. made \in Seq(EntrySet)
      BY <1>9
    <2>3. ledger' = (ledger \o made) \o end
      BY <1>1, <1>3, <1>4, <1>9
    <2>4. (ledger \o made) \o end = ledger \o (made \o end)
      BY <1>10, <2>1, <2>2, ConcatAssociative
    <2> QED
      BY <1>11, <2>3, <2>4
  <1>16. fs' = [q \in Places |-> IF q = p THEN Ledger!File("run") ELSE IF q \in new THEN Ledger!Dir("run") ELSE fs[q]]
    BY <1>1, <1>8, <1>9
  <1>17. p \notin new /\ fs[p] = None
    BY <1>6, <1>9 DEF Ledger!There
  <1>18. \A j \in DOMAIN more : IsOurs(more[j])' /\ (more[j].kind # "mode" => ~Ledger!There(more[j].path))
    <2> TAKE j \in DOMAIN more
    <2>1. CASE j \in DOMAIN made
      <3>1. more[j].kind = "dir" /\ more[j].path \in new
        BY <1>9, <1>12, <2>1
      <3>2. fs'[more[j].path] = Ledger!Dir("run") /\ more[j].path # Git /\ Git \notin Ledger!Parents(more[j].path)
        BY <1>9, <1>16, <1>17, <3>1
      <3> QED
        BY <1>9, <3>1, <3>2, NotNone DEF IsOurs, Ledger!There
    <2>2. CASE j \notin DOMAIN made
      <3>1. more[j] = [kind |-> "file", path |-> p]
        BY <1>13, <2>2
      <3>2. fs'[p] = Ledger!File("run") /\ fs'[p] # None /\ fs'[p].by = "run" /\ fs'[p].dir = FALSE
        BY <1>16, NotNone
      <3>3. PICK e : e = more[j]
        OBVIOUS
      <3>4. e.kind = "file" /\ e.path = p
        BY <3>1, <3>3
      <3>5. IsOurs(e)'
        BY <1>5, <3>2, <3>4 DEF IsOurs, Ledger!There
      <3> QED
        BY <3>3, <3>4, <3>5
    <2> QED
      BY <2>1, <2>2
  <1>19. \A i, j \in DOMAIN more :
            (i # j /\ more[i].kind # "mode" /\ more[j].kind # "mode") => more[i].path # more[j].path
    <2> SUFFICES ASSUME NEW i \in DOMAIN more, NEW j \in DOMAIN more, i # j PROVE more[i].path # more[j].path
      OBVIOUS
    <2>1. \A k \in DOMAIN more : k \in DOMAIN made => more[k].path \in new
      BY <1>9, <1>12
    <2>2. \A k \in DOMAIN more : k \notin DOMAIN made => k = Len(made) + 1 /\ more[k].path = p
      BY <1>13
    <2>3. CASE i \in DOMAIN made /\ j \in DOMAIN made
      BY <1>9, <1>12, <2>3
    <2>4. CASE i \notin DOMAIN made \/ j \notin DOMAIN made
      BY <1>17, <2>1, <2>2, <2>4
    <2> QED
      BY <2>3, <2>4
  <1>20. \A q \in Places : /\ Ledger!There(q) => fs'[q] = fs[q]
                           /\ (~Ledger!There(q) /\ Ledger!There(q)' /\ fs'[q].by = "run") =>
                                 \E j \in DOMAIN more : more[j].path = q /\ more[j].kind # "mode"
    <2> TAKE q \in Places
    <2>1. CASE q = p
      <3>1. more[Len(made) + 1].path = p /\ more[Len(made) + 1].kind = "file"
        BY <1>14
      <3> QED
        BY <1>14, <2>1, <3>1
    <2>2. CASE q \in new
      <3>1. PICK j \in DOMAIN made : made[j].path = q /\ made[j].kind = "dir"
        BY <1>9, <2>2
      <3> QED
        BY <1>9, <1>12, <2>2, <3>1
    <2>3. CASE q # p /\ q \notin new
      BY <1>16, <2>3 DEF Ledger!There
    <2> QED
      BY <2>1, <2>2, <2>3
  <1>21. /\ ledger' \in Seq(EntrySet) /\ EntriesAreOurs' /\ OursAreKnown' /\ \A q : InLedger(q) => InLedger(q)'
         /\ (\E i \in DOMAIN ledger : ledger[i].kind = "mode") => \E i \in DOMAIN ledger' : ledger'[i].kind = "mode"
    <2>1. Git \in Places /\ UNCHANGED <<left, before>>
      BY DEF Ledger!LedgerAssumption
    <2> QED
      <3>1. \A q \in Places : Ledger!There(q) => fs'[q] = fs[q]
        BY <1>20
      <3>2. \A q \in Places : (~Ledger!There(q) /\ Ledger!There(q)' /\ fs'[q].by = "run") =>
                                 \E j \in DOMAIN more : more[j].path = q /\ more[j].kind # "mode"
        BY <1>20
      <3> QED
        BY <1>12, <1>15, <1>18, <1>19, <2>1, <3>1, <3>2, AddEntries
  <1>22. ModeIsKnown'
    BY <1>21 DEF LedgerInv, ModeIsKnown
  <1>23. fs' \in [Places -> {None} \cup [by : {"run", "other", "start"}, dir : BOOLEAN]]
    <2>1. {Ledger!Dir("run"), Ledger!File("run")} \subseteq [by : {"run", "other", "start"}, dir : BOOLEAN]
      BY DEF Ledger!Dir, Ledger!File
    <2> QED
      BY <1>16, <2>1 DEF LedgerInv, LedgerTypes, Ledger!TypeOK
  <1>24. TreeInv'
    <2> SUFFICES ASSUME NEW q \in Places, Ledger!There(q)', NEW r \in Ledger!Parents(q) PROVE Ledger!There(r)' /\ fs'[r].dir
      BY DEF TreeInv, Ledger!Parents, Ledger!Above
    <2>1. r \in Places
      BY ChainsAre
    <2>2. CASE q = p
      <3>1. r # p
        BY <1>6, <2>2
      <3>2. CASE r \in new
        BY <1>16, <2>1, <3>1, <3>2, NotNone DEF Ledger!There
      <3>3. CASE r \notin new
        <4>1. Ledger!There(r) /\ fs[r].dir
          BY <1>9, <2>2, <3>3 DEF Ledger!Reached
        <4> QED
          BY <1>16, <2>1, <3>1, <3>3, <4>1 DEF Ledger!There
      <3> QED
        BY <3>2, <3>3
    <2>3. CASE q # p
      <3>1. then[q] = fs'[q] /\ fs'[q] # None
        BY <1>9, <1>16, <2>3 DEF Ledger!There
      <3>2. then[r] # None /\ then[r].dir
        BY <1>9, <3>1
      <3>3. r # p
        BY <1>9, <1>17, <3>2
      <3> QED
        BY <1>9, <1>16, <2>1, <3>2, <3>3 DEF Ledger!There
    <2> QED
      BY <2>2, <2>3
  <1> QED
    BY <1>21, <1>22, <1>23, <1>24

LEMMA WriteNewKeeps ==
  ASSUME Ledger!LedgerAssumption, LedgerInv, NEW p \in Places, Ledger!WriteNew(p)
  PROVE  LedgerInv'
  <1>1. /\ Ledger!At("new", p) /\ Ledger!Reached(p) /\ ~Ledger!There(p) /\ step' = step + 1
        /\ fs' = [Ledger!WithDirs(Ledger!Front(Chain[p])) EXCEPT ![p] = Ledger!File("run")]
        /\ ledger' = ledger \o Ledger!Made(Ledger!Front(Chain[p])) \o <<[kind |-> "file", path |-> p]>>
        /\ UNCHANGED <<loose, left, before>>
        /\ UNCHANGED <<phase, failed, wiredHere, left, command, signal, before, hooksPath, listed, loose>>
    BY DEF Ledger!WriteNew, Ledger!Wrote, Ledger!kept
  <1>2. /\ fs' \in [Places -> {None} \cup [by : {"run", "other", "start"}, dir : BOOLEAN]]
        /\ ledger' \in Seq(EntrySet) /\ \A q : InLedger(q) => InLedger(q)'
        /\ TreeInv' /\ EntriesAreOurs' /\ OursAreKnown' /\ ModeIsKnown'
    BY <1>1, FileIsMade
  <1>3. GitIsKnown' /\ GitIsMade' /\ step' \in Nat \ {0} /\ phase = "write"
    BY <1>1, <1>2, NextStep, PlannedStep
  <1> QED
    BY <1>1, <1>2, <1>3 DEF LedgerInv, LedgerTypes, Ledger!TypeOK, EntrySet

LEMMA CutShortKeeps ==
  ASSUME Ledger!LedgerAssumption, LedgerInv, NEW p \in Places, Ledger!CutShort(p)
  PROVE  LedgerInv'
  <1>1. /\ Ledger!At("new", p) /\ Ledger!Reached(p) /\ ~Ledger!There(p)
        /\ fs' = [Ledger!WithDirs(Ledger!Front(Chain[p])) EXCEPT ![p] = Ledger!File("run")]
        /\ ledger' = ledger \o Ledger!Made(Ledger!Front(Chain[p])) \o <<[kind |-> "file", path |-> p]>>
        /\ UNCHANGED <<loose, left, before>>
        /\ failed' = TRUE
        /\ UNCHANGED <<step, phase, wiredHere, left, command, signal, before, hooksPath, listed, loose>>
    BY DEF Ledger!CutShort, Ledger!kept
  <1>2. /\ fs' \in [Places -> {None} \cup [by : {"run", "other", "start"}, dir : BOOLEAN]]
        /\ ledger' \in Seq(EntrySet) /\ \A q : InLedger(q) => InLedger(q)'
        /\ TreeInv' /\ EntriesAreOurs' /\ OursAreKnown' /\ ModeIsKnown'
    BY <1>1, FileIsMade
  <1>3. phase = "write" /\ ~listed
    BY <1>1, PlannedStep
  <1>4. GitIsKnown' /\ GitIsMade'
    BY <1>1, <1>2, <1>3 DEF LedgerInv, GitIsKnown, GitIsMade
  <1> QED
    BY <1>1, <1>2, <1>3, <1>4 DEF LedgerInv, LedgerTypes, Ledger!TypeOK, EntrySet

LEMMA OwnTreeKeeps ==
  ASSUME Ledger!LedgerAssumption, LedgerInv, NEW p \in Places, Ledger!OwnTree(p)
  PROVE  LedgerInv'
  <1>1. /\ Ledger!At("own", p) /\ ~Ledger!There(p) /\ step' = step + 1 /\ \A q \in Ledger!Parents(p) : Ledger!There(q) /\ fs[q].dir
        /\ fs' = [fs EXCEPT ![p] = Ledger!Dir("run")] /\ ledger' = ledger \o <<[kind |-> "tree", path |-> p]>>
        /\ UNCHANGED <<phase, failed, wiredHere, left, command, signal, before, hooksPath, listed>>
        /\ UNCHANGED loose
    BY DEF Ledger!OwnTree, Ledger!Wrote, Ledger!kept
  <1>2. p = Git /\ phase = "write" /\ Git \in Places
    BY <1>1, PlannedStep
  <1>3. PICK more : more = <<[kind |-> "tree", path |-> p]>>
    OBVIOUS
  <1>4. more \in Seq(EntrySet) /\ DOMAIN more = {1} /\ more[1] = [kind |-> "tree", path |-> p]
    <2>1. [kind |-> "tree", path |-> p] \in EntrySet
      BY DEF EntrySet
    <2> QED
      BY <1>3, <2>1
  <1>5. fs' = [q \in Places |-> IF q = p THEN Ledger!Dir("run") ELSE fs[q]]
    BY <1>1 DEF LedgerInv, LedgerTypes, Ledger!TypeOK
  <1>6. \A j \in DOMAIN more : IsOurs(more[j])' /\ (more[j].kind # "mode" => ~Ledger!There(more[j].path))
    BY <1>1, <1>2, <1>4, <1>5 DEF IsOurs
  <1>7. \A i, j \in DOMAIN more :
            (i # j /\ more[i].kind # "mode" /\ more[j].kind # "mode") => more[i].path # more[j].path
    BY <1>4
  <1>8. \A q \in Places : Ledger!There(q) => fs'[q] = fs[q]
    BY <1>1, <1>5
  <1>9. \A q \in Places : (~Ledger!There(q) /\ Ledger!There(q)' /\ fs'[q].by = "run") =>
                                 \E j \in DOMAIN more : more[j].path = q /\ more[j].kind # "mode"
    <2> TAKE q \in Places
    <2>1. CASE q = p
      BY <1>4, <2>1
    <2>2. CASE q # p
      BY <1>5, <2>2 DEF Ledger!There
    <2> QED
      BY <2>1, <2>2
  <1>10. /\ ledger' \in Seq(EntrySet) /\ EntriesAreOurs' /\ OursAreKnown' /\ \A q : InLedger(q) => InLedger(q)'
         /\ (\E i \in DOMAIN ledger : ledger[i].kind = "mode") => \E i \in DOMAIN ledger' : ledger'[i].kind = "mode"
         /\ \A j \in DOMAIN more : \E i \in DOMAIN ledger' : ledger'[i] = more[j]
    <2>1. Git \in Places /\ UNCHANGED <<left, before>> /\ ledger' = ledger \o more
      BY <1>1, <1>2, <1>3
    <2> QED
      BY <1>4, <1>6, <1>7, <1>8, <1>9, <2>1, AddEntries
  <1>11. InLedger(Git)'
    <2>1. PICK now : now = ledger'
      OBVIOUS
    <2>2. \E i \in DOMAIN now : now[i].path = Git /\ now[i].kind # "mode"
      BY <1>2, <1>4, <1>10, <2>1
    <2> QED
      BY <2>1, <2>2 DEF InLedger
  <1>12. GitIsKnown' /\ GitIsMade' /\ step' \in Nat \ {0}
    BY <1>1, <1>10, <1>11, NextStep
  <1>13. ModeIsKnown'
    BY <1>1, <1>10 DEF LedgerInv, ModeIsKnown
  <1>14. LedgerTypes'
    <2>1. fs' \in [Places -> {None} \cup [by : {"run", "other", "start"}, dir : BOOLEAN]]
      BY <1>5 DEF LedgerInv, LedgerTypes, Ledger!TypeOK, Ledger!Dir
    <2> QED
      BY <1>1, <1>10, <1>12, <2>1 DEF LedgerInv, LedgerTypes, Ledger!TypeOK, EntrySet
  <1>15. TreeInv'
    <2> SUFFICES ASSUME NEW q \in Places, Ledger!There(q)', NEW r \in Ledger!Parents(q) PROVE Ledger!There(r)' /\ fs'[r].dir
      BY DEF TreeInv, Ledger!Parents, Ledger!Above
    <2>1. Ledger!There(r) /\ fs[r].dir /\ r \in Places
      <3>1. r \in Places
        BY ChainsAre
      <3>2. CASE q = p
        BY <1>1, <3>1, <3>2
      <3>3. CASE q # p
        BY <1>5, <3>1, <3>3 DEF Ledger!There, LedgerInv, TreeInv
      <3> QED
        BY <3>2, <3>3
    <2> QED
      BY <1>8, <2>1 DEF Ledger!There
  <1> QED
    BY <1>1, <1>2, <1>10, <1>12, <1>13, <1>14, <1>15 DEF LedgerInv

LEMMA FrontIs ==
  ASSUME NEW S, NEW s \in Seq(S), s # <<>>
  PROVE  /\ Ledger!Front(s) \in Seq(S) /\ Len(s) \in Nat \ {0} /\ DOMAIN Ledger!Front(s) = 1 .. Len(s) - 1 /\ DOMAIN s = 1 .. Len(s)
         /\ \A i \in 1 .. Len(s) - 1 : Ledger!Front(s)[i] = s[i]
         /\ Ledger!Last(s) = s[Len(s)] /\ Ledger!Last(s) \in S
  <1>1. Len(s) \in Nat \ {0} /\ \A i \in 1 .. Len(s) : s[i] \in S
    OBVIOUS
  <1>2. PICK n \in Nat : n = Len(s) - 1
    BY <1>1
  <1>3. /\ SubSeq(s, 1, n) \in Seq(S)
        /\ Len(SubSeq(s, 1, n)) = IF 1 <= n THEN n - 1 + 1 ELSE 0
        /\ \A i \in 1 .. n - 1 + 1 : SubSeq(s, 1, n)[i] = s[1 + i - 1]
    BY <1>1, <1>2, SubSeqProperties, 1 \in Int, n \in Int, \A i \in 1 .. n : s[i] \in S
  <1>4. Len(SubSeq(s, 1, n)) = n
    BY <1>3
  <1>5. \A i \in 1 .. n : SubSeq(s, 1, n)[i] = s[i]
    <2> TAKE i \in 1 .. n
    <2>1. i \in 1 .. n - 1 + 1 /\ 1 + i - 1 = i
      OBVIOUS
    <2> QED
      BY <1>3, <2>1
  <1>6. Ledger!Front(s) = SubSeq(s, 1, n)
    BY <1>2 DEF Ledger!Front
  <1>7. Ledger!Last(s) = s[Len(s)]
    BY DEF Ledger!Last
  <1> QED
    BY <1>1, <1>2, <1>3, <1>4, <1>5, <1>6, <1>7

(***************************************************************************)
(* The steps that make one thing or none.                                  *)
(***************************************************************************)

LEMMA OursAreThere ==
  ASSUME Ledger!LedgerAssumption, LedgerInv, NEW i \in DOMAIN ledger
  PROVE  /\ ledger[i] \in EntrySet
         /\ ledger[i].kind # "mode" => Ledger!There(ledger[i].path) /\ ledger[i].path \in Places /\ fs[ledger[i].path].by = "run"
         /\ ledger[i].kind # "mode" /\ ledger[i].path = Git => ledger[i].kind = "tree" /\ fs[Git] = Ledger!Dir("run")
  <1>1. ledger[i] \in EntrySet /\ IsOurs(ledger[i])
    <2>1. ledger \in Seq(EntrySet)
      BY DEF LedgerInv, LedgerTypes, Ledger!TypeOK, EntrySet
    <2>2. ledger[i] \in EntrySet
      BY <2>1
    <2> QED
      BY <2>2 DEF LedgerInv, EntriesAreOurs
  <1>2. PICK e : e = ledger[i]
    OBVIOUS
  <1>3. CASE e.kind = "tree"
    <2>1. e.path = Git /\ fs[Git] = Ledger!Dir("run")
      BY <1>1, <1>2, <1>3 DEF IsOurs
    <2>2. fs[e.path] # None /\ fs[e.path].by = "run"
      BY <2>1, NotNone
    <2> QED
      BY <1>1, <1>2, <1>3, <2>1, <2>2 DEF Ledger!There, EntrySet
  <1>4. CASE e.kind # "tree"
    BY <1>1, <1>2, <1>4 DEF IsOurs, EntrySet
  <1> QED
    BY <1>3, <1>4

LEMMA OneIsMade ==
  ASSUME Ledger!LedgerAssumption, LedgerInv, NEW p \in Places, ~Ledger!There(p), \A q \in Ledger!Parents(p) : Ledger!There(q) /\ fs[q].dir,
         NEW made \in [by : {"run", "other", "start"}, dir : BOOLEAN],
         fs' = [fs EXCEPT ![p] = made], UNCHANGED <<ledger, before>>
  PROVE  /\ fs' \in [Places -> {None} \cup [by : {"run", "other", "start"}, dir : BOOLEAN]]
         /\ TreeInv' /\ EntriesAreOurs' /\ \A q \in Places : Ledger!There(q) => fs'[q] = fs[q]
         /\ \A q \in Places : q # p => fs'[q] = fs[q]
  <1>1. fs' = [q \in Places |-> IF q = p THEN made ELSE fs[q]]
    BY DEF LedgerInv, LedgerTypes, Ledger!TypeOK
  <1>2. fs' \in [Places -> {None} \cup [by : {"run", "other", "start"}, dir : BOOLEAN]]
    BY <1>1 DEF LedgerInv, LedgerTypes, Ledger!TypeOK
  <1>3. \A q \in Places : Ledger!There(q) => fs'[q] = fs[q]
    BY <1>1
  <1>4. TreeInv'
    <2> SUFFICES ASSUME NEW q \in Places, Ledger!There(q)', NEW r \in Ledger!Parents(q) PROVE Ledger!There(r)' /\ fs'[r].dir
      BY DEF TreeInv, Ledger!Parents, Ledger!Above
    <2>1. r \in Places
      BY ChainsAre
    <2>2. Ledger!There(r) /\ fs[r].dir
      <3>1. CASE q = p
        BY <3>1
      <3>2. CASE q # p
        BY <1>1, <3>2 DEF Ledger!There, LedgerInv, TreeInv
      <3> QED
        BY <3>1, <3>2
    <2> QED
      BY <1>3, <2>1, <2>2 DEF Ledger!There
  <1>5. EntriesAreOurs'
    <2>1. ASSUME NEW i \in DOMAIN ledger PROVE \A e : e = ledger[i] => IsOurs(e)'
      <3>1. PICK e : e = ledger[i]
        OBVIOUS
      <3>2. IsOurs(e) /\ e \in EntrySet /\ (e.kind # "mode" => Ledger!There(e.path) /\ e.path \in Places)
        BY <3>1, OursAreThere DEF LedgerInv, EntriesAreOurs
      <3>3. e.kind # "mode" => fs'[e.path] = fs[e.path]
        BY <1>3, <3>2
      <3>4. IsOurs(e)'
        BY <3>2, <3>3 DEF IsOurs, Ledger!There, EntrySet
      <3> QED
        BY <3>1, <3>4
    <2>2. \A i \in DOMAIN ledger : IsOurs(ledger[i])'
      <3> TAKE i \in DOMAIN ledger
      <3>1. PICK e : e = ledger[i]
        OBVIOUS
      <3>2. IsOurs(e)' /\ e = ledger'[i]
        BY <2>1, <3>1
      <3> QED
        BY <3>2
    <2> QED
      BY <2>2 DEF LedgerInv, EntriesAreOurs
  <1> QED
    BY <1>1, <1>2, <1>3, <1>4, <1>5

LEMMA OtherKeeps ==
  ASSUME Ledger!LedgerAssumption, LedgerInv, NEW p \in Places, Ledger!Other(p)
  PROVE  LedgerInv' /\ \A q \in Places : Ledger!There(q) => fs'[q] = fs[q]
  <1>1. /\ ~Ledger!There(p) /\ \A q \in Ledger!Parents(p) : Ledger!There(q) /\ fs[q].dir
        /\ UNCHANGED <<loose, hooksPath, listed, command, step, ledger, wiredHere, signal, failed, left, phase, faults, before>>
    BY DEF Ledger!Other
  <1>2. PICK made \in {Ledger!File("other"), Ledger!Dir("other")} : fs' = [fs EXCEPT ![p] = made]
    BY DEF Ledger!Other
  <1>3. made \in [by : {"run", "other", "start"}, dir : BOOLEAN] /\ made.by = "other"
    <2>1. Ledger!File("other") \in [by : {"run", "other", "start"}, dir : BOOLEAN] /\ Ledger!File("other").by = "other"
      BY DEF Ledger!File
    <2>2. Ledger!Dir("other") \in [by : {"run", "other", "start"}, dir : BOOLEAN] /\ Ledger!Dir("other").by = "other"
      BY DEF Ledger!Dir
    <2> QED
      BY <1>2, <2>1, <2>2
  <1>4. /\ fs' \in [Places -> {None} \cup [by : {"run", "other", "start"}, dir : BOOLEAN]]
        /\ TreeInv' /\ EntriesAreOurs' /\ \A q \in Places : Ledger!There(q) => fs'[q] = fs[q]
        /\ \A q \in Places : q # p => fs'[q] = fs[q]
    BY <1>1, <1>2, <1>3, OneIsMade
  <1>5. \A q \in Places : fs'[q] # None /\ fs'[q].by = "run" => fs'[q] = fs[q]
    <2>1. fs'[p] = made
      BY <1>2 DEF LedgerInv, LedgerTypes, Ledger!TypeOK
    <2> QED
      BY <1>3, <1>4, <2>1
  <1>6. OursAreKnown'
    BY <1>1, <1>5 DEF LedgerInv, OursAreKnown, WillGo, InLedger, Ledger!There, Ledger!Parents, Ledger!Above
  <1> QED
    BY <1>1, <1>4, <1>6 DEF LedgerInv, LedgerTypes, Ledger!TypeOK, ModeIsKnown, GitIsKnown, GitIsMade, InLedger

LEMMA FillKeeps ==
  ASSUME Ledger!LedgerAssumption, LedgerInv, NEW p \in Places, Ledger!Fill(p)
  PROVE  LedgerInv' /\ \A q \in Places : Ledger!There(q) => fs'[q] = fs[q]
  <1>1. /\ Ledger!At("fill", p) /\ fs' = [fs EXCEPT ![p] = IF Ledger!There(p) THEN @ ELSE Ledger!File("run")] /\ step' = step + 1
        /\ UNCHANGED <<phase, failed, wiredHere, left, command, signal, before, hooksPath, listed>>
        /\ UNCHANGED <<ledger, loose>>
    BY DEF Ledger!Fill, Ledger!Wrote, Ledger!kept
  <1>2. Git \in Ledger!Parents(p) /\ Ledger!Parents(p) \subseteq Ledger!Parents(Git) \cup {Git} /\ InLedger(Git) /\ phase = "write"
    BY <1>1, PlannedStep
  <1>3. fs[Git] = Ledger!Dir("run") /\ Git \in Places
    <2>1. PICK i \in DOMAIN ledger : ledger[i].path = Git /\ ledger[i].kind # "mode"
      BY <1>2 DEF InLedger
    <2> QED
      BY <2>1, OursAreThere DEF Ledger!LedgerAssumption
  <1>4. \A q \in Ledger!Parents(p) : Ledger!There(q) /\ fs[q].dir
    BY <1>2, <1>3, NotNone DEF Ledger!There, LedgerInv, TreeInv
  <1>5. /\ fs' \in [Places -> {None} \cup [by : {"run", "other", "start"}, dir : BOOLEAN]]
        /\ TreeInv' /\ EntriesAreOurs' /\ \A q \in Places : Ledger!There(q) => fs'[q] = fs[q]
        /\ \A q \in Places : q # p => fs'[q] = fs[q]
    <2>1. CASE Ledger!There(p)
      <3>1. UNCHANGED fs
        BY <1>1, <2>1 DEF LedgerInv, LedgerTypes, Ledger!TypeOK
      <3>2. UNCHANGED <<fs, ledger, before>>
        BY <1>1, <3>1
      <3> QED
        BY <3>2 DEF LedgerInv, LedgerTypes, Ledger!TypeOK, TreeInv, EntriesAreOurs, IsOurs, Ledger!There, Ledger!Parents, Ledger!Above
    <2>2. CASE ~Ledger!There(p)
      <3>1. Ledger!File("run") \in [by : {"run", "other", "start"}, dir : BOOLEAN]
        BY DEF Ledger!File
      <3>2. fs' = [fs EXCEPT ![p] = Ledger!File("run")]
        BY <1>1, <2>2
      <3> QED
        BY <1>1, <1>4, <2>2, <3>1, <3>2, OneIsMade
    <2> QED
      BY <2>1, <2>2
  <1>6. OursAreKnown'
    <2> SUFFICES ASSUME NEW q \in Places, Ledger!There(q)', fs'[q].by = "run"
                 PROVE  WillGo(q)' \/ (\E r \in Ledger!Parents(q) : r \in left') \/ (Git \in Ledger!Parents(q) /\ InLedger(Git)')
      BY DEF OursAreKnown, Ledger!Parents, Ledger!Above
    <2>1. CASE q = p
      BY <1>1, <1>2, <2>1 DEF InLedger
    <2>2. CASE q # p
      BY <1>1, <1>5, <2>2 DEF LedgerInv, OursAreKnown, WillGo, InLedger, Ledger!There, Ledger!Parents, Ledger!Above
    <2> QED
      BY <2>1, <2>2
  <1>7. GitIsKnown' /\ GitIsMade' /\ step' \in Nat \ {0}
    <2>1. \A q : InLedger(q) => InLedger(q)'
      BY <1>1 DEF InLedger
    <2> QED
      BY <1>1, <2>1, NextStep
  <1> QED
    BY <1>1, <1>2, <1>5, <1>6, <1>7 DEF LedgerInv, LedgerTypes, Ledger!TypeOK, ModeIsKnown

(***************************************************************************)
(* The steps that leave the tree and the ledger alone.                     *)
(***************************************************************************)

LEMMA StillOurs ==
  ASSUME LedgerInv, UNCHANGED <<fs, loose, ledger, left, before>>
  PROVE  TreeInv' /\ EntriesAreOurs' /\ OursAreKnown' /\ ModeIsKnown' /\ (\A p : InLedger(p) <=> InLedger(p)')
  <1> USE DEF Ledger!There, Ledger!Parents, Ledger!Above
  <1>1. \A p : InLedger(p) <=> InLedger(p)'
    BY DEF InLedger
  <1>2. TreeInv' /\ ModeIsKnown'
    BY DEF LedgerInv, TreeInv, ModeIsKnown
  <1>3. EntriesAreOurs'
    BY DEF LedgerInv, EntriesAreOurs, IsOurs
  <1>4. OursAreKnown'
    BY <1>1 DEF LedgerInv, OursAreKnown, WillGo
  <1> QED
    BY <1>1, <1>2, <1>3, <1>4

LEMMA WireKeeps ==
  ASSUME Ledger!LedgerAssumption, LedgerInv, NEW p \in Places, Ledger!Wire(p)
  PROVE  LedgerInv'
  <1>1. /\ Ledger!At("wire", p) /\ hooksPath' = "ours" /\ wiredHere' = (before.hooksPath = None) /\ step' = step + 1
        /\ UNCHANGED <<fs, loose, ledger, left, before>>
        /\ UNCHANGED <<listed, failed, phase, command, signal>>
    BY DEF Ledger!Wire, Ledger!kept
  <1>2. TreeInv' /\ EntriesAreOurs' /\ OursAreKnown' /\ ModeIsKnown' /\ (\A q : InLedger(q) <=> InLedger(q)')
    BY <1>1, StillOurs
  <1>3. command = "gate" /\ phase = "write" /\ ~listed /\ ~failed /\ Plans[command][step].does = "wire"
    BY <1>1, PlannedStep
  <1>4. step \in Nat \ {0} /\ before.hooksPath \in {None, "ours", "elsewhere"}
    BY DEF LedgerInv, LedgerTypes
  <1>5. GitIsKnown'
    BY <1>1, <1>3, <1>4 DEF LedgerInv, GitIsKnown
  <1>6. GitIsMade'
    <2> SUFFICES ASSUME NEW j \in 1 .. step' - 1, j \in DOMAIN Plans[command], Plans[command][j].does = "own"
                 PROVE  InLedger(Git)'
      BY <1>1 DEF GitIsMade
    <2>1. j \in 1 .. step - 1
      BY <1>1, <1>3, <1>4
    <2> QED
      BY <1>2, <1>3, <2>1 DEF LedgerInv, GitIsMade
  <1> QED
    BY <1>1, <1>2, <1>3, <1>4, <1>5, <1>6 DEF LedgerInv, LedgerTypes, Ledger!TypeOK

LEMMA RecordKeeps ==
  ASSUME Ledger!LedgerAssumption, LedgerInv, NEW p \in Places, Ledger!Record(p)
  PROVE  LedgerInv'
  <1>1. /\ Ledger!At("record", p) /\ listed' = TRUE /\ step' = step + 1
        /\ UNCHANGED <<fs, loose, ledger, left, before>>
        /\ UNCHANGED <<hooksPath, wiredHere, failed, phase, command, signal>>
    BY DEF Ledger!Record, Ledger!Wrote, Ledger!kept
  <1>2. TreeInv' /\ EntriesAreOurs' /\ OursAreKnown' /\ ModeIsKnown' /\ (\A q : InLedger(q) <=> InLedger(q)')
    BY <1>1, StillOurs
  <1>3. command = "gate" /\ phase = "write" /\ ~failed /\ Plans[command][step].does = "record" /\ step = Len(Plans[command])
    BY <1>1, PlannedStep
  <1>4. step \in Nat \ {0}
    BY DEF LedgerInv, LedgerTypes
  <1>5. GitIsKnown'
    BY <1>1, <1>3, <1>4 DEF LedgerInv, GitIsKnown
  <1>6. GitIsMade'
    <2> SUFFICES ASSUME NEW j \in 1 .. step' - 1, j \in DOMAIN Plans[command], Plans[command][j].does = "own"
                 PROVE  InLedger(Git)'
      BY <1>1 DEF GitIsMade
    <2>1. j \in 1 .. step - 1
      BY <1>1, <1>3, <1>4
    <2> QED
      BY <1>2, <1>3, <2>1 DEF LedgerInv, GitIsMade
  <1> QED
    BY <1>1, <1>2, <1>3, <1>4, <1>5, <1>6 DEF LedgerInv, LedgerTypes, Ledger!TypeOK

LEMMA FailKeeps ==
  ASSUME Ledger!LedgerAssumption, LedgerInv, Ledger!Fail
  PROVE  LedgerInv' /\ UNCHANGED fs
  <1>1. /\ phase = "write" /\ ~failed /\ step <= Len(Plans[command]) /\ failed' = TRUE
        /\ UNCHANGED <<fs, loose, ledger, left, before>>
        /\ UNCHANGED <<hooksPath, listed, step, wiredHere, phase, command, signal>>
    BY DEF Ledger!Fail, Ledger!kept
  <1>2. TreeInv' /\ EntriesAreOurs' /\ OursAreKnown' /\ ModeIsKnown' /\ (\A q : InLedger(q) <=> InLedger(q)')
    BY <1>1, StillOurs
  <1>3. ~listed
    <2>1. Len(Plans[command]) \in Nat /\ step \in Nat
      BY <1>1 DEF LedgerInv, LedgerTypes, Ledger!LedgerAssumption
    <2> QED
      BY <1>1, <2>1 DEF LedgerInv, GitIsKnown
  <1>4. GitIsKnown' /\ GitIsMade'
    BY <1>1, <1>2, <1>3 DEF LedgerInv, GitIsKnown, GitIsMade
  <1> QED
    BY <1>1, <1>2, <1>4 DEF LedgerInv, LedgerTypes, Ledger!TypeOK

LEMMA SignalKeeps ==
  ASSUME LedgerInv, Ledger!Signal
  PROVE  LedgerInv'
  <1>1. /\ phase = "write" /\ command # "gate" /\ signal' = TRUE
        /\ UNCHANGED <<fs, loose, ledger, left, before>>
        /\ UNCHANGED <<hooksPath, listed, step, wiredHere, phase, command, failed>>
    BY DEF Ledger!Signal
  <1>2. TreeInv' /\ EntriesAreOurs' /\ OursAreKnown' /\ ModeIsKnown' /\ (\A q : InLedger(q) <=> InLedger(q)')
    BY <1>1, StillOurs
  <1>3. GitIsKnown' /\ GitIsMade'
    BY <1>1, <1>2 DEF LedgerInv, GitIsKnown, GitIsMade
  <1> QED
    BY <1>1, <1>2, <1>3 DEF LedgerInv, LedgerTypes, Ledger!TypeOK

LEMMA StopKeeps ==
  ASSUME LedgerInv, Ledger!Stop
  PROVE  LedgerInv'
  <1>1. /\ phase = "write"
        /\ UNCHANGED <<fs, loose, ledger, left, before>>
        /\ UNCHANGED <<listed, step, wiredHere, command, failed, signal>>
    BY DEF Ledger!Stop, Ledger!kept
  <1>2. TreeInv' /\ EntriesAreOurs' /\ OursAreKnown' /\ ModeIsKnown'
    BY <1>1, StillOurs
  <1>3. CASE failed \/ signal
    <2>1. phase' = "undo" /\ hooksPath' = IF wiredHere THEN None ELSE hooksPath
      BY <1>3 DEF Ledger!Stop
    <2>2. GitIsKnown' /\ GitIsMade'
      BY <1>1, <1>3, <2>1 DEF LedgerInv, GitIsKnown, GitIsMade
    <2> QED
      BY <1>1, <1>2, <2>1, <2>2 DEF LedgerInv, LedgerTypes, Ledger!TypeOK
  <1>4. CASE ~(failed \/ signal)
    <2>1. phase' = "done" /\ hooksPath' = hooksPath
      BY <1>4 DEF Ledger!Stop
    <2>2. GitIsKnown' /\ GitIsMade'
      BY <1>1, <1>4, <2>1 DEF LedgerInv, GitIsKnown, GitIsMade
    <2> QED
      BY <1>1, <1>2, <2>1, <2>2 DEF LedgerInv, LedgerTypes, Ledger!TypeOK
  <1> QED
    BY <1>3, <1>4

LEMMA UndoneKeeps ==
  ASSUME LedgerInv, Ledger!Undone
  PROVE  LedgerInv'
  <1>1. /\ phase = "undo" /\ phase' = "undone" /\ ledger = <<>>
        /\ UNCHANGED <<fs, loose, ledger, left, before>>
        /\ UNCHANGED <<hooksPath, listed, step, wiredHere, command, failed, signal>>
    BY DEF Ledger!Undone, Ledger!kept
  <1>2. TreeInv' /\ EntriesAreOurs' /\ OursAreKnown' /\ ModeIsKnown'
    BY <1>1, StillOurs
  <1>3. GitIsKnown' /\ GitIsMade'
    BY <1>1 DEF LedgerInv, GitIsKnown, GitIsMade
  <1> QED
    BY <1>1, <1>2, <1>3 DEF LedgerInv, LedgerTypes, Ledger!TypeOK

(***************************************************************************)
(* The undo, one entry at a time from the last.                            *)
(***************************************************************************)

(* What is left of the ledger, and what the entry taken off it told of.    *)
LEMMA OneLess ==
  ASSUME Ledger!LedgerAssumption, LedgerInv, ledger # <<>>, ledger' = Ledger!Front(ledger)
  PROVE  /\ ledger' \in Seq(EntrySet) /\ Ledger!Last(ledger) \in EntrySet /\ IsOurs(Ledger!Last(ledger))
         /\ Ledger!Last(ledger).kind # "mode" => Ledger!There(Ledger!Last(ledger).path) /\ Ledger!Last(ledger).path \in Places /\ fs[Ledger!Last(ledger).path].by = "run"
         /\ \A p : InLedger(p) => InLedger(p)' \/ (p = Ledger!Last(ledger).path /\ Ledger!Last(ledger).kind # "mode")
         /\ (\E i \in DOMAIN ledger : ledger[i].kind = "mode") =>
                (\E i \in DOMAIN ledger' : ledger'[i].kind = "mode") \/ Ledger!Last(ledger).kind = "mode"
         /\ \A i \in DOMAIN ledger' : /\ i \in DOMAIN ledger /\ ledger'[i] = ledger[i]
                                      /\ (ledger[i].kind # "mode" /\ Ledger!Last(ledger).kind # "mode") => ledger[i].path # Ledger!Last(ledger).path
  <1>1. ledger \in Seq(EntrySet)
    BY DEF LedgerInv, LedgerTypes, Ledger!TypeOK, EntrySet
  <1>2. PICK now : now = ledger'
    OBVIOUS
  <1>3. /\ now \in Seq(EntrySet) /\ Len(ledger) \in Nat \ {0} /\ DOMAIN now = 1 .. Len(ledger) - 1 /\ DOMAIN ledger = 1 .. Len(ledger)
        /\ \A i \in 1 .. Len(ledger) - 1 : now[i] = ledger[i]
        /\ Ledger!Last(ledger) = ledger[Len(ledger)] /\ Ledger!Last(ledger) \in EntrySet
    BY <1>1, <1>2, FrontIs
  <1>4. PICK n : n = Len(ledger) /\ n \in DOMAIN ledger
    BY <1>3
  <1>5. \A i \in DOMAIN ledger : i # n => i \in DOMAIN now /\ now[i] = ledger[i]
    BY <1>3, <1>4
  <1>6. \A i \in DOMAIN now : i \in DOMAIN ledger /\ i # n /\ now[i] = ledger[i]
    BY <1>3, <1>4
  <1>7. PICK e : e = Ledger!Last(ledger)
    OBVIOUS
  <1>8. e = ledger[n] /\ e \in EntrySet /\ IsOurs(e)
    BY <1>3, <1>4, <1>7 DEF LedgerInv, EntriesAreOurs
  <1>9. e.kind # "mode" => Ledger!There(e.path) /\ e.path \in Places /\ fs[e.path].by = "run"
    BY <1>4, <1>8, OursAreThere
  <1>10. \A p : InLedger(p) => InLedger(p)' \/ (p = e.path /\ e.kind # "mode")
    BY <1>2, <1>5, <1>8 DEF InLedger
  <1>11. (\E i \in DOMAIN ledger : ledger[i].kind = "mode") => (\E i \in DOMAIN now : now[i].kind = "mode") \/ e.kind = "mode"
    BY <1>5, <1>8
  <1>12. \A i \in DOMAIN now : (ledger[i].kind # "mode" /\ e.kind # "mode") => ledger[i].path # e.path
    BY <1>4, <1>6, <1>8 DEF LedgerInv, EntriesAreOurs
  <1> QED
    BY <1>2, <1>3, <1>6, <1>7, <1>8, <1>9, <1>10, <1>11, <1>12

(* An undo that removes what it should keeps the entries that remain.      *)
LEMMA StillTold ==
  ASSUME Ledger!LedgerAssumption, LedgerInv, ledger # <<>>, ledger' = Ledger!Front(ledger), UNCHANGED before,
         \A i \in DOMAIN ledger' : ledger[i].kind # "mode" => fs'[ledger[i].path] = fs[ledger[i].path]
  PROVE  EntriesAreOurs'
  <1>1. PICK now : now = ledger'
    OBVIOUS
  <1>2. \A i \in DOMAIN now : i \in DOMAIN ledger /\ now[i] = ledger[i]
    BY <1>1, OneLess
  <1>3. \A i \in DOMAIN now : \A e : e = now[i] => IsOurs(e)'
    <2> TAKE i \in DOMAIN now
    <2>1. PICK e : e = now[i]
      OBVIOUS
    <2>2. e = ledger[i] /\ IsOurs(e) /\ e \in EntrySet
      BY <1>2, <2>1, OursAreThere DEF LedgerInv, EntriesAreOurs
    <2>3. e.kind # "mode" => fs'[e.path] = fs[e.path]
      BY <1>1, <2>2
    <2>4. IsOurs(e)'
      BY <2>2, <2>3 DEF IsOurs, Ledger!There, EntrySet
    <2> QED
      BY <2>1, <2>4
  <1>4. \A i, j \in DOMAIN now : (i # j /\ now[i].kind # "mode" /\ now[j].kind # "mode") => now[i].path # now[j].path
    BY <1>2 DEF LedgerInv, EntriesAreOurs
  <1>5. \A i \in DOMAIN now : IsOurs(now[i])'
    <2> TAKE i \in DOMAIN now
    <2>1. PICK e : e = now[i]
      OBVIOUS
    <2>2. IsOurs(e)'
      BY <1>3, <2>1
    <2> QED
      BY <2>1, <2>2
  <1> QED
    BY <1>1, <1>4, <1>5 DEF EntriesAreOurs

(* An entry that could not be undone is named.                             *)
LEMMA NamedIsKnown ==
  ASSUME Ledger!LedgerAssumption, LedgerInv, ledger # <<>>, ledger' = Ledger!Front(ledger),
         left' = left \cup {Ledger!Last(ledger).path}, UNCHANGED <<fs, loose, before>>
  PROVE  TreeInv' /\ EntriesAreOurs' /\ OursAreKnown' /\ ModeIsKnown' /\ left' \subseteq Places
  <1>1. PICK e : e = Ledger!Last(ledger)
    OBVIOUS
  <1>2. /\ e \in EntrySet /\ IsOurs(e)
        /\ \A p : InLedger(p) => InLedger(p)' \/ (p = e.path /\ e.kind # "mode")
        /\ (\E i \in DOMAIN ledger : ledger[i].kind = "mode") => (\E i \in DOMAIN ledger' : ledger'[i].kind = "mode") \/ e.kind = "mode"
    BY <1>1, OneLess
  <1>3. EntriesAreOurs'
    BY StillTold
  <1>4. OursAreKnown'
    BY <1>1, <1>2 DEF LedgerInv, OursAreKnown, WillGo, Ledger!There, Ledger!Parents, Ledger!Above
  <1>5. ModeIsKnown'
    BY <1>1, <1>2 DEF LedgerInv, ModeIsKnown, IsOurs
  <1>6. TreeInv' /\ left' \subseteq Places
    BY <1>1, <1>2 DEF LedgerInv, LedgerTypes, Ledger!TypeOK, TreeInv, Ledger!There, Ledger!Parents, Ledger!Above, EntrySet
  <1> QED
    BY <1>3, <1>4, <1>5, <1>6

(* A file or an empty directory is gone with its entry.                    *)
LEMMA OneIsGone ==
  ASSUME Ledger!LedgerAssumption, LedgerInv, ledger # <<>>, ledger' = Ledger!Front(ledger),
         NEW e, e = Ledger!Last(ledger), e.kind \in {"file", "dir"}, e.kind = "dir" => Ledger!InDir(e.path) = {},
         fs' = [fs EXCEPT ![e.path] = None], UNCHANGED <<left, loose, before>>
  PROVE  /\ fs' \in [Places -> {None} \cup [by : {"run", "other", "start"}, dir : BOOLEAN]]
         /\ TreeInv' /\ EntriesAreOurs' /\ OursAreKnown' /\ ModeIsKnown'
         /\ \A q \in Places : fs[q] # None /\ fs[q].by # "run" => fs'[q] = fs[q]
  <1>1. /\ e \in EntrySet /\ IsOurs(e) /\ Ledger!There(e.path) /\ e.path \in Places /\ fs[e.path].by = "run"
        /\ \A p : InLedger(p) => InLedger(p)' \/ (p = e.path /\ e.kind # "mode")
        /\ (\E i \in DOMAIN ledger : ledger[i].kind = "mode") => (\E i \in DOMAIN ledger' : ledger'[i].kind = "mode") \/ e.kind = "mode"
        /\ \A i \in DOMAIN ledger' : /\ i \in DOMAIN ledger /\ ledger'[i] = ledger[i]
                                     /\ (ledger[i].kind # "mode" /\ e.kind # "mode") => ledger[i].path # e.path
    BY OneLess
  <1>2. e.path # Git /\ Git \notin Ledger!Parents(e.path) /\ (e.kind = "file" => ~fs[e.path].dir)
    BY <1>1 DEF IsOurs
  <1>3. fs' = [q \in Places |-> IF q = e.path THEN None ELSE fs[q]]
    BY DEF LedgerInv, LedgerTypes, Ledger!TypeOK
  <1>4. fs' \in [Places -> {None} \cup [by : {"run", "other", "start"}, dir : BOOLEAN]]
    BY <1>3 DEF LedgerInv, LedgerTypes, Ledger!TypeOK
  <1>5. TreeInv'
    <2> SUFFICES ASSUME NEW q \in Places, Ledger!There(q)', NEW r \in Ledger!Parents(q) PROVE Ledger!There(r)' /\ fs'[r].dir
      BY DEF TreeInv, Ledger!Parents, Ledger!Above
    <2>1. Ledger!There(q) /\ q # e.path
      BY <1>3 DEF Ledger!There
    <2>2. r \in Places
      BY ChainsAre
    <2>3. Ledger!There(r) /\ fs[r].dir
      BY <2>1 DEF LedgerInv, TreeInv
    <2>4. r # e.path
      <3> SUFFICES ASSUME r = e.path PROVE FALSE
        OBVIOUS
      <3>1. CASE e.kind = "file"
        BY <1>2, <2>3, <3>1
      <3>2. CASE e.kind = "dir"
        BY <2>1, <3>2 DEF Ledger!InDir
      <3> QED
        BY <3>1, <3>2
    <2> QED
      BY <1>3, <2>2, <2>3, <2>4 DEF Ledger!There
  <1>6. EntriesAreOurs'
    <2>1. \A i \in DOMAIN ledger' : ledger[i].kind # "mode" => fs'[ledger[i].path] = fs[ledger[i].path]
      <3> TAKE i \in DOMAIN ledger'
      <3> HAVE ledger[i].kind # "mode"
      <3>1. ledger[i].path # e.path /\ ledger[i].path \in Places
        BY <1>1, OursAreThere
      <3> QED
        BY <1>3, <3>1
    <2> QED
      BY <2>1, StillTold
  <1>7. OursAreKnown'
    <2> SUFFICES ASSUME NEW q \in Places, Ledger!There(q)', fs'[q].by = "run"
                 PROVE  WillGo(q)' \/ (\E r \in Ledger!Parents(q) : r \in left) \/ (Git \in Ledger!Parents(q) /\ InLedger(Git)')
      BY DEF OursAreKnown, Ledger!Parents, Ledger!Above
    <2>1. Ledger!There(q) /\ q # e.path /\ fs[q].by = "run"
      BY <1>3 DEF Ledger!There
    <2>2. WillGo(q) \/ (\E r \in Ledger!Parents(q) : r \in left) \/ (Git \in Ledger!Parents(q) /\ InLedger(Git))
      BY <2>1 DEF LedgerInv, OursAreKnown
    <2> QED
      BY <1>1, <1>2, <2>1, <2>2 DEF WillGo
  <1>8. ModeIsKnown'
    BY <1>1 DEF LedgerInv, ModeIsKnown
  <1>9. \A q \in Places : fs[q] # None /\ fs[q].by # "run" => fs'[q] = fs[q]
    BY <1>1, <1>3
  <1> QED
    BY <1>4, <1>5, <1>6, <1>7, <1>8, <1>9

(* The repository this run made is gone with all that is in it.            *)
LEMMA TreeIsGone ==
  ASSUME Ledger!LedgerAssumption, LedgerInv, ledger # <<>>, ledger' = Ledger!Front(ledger),
         NEW e, e = Ledger!Last(ledger), e.kind = "tree",
         fs' = [q \in Places |-> IF e.path \in Ledger!Parents(q) \cup {q} THEN None ELSE fs[q]], UNCHANGED <<left, loose, before>>
  PROVE  /\ fs' \in [Places -> {None} \cup [by : {"run", "other", "start"}, dir : BOOLEAN]]
         /\ TreeInv' /\ EntriesAreOurs' /\ OursAreKnown' /\ ModeIsKnown'
         /\ \A q \in Places : fs[q] # None /\ fs[q].by # "run" /\ ~(Git \in Ledger!Parents(q) /\ fs[Git].by = "run") => fs'[q] = fs[q]
  <1>1. /\ e \in EntrySet /\ IsOurs(e) /\ Ledger!There(e.path) /\ e.path \in Places /\ fs[e.path].by = "run"
        /\ \A p : InLedger(p) => InLedger(p)' \/ (p = e.path /\ e.kind # "mode")
        /\ (\E i \in DOMAIN ledger : ledger[i].kind = "mode") => (\E i \in DOMAIN ledger' : ledger'[i].kind = "mode") \/ e.kind = "mode"
        /\ \A i \in DOMAIN ledger' : /\ i \in DOMAIN ledger /\ ledger'[i] = ledger[i]
                                     /\ (ledger[i].kind # "mode" /\ e.kind # "mode") => ledger[i].path # e.path
    BY OneLess
  <1>2. e.path = Git /\ Git \in Places
    BY <1>1 DEF IsOurs
  <1>3. fs' = [q \in Places |-> IF Git \in Ledger!Parents(q) \cup {q} THEN None ELSE fs[q]]
    BY <1>2
  <1>4. fs' \in [Places -> {None} \cup [by : {"run", "other", "start"}, dir : BOOLEAN]]
    BY <1>3 DEF LedgerInv, LedgerTypes, Ledger!TypeOK
  <1>5. TreeInv'
    <2> SUFFICES ASSUME NEW q \in Places, Ledger!There(q)', NEW r \in Ledger!Parents(q) PROVE Ledger!There(r)' /\ fs'[r].dir
      BY DEF TreeInv, Ledger!Parents, Ledger!Above
    <2>1. Ledger!There(q) /\ Git \notin Ledger!Parents(q) \cup {q} /\ r \in Places /\ Ledger!Parents(r) \subseteq Ledger!Parents(q)
      BY <1>3, ChainsAre DEF Ledger!There
    <2>2. Ledger!There(r) /\ fs[r].dir
      BY <2>1 DEF LedgerInv, TreeInv
    <2>3. Git \notin Ledger!Parents(r) \cup {r}
      BY <2>1
    <2> QED
      BY <1>3, <2>1, <2>2, <2>3 DEF Ledger!There
  <1>6. EntriesAreOurs'
    <2>1. \A i \in DOMAIN ledger' : ledger[i].kind # "mode" => fs'[ledger[i].path] = fs[ledger[i].path]
      <3> TAKE i \in DOMAIN ledger'
      <3> HAVE ledger[i].kind # "mode"
      <3>1. PICK o : o = ledger[i]
        OBVIOUS
      <3>2. o.path # Git /\ o.path \in Places /\ o.kind # "mode" /\ o \in EntrySet /\ IsOurs(o)
        BY <1>1, <1>2, <3>1, OursAreThere DEF LedgerInv, EntriesAreOurs
      <3>3. Git \notin Ledger!Parents(o.path)
        BY <3>2 DEF IsOurs, EntrySet
      <3> QED
        BY <1>3, <3>1, <3>2, <3>3
    <2> QED
      BY <2>1, StillTold
  <1>7. OursAreKnown'
    <2> SUFFICES ASSUME NEW q \in Places, Ledger!There(q)', fs'[q].by = "run"
                 PROVE  WillGo(q)' \/ (\E r \in Ledger!Parents(q) : r \in left) \/ (Git \in Ledger!Parents(q) /\ InLedger(Git)')
      BY DEF OursAreKnown, Ledger!Parents, Ledger!Above
    <2>1. Ledger!There(q) /\ Git \notin Ledger!Parents(q) \cup {q} /\ fs[q].by = "run"
      BY <1>3 DEF Ledger!There
    <2>2. WillGo(q) \/ (\E r \in Ledger!Parents(q) : r \in left)
      BY <2>1 DEF LedgerInv, OursAreKnown
    <2> QED
      BY <1>1, <1>2, <2>1, <2>2 DEF WillGo
  <1>8. ModeIsKnown'
    BY <1>1 DEF LedgerInv, ModeIsKnown
  <1>9. \A q \in Places : fs[q] # None /\ fs[q].by # "run" /\ ~(Git \in Ledger!Parents(q) /\ fs[Git].by = "run") => fs'[q] = fs[q]
    BY <1>1, <1>2, <1>3
  <1> QED
    BY <1>4, <1>5, <1>6, <1>7, <1>8, <1>9

LEMMA UndoOneKeeps ==
  ASSUME Ledger!LedgerAssumption, LedgerInv, Ledger!UndoOne
  PROVE  /\ LedgerInv'
         /\ \A q \in Places : fs[q] # None /\ fs[q].by # "run" /\ ~(Git \in Ledger!Parents(q) /\ fs[Git].by = "run") => fs'[q] = fs[q]
  <1>1. /\ phase = "undo" /\ ledger # <<>> /\ ledger' = Ledger!Front(ledger)
        /\ UNCHANGED <<hooksPath, listed, step, wiredHere, failed, phase, command, signal, before>>
    BY DEF Ledger!UndoOne, Ledger!kept
  <1>2. PICK e : e = Ledger!Last(ledger)
    OBVIOUS
  <1>3. /\ e \in EntrySet /\ IsOurs(e) /\ ledger' \in Seq(EntrySet)
        /\ e.kind # "mode" => Ledger!There(e.path) /\ e.path \in Places /\ fs[e.path].by = "run"
        /\ \A p : InLedger(p) => InLedger(p)' \/ (p = e.path /\ e.kind # "mode")
        /\ (\E i \in DOMAIN ledger : ledger[i].kind = "mode") => (\E i \in DOMAIN ledger' : ledger'[i].kind = "mode") \/ e.kind = "mode"
    BY <1>1, <1>2, OneLess
  <1> DEFINE Good == /\ fs' \in [Places -> {None} \cup [by : {"run", "other", "start"}, dir : BOOLEAN]]
                     /\ loose' \in BOOLEAN /\ left' \subseteq Places
                     /\ TreeInv' /\ EntriesAreOurs' /\ OursAreKnown' /\ ModeIsKnown'
                     /\ \A q \in Places : fs[q] # None /\ fs[q].by # "run" /\ ~(Git \in Ledger!Parents(q) /\ fs[Git].by = "run") => fs'[q] = fs[q]
  <1>4. ASSUME left' = left \cup {e.path} /\ UNCHANGED <<fs, loose>>
        PROVE  Good
    <2>1. TreeInv' /\ EntriesAreOurs' /\ OursAreKnown' /\ ModeIsKnown' /\ left' \subseteq Places
      BY <1>1, <1>2, <1>4, NamedIsKnown
    <2>2. Good
      BY <1>4, <2>1 DEF LedgerInv, LedgerTypes, Ledger!TypeOK
    <2> QED
      BY <2>2
  <1>5. ASSUME /\ fs' = Ledger!Removed(e) /\ loose' = (loose \/ e.kind = "mode")
               /\ left' = IF e.kind # "mode" /\ fs'[e.path] # None THEN left \cup {e.path} ELSE left
        PROVE  Good
    <2>1. CASE e.kind = "mode"
      <3>1. fs' = fs /\ loose' = TRUE /\ left' = left /\ before.loose
        BY <1>3, <1>5, <2>1 DEF Ledger!Removed, IsOurs
      <3>2. EntriesAreOurs'
        BY <1>1, <3>1, StillTold
      <3>3. OursAreKnown' /\ ModeIsKnown' /\ TreeInv'
        BY <1>1, <1>3, <2>1, <3>1 DEF LedgerInv, OursAreKnown, WillGo, Ledger!There, Ledger!Parents, Ledger!Above, ModeIsKnown, TreeInv
      <3> QED
        BY <3>1, <3>2, <3>3 DEF LedgerInv, LedgerTypes, Ledger!TypeOK
    <2>2. CASE e.kind = "tree"
      <3>1. fs' = [q \in Places |-> IF e.path \in Ledger!Parents(q) \cup {q} THEN None ELSE fs[q]]
        BY <1>5, <2>2 DEF Ledger!Removed
      <3>2. left' = left /\ loose' = loose
        BY <1>3, <1>5, <2>2, <3>1 DEF LedgerInv, LedgerTypes, Ledger!TypeOK
      <3> QED
        BY <1>1, <1>2, <2>2, <3>1, <3>2, TreeIsGone DEF LedgerInv, LedgerTypes, Ledger!TypeOK
    <2>3. CASE e.kind = "dir" /\ Ledger!InDir(e.path) # {}
      <3>1. fs' = fs
        BY <1>5, <2>3 DEF Ledger!Removed
      <3>2. left' = left \cup {e.path} /\ UNCHANGED <<fs, loose>>
        BY <1>3, <1>5, <2>3, <3>1 DEF Ledger!There, LedgerInv, LedgerTypes, Ledger!TypeOK
      <3> QED
        BY <1>4, <3>2
    <2>4. CASE e.kind = "file" \/ (e.kind = "dir" /\ Ledger!InDir(e.path) = {})
      <3>1. fs' = [fs EXCEPT ![e.path] = None]
        BY <1>5, <2>4 DEF Ledger!Removed
      <3>2. left' = left /\ loose' = loose
        BY <1>3, <1>5, <2>4, <3>1 DEF LedgerInv, LedgerTypes, Ledger!TypeOK
      <3>3. /\ fs' \in [Places -> {None} \cup [by : {"run", "other", "start"}, dir : BOOLEAN]]
            /\ TreeInv' /\ EntriesAreOurs' /\ OursAreKnown' /\ ModeIsKnown'
            /\ \A q \in Places : fs[q] # None /\ fs[q].by # "run" => fs'[q] = fs[q]
        BY <1>1, <1>2, <2>4, <3>1, <3>2, OneIsGone
      <3> QED
        BY <3>2, <3>3 DEF LedgerInv, LedgerTypes, Ledger!TypeOK
    <2> QED
      BY <1>3, <2>1, <2>2, <2>3, <2>4 DEF EntrySet
  <1>6. Good
    <2>1. \/ /\ fs' = Ledger!Removed(e) /\ loose' = (loose \/ e.kind = "mode")
             /\ left' = IF e.kind # "mode" /\ fs'[e.path] # None THEN left \cup {e.path} ELSE left
          \/ left' = left \cup {e.path} /\ UNCHANGED <<fs, loose>>
      BY <1>2 DEF Ledger!UndoOne
    <2> HIDE DEF Good
    <2> QED
      BY <1>4, <1>5, <2>1
  <1>7. GitIsKnown' /\ GitIsMade'
    BY <1>1 DEF LedgerInv, GitIsKnown, GitIsMade
  <1>8. LedgerTypes'
    BY <1>1, <1>3, <1>6 DEF LedgerInv, LedgerTypes, Ledger!TypeOK, EntrySet
  <1> QED
    BY <1>1, <1>6, <1>7, <1>8 DEF LedgerInv

(* What an earlier command made is a start like any other.                 *)
LEMMA BeginKeeps ==
  ASSUME Ledger!LedgerAssumption, LedgerInv, NEW c \in DOMAIN Plans, Ledger!Begin(c)
  PROVE  LedgerInv'
  <1>1. /\ phase = "idle" \/ (phase = "done" /\ command = "adopt" /\ c = "gate")
        /\ command' = c /\ phase' = "write" /\ step' = 1 /\ ledger' = <<>>
        /\ before' = [loose |-> loose, hooksPath |-> hooksPath]
        /\ UNCHANGED <<loose, hooksPath, listed, wiredHere, signal, failed, left>>
    BY DEF Ledger!Begin
  <1>2. fs' = [p \in Places |-> IF fs[p] # None /\ fs[p].by = "run" THEN [fs[p] EXCEPT !.by = "start"] ELSE fs[p]]
    BY DEF Ledger!Begin, Ledger!There
  <1>3. c = "gate" => hooksPath # "elsewhere"
    BY DEF Ledger!Begin, Ledger!Allowed
  <1>4. \A p \in Places : fs[p] \in {None} \cup [by : {"run", "other", "start"}, dir : BOOLEAN]
    BY DEF LedgerInv, LedgerTypes, Ledger!TypeOK
  <1>5. \A p \in Places : /\ fs'[p] \in {None} \cup [by : {"run", "other", "start"}, dir : BOOLEAN]
                          /\ (fs'[p] # None <=> fs[p] # None) /\ (fs[p] # None => fs'[p].dir = fs[p].dir /\ fs'[p].by # "run")
    <2> TAKE p \in Places
    <2>1. CASE fs[p] # None /\ fs[p].by = "run"
      <3>1. fs[p] \in [by : {"run", "other", "start"}, dir : BOOLEAN]
        BY <1>4, <2>1
      <3>2. fs'[p] = [fs[p] EXCEPT !.by = "start"]
        BY <1>2, <2>1
      <3>3. fs'[p] \in [by : {"run", "other", "start"}, dir : BOOLEAN] /\ fs'[p].dir = fs[p].dir /\ fs'[p].by = "start"
        BY <3>1, <3>2
      <3>4. fs'[p] # None
        BY <3>3 DEF Ledger!LedgerAssumption
      <3> QED
        BY <2>1, <3>3, <3>4
    <2>2. CASE ~(fs[p] # None /\ fs[p].by = "run")
      BY <1>2, <1>4, <2>2
    <2> QED
      BY <2>1, <2>2
  <1>6. fs' \in [Places -> {None} \cup [by : {"run", "other", "start"}, dir : BOOLEAN]]
    <2>1. DOMAIN fs' = Places /\ fs' = [p \in Places |-> fs'[p]]
      BY <1>2
    <2> QED
      BY <1>5, <2>1
  <1>7. TreeInv'
    <2> SUFFICES ASSUME NEW q \in Places, Ledger!There(q)', NEW r \in Ledger!Parents(q) PROVE Ledger!There(r)' /\ fs'[r].dir
      BY DEF TreeInv, Ledger!Parents, Ledger!Above
    <2>1. r \in Places
      BY ChainsAre
    <2> QED
      BY <1>5, <2>1 DEF Ledger!There, LedgerInv, TreeInv
  <1>8. EntriesAreOurs' /\ OursAreKnown'
    BY <1>1, <1>5 DEF EntriesAreOurs, OursAreKnown, Ledger!There
  <1>9. ModeIsKnown'
    BY <1>1 DEF LedgerInv, LedgerTypes, Ledger!TypeOK, ModeIsKnown
  <1>10. ~wiredHere /\ ~listed /\ ~signal /\ ~failed
    BY <1>1 DEF LedgerInv, LedgerTypes, Ledger!TypeOK, GitIsKnown
  <1>11. GitIsKnown'
    BY <1>1, <1>3, <1>10 DEF GitIsKnown
  <1>12. GitIsMade'
    BY <1>1 DEF GitIsMade
  <1>13. LedgerTypes'
    <2>1. ledger' \in Seq([kind : {"file", "dir", "tree", "mode"}, path : Places])
      BY <1>1
    <2> QED
      BY <1>1, <1>6, <2>1 DEF LedgerInv, LedgerTypes, Ledger!TypeOK
  <1> QED
    BY <1>1, <1>7, <1>8, <1>9, <1>11, <1>12, <1>13 DEF LedgerInv

LEMMA LedgerStarts ==
  ASSUME Ledger!LedgerAssumption, Ledger!Init
  PROVE  LedgerInv
  <1>1. PICK had \in SUBSET {Vault, State, Manifest} :
          LET folded == (UNION {Ledger!Parents(p) : p \in had}) \cup (had \ {Manifest})
          IN  /\ fs = [p \in Places |-> IF p \in folded THEN Ledger!Dir("start")
                                        ELSE IF p \in had THEN Ledger!File("start") ELSE None]
              /\ loose \in BOOLEAN /\ (loose => State \in had)
    BY DEF Ledger!Init
  <1>2. PICK folded : folded = (UNION {Ledger!Parents(p) : p \in had}) \cup (had \ {Manifest})
    OBVIOUS
  <1>3. fs = [p \in Places |-> IF p \in folded THEN Ledger!Dir("start") ELSE IF p \in had THEN Ledger!File("start") ELSE None]
        /\ loose \in BOOLEAN
    BY <1>1, <1>2, Zenon
  <1>4. /\ Ledger!Dir("start") \in [by : {"run", "other", "start"}, dir : BOOLEAN] /\ Ledger!Dir("start").by = "start" /\ Ledger!Dir("start").dir = TRUE
        /\ Ledger!File("start") \in [by : {"run", "other", "start"}, dir : BOOLEAN] /\ Ledger!File("start").by = "start"
    BY DEF Ledger!Dir, Ledger!File
  <1>5. Ledger!Dir("start") # None /\ Ledger!File("start") # None
    BY <1>4 DEF Ledger!LedgerAssumption
  <1>6. fs \in [Places -> {None} \cup [by : {"run", "other", "start"}, dir : BOOLEAN]]
    BY <1>3, <1>4
  <1>7. TreeInv
    <2> SUFFICES ASSUME NEW q \in Places, Ledger!There(q), NEW r \in Ledger!Parents(q) PROVE Ledger!There(r) /\ fs[r].dir
      BY DEF TreeInv
    <2>1. q \in folded \cup had /\ r \in Places /\ Ledger!Parents(r) \subseteq Ledger!Parents(q)
      BY <1>3, ChainsAre DEF Ledger!There
    <2>2. \E p \in had : p = q \/ q \in Ledger!Parents(p)
      <3>1. q \in folded => (\E s \in {Ledger!Parents(p) : p \in had} : q \in s) \/ q \in had
        <4>1. PICK all : all = {Ledger!Parents(p) : p \in had}
          OBVIOUS
        <4>2. folded = (UNION all) \cup (had \ {Manifest})
          BY <1>2, <4>1
        <4>3. q \in folded => (\E s \in all : q \in s) \/ q \in had
          BY <4>2, Zenon
        <4> QED
          BY <4>1, <4>3
      <3>2. (\E s \in {Ledger!Parents(p) : p \in had} : q \in s) => \E p \in had : q \in Ledger!Parents(p)
        OBVIOUS
      <3> QED
        BY <2>1, <3>1, <3>2
    <2>3. PICK p \in had : p = q \/ q \in Ledger!Parents(p)
      BY <2>2
    <2>4. p \in Places
      BY DEF Ledger!LedgerAssumption
    <2>5. r \in Ledger!Parents(p)
      BY <2>3, <2>4, ChainsAre
    <2>6. r \in folded
      BY <1>2, <2>5
    <2> QED
      BY <1>3, <1>4, <1>5, <2>1, <2>6 DEF Ledger!There
  <1>8. OursAreKnown
    BY <1>3, <1>4 DEF OursAreKnown, Ledger!There
  <1>9. /\ ledger = <<>> /\ phase = "idle" /\ step = 1 /\ signal = FALSE /\ failed = FALSE /\ left = {} /\ listed = FALSE
        /\ wiredHere = FALSE /\ hooksPath \in {None, "ours", "elsewhere"}
        /\ before = [loose |-> loose, hooksPath |-> hooksPath]
    BY DEF Ledger!Init
  <1>10. EntriesAreOurs /\ ModeIsKnown /\ GitIsKnown /\ GitIsMade
    BY <1>3, <1>9 DEF EntriesAreOurs, ModeIsKnown, GitIsKnown, GitIsMade
  <1>11. LedgerTypes
    <2>1. ledger \in Seq([kind : {"file", "dir", "tree", "mode"}, path : Places])
      BY <1>9
    <2>2. before \in [loose : BOOLEAN, hooksPath : {None, "ours", "elsewhere"}]
      BY <1>3, <1>9
    <2>3. Ledger!TypeOK
      BY <1>3, <1>6, <1>9, <2>1 DEF Ledger!TypeOK
    <2> QED
      <3>1. step \in Nat \ {0}
        BY <1>9
      <3>2. signal \in BOOLEAN /\ failed \in BOOLEAN
        BY <1>9
      <3> QED
        BY <1>9, <2>2, <2>3, <3>1, <3>2 DEF LedgerTypes
  <1> QED
    BY <1>7, <1>8, <1>9, <1>10, <1>11 DEF LedgerInv

(* Where no mkdir is done by half, a step keeps all of it.                 *)
LEMMA LedgerStep ==
  ASSUME Ledger!LedgerAssumption, ~HalfMade, LedgerInv, [Ledger!Next]_(Ledger!vars)
  PROVE  LedgerInv'
  <1>1. CASE UNCHANGED Ledger!vars
    <2>1. /\ UNCHANGED <<fs, loose, ledger, left, before>>
          /\ UNCHANGED <<hooksPath, listed, command, step, wiredHere, signal, failed, phase>>
      BY <1>1 DEF Ledger!vars
    <2>2. TreeInv' /\ EntriesAreOurs' /\ OursAreKnown' /\ ModeIsKnown'
      BY <2>1, StillOurs
    <2> QED
      BY <2>1, <2>2 DEF LedgerInv, LedgerTypes, Ledger!TypeOK, GitIsKnown, GitIsMade, InLedger
  <1>2. ASSUME NEW c \in DOMAIN Plans, Ledger!Begin(c) PROVE LedgerInv'
    BY <1>2, BeginKeeps
  <1>3. ASSUME NEW p \in Places, \/ Ledger!Other(p) \/ Ledger!Private(p) \/ Ledger!WriteNew(p) \/ Ledger!CutShort(p) \/ Ledger!OwnTree(p)
                                 \/ Ledger!Fill(p) \/ Ledger!Wire(p) \/ Ledger!Record(p) \/ Ledger!HalfDirs(p)
        PROVE  LedgerInv'
    <2>1. ~Ledger!HalfDirs(p)
      BY DEF Ledger!HalfDirs
    <2> QED
      BY <1>3, <2>1, OtherKeeps, PrivateKeeps, WriteNewKeeps, CutShortKeeps, OwnTreeKeeps, FillKeeps, WireKeeps, RecordKeeps
  <1>4. CASE Ledger!Fail \/ Ledger!Signal \/ Ledger!Stop \/ Ledger!UndoOne \/ Ledger!Undone
    BY <1>4, FailKeeps, SignalKeeps, StopKeeps, UndoOneKeeps, UndoneKeeps
  <1> QED
    BY <1>1, <1>2, <1>3, <1>4 DEF Ledger!Next

(* What a command made is known to its ledger, or named as left, and each  *)
(* entry is of something only it can have made (skeleton.mjs, machine.mjs).*)
THEOREM LedgerInvariant ==
  ASSUME Ledger!LedgerAssumption, ~HalfMade
  PROVE  Ledger!Spec => []LedgerInv
  <1>1. Ledger!Init => LedgerInv
    BY LedgerStarts
  <1>2. LedgerInv /\ [Ledger!Next]_(Ledger!vars) => LedgerInv'
    BY LedgerStep
  <1> QED
    BY <1>1, <1>2, PTL DEF Ledger!Spec

(* An undo leaves nothing of the run but what it names, the mode and git's *)
(* configuration as they were, and no record of a hook that is not there.  *)
THEOREM NothingIsEverLeftWrong ==
  ASSUME Ledger!LedgerAssumption, ~HalfMade
  PROVE  Ledger!Spec => []Ledger!NothingIsLeftWrong
  <1>1. ASSUME LedgerInv PROVE Ledger!NothingIsLeftWrong
    <2>1. ASSUME phase = "undone" PROVE Ledger!UndoIsExact
      <3>1. ledger = <<>> /\ \A p : ~InLedger(p)
        BY <1>1, <2>1 DEF LedgerInv, InLedger
      <3>2. \A p \in Places : (Ledger!There(p) /\ fs[p].by = "run") => \E q \in left : q = p \/ q \in Ledger!Parents(p) \/ p \in Ledger!Parents(q)
        BY <1>1, <3>1 DEF LedgerInv, OursAreKnown, WillGo
      <3>3. (loose # before.loose) => State \in left
        BY <1>1, <3>1 DEF LedgerInv, LedgerTypes, Ledger!TypeOK, ModeIsKnown
      <3>4. hooksPath = before.hooksPath /\ ~listed
        BY <1>1, <2>1 DEF LedgerInv, GitIsKnown
      <3> QED
        BY <3>2, <3>3, <3>4 DEF Ledger!UndoIsExact
    <2> QED
      BY <1>1, <2>1 DEF Ledger!NothingIsLeftWrong, Ledger!UndoIsExact, LedgerInv, LedgerTypes
  <1> QED
    BY <1>1, LedgerInvariant, PTL

(* Directories are made where there was nothing.                           *)
LEMMA WithDirsKeeps ==
  ASSUME TreeInv, NEW chain, IsChain(chain), NEW q \in Places, Ledger!There(q)
  PROVE  Ledger!WithDirs(chain)[q] = fs[q]
  <1>1. \A r \in Ledger!ToSet(Ledger!Missing(chain)) : ~Ledger!There(r)
    BY MissingIs
  <1> QED
    BY <1>1 DEF Ledger!WithDirs

LEMMA OthersStay ==
  ASSUME Ledger!LedgerAssumption, ~HalfMade, LedgerInv, [Ledger!Next]_(Ledger!vars)
  PROVE  Ledger!OthersAreKept
  <1> SUFFICES ASSUME phase \in {"write", "undo"}, NEW q \in Places,
                      Ledger!There(q), fs[q].by # "run", ~(Git \in Ledger!Parents(q) /\ fs[Git].by = "run")
               PROVE  fs'[q] = fs[q]
    BY DEF Ledger!OthersAreKept
  <1>1. CASE UNCHANGED fs
    BY <1>1
  <1>2. ASSUME NEW c \in DOMAIN Plans, Ledger!Begin(c) PROVE FALSE
    BY <1>2 DEF Ledger!Begin
  <1>3. ASSUME NEW p \in Places, Ledger!Other(p) \/ Ledger!Fill(p) PROVE fs'[q] = fs[q]
    BY <1>3, OtherKeeps, FillKeeps
  <1>4. ASSUME NEW p \in Places, Ledger!Private(p) PROVE fs'[q] = fs[q]
    <2>1. fs' = Ledger!WithDirs(Chain[p]) /\ IsChain(Chain[p]) /\ TreeInv
      BY <1>4, ChainsAre DEF Ledger!Private, LedgerInv
    <2> QED
      BY <2>1, WithDirsKeeps
  <1>5. ASSUME NEW p \in Places, Ledger!WriteNew(p) \/ Ledger!CutShort(p) PROVE fs'[q] = fs[q]
    <2>1. fs' = [Ledger!WithDirs(Ledger!Front(Chain[p])) EXCEPT ![p] = Ledger!File("run")] /\ ~Ledger!There(p)
      BY <1>5 DEF Ledger!WriteNew, Ledger!CutShort
    <2>2. IsChain(Ledger!Front(Chain[p])) /\ TreeInv
      BY ChainsAre, FrontIsAChain DEF LedgerInv
    <2>3. Ledger!WithDirs(Ledger!Front(Chain[p]))[q] = fs[q] /\ p # q
      BY <2>1, <2>2, WithDirsKeeps
    <2> QED
      BY <2>1, <2>3
  <1>6. ASSUME NEW p \in Places, Ledger!OwnTree(p) PROVE fs'[q] = fs[q]
    BY <1>6 DEF Ledger!OwnTree
  <1>7. CASE Ledger!UndoOne
    BY <1>7, UndoOneKeeps DEF Ledger!There
  <1>8. ASSUME NEW p \in Places, Ledger!Wire(p) \/ Ledger!Record(p) \/ Ledger!HalfDirs(p) PROVE UNCHANGED fs
    BY <1>8 DEF Ledger!Wire, Ledger!Record, Ledger!HalfDirs
  <1>9. ASSUME Ledger!Fail \/ Ledger!Signal \/ Ledger!Stop \/ Ledger!Undone \/ UNCHANGED Ledger!vars PROVE UNCHANGED fs
    BY <1>9 DEF Ledger!Fail, Ledger!Signal, Ledger!Stop, Ledger!Undone, Ledger!vars
  <1> QED
    BY <1>1, <1>2, <1>3, <1>4, <1>5, <1>6, <1>7, <1>8, <1>9 DEF Ledger!Next

(* Neither the writes of a command nor its undo touch what was there, or   *)
(* what another process made meanwhile, but inside the .git it made.       *)
THEOREM OthersAreAlwaysKept ==
  ASSUME Ledger!LedgerAssumption, ~HalfMade
  PROVE  Ledger!Spec => [][Ledger!OthersAreKept]_(Ledger!vars)
  <1>1. LedgerInv /\ [Ledger!Next]_(Ledger!vars) => Ledger!OthersAreKept
    BY OthersStay
  <1> QED
    BY <1>1, LedgerInvariant, PTL DEF Ledger!Spec

(***************************************************************************)
(* PushGate: the history, what reading it covers, and what lands.          *)
(***************************************************************************)

Kinds == {"message", "author", "header"}
Contents == {Gate!Absent, "declares", "bare", "word", "shape", "plain", "link"}
CommitSet == [parents : SUBSET Nat, tree : [Gate!Paths -> Contents], texts : [Kinds -> Gate!Texts]]

(* The history: a commit's parents were made before it.                    *)
HistoryInv ==
    /\ commits \in Seq(CommitSet)
    /\ \A c \in Gate!Ids : commits[c].parents \in SUBSET (1 .. c - 1)

(***************************************************************************)
(* What is reached.                                                        *)
(***************************************************************************)

LEMMA ReachHolds ==
  ASSUME HistoryInv, NEW from, from \subseteq {Gate!NoCommit} \cup Gate!Ids
  PROVE  Gate!Reach(from) \in SUBSET Gate!Ids /\ from \ {Gate!NoCommit} \subseteq Gate!Reach(from) /\ Gate!Whole(Gate!Reach(from))
  <1>1. \A c \in Gate!Ids : commits[c].parents \in SUBSET Gate!Ids
    <2> TAKE c \in Gate!Ids
    <2>1. Len(commits) \in Nat /\ c \in Nat /\ c <= Len(commits)
      BY DEF Gate!Ids, HistoryInv
    <2> QED
      BY <2>1 DEF HistoryInv, Gate!Ids
  <1>2. ASSUME NEW c \in Gate!Reach(from), NEW q \in commits[c].parents PROVE q \in Gate!Reach(from)
    BY <1>1, <1>2, Zenon DEF Gate!Reach, Gate!Whole
  <1> QED
    BY <1>2, Zenon DEF Gate!Reach, Gate!Whole

LEMMA ReachLeast ==
  ASSUME NEW cs \in SUBSET Gate!Ids, Gate!Whole(cs), NEW from, from \ {Gate!NoCommit} \subseteq cs
  PROVE  Gate!Reach(from) \subseteq cs
  BY DEF Gate!Reach

LEMMA ReachIsOfOne ==
  ASSUME HistoryInv, NEW from, from \subseteq {Gate!NoCommit} \cup Gate!Ids, NEW c \in Gate!Reach(from)
  PROVE  \E x \in from \ {Gate!NoCommit} : c \in Gate!Reach({x})
  <1> DEFINE all == {d \in Gate!Ids : \E x \in from \ {Gate!NoCommit} : d \in Gate!Reach({x})}
  <1>1. \A x \in from \ {Gate!NoCommit} : {x} \subseteq {Gate!NoCommit} \cup Gate!Ids /\ x \in Gate!Ids /\ x # Gate!NoCommit
    OBVIOUS
  <1>2. \A x \in from \ {Gate!NoCommit} : Gate!Reach({x}) \in SUBSET Gate!Ids /\ x \in Gate!Reach({x}) /\ Gate!Whole(Gate!Reach({x}))
    BY <1>1, ReachHolds
  <1>3. from \ {Gate!NoCommit} \subseteq all
    BY <1>1, <1>2
  <1>4. Gate!Whole(all)
    BY <1>2, Zenon DEF Gate!Whole
  <1> QED
    BY <1>3, <1>4, ReachLeast

LEMMA ReachGrows ==
  ASSUME HistoryInv, NEW x \in Gate!Ids, NEW c \in Gate!Reach({x})
  PROVE  Gate!Reach({c}) \subseteq Gate!Reach({x})
  <1>1. 0 \notin Gate!Ids
    BY DEF Gate!Ids
  <1>2. {x} \subseteq {Gate!NoCommit} \cup Gate!Ids
    OBVIOUS
  <1>3. Gate!Reach({x}) \in SUBSET Gate!Ids /\ Gate!Whole(Gate!Reach({x}))
    BY <1>2, ReachHolds
  <1> QED
    BY <1>3, ReachLeast, Zenon

(* A file comes to a commit from one it reaches that brought it.           *)
LEMMA Origin ==
  ASSUME HistoryInv, NEW c \in Gate!Ids, NEW p \in Gate!Paths, commits[c].tree[p] # Gate!Absent
  PROVE  \E d \in Gate!Reach({c}) : commits[d].tree[p] = commits[c].tree[p] /\ Gate!NewTo(d, p)
  <1> DEFINE same == {d \in Gate!Reach({c}) : commits[d].tree[p] = commits[c].tree[p]}
  <1>1. {c} \subseteq {Gate!NoCommit} \cup Gate!Ids /\ c # Gate!NoCommit
    BY DEF Gate!Ids, Gate!NoCommit
  <1>2. Gate!Reach({c}) \in SUBSET Gate!Ids /\ c \in Gate!Reach({c}) /\ Gate!Whole(Gate!Reach({c}))
    BY <1>1, ReachHolds
  <1>3. Gate!Ids \subseteq Nat /\ same \in SUBSET Gate!Ids /\ same # {}
    <2>1. Len(commits) \in Nat
      BY DEF HistoryInv
    <2>2. c \in same
      BY <1>2
    <2>3. Gate!Ids \subseteq Nat
      BY <2>1 DEF Gate!Ids
    <2>4. same \subseteq Gate!Ids
      BY <1>2
    <2> QED
      BY <2>2, <2>3, <2>4
  <1>4. PICK d \in same : \A k \in same : d <= k
    <2> HIDE DEF same
    <2>1. same \in SUBSET Nat
      BY <1>3
    <2> QED
      BY <1>3, <2>1, LeastOne
  <1>5. d \in Gate!Ids /\ d \in Nat
    BY <1>3
  <1>6. \A q \in commits[d].parents : q \in Nat /\ q < d /\ q \in Gate!Reach({c})
    <2>1. commits[d].parents \in SUBSET (1 .. d - 1)
      BY <1>5 DEF HistoryInv
    <2>2. commits[d].parents \subseteq Gate!Reach({c})
      BY <1>2, <1>4, Zenon DEF Gate!Whole
    <2> HIDE DEF same
    <2> TAKE q \in commits[d].parents
    <2>3. q \in 1 .. d - 1
      BY <2>1
    <2>4. q \in Nat /\ q < d
      BY <1>5, <2>3
    <2> QED
      BY <2>2, <2>4
  <1>7. \A q \in commits[d].parents : commits[q].tree[p] # commits[d].tree[p]
    <2> SUFFICES ASSUME NEW q \in commits[d].parents, commits[q].tree[p] = commits[d].tree[p]
                 PROVE  FALSE
      OBVIOUS
    <2>1. q \in same
      BY <1>4, <1>6
    <2>2. q \in Nat /\ q < d /\ d <= q
      BY <1>4, <1>6, <2>1
    <2> QED
      BY <1>5, <2>2
  <1>8. Gate!NewTo(d, p)
    BY <1>7, Zenon DEF Gate!NewTo
  <1> QED
    BY <1>8

(***************************************************************************)
(* History only grows.                                                     *)
(***************************************************************************)

Grown ==
    /\ HistoryInv'
    /\ Gate!Ids \subseteq Gate!Ids'
    /\ \A c \in Gate!Ids : commits'[c] = commits[c]

LEMMA ReachStays ==
  ASSUME HistoryInv, Grown, NEW from, from \subseteq {Gate!NoCommit} \cup Gate!Ids
  PROVE  Gate!Reach(from)' = Gate!Reach(from)
  <1>0. PICK now : now = Gate!Reach(from)
    OBVIOUS
  <1> DEFINE then == Gate!Reach(from)'
  <1>1. now \in SUBSET Gate!Ids /\ from \ {Gate!NoCommit} \subseteq now /\ Gate!Whole(now)
    BY <1>0, ReachHolds
  <1>2. then \subseteq now
    <2>1. now \in SUBSET Gate!Ids' /\ Gate!Whole(now)'
      BY <1>1, Zenon DEF Grown, Gate!Whole
    <2> QED
      BY <1>1, <2>1 DEF Gate!Reach
  <1>3. now \subseteq then
    <2> SUFFICES ASSUME NEW c \in Gate!Ids, NEW cs \in SUBSET Gate!Ids', from \ {Gate!NoCommit} \subseteq cs, Gate!Whole(cs)', c \in now
                 PROVE  c \in cs
      BY <1>0, <1>1 DEF Grown, Gate!Reach
    <2>1. Gate!Whole(cs \cap Gate!Ids)
      <3> SUFFICES ASSUME NEW d \in cs \cap Gate!Ids, NEW q \in commits[d].parents PROVE q \in cs \cap Gate!Ids
        BY Zenon DEF Gate!Whole
      <3>1. q \in cs
        BY d \in cs /\ commits'[d] = commits[d] DEF Gate!Whole, Grown
      <3>2. commits[d].parents \in SUBSET (1 .. d - 1) /\ d \in Nat /\ d <= Len(commits) /\ Len(commits) \in Nat
        BY DEF HistoryInv, Gate!Ids
      <3> QED
        BY <3>1, <3>2 DEF Gate!Ids
    <2> QED
      BY <1>0, <2>1, ReachLeast
  <1> QED
    BY <1>0, <1>2, <1>3

(***************************************************************************)
(* The push.                                                               *)
(***************************************************************************)

PushFields == {"phase", "lines", "asked", "excluded", "at", "listed", "blobs", "heads", "patterns"}
TipSet  == [kind : {"none", "commit", "blob", "tree"}, chain : Chains, commit : Nat, text : {"plain", "word"}]
LineSet == [ref : Refs, tip : TipSet, old : Nat]

TipIsThere(tip) ==
    /\ tip.kind \in {"commit", "tree"} => tip.commit \in Gate!Ids
    /\ tip.kind = "none" => tip.commit = Gate!NoCommit
    /\ tip.kind # "blob" => tip.text = "plain"

RefsInv ==
    /\ known \in SUBSET Gate!Ids /\ 1 \in known
    /\ published \in SUBSET Gate!Ids /\ Gate!Whole(published)
    /\ remote \in [Refs -> published \cup {Gate!NoCommit}]
    /\ tracking \in [Refs -> Gate!Ids \cup {Gate!NoCommit}]

PushTypes ==
    /\ push = [f \in PushFields |-> push[f]]
    /\ push.phase \in {"none", "list", "scan", "send", "refused", "done"}
    /\ push.lines \in Seq(LineSet)
    /\ \A i \in DOMAIN push.lines : TipIsThere(push.lines[i].tip) /\ push.lines[i].old \in published \cup {Gate!NoCommit}
    /\ push.at \in Nat \ {0} /\ push.listed \in Seq(DOMAIN push.lines)
    /\ push.excluded \in SUBSET published /\ push.heads \in SUBSET Gate!Ids /\ push.blobs \in SUBSET (Gate!Ids \X Gate!Paths)

(* What a listed line adds to the remote is published or will be read.     *)
WillBeRead(c) ==
    c \in published \/ (c \in push.heads /\ \A p \in Gate!Paths : Gate!NewTo(c, p) => <<c, p>> \in push.blobs)
ReadInv ==
    \A i \in Gate!ToSet(push.listed) :
        push.lines[i].tip.kind = "commit" => \A c \in Gate!Reach({push.lines[i].tip.commit}) : WillBeRead(c)

Cleared(patterns) ==
    /\ Gate!Asked \subseteq patterns /\ patterns \subseteq {"word", "me"}
    /\ Gate!AnswersForAll /\ Gate!StreamIsClean(patterns)
    /\ \A b \in push.blobs : Gate!FileIsClean(b[2], commits[b[1]].tree[b[2]], patterns)
    /\ \A c \in push.heads : Gate!CommitIsClean(c, patterns)
SendInv == push.phase = "send" => Cleared(push.patterns)

GateInv == HistoryInv /\ RefsInv /\ PushTypes /\ ReadInv /\ SendInv

(***************************************************************************)
(* The patterns read are all that were asked.                              *)
(***************************************************************************)

LEMMA TipsAreThere ==
  ASSUME PushTypes
  PROVE  Gate!TipCommits \in SUBSET Gate!Ids
  BY DEF PushTypes, TipIsThere, Gate!TipCommits

LEMMA AllAskedAreRead ==
  ASSUME HistoryInv, RefsInv, PushTypes
  PROVE  Gate!Asked \subseteq Gate!Patterns
  <1>1. Gate!Roots(tracking) \subseteq {Gate!NoCommit} \cup Gate!Ids
    BY DEF Gate!Roots, RefsInv
  <1>2. Gate!TipCommits \subseteq {Gate!NoCommit} \cup Gate!Ids
    BY TipsAreThere
  <1>3. Gate!Held \in SUBSET Gate!Ids /\ Gate!Whole(Gate!Held) /\ Gate!Reach(Gate!TipCommits) \in SUBSET Gate!Ids /\ Gate!Whole(Gate!Reach(Gate!TipCommits))
    BY <1>1, <1>2, ReachHolds DEF Gate!Held
  <1>4. ASSUME NEW c \in Gate!Declares
        PROVE  \E d \in Gate!TipCommits \cup Gate!CarriedConfigs : Gate!ConfigOf(c) = Gate!Absent \/ Gate!ConfigOf(d) = Gate!ConfigOf(c)
    <2>1. c \in Gate!Ids /\ c \in Gate!Reach(Gate!TipCommits) /\ c # Gate!NoCommit
      BY <1>3, <1>4 DEF Gate!Declares, Gate!Ids, Gate!NoCommit
    <2>2. CASE Gate!ConfigOf(c) = Gate!Absent
      <3>1. PICK x \in Gate!TipCommits \ {Gate!NoCommit} : c \in Gate!Reach({x})
        BY <1>2, <2>1, ReachIsOfOne
      <3> QED
        BY <2>2, <3>1
    <2>3. CASE Gate!ConfigOf(c) # Gate!Absent
      <3>1. PICK d \in Gate!Reach({c}) : commits[d].tree["config"] = commits[c].tree["config"] /\ Gate!NewTo(d, "config")
        BY <2>1, <2>3, Origin DEF Gate!ConfigOf, Gate!Paths
      <3>2. PICK x \in Gate!TipCommits \ {Gate!NoCommit} : c \in Gate!Reach({x})
        BY <1>2, <2>1, ReachIsOfOne
      <3>3. Gate!Reach({c}) \subseteq Gate!Reach(Gate!TipCommits)
        BY <1>3, <2>1, ReachLeast, {c} \ {Gate!NoCommit} \subseteq Gate!Reach(Gate!TipCommits)
      <3>4. d \in Gate!Reach(Gate!TipCommits) /\ d \in Gate!Ids /\ d # Gate!NoCommit
        <4>1. d \in Gate!Reach(Gate!TipCommits)
          BY <3>1, <3>3
        <4>2. d \in Gate!Ids
          BY <1>3, <4>1
        <4>3. Gate!NoCommit \notin Gate!Ids
          BY DEF Gate!Ids, Gate!NoCommit
        <4> QED
          BY <4>1, <4>2, <4>3, Zenon
      <3>5. Gate!ConfigOf(d) = Gate!ConfigOf(c) /\ Gate!ConfigOf(c) # Gate!Absent
        BY <2>1, <2>3, <3>1, <3>4 DEF Gate!ConfigOf
      <3>6. d \notin Gate!Held
        BY <1>4, <3>1, <3>5 DEF Gate!Declares
      <3>7. Gate!ChangesConfig(d)
        <4>1. \A q \in commits[d].parents : q # Gate!NoCommit
          BY <3>4 DEF HistoryInv, Gate!NoCommit, Gate!Ids
        <4> QED
          BY <3>1, <3>4, <3>5, <4>1 DEF Gate!NewTo, Gate!ChangesConfig, Gate!ConfigOf
      <3> QED
        BY <3>4, <3>5, <3>6, <3>7, Zenon DEF Gate!CarriedConfigs, Gate!Held
    <2> QED
      BY <2>2, <2>3
  <1>5. Gate!DeclaredBy(Gate!Absent) = {}
    BY DEF Gate!DeclaredBy, Gate!Absent
  <1>6. ASSUME NEW w \in Gate!Asked PROVE w \in Gate!Patterns
    <2>1. PICK s \in {working, Gate!ConfigOf(tracking[Gate!Main])} \cup {Gate!ConfigOf(c) : c \in Gate!TipCommits \cup Gate!Declares} :
             w \in Gate!DeclaredBy(s)
      BY <1>6, Zenon DEF Gate!Asked
    <2>2. s \in Gate!Sources
      <3>1. CASE s \in {working, Gate!ConfigOf(tracking[Gate!Main])}
        BY <3>1 DEF Gate!Sources
      <3>2. ASSUME NEW c \in Gate!TipCommits, s = Gate!ConfigOf(c) PROVE s \in Gate!Sources
        BY <3>2 DEF Gate!Sources
      <3>3. ASSUME NEW c \in Gate!Declares, s = Gate!ConfigOf(c) PROVE s \in Gate!Sources
        BY <1>4, <1>5, <2>1, <3>3 DEF Gate!Sources
      <3> QED
        BY <2>1, <3>1, <3>2, <3>3
    <2> QED
      BY <2>1, <2>2, Zenon DEF Gate!Patterns
  <1> QED
    BY <1>6

LEMMA PatternsAreOurs == Gate!Patterns \subseteq {"word", "me"}
  BY DEF Gate!Patterns, Gate!DeclaredBy

(***************************************************************************)
(* What other clones do meanwhile changes nothing that was decided.        *)
(***************************************************************************)

LEMMA AskedStays ==
  ASSUME Gate!GateAssumption, HistoryInv, RefsInv, PushTypes, Grown, UNCHANGED <<push, tracking, working>>
  PROVE  Gate!Asked' = Gate!Asked
  <1>1. PICK tips : tips = Gate!TipCommits
    OBVIOUS
  <1>2. tips \in SUBSET Gate!Ids /\ Gate!TipCommits' = tips
    BY <1>1, TipsAreThere DEF Gate!TipCommits
  <1>3. PICK roots : roots = Gate!Roots(tracking)
    OBVIOUS
  <1>4. roots \subseteq {Gate!NoCommit} \cup Gate!Ids /\ Gate!Roots(tracking)' = roots
    BY <1>3 DEF Gate!Roots, RefsInv
  <1>5. Gate!Reach(tips)' = Gate!Reach(tips) /\ Gate!Reach(roots)' = Gate!Reach(roots) /\ \A c \in Gate!Ids : Gate!Reach({c})' = Gate!Reach({c})
    BY <1>2, <1>4, ReachStays
  <1>6. \A c \in Gate!Ids \cup {Gate!NoCommit} : Gate!ConfigOf(c)' = Gate!ConfigOf(c)
    BY DEF Gate!ConfigOf, Grown
  <1>7. Gate!Held' = Gate!Held /\ Gate!Held \in SUBSET Gate!Ids
    BY <1>3, <1>4, <1>5, ReachHolds DEF Gate!Held
  <1>8. Gate!Reach(Gate!TipCommits) = Gate!Reach(tips) /\ Gate!Reach(Gate!TipCommits)' = Gate!Reach(tips) /\ Gate!Reach(tips) \in SUBSET Gate!Ids
    BY <1>1, <1>2, <1>5, ReachHolds
  <1>9. Gate!Declares' = Gate!Declares /\ Gate!Declares \in SUBSET Gate!Ids
    BY <1>5, <1>6, <1>7, <1>8 DEF Gate!Declares
  <1>10. Gate!ConfigOf(tracking[Gate!Main])' = Gate!ConfigOf(tracking[Gate!Main])
    <2>1. tracking[Gate!Main] \in Gate!Ids \cup {Gate!NoCommit} /\ tracking' = tracking
      BY DEF RefsInv, Gate!GateAssumption
    <2>2. PICK c : c = tracking[Gate!Main]
      OBVIOUS
    <2>3. Gate!ConfigOf(c)' = Gate!ConfigOf(c) /\ tracking'[Gate!Main] = c
      BY <1>6, <2>1, <2>2
    <2> QED
      BY <2>2, <2>3 DEF Gate!ConfigOf
  <1> QED
    BY <1>1, <1>2, <1>6, <1>9, <1>10 DEF Gate!Asked

LEMMA LargestIsOne ==
  ASSUME HistoryInv, NEW S \in SUBSET Gate!Ids, S # {}
  PROVE  Gate!Max(S) \in S
  <1>1. Len(commits) \in Nat
    BY DEF HistoryInv
  <1> DEFINE below == {Len(commits) - k : k \in S}
  <1>2. S \subseteq Nat /\ \A k \in S : k <= Len(commits)
    BY <1>1 DEF Gate!Ids
  <1>3. below \in SUBSET Nat /\ below # {}
    <2>1. \A k \in S : Len(commits) - k \in Nat
      <3> TAKE k \in S
      <3>1. k \in Nat /\ k <= Len(commits)
        BY <1>2
      <3> QED
        BY <1>1, <3>1
    <2> QED
      BY <2>1
  <1> HIDE DEF below
  <1>4. PICK m \in below : \A b \in below : m <= b
    BY <1>3, LeastOne
  <1>5. PICK k \in S : m = Len(commits) - k
    BY <1>4 DEF below
  <1>6. \A j \in S : k >= j
    <2> TAKE j \in S
    <2>1. m <= Len(commits) - j
      BY <1>4 DEF below
    <2> QED
      BY <1>1, <1>2, <1>5, <2>1
  <1> QED
    BY <1>6, Zenon DEF Gate!Max

LEMMA ListingOf ==
  ASSUME NEW S, Gate!IsFiniteSet(S)
  PROVE  Gate!Cardinality(S) \in Nat /\ Gate!SetToSeq(S) \in [1 .. Gate!Cardinality(S) -> S]
  <1>1. Gate!IsFiniteSet(S) = IsFiniteSet(S) /\ Gate!Cardinality(S) = Cardinality(S)
    BY Zenon DEF IsFiniteSet, Gate!IsFiniteSet, Cardinality, Gate!Cardinality
  <1>2. Cardinality(S) \in Nat /\ ExistsBijection(1 .. Cardinality(S), S)
    BY <1>1, FS_CardinalityType
  <1>3. \E f \in [1 .. Cardinality(S) -> S] : Gate!IsInjective(f)
    BY <1>2, Zenon DEF ExistsBijection, Bijection, Injection, IsInjective, Gate!IsInjective
  <1> QED
    BY <1>1, <1>2, <1>3, Zenon DEF Gate!SetToSeq

(***************************************************************************)
(* A longer history.                                                       *)
(***************************************************************************)

LEMMA AppendGrows ==
  ASSUME HistoryInv, NEW c \in CommitSet, c.parents \in SUBSET Gate!Ids, commits' = Append(commits, c)
  PROVE  Grown /\ Len(commits') \in Nat \ {0} /\ Gate!Ids' = Gate!Ids \cup {Len(commits')} /\ commits'[Len(commits')] = c
         /\ Len(commits') \notin Gate!Ids
  <1>1. commits \in Seq(CommitSet) /\ Len(commits) \in Nat
    BY DEF HistoryInv
  <1>2. commits' \in Seq(CommitSet) /\ Len(commits') = Len(commits) + 1 /\ commits'[Len(commits) + 1] = c
    BY <1>1
  <1>3. \A d \in Gate!Ids : commits'[d] = commits[d]
    BY <1>1 DEF Gate!Ids
  <1>4. Gate!Ids' = Gate!Ids \cup {Len(commits')} /\ Len(commits') \notin Gate!Ids
    BY <1>1, <1>2 DEF Gate!Ids
  <1>5. \A d \in Gate!Ids' : commits'[d].parents \in SUBSET (1 .. d - 1)
    <2> TAKE d \in Gate!Ids'
    <2>1. CASE d \in Gate!Ids
      BY <1>3, <2>1 DEF HistoryInv
    <2>2. CASE d = Len(commits) + 1
      <3>1. c.parents \subseteq 1 .. d - 1
        BY <1>1, <2>2 DEF Gate!Ids
      <3> QED
        BY <1>2, <2>2, <3>1
    <2> QED
      BY <1>2, <1>4, <2>1, <2>2
  <1> QED
    <2>1. HistoryInv'
      BY <1>2, <1>5 DEF HistoryInv
    <2>2. Gate!Ids \subseteq Gate!Ids'
      BY <1>4
    <2>3. Grown
      BY <1>3, <2>1, <2>2, Zenon DEF Grown
    <2>4. Len(commits') \in Nat \ {0} /\ commits'[Len(commits')] = c
      BY <1>1, <1>2
    <2> QED
      BY <1>4, <2>3, <2>4

LEMMA CommitsAreTyped ==
  ASSUME HistoryInv, NEW parents \in SUBSET Gate!Ids, NEW changes,
         \A ch \in changes : \/ ch[1] \in Gate!Paths /\ ch[2] \in Gate!ContentsOf(ch[1])
                             \/ ch[1] \in Kinds /\ ch[2] \in Gate!Texts,
         NEW c \in Gate!NewCommits(parents, changes)
  PROVE  c \in CommitSet /\ c.parents = parents
  <1>1. PICK paths \in Gate!Merged(parents) : \E ch \in changes :
            c = [parents |-> parents, tree |-> IF ch[1] \in Gate!Paths THEN [paths EXCEPT ![ch[1]] = ch[2]] ELSE paths,
                 texts |-> IF ch[1] \in Gate!Paths THEN Gate!Mine ELSE [Gate!Mine EXCEPT ![ch[1]] = ch[2]]]
    BY DEF Gate!NewCommits
  <1>2. PICK ch \in changes :
            c = [parents |-> parents, tree |-> IF ch[1] \in Gate!Paths THEN [paths EXCEPT ![ch[1]] = ch[2]] ELSE paths,
                 texts |-> IF ch[1] \in Gate!Paths THEN Gate!Mine ELSE [Gate!Mine EXCEPT ![ch[1]] = ch[2]]]
    BY <1>1
  <1>3. paths \in [Gate!Paths -> Contents]
    <2>1. \A d \in Gate!Ids : commits[d].tree \in [Gate!Paths -> Contents]
      <3>1. \A d \in 1 .. Len(commits) : commits[d] \in CommitSet
        BY DEF HistoryInv
      <3> QED
        BY <3>1 DEF CommitSet, Gate!Ids
    <2>2. CASE parents = {}
      BY <1>1, <2>2 DEF Gate!Merged, Gate!Bare, Contents, Gate!Paths, Gate!Absent
    <2>3. CASE parents # {}
      <3>1. PICK of \in [Gate!Paths -> parents] : paths = [p \in Gate!Paths |-> commits[of[p]].tree[p]]
        BY <1>1, <2>3 DEF Gate!Merged
      <3> QED
        BY <2>1, <3>1
    <2> QED
      BY <2>2, <2>3
  <1>4. Gate!Mine \in [Kinds -> Gate!Texts]
    BY DEF Gate!Mine, Kinds, Gate!Texts
  <1>5. parents \in SUBSET Nat
    <2>1. Len(commits) \in Nat
      BY DEF HistoryInv
    <2> QED
      BY <2>1 DEF Gate!Ids
  <1>6. CASE ch[1] \in Gate!Paths
    <2>1. ch[2] \in Contents
      <3>1. \A p \in Gate!Paths : Gate!ContentsOf(p) \subseteq Contents
        BY DEF Gate!Paths, Gate!ContentsOf, Contents, Gate!Absent
      <3>2. ch[1] \notin Kinds
        BY <1>6 DEF Gate!Paths, Kinds
      <3> QED
        BY <1>6, <3>1, <3>2
    <2>2. [paths EXCEPT ![ch[1]] = ch[2]] \in [Gate!Paths -> Contents]
      BY <1>3, <2>1
    <2> QED
      BY <1>2, <1>4, <1>5, <1>6, <2>2 DEF CommitSet
  <1>7. CASE ch[1] \notin Gate!Paths
    <2>1. [Gate!Mine EXCEPT ![ch[1]] = ch[2]] \in [Kinds -> Gate!Texts]
      BY <1>4, <1>7
    <2> QED
      BY <1>2, <1>3, <1>5, <1>7, <2>1 DEF CommitSet
  <1> QED
    BY <1>6, <1>7

LEMMA OldCommitsAreTheSame ==
  ASSUME HistoryInv, Grown
  PROVE  /\ \A cs \in SUBSET Gate!Ids : Gate!Whole(cs) => Gate!Whole(cs)'
         /\ \A c \in Gate!Ids, p \in Gate!Paths : Gate!NewTo(c, p)' = Gate!NewTo(c, p)
         /\ \A c \in Gate!Ids, ps \in SUBSET Gate!Texts : Gate!CommitIsClean(c, ps)' = Gate!CommitIsClean(c, ps)
  <1>1. \A c \in Gate!Ids : commits'[c] = commits[c] /\ \A q \in commits[c].parents : commits'[q] = commits[q]
    <2> TAKE c \in Gate!Ids
    <2>1. c \in Nat /\ c <= Len(commits) /\ Len(commits) \in Nat
      BY DEF HistoryInv, Gate!Ids
    <2>2. \A q \in commits[c].parents : q \in Gate!Ids
      BY <2>1 DEF HistoryInv, Gate!Ids
    <2> QED
      BY <2>2, Zenon DEF Grown
  <1>2. \A cs \in SUBSET Gate!Ids : Gate!Whole(cs) => Gate!Whole(cs)'
    BY <1>1, Zenon DEF Gate!Whole
  <1>3. ASSUME NEW c \in Gate!Ids, NEW p \in Gate!Paths PROVE Gate!NewTo(c, p)' = Gate!NewTo(c, p)
    BY <1>1 DEF Gate!NewTo
  <1>4. ASSUME NEW c \in Gate!Ids, NEW ps \in SUBSET Gate!Texts PROVE Gate!CommitIsClean(c, ps)' = Gate!CommitIsClean(c, ps)
    BY <1>1, Zenon DEF Gate!CommitIsClean
  <1> QED
    BY <1>2, <1>3, <1>4

(* A step that leaves the push as it is keeps what is known of it.         *)
LEMMA PushStays ==
  ASSUME Gate!GateAssumption, GateInv, Grown, RefsInv', published \subseteq published', UNCHANGED push,
         push.phase = "send" => UNCHANGED <<tracking, working>>
  PROVE  GateInv'
  <1> USE DEF GateInv
  <1>1. PushTypes'
    <2>1. Gate!Ids \subseteq Gate!Ids'
      BY DEF Grown
    <2>2. \A i \in DOMAIN push.lines : TipIsThere(push.lines[i].tip)' /\ push.lines[i].old \in published' \cup {Gate!NoCommit}
      BY <2>1 DEF PushTypes, TipIsThere
    <2> QED
      BY <2>1, <2>2 DEF PushTypes
  <1>2. ReadInv'
    <2> SUFFICES ASSUME NEW i \in Gate!ToSet(push.listed), push.lines[i].tip.kind = "commit",
                        NEW c \in Gate!Reach({push.lines[i].tip.commit})'
                 PROVE  WillBeRead(c)'
      BY DEF ReadInv
    <2>1. i \in DOMAIN push.lines
      BY DEF PushTypes, Gate!ToSet
    <2>2. PICK tip : tip = push.lines[i].tip.commit
      OBVIOUS
    <2>3. {tip} \subseteq {Gate!NoCommit} \cup Gate!Ids
      BY <2>1, <2>2 DEF PushTypes, TipIsThere
    <2>4. Gate!Reach({tip})' = Gate!Reach({tip}) /\ Gate!Reach({tip}) \in SUBSET Gate!Ids
      BY <2>3, ReachStays, ReachHolds
    <2>5. c \in Gate!Ids /\ WillBeRead(c)
      BY <2>2, <2>4 DEF ReadInv
    <2> QED
      BY <2>5, OldCommitsAreTheSame DEF WillBeRead
  <1>3. SendInv'
    <2> SUFFICES ASSUME push.phase = "send" PROVE Cleared(push.patterns)'
      BY DEF SendInv
    <2>1. PICK ps : ps = push.patterns
      OBVIOUS
    <2>2. Cleared(ps) /\ ps \in SUBSET Gate!Texts /\ Gate!Asked' = Gate!Asked
      BY <2>1, AskedStays DEF SendInv, Cleared, Gate!Texts
    <2>3. Gate!StreamIsClean(ps)'
      <3> SUFFICES ASSUME NEW i \in Gate!ToSet(push.listed)
                   PROVE  Gate!TipIsClean(push.lines[i].tip, ps)'
        BY <2>2 DEF Gate!StreamIsClean, Cleared
      <3>1. i \in DOMAIN push.lines
        BY DEF PushTypes, Gate!ToSet
      <3>2. PICK tip : tip = push.lines[i].tip
        OBVIOUS
      <3>3. TipIsThere(tip) /\ Gate!TipIsClean(tip, ps)
        BY <2>2, <3>1, <3>2 DEF PushTypes, Gate!StreamIsClean, Cleared
      <3>4. tip.kind = "tree" => commits'[tip.commit] = commits[tip.commit]
        BY <3>3 DEF TipIsThere, Grown
      <3>5. Gate!TipIsClean(tip, ps)'
        BY <3>3, <3>4, Zenon DEF Gate!TipIsClean
      <3> QED
        BY <3>2, <3>5
    <2>4. \A b \in push.blobs : Gate!FileIsClean(b[2], commits'[b[1]].tree[b[2]], ps)
      <3> TAKE b \in push.blobs
      <3>1. b[1] \in Gate!Ids
        BY DEF PushTypes
      <3>2. commits'[b[1]] = commits[b[1]]
        BY <3>1 DEF Grown
      <3> QED
        BY <2>2, <3>2 DEF Cleared
    <2>5. \A c \in push.heads : Gate!CommitIsClean(c, ps)'
      BY <2>2, OldCommitsAreTheSame DEF Cleared, PushTypes
    <2>6. Gate!AnswersForAll'
      BY <2>2 DEF Cleared, Gate!AnswersForAll
    <2>7. Cleared(ps)'
      BY <2>2, <2>3, <2>4, <2>5, <2>6 DEF Cleared, Gate!FileIsClean
    <2> QED
      BY <2>1, <2>7
  <1> QED
    BY <1>1, <1>2, <1>3 DEF Grown

(***************************************************************************)
(* The steps.                                                              *)
(***************************************************************************)

LEMMA GateStarts ==
  ASSUME Gate!GateAssumption, Gate!Init
  PROVE  GateInv
  <1>1. PICK first \in {"declares", Gate!Absent} :
            commits = <<[parents |-> {}, tree |-> [Gate!Bare EXCEPT !["config"] = first], texts |-> Gate!Mine]>>
    BY DEF Gate!Init
  <1>2. Len(commits) = 1 /\ Gate!Ids = {1}
    BY <1>1 DEF Gate!Ids
  <1>3. commits[1] \in CommitSet /\ commits[1].parents = {}
    <2>1. [Gate!Bare EXCEPT !["config"] = first] \in [Gate!Paths -> Contents]
      BY DEF Gate!Bare, Gate!Paths, Contents, Gate!Absent
    <2>2. Gate!Mine \in [Kinds -> Gate!Texts]
      BY DEF Gate!Mine, Kinds, Gate!Texts
    <2> QED
      BY <1>1, <2>1, <2>2 DEF CommitSet
  <1>4. HistoryInv
    <2>1. commits \in Seq(CommitSet)
      BY <1>1, <1>3
    <2> QED
      BY <1>2, <1>3, <2>1 DEF HistoryInv
  <1>5. RefsInv
    <2>1. remote \in [Refs -> {1, Gate!NoCommit}] /\ tracking = remote
      BY DEF Gate!Init
    <2> QED
      BY <1>2, <1>3, <2>1 DEF Gate!Init, RefsInv, Gate!Whole
  <1>6. push = Gate!NoPush
    BY DEF Gate!Init
  <1>7. PushTypes
    BY <1>6 DEF PushTypes, Gate!NoPush, PushFields
  <1> QED
    BY <1>4, <1>5, <1>6, <1>7 DEF GateInv, ReadInv, SendInv, Gate!NoPush, Gate!ToSet

LEMMA CommitKeeps ==
  ASSUME Gate!GateAssumption, GateInv, Gate!Commit
  PROVE  GateInv'
  <1>1. PICK parents \in {s \in SUBSET known : Gate!Cardinality(s) <= 2} : \E c \in Gate!NewCommits(parents, Changes) :
            commits' = Append(commits, c)
    BY DEF Gate!Commit
  <1>2. PICK c \in Gate!NewCommits(parents, Changes) : commits' = Append(commits, c)
    BY <1>1
  <1>3. parents \in SUBSET Gate!Ids
    BY DEF GateInv, RefsInv
  <1>4. c \in CommitSet /\ c.parents = parents
    <2>1. \A ch \in Changes : \/ ch[1] \in Gate!Paths /\ ch[2] \in Gate!ContentsOf(ch[1])
                              \/ ch[1] \in Kinds /\ ch[2] \in Gate!Texts
      BY DEF Gate!GateAssumption, Kinds
    <2> QED
      BY <1>2, <1>3, <2>1, CommitsAreTyped DEF GateInv
  <1>5. Grown /\ Gate!Ids' = Gate!Ids \cup {Len(commits')}
    BY <1>2, <1>3, <1>4, AppendGrows DEF GateInv
  <1>6. RefsInv'
    <2>1. known' \in SUBSET Gate!Ids' /\ 1 \in known'
      BY <1>5 DEF Gate!Commit, GateInv, RefsInv
    <2>2. published' = published /\ published \in SUBSET Gate!Ids /\ Gate!Whole(published)
      BY DEF Gate!Commit, GateInv, RefsInv
    <2>3. PICK there : there = published
      OBVIOUS
    <2>4. Gate!Whole(there)'
      BY <1>5, <2>2, <2>3, OldCommitsAreTheSame DEF GateInv
    <2>5. Gate!Whole(published)'
      BY <2>2, <2>3, <2>4 DEF Gate!Whole
    <2>6. remote' \in [Refs -> published' \cup {Gate!NoCommit}] /\ tracking' \in [Refs -> Gate!Ids' \cup {Gate!NoCommit}]
      BY <1>5 DEF Gate!Commit, GateInv, RefsInv
    <2> QED
      BY <1>5, <2>1, <2>2, <2>5, <2>6 DEF RefsInv, Gate!Whole
  <1> QED
    BY <1>5, <1>6, PushStays DEF Gate!Commit

LEMMA OtherCloneKeeps ==
  ASSUME Gate!GateAssumption, GateInv, Gate!OtherClone
  PROVE  GateInv'
  <1>1. PICK r \in Refs :
          \/ /\ \E c \in Gate!NewCommits({remote[r]} \ {Gate!NoCommit}, {<<"note", "word">>, <<"config", "declares">>}) :
                   commits' = Append(commits, c)
             /\ remote' = [remote EXCEPT ![r] = Len(commits')]
             /\ published' = published \cup {Len(commits')}
          \/ remote' = [remote EXCEPT ![r] = Gate!NoCommit] /\ UNCHANGED <<commits, published>>
    BY DEF Gate!OtherClone
  <1>2. UNCHANGED <<known, tracking, working, push>>
    BY DEF Gate!OtherClone
  <1>3. HistoryInv /\ RefsInv
    BY DEF GateInv
  <1>4. CASE remote' = [remote EXCEPT ![r] = Gate!NoCommit] /\ UNCHANGED <<commits, published>>
    <2>1. Grown
      BY <1>3, <1>4 DEF Grown, HistoryInv, Gate!Ids
    <2>2. RefsInv'
      <3>1. remote' \in [Refs -> published \cup {Gate!NoCommit}]
        BY <1>3, <1>4 DEF RefsInv
      <3> QED
        BY <1>2, <1>3, <1>4, <3>1 DEF RefsInv, Gate!Ids, Gate!Whole
    <2> QED
      BY <1>2, <1>4, <2>1, <2>2, PushStays
  <1>5. ASSUME NEW c \in Gate!NewCommits({remote[r]} \ {Gate!NoCommit}, {<<"note", "word">>, <<"config", "declares">>}),
               commits' = Append(commits, c), remote' = [remote EXCEPT ![r] = Len(commits')],
               published' = published \cup {Len(commits')}
        PROVE  GateInv'
    <2> DEFINE parents == {remote[r]} \ {Gate!NoCommit}
    <2>1. parents \in SUBSET Gate!Ids /\ parents \subseteq published /\ published \in SUBSET Gate!Ids /\ Gate!Whole(published)
      BY <1>3 DEF RefsInv
    <2>2. c \in CommitSet /\ c.parents = parents
      <3>1. \A ch \in {<<"note", "word">>, <<"config", "declares">>} :
                \/ ch[1] \in Gate!Paths /\ ch[2] \in Gate!ContentsOf(ch[1])
                \/ ch[1] \in Kinds /\ ch[2] \in Gate!Texts
        BY DEF Gate!Paths, Gate!ContentsOf
      <3> QED
        BY <1>3, <1>5, <2>1, <3>1, CommitsAreTyped
    <2>3. Grown /\ Gate!Ids' = Gate!Ids \cup {Len(commits')} /\ commits'[Len(commits')] = c
      BY <1>3, <1>5, <2>1, <2>2, AppendGrows
    <2>4. PICK new : new = published \cup {Len(commits')}
      OBVIOUS
    <2>5. Gate!Whole(new)'
      <3> SUFFICES ASSUME NEW d \in new PROVE commits'[d].parents \subseteq new
        BY DEF Gate!Whole
      <3>1. CASE d \in published
        BY <2>1, <2>3, <2>4, <3>1 DEF Gate!Whole, Grown
      <3>2. CASE d = Len(commits')
        BY <2>1, <2>2, <2>3, <2>4, <3>2
      <3> QED
        BY <2>4, <3>1, <3>2
    <2>6. published' = new /\ new \in SUBSET Gate!Ids' /\ Gate!Ids \subseteq Gate!Ids'
      BY <1>5, <2>1, <2>3, <2>4
    <2>7. remote' \in [Refs -> new \cup {Gate!NoCommit}]
      BY <1>3, <1>5, <2>4 DEF RefsInv
    <2>8. RefsInv'
      BY <1>2, <1>3, <2>5, <2>6, <2>7 DEF RefsInv, Gate!Whole
    <2> QED
      BY <1>2, <1>5, <2>3, <2>8, PushStays
  <1> QED
    BY <1>1, <1>4, <1>5

LEMMA FetchKeeps ==
  ASSUME Gate!GateAssumption, GateInv, Gate!Fetch
  PROVE  GateInv'
  <1>1. Grown /\ UNCHANGED <<published, push>> /\ push.phase = "none"
    BY DEF Gate!Fetch, Grown, GateInv, HistoryInv, Gate!Ids, Gate!quiet
  <1>2. RefsInv'
    <2>1. Gate!Roots(remote) \subseteq {Gate!NoCommit} \cup Gate!Ids
      BY DEF GateInv, RefsInv, Gate!Roots
    <2>2. Gate!Reach(Gate!Roots(remote)) \in SUBSET Gate!Ids
      BY <2>1, ReachHolds DEF GateInv
    <2>3. known' \in SUBSET Gate!Ids /\ 1 \in known'
      BY <2>2 DEF Gate!Fetch, GateInv, RefsInv
    <2>4. tracking' \in [Refs -> Gate!Ids \cup {Gate!NoCommit}]
      BY DEF Gate!Fetch, GateInv, RefsInv
    <2> QED
      BY <2>3, <2>4 DEF Gate!Fetch, GateInv, RefsInv, Gate!Whole, Gate!Ids
  <1> QED
    BY <1>1, <1>2, PushStays

LEMMA TipsAreTyped ==
  ASSUME Gate!GateAssumption, GateInv, NEW tip \in Gate!Tips
  PROVE  tip \in TipSet /\ TipIsThere(tip)
  <1>1. Gate!Max(known) \in known
    BY LargestIsOne DEF GateInv, RefsInv
  <1>2. known \subseteq Gate!Ids /\ Gate!Ids \subseteq Nat /\ <<>> \in Chains
    <2>1. Len(commits) \in Nat
      BY DEF GateInv, HistoryInv
    <2> QED
      BY <2>1 DEF GateInv, RefsInv, Gate!Ids, Gate!GateAssumption
  <1>3. CASE tip = Gate!Deletion
    BY <1>2, <1>3 DEF Gate!Deletion, Gate!Tip, TipSet, TipIsThere, Gate!NoCommit
  <1>4. ASSUME NEW c \in known, tip = Gate!Tip("commit", <<>>, c, "plain") PROVE tip \in TipSet /\ TipIsThere(tip)
    BY <1>2, <1>4 DEF Gate!Tip, TipSet, TipIsThere
  <1>5. ASSUME NEW chain \in Chains, tip = Gate!Tip("commit", chain, Gate!Max(known), "plain") PROVE tip \in TipSet /\ TipIsThere(tip)
    BY <1>1, <1>2, <1>5 DEF Gate!Tip, TipSet, TipIsThere
  <1>6. ASSUME NEW text \in {"plain", "word"}, tip = Gate!Tip("blob", <<>>, Gate!NoCommit, text) PROVE tip \in TipSet /\ TipIsThere(tip)
    BY <1>2, <1>6 DEF Gate!Tip, TipSet, TipIsThere, Gate!NoCommit
  <1>7. CASE tip = Gate!Tip("tree", <<>>, Gate!Max(known), "plain")
    BY <1>1, <1>2, <1>7 DEF Gate!Tip, TipSet, TipIsThere
  <1> QED
    BY <1>3, <1>4, <1>5, <1>6, <1>7 DEF Gate!Tips

LEMMA PushBeginKeeps ==
  ASSUME Gate!GateAssumption, GateInv, Gate!Begin
  PROVE  GateInv'
  <1>1. PICK rs \in (SUBSET Refs) \ {{}} : \E tips \in [rs -> Gate!Tips] :
            push' = [Gate!NoPush EXCEPT !.phase = "list",
                                   !.lines = [i \in 1 .. Gate!Cardinality(rs) |->
                                                LET r == Gate!SetToSeq(rs)[i] IN [ref |-> r, tip |-> tips[r], old |-> remote[r]]]]
    BY DEF Gate!Begin
  <1>2. PICK tips \in [rs -> Gate!Tips] :
            push' = [Gate!NoPush EXCEPT !.phase = "list",
                                   !.lines = [i \in 1 .. Gate!Cardinality(rs) |->
                                                LET r == Gate!SetToSeq(rs)[i] IN [ref |-> r, tip |-> tips[r], old |-> remote[r]]]]
    BY <1>1
  <1>3. PICK ls : ls = [i \in 1 .. Gate!Cardinality(rs) |->
                          LET r == Gate!SetToSeq(rs)[i] IN [ref |-> r, tip |-> tips[r], old |-> remote[r]]]
    OBVIOUS
  <1>4. UNCHANGED <<commits, known, remote, tracking, published, working>>
    BY DEF Gate!Begin
  <1>5. Gate!IsFiniteSet(rs)
    <2>1. \A S : Gate!IsFiniteSet(S) = IsFiniteSet(S)
      BY Zenon DEF IsFiniteSet, Gate!IsFiniteSet
    <2> QED
      BY <2>1, FS_Subset DEF Gate!GateAssumption
  <1>6. Gate!Cardinality(rs) \in Nat /\ Gate!SetToSeq(rs) \in [1 .. Gate!Cardinality(rs) -> rs]
    BY <1>5, ListingOf
  <1>7. \A r \in rs : [ref |-> r, tip |-> tips[r], old |-> remote[r]] \in LineSet /\ TipIsThere(tips[r])
                      /\ remote[r] \in published \cup {Gate!NoCommit}
    <2> TAKE r \in rs
    <2>1. r \in Refs /\ remote[r] \in published \cup {Gate!NoCommit} /\ published \subseteq Gate!Ids
      BY DEF GateInv, RefsInv
    <2>2. Gate!Ids \cup {Gate!NoCommit} \subseteq Nat
      <3>1. Len(commits) \in Nat
        BY DEF GateInv, HistoryInv
      <3> QED
        BY <3>1 DEF Gate!Ids, Gate!NoCommit
    <2>3. tips[r] \in TipSet /\ TipIsThere(tips[r])
      BY TipsAreTyped
    <2>4. remote[r] \in Nat
      BY <2>1, <2>2
    <2> QED
      BY <2>1, <2>3, <2>4 DEF LineSet
  <1>8. \A i \in 1 .. Gate!Cardinality(rs) : ls[i] \in LineSet /\ TipIsThere(ls[i].tip) /\ ls[i].old \in published \cup {Gate!NoCommit}
    <2> TAKE i \in 1 .. Gate!Cardinality(rs)
    <2>1. PICK r \in rs : r = Gate!SetToSeq(rs)[i]
      BY <1>6
    <2>2. ls[i] = [ref |-> r, tip |-> tips[r], old |-> remote[r]]
      BY <1>3, <2>1
    <2> QED
      BY <1>7, <2>2
  <1>9. ls \in Seq(LineSet) /\ DOMAIN ls = 1 .. Gate!Cardinality(rs)
    BY <1>3, <1>6, <1>8
  <1>10. push' = [Gate!NoPush EXCEPT !.phase = "list", !.lines = ls]
    BY <1>2, <1>3, Zenon
  <1>11. \A tip : TipIsThere(tip)' = TipIsThere(tip)
    BY <1>4 DEF TipIsThere, Gate!Ids
  <1>12. PushTypes'
    <2>1. /\ push' = [f \in PushFields |-> push'[f]] /\ push'.phase = "list" /\ push'.lines = ls
          /\ push'.at = 1 /\ push'.listed = <<>> /\ push'.excluded = {} /\ push'.heads = {} /\ push'.blobs = {}
      BY <1>10 DEF Gate!NoPush, PushFields
    <2>2. \A i \in DOMAIN ls : TipIsThere(ls[i].tip)' /\ ls[i].old \in published' \cup {Gate!NoCommit}
      BY <1>4, <1>8, <1>9, <1>11
    <2> QED
      BY <1>9, <2>1, <2>2 DEF PushTypes
  <1>13. HistoryInv' /\ RefsInv'
    BY <1>4 DEF GateInv, HistoryInv, RefsInv, Gate!Ids, Gate!Whole
  <1> QED
    BY <1>10, <1>12, <1>13 DEF GateInv, ReadInv, SendInv, Gate!NoPush, Gate!ToSet

(* The steps that read leave history and the references.                   *)
LEMMA NothingElseMoves ==
  ASSUME GateInv, UNCHANGED <<commits, known, remote, tracking, published, working>>
  PROVE  /\ HistoryInv' /\ RefsInv'
         /\ \A from : Gate!Reach(from)' = Gate!Reach(from)
         /\ \A c, p : Gate!NewTo(c, p)' = Gate!NewTo(c, p)
         /\ \A tip : TipIsThere(tip)' = TipIsThere(tip)
         /\ Gate!Ids' = Gate!Ids
  <1>1. Gate!Ids' = Gate!Ids
    BY DEF Gate!Ids
  <1>2. \A from : Gate!Reach(from)' = Gate!Reach(from)
    BY <1>1 DEF Gate!Reach, Gate!Whole
  <1>3. \A c, p : Gate!NewTo(c, p)' = Gate!NewTo(c, p)
    BY DEF Gate!NewTo
  <1>4. \A tip : TipIsThere(tip)' = TipIsThere(tip)
    BY <1>1 DEF TipIsThere
  <1> QED
    BY <1>1, <1>2, <1>3, <1>4 DEF GateInv, HistoryInv, RefsInv, Gate!Whole

(* A step that changes nothing of the push but its phase, or the answer    *)
(* about the remote.                                                       *)
LEMMA OnlyThePhase ==
  ASSUME GateInv, UNCHANGED <<commits, known, remote, tracking, published, working>>,
         push' = [f \in PushFields |-> push'[f]],
         push'.phase \in {"none", "list", "scan", "refused", "done"}, push'.excluded \in SUBSET published,
         push'.lines = push.lines, push'.at = push.at, push'.listed = push.listed,
         push'.heads = push.heads, push'.blobs = push.blobs
  PROVE  GateInv'
  <1> USE DEF GateInv
  <1>1. PushTypes'
    BY NothingElseMoves DEF PushTypes
  <1>2. ReadInv'
    <2> SUFFICES ASSUME NEW i \in Gate!ToSet(push.listed), push.lines[i].tip.kind = "commit",
                        NEW c \in Gate!Reach({push.lines[i].tip.commit})
                 PROVE  WillBeRead(c)'
      BY NothingElseMoves DEF ReadInv
    <2>1. WillBeRead(c)
      BY DEF ReadInv
    <2> QED
      BY <2>1, NothingElseMoves DEF WillBeRead
  <1>3. SendInv'
    BY DEF SendInv
  <1> QED
    BY <1>1, <1>2, <1>3, NothingElseMoves

(* A line is listed with what it adds to what was on the remote.           *)
LEMMA ListedKeeps ==
  ASSUME GateInv, Gate!Enumerates, NEW cs \in SUBSET Gate!Ids, Gate!Listed(cs),
         UNCHANGED <<commits, known, remote, tracking, published, working>>,
         Gate!Line.tip.kind = "commit" => \A c \in Gate!Reach({Gate!Line.tip.commit}) : c \in published \/ c \in cs
  PROVE  GateInv'
  <1> USE DEF GateInv
  <1>1. push.at \in DOMAIN push.lines
    BY DEF Gate!Enumerates, PushTypes
  <1>2. Gate!Pairs(cs) \in SUBSET (Gate!Ids \X Gate!Paths) /\ \A c \in cs, p \in Gate!Paths : Gate!NewTo(c, p) => <<c, p>> \in Gate!Pairs(cs)
    BY DEF Gate!Pairs
  <1>3. /\ push' = [f \in PushFields |-> push'[f]] /\ push'.phase = "list" /\ push'.lines = push.lines
        /\ push'.at = push.at + 1 /\ push'.listed = Append(push.listed, push.at) /\ push'.excluded = push.excluded
        /\ push'.heads = push.heads \cup cs /\ push'.blobs = push.blobs \cup Gate!Pairs(cs)
    BY DEF Gate!Listed, Gate!Enumerates, PushTypes, PushFields
  <1>4. push'.listed \in Seq(DOMAIN push.lines) /\ push'.at \in Nat \ {0}
        /\ Gate!ToSet(push'.listed) = Gate!ToSet(push.listed) \cup {push.at}
    <2>1. push.listed \in Seq(DOMAIN push.lines) /\ push.at \in Nat \ {0}
      BY DEF PushTypes
    <2>2. PICK l : l = push.listed
      OBVIOUS
    <2>3. PICK a : a = push.at
      OBVIOUS
    <2>4. l \in Seq(DOMAIN push.lines) /\ a \in DOMAIN push.lines
      BY <1>1, <2>1, <2>2, <2>3
    <2>5. Gate!ToSet(Append(l, a)) = Gate!ToSet(l) \cup {a} /\ Append(l, a) \in Seq(DOMAIN push.lines)
      <3> DEFINE S == DOMAIN push.lines
      <3>1. l \in Seq(S) /\ a \in S
        BY <2>4
      <3> HIDE DEF S
      <3>2. /\ Append(l, a) \in Seq(S) /\ Len(l) \in Nat /\ DOMAIN l = 1 .. Len(l)
            /\ DOMAIN Append(l, a) = 1 .. Len(l) + 1 /\ Append(l, a)[Len(l) + 1] = a
            /\ \A j \in 1 .. Len(l) : Append(l, a)[j] = l[j]
        BY <3>1
      <3>3. 1 .. Len(l) + 1 = (1 .. Len(l)) \cup {Len(l) + 1}
        BY <3>2
      <3>4. Gate!ToSet(Append(l, a)) = Gate!ToSet(l) \cup {a}
        BY <3>2, <3>3 DEF Gate!ToSet
      <3> QED
        BY <3>2, <3>4 DEF S
    <2> QED
      BY <1>3, <2>1, <2>2, <2>3, <2>5
  <1>5. PushTypes'
    <2>1. push'.heads \in SUBSET Gate!Ids /\ push'.blobs \in SUBSET (Gate!Ids \X Gate!Paths)
      BY <1>2, <1>3 DEF PushTypes
    <2> QED
      BY <1>3, <1>4, <2>1, NothingElseMoves DEF PushTypes
  <1>6. ReadInv'
    <2> SUFFICES ASSUME NEW i \in Gate!ToSet(push'.listed), push.lines[i].tip.kind = "commit",
                        NEW c \in Gate!Reach({push.lines[i].tip.commit})
                 PROVE  WillBeRead(c)'
      BY <1>3, NothingElseMoves DEF ReadInv
    <2>1. CASE i \in Gate!ToSet(push.listed)
      <3>1. WillBeRead(c)
        BY <2>1 DEF ReadInv
      <3> QED
        BY <1>3, <3>1, NothingElseMoves DEF WillBeRead
    <2>2. CASE i = push.at
      <3>1. c \in published \/ c \in cs
        BY <2>2 DEF Gate!Line
      <3> QED
        BY <1>2, <1>3, <3>1, NothingElseMoves DEF WillBeRead
    <2> QED
      BY <1>4, <2>1, <2>2
  <1>7. SendInv'
    BY <1>3 DEF SendInv
  <1> QED
    BY <1>5, <1>6, <1>7, NothingElseMoves

LEMMA EnumerationKeeps ==
  ASSUME GateInv, Gate!ListNoRange \/ Gate!ListUpdate \/ Gate!QueryRemote \/ Gate!ListNew \/ Gate!EnumerationEnds \/ Gate!EnumerationFails
  PROVE  GateInv'
  <1>1. UNCHANGED <<commits, known, remote, tracking, published, working>>
    BY DEF Gate!ListNoRange, Gate!ListUpdate, Gate!QueryRemote, Gate!ListNew, Gate!EnumerationEnds, Gate!EnumerationFails, Gate!steady
  <1>2. published \in SUBSET Gate!Ids /\ Gate!Whole(published) /\ HistoryInv
    BY DEF GateInv, RefsInv
  <1>3. CASE Gate!ListNoRange
    BY <1>1, <1>3, ListedKeeps DEF Gate!ListNoRange
  <1>4. ASSUME Gate!Enumerates, Gate!Line.tip.kind = "commit"
        PROVE  /\ Gate!Line.tip.commit \in Gate!Ids /\ Gate!Line.old \in published \cup {Gate!NoCommit}
               /\ Gate!Reach({Gate!Line.tip.commit}) \in SUBSET Gate!Ids
    <2>1. push.at \in DOMAIN push.lines
      BY <1>4 DEF Gate!Enumerates, GateInv, PushTypes
    <2>2. TipIsThere(Gate!Line.tip) /\ Gate!Line.old \in published \cup {Gate!NoCommit}
      BY <2>1 DEF GateInv, PushTypes, Gate!Line
    <2>3. Gate!Line.tip.commit \in Gate!Ids
      BY <1>4, <2>2 DEF TipIsThere
    <2> QED
      BY <1>2, <2>2, <2>3, ReachHolds
  <1>5. CASE Gate!ListUpdate
    <2>1. Gate!Enumerates /\ Gate!Line.tip.kind = "commit" /\ Gate!Line.old # Gate!NoCommit /\ Gate!Listed(Gate!Between(Gate!Line.old, Gate!Line.tip.commit))
      BY <1>5 DEF Gate!ListUpdate
    <2>2. Gate!Reach({Gate!Line.old}) \subseteq published
      BY <1>2, <1>4, <2>1, ReachLeast
    <2>3. /\ Gate!Between(Gate!Line.old, Gate!Line.tip.commit) \in SUBSET Gate!Ids
          /\ \A c \in Gate!Reach({Gate!Line.tip.commit}) : c \in published \/ c \in Gate!Between(Gate!Line.old, Gate!Line.tip.commit)
      BY <1>4, <2>1, <2>2 DEF Gate!Between
    <2> QED
      BY <1>1, <2>1, <2>3, ListedKeeps
  <1>6. CASE Gate!ListNew
    <2> DEFINE cs == Gate!Reach({Gate!Line.tip.commit}) \ (IF push.asked = "answered" THEN Gate!Reach(push.excluded) ELSE {})
    <2>1. Gate!Enumerates /\ Gate!Line.tip.kind = "commit" /\ Gate!Listed(cs)
      BY <1>6 DEF Gate!ListNew
    <2>2. Gate!Reach(push.excluded) \subseteq published
      <3>1. push.excluded \subseteq published
        BY DEF GateInv, PushTypes
      <3> QED
        BY <1>2, <3>1, ReachLeast
    <2>3. cs \in SUBSET Gate!Ids /\ \A c \in Gate!Reach({Gate!Line.tip.commit}) : c \in published \/ c \in cs
      BY <1>4, <2>1, <2>2
    <2> HIDE DEF cs
    <2> QED
      BY <1>1, <2>1, <2>3, ListedKeeps
  <1>7. CASE Gate!QueryRemote
    <2>1. Gate!Roots(remote) \cap known \in SUBSET published /\ push.excluded \in SUBSET published
      BY DEF Gate!Roots, GateInv, RefsInv, PushTypes
    <2>2. push' = [push EXCEPT !.asked = "answered", !.excluded = Gate!Roots(remote) \cap known]
          \/ push' = [push EXCEPT !.asked = "unknown"]
      BY <1>7 DEF Gate!QueryRemote
    <2>3. /\ push' = [f \in PushFields |-> push'[f]] /\ push'.phase = push.phase /\ push.phase = "list"
          /\ push'.excluded \in SUBSET published /\ push'.lines = push.lines /\ push'.at = push.at
          /\ push'.listed = push.listed /\ push'.heads = push.heads /\ push'.blobs = push.blobs
      BY <1>7, <2>1, <2>2 DEF Gate!QueryRemote, Gate!Enumerates, GateInv, PushTypes, PushFields
    <2> QED
      BY <1>1, <2>3, OnlyThePhase
  <1>8. CASE Gate!EnumerationEnds \/ Gate!EnumerationFails
    <2>1. push' = [push EXCEPT !.phase = "scan"] \/ push' = [push EXCEPT !.phase = "refused"]
      BY <1>8 DEF Gate!EnumerationEnds, Gate!EnumerationFails, Gate!Refuse
    <2>2. /\ push' = [f \in PushFields |-> push'[f]] /\ push'.phase \in {"scan", "refused"}
          /\ push'.excluded = push.excluded /\ push'.lines = push.lines /\ push'.at = push.at
          /\ push'.listed = push.listed /\ push'.heads = push.heads /\ push'.blobs = push.blobs
      BY <2>1 DEF GateInv, PushTypes, PushFields
    <2>3. push.excluded \in SUBSET published
      BY DEF GateInv, PushTypes
    <2> QED
      BY <1>1, <2>2, <2>3, OnlyThePhase
  <1> QED
    BY <1>3, <1>5, <1>6, <1>7, <1>8

LEMMA RefusalKeeps ==
  ASSUME GateInv, Gate!ReadFails \/ Gate!Over
  PROVE  GateInv'
  <1>1. UNCHANGED <<commits, known, remote, tracking, published, working>>
    BY DEF Gate!ReadFails, Gate!Over, Gate!steady
  <1>2. CASE Gate!ReadFails
    <2>1. push' = [push EXCEPT !.phase = "refused"]
      BY <1>2 DEF Gate!ReadFails, Gate!Refuse
    <2>2. /\ push' = [f \in PushFields |-> push'[f]] /\ push'.phase = "refused"
          /\ push'.excluded = push.excluded /\ push'.lines = push.lines /\ push'.at = push.at
          /\ push'.listed = push.listed /\ push'.heads = push.heads /\ push'.blobs = push.blobs
      BY <2>1 DEF GateInv, PushTypes, PushFields
    <2>3. push.excluded \in SUBSET published
      BY DEF GateInv, PushTypes
    <2> QED
      BY <1>1, <2>2, <2>3, OnlyThePhase
  <1>3. CASE Gate!Over
    <2>1. push' = Gate!NoPush
      BY <1>3 DEF Gate!Over
    <2>2. PushTypes'
      BY <2>1 DEF PushTypes, Gate!NoPush, PushFields
    <2> QED
      <3>1. Gate!ToSet(push'.listed) = {} /\ push'.phase = "none"
        BY <2>1 DEF Gate!NoPush, Gate!ToSet
      <3>2. ReadInv' /\ SendInv'
        BY <3>1 DEF ReadInv, SendInv
      <3> QED
        BY <1>1, <2>2, <3>2, NothingElseMoves DEF GateInv
  <1> QED
    BY <1>2, <1>3

(* A scan lets a push through only when all that is asked was looked for.  *)
LEMMA ScanKeeps ==
  ASSUME GateInv, Gate!Scan
  PROVE  GateInv'
  <1> USE DEF GateInv
  <1>1. UNCHANGED <<commits, known, remote, tracking, published, working>>
    BY DEF Gate!Scan, Gate!steady
  <1>2. CASE push' = [push EXCEPT !.phase = "refused"]
    <2>1. /\ push' = [f \in PushFields |-> push'[f]] /\ push'.phase = "refused"
          /\ push'.excluded = push.excluded /\ push'.lines = push.lines /\ push'.at = push.at
          /\ push'.listed = push.listed /\ push'.heads = push.heads /\ push'.blobs = push.blobs
      BY <1>2 DEF PushTypes, PushFields
    <2>2. push.excluded \in SUBSET published
      BY DEF PushTypes
    <2> QED
      BY <1>1, <2>1, <2>2, OnlyThePhase
  <1>3. CASE /\ push' = [push EXCEPT !.phase = "send", !.patterns = Gate!Patterns]
             /\ Gate!AnswersForAll /\ Gate!StreamIsClean(Gate!Patterns)
             /\ \A b \in push.blobs : Gate!FileIsClean(b[2], commits[b[1]].tree[b[2]], Gate!Patterns)
             /\ \A c \in push.heads : Gate!CommitIsClean(c, Gate!Patterns)
    <2>1. PICK ps : ps = Gate!Patterns
      OBVIOUS
    <2>2. ps \subseteq {"word", "me"} /\ Gate!Asked \subseteq ps
      BY <2>1, PatternsAreOurs, AllAskedAreRead
    <2>3. /\ push' = [f \in PushFields |-> push'[f]] /\ push'.phase = "send" /\ push'.patterns = ps
          /\ push'.excluded = push.excluded /\ push'.lines = push.lines /\ push'.at = push.at
          /\ push'.listed = push.listed /\ push'.heads = push.heads /\ push'.blobs = push.blobs
      BY <1>3, <2>1 DEF PushTypes, PushFields
    <2>4. PushTypes'
      BY <1>1, <2>3, NothingElseMoves DEF PushTypes
    <2>5. ReadInv'
      BY <1>1, <2>3, NothingElseMoves DEF ReadInv, WillBeRead
    <2>6. Gate!Asked' = Gate!Asked
      <3>1. PICK tips : tips = Gate!TipCommits
        OBVIOUS
      <3>2. PICK roots : roots = Gate!Roots(tracking)
        OBVIOUS
      <3>3. Gate!TipCommits' = tips /\ Gate!Roots(tracking)' = roots
        BY <1>1, <2>3, <3>1, <3>2 DEF Gate!TipCommits, Gate!Roots
      <3>4. Gate!Held' = Gate!Held /\ Gate!Reach(Gate!TipCommits)' = Gate!Reach(Gate!TipCommits)
        BY <1>1, <3>1, <3>2, <3>3, NothingElseMoves DEF Gate!Held
      <3>5. \A c : Gate!ConfigOf(c)' = Gate!ConfigOf(c)
        BY <1>1 DEF Gate!ConfigOf
      <3>6. Gate!Declares' = Gate!Declares
        BY <1>1, <3>4, <3>5, NothingElseMoves DEF Gate!Declares
      <3>7. Gate!ConfigOf(tracking[Gate!Main])' = Gate!ConfigOf(tracking[Gate!Main])
        BY <1>1 DEF Gate!ConfigOf
      <3> QED
        BY <1>1, <3>1, <3>3, <3>5, <3>6, <3>7 DEF Gate!Asked
    <2>7. Gate!AnswersForAll' /\ Gate!StreamIsClean(ps)'
      <3>1. Gate!AnswersForAll'
        BY <1>3, <2>3 DEF Gate!AnswersForAll
      <3>2. \A tip : Gate!TipIsClean(tip, ps)' = Gate!TipIsClean(tip, ps)
        BY <1>1 DEF Gate!TipIsClean
      <3>3. Gate!StreamIsClean(ps)
        BY <1>3, <2>1
      <3>4. Gate!StreamIsClean(ps)'
        BY <2>3, <3>2, <3>3 DEF Gate!StreamIsClean
      <3> QED
        BY <3>1, <3>4
    <2>8. /\ \A b \in push'.blobs : Gate!FileIsClean(b[2], commits'[b[1]].tree[b[2]], ps)
          /\ \A c \in push'.heads : Gate!CommitIsClean(c, ps)'
      BY <1>1, <1>3, <2>1, <2>3 DEF Gate!CommitIsClean
    <2>9. Cleared(ps)'
      BY <2>2, <2>6, <2>7, <2>8 DEF Cleared, Gate!FileIsClean
    <2>10. SendInv'
      BY <2>3, <2>9 DEF SendInv
    <2> QED
      BY <1>1, <2>4, <2>5, <2>10, NothingElseMoves
  <1> QED
    BY <1>2, <1>3 DEF Gate!Scan, Gate!Refuse

LEMMA SendKeeps ==
  ASSUME Gate!GateAssumption, GateInv, Gate!Send
  PROVE  GateInv'
  <1> USE DEF GateInv
  <1> DEFINE to(r) == {l \in Gate!ToSet(push.lines) : l.ref = r /\ Gate!Landing(l) /\ l.tip.kind \in {"commit", "none"}}
             landed == {l.tip.commit : l \in UNION {to(r) : r \in Refs}}
  <1>1. /\ remote' = [r \in Refs |-> IF to(r) = {} THEN remote[r] ELSE (CHOOSE l \in to(r) : TRUE).tip.commit]
        /\ published' = published \cup Gate!Reach(landed)
        /\ tracking' = [r \in Refs |-> IF to(r) = {} THEN tracking[r] ELSE remote'[r]]
        /\ push' = [push EXCEPT !.phase = "done"] /\ UNCHANGED <<commits, known, working>>
    BY DEF Gate!Send
  <1>2. \A r \in Refs : \A l \in to(r) : l.tip.commit \in Gate!Ids \cup {Gate!NoCommit} /\ l.tip.commit \in landed
    <2> TAKE r \in Refs
    <2> TAKE l \in to(r)
    <2>1. PICK i \in DOMAIN push.lines : l = push.lines[i]
      BY DEF Gate!ToSet
    <2>2. TipIsThere(l.tip) /\ l.tip.kind \in {"commit", "none"}
      BY <2>1 DEF PushTypes
    <2>3. l.tip.commit \in landed
      OBVIOUS
    <2> QED
      BY <2>2, <2>3 DEF TipIsThere
  <1>3. landed \subseteq {Gate!NoCommit} \cup Gate!Ids
    BY <1>2
  <1> HIDE DEF landed
  <1>4. Gate!Reach(landed) \in SUBSET Gate!Ids /\ landed \ {Gate!NoCommit} \subseteq Gate!Reach(landed) /\ Gate!Whole(Gate!Reach(landed))
    BY <1>3, ReachHolds
  <1>5. PICK new : new = published \cup Gate!Reach(landed)
    OBVIOUS
  <1>6. new \in SUBSET Gate!Ids /\ Gate!Whole(new) /\ published \subseteq new
    BY <1>4, <1>5 DEF RefsInv, Gate!Whole
  <1>7. Gate!Ids' = Gate!Ids /\ (\A from : Gate!Reach(from)' = Gate!Reach(from)) /\ (\A c, p : Gate!NewTo(c, p)' = Gate!NewTo(c, p))
        /\ (\A tip : TipIsThere(tip)' = TipIsThere(tip)) /\ HistoryInv'
    BY <1>1 DEF Gate!Ids, Gate!Reach, Gate!Whole, Gate!NewTo, TipIsThere, HistoryInv
  <1>8. RefsInv'
    <2>1. \A r \in Refs : remote'[r] \in new \cup {Gate!NoCommit}
      <3> TAKE r \in Refs
      <3>1. CASE to(r) = {}
        BY <1>1, <1>6, <3>1 DEF RefsInv
      <3>2. CASE to(r) # {}
        <4>1. PICK l \in to(r) : l = CHOOSE x \in to(r) : TRUE
          BY <3>2
        <4>2. remote'[r] = l.tip.commit
          BY <1>1, <3>2, <4>1
        <4>3. l.tip.commit \in landed
          BY <1>2
        <4> QED
          BY <1>4, <1>5, <4>2, <4>3
      <3> QED
        BY <3>1, <3>2
    <2>2. remote' \in [Refs -> new \cup {Gate!NoCommit}]
      BY <1>1, <2>1
    <2>3. \A r \in Refs : tracking'[r] \in Gate!Ids \cup {Gate!NoCommit}
      BY <1>1, <1>6, <2>1 DEF RefsInv
    <2>4. tracking' \in [Refs -> Gate!Ids \cup {Gate!NoCommit}]
      BY <1>1, <2>3
    <2> QED
      BY <1>1, <1>5, <1>6, <1>7, <2>2, <2>4 DEF RefsInv, Gate!Whole
  <1>9. /\ push' = [f \in PushFields |-> push'[f]] /\ push'.phase = "done"
        /\ push'.excluded = push.excluded /\ push'.lines = push.lines /\ push'.at = push.at
        /\ push'.listed = push.listed /\ push'.heads = push.heads /\ push'.blobs = push.blobs
    BY <1>1 DEF PushTypes, PushFields
  <1>10. PushTypes'
    BY <1>1, <1>5, <1>6, <1>7, <1>9 DEF PushTypes
  <1>11. ReadInv'
    BY <1>1, <1>5, <1>6, <1>7, <1>9 DEF ReadInv, WillBeRead
  <1> QED
    BY <1>7, <1>8, <1>9, <1>10, <1>11 DEF SendInv

(* What the hook was handed covers all that a push will publish: a ref it  *)
(* is not handed holds nothing new, and what is known of the remote is old *)
(* but true (hook.mjs, push.mjs).                                          *)
THEOREM GateInvariant ==
  ASSUME Gate!GateAssumption
  PROVE  Gate!Spec => []GateInv
  <1>1. Gate!Init => GateInv
    BY GateStarts
  <1>2. GateInv /\ [Gate!Next]_(Gate!vars) => GateInv'
    <2> SUFFICES ASSUME GateInv, [Gate!Next]_(Gate!vars) PROVE GateInv'
      OBVIOUS
    <2>1. CASE UNCHANGED Gate!vars
      BY <2>1, NothingElseMoves, PushStays DEF Gate!vars, Grown, GateInv, Gate!Ids
    <2>2. CASE Gate!Next
      BY <2>2, CommitKeeps, OtherCloneKeeps, FetchKeeps, PushBeginKeeps, EnumerationKeeps, ScanKeeps, RefusalKeeps,
         SendKeeps, Zenon DEF Gate!Next
    <2> QED
      BY <2>1, <2>2
  <1> QED
    BY <1>1, <1>2, PTL DEF Gate!Spec

(* A ref of the remote moves by a push alone.                              *)
LEMMA OnlySendSends ==
  ASSUME Gate!Sends, [Gate!Next]_(Gate!vars)
  PROVE  Gate!Send
  BY DEF Gate!Sends, Gate!Next, Gate!vars, Gate!Commit, Gate!quiet, Gate!OtherClone, Gate!Fetch, Gate!Begin, Gate!ListNoRange, Gate!ListUpdate, Gate!QueryRemote, Gate!ListNew,
         Gate!EnumerationEnds, Gate!EnumerationFails, Gate!Enumerates, Gate!Scan, Gate!ReadFails, Gate!Over, Gate!Refuse

LEMMA FewerPatternsMatchLess ==
  ASSUME NEW ps, NEW qs, ps \subseteq qs
  PROVE  /\ \A text : Gate!Matches(text, ps) => Gate!Matches(text, qs)
         /\ \A p, v : Gate!FileIsClean(p, v, qs) => Gate!FileIsClean(p, v, ps)
         /\ \A c : Gate!CommitIsClean(c, qs) => Gate!CommitIsClean(c, ps)
  <1>1. \A text : Gate!Matches(text, ps) => Gate!Matches(text, qs)
    BY DEF Gate!Matches
  <1>2. ASSUME NEW p, NEW v, Gate!FileIsClean(p, v, qs) PROVE Gate!FileIsClean(p, v, ps)
    BY <1>1, <1>2 DEF Gate!FileIsClean
  <1>3. ASSUME NEW c, Gate!CommitIsClean(c, qs) PROVE Gate!CommitIsClean(c, ps)
    BY <1>1, <1>3, Zenon DEF Gate!CommitIsClean
  <1> QED
    BY <1>1, <1>2, <1>3

LEMMA SentIsClean ==
  ASSUME Gate!GateAssumption, GateInv, Gate!Send
  PROVE  Gate!NothingMatchedLands
  <1> USE DEF GateInv
  <1> DEFINE to(r) == {l \in Gate!ToSet(push.lines) : l.ref = r /\ Gate!Landing(l) /\ l.tip.kind \in {"commit", "none"}}
             landed == {l.tip.commit : l \in UNION {to(r) : r \in Refs}}
             ps == push.patterns
  <1>1. published' = published \cup Gate!Reach(landed) /\ push.phase = "send"
    BY DEF Gate!Send
  <1>2. Cleared(ps) /\ Gate!Asked \subseteq ps
    BY <1>1 DEF SendInv, Cleared
  <1>3. ASSUME NEW x \in landed \ {Gate!NoCommit}
        PROVE  x \in Gate!Ids /\ \A c \in Gate!Reach({x}) : WillBeRead(c)
    <2>1. PICK l \in Gate!ToSet(push.lines) : l.tip.kind \in {"commit", "none"} /\ x = l.tip.commit
      BY <1>3
    <2>2. PICK i \in DOMAIN push.lines : l = push.lines[i]
      BY DEF Gate!ToSet
    <2>3. TipIsThere(l.tip)
      BY <2>2 DEF PushTypes
    <2>4. l.tip.kind = "commit" /\ x \in Gate!Ids
      BY <1>3, <2>1, <2>3 DEF TipIsThere
    <2>5. i \in Gate!ToSet(push.listed)
      <3>1. push.listed = [j \in 1 .. Len(push.lines) |-> j] /\ push.lines \in Seq(LineSet)
        BY <1>2 DEF Cleared, Gate!AnswersForAll, PushTypes
      <3>2. i \in 1 .. Len(push.lines)
        BY <2>2, <3>1
      <3>3. i \in DOMAIN push.listed /\ push.listed[i] = i
        BY <3>1, <3>2
      <3> QED
        BY <3>3 DEF Gate!ToSet
    <2> QED
      BY <2>1, <2>2, <2>4, <2>5 DEF ReadInv
  <1>4. landed \subseteq {Gate!NoCommit} \cup Gate!Ids
    BY <1>3
  <1>5. ASSUME NEW c \in published' \ published
        PROVE  /\ Gate!CommitIsClean(c, Gate!Asked)
               /\ \A p \in Gate!Paths : \/ commits[c].tree[p] = Gate!Absent
                                        \/ \E d \in published : commits[d].tree[p] = commits[c].tree[p]
                                        \/ Gate!FileIsClean(p, commits[c].tree[p], Gate!Asked)
    <2> HIDE DEF landed, ps
    <2>1. PICK x \in landed \ {Gate!NoCommit} : c \in Gate!Reach({x})
      BY <1>1, <1>4, <1>5, ReachIsOfOne
    <2>2. x \in Gate!Ids /\ c \in Gate!Ids /\ Gate!Reach({c}) \subseteq Gate!Reach({x})
      <3>1. x \in Gate!Ids
        BY <1>3
      <3>2. {x} \subseteq {Gate!NoCommit} \cup Gate!Ids
        BY <3>1
      <3>3. c \in Gate!Ids
        BY <2>1, <3>2, ReachHolds
      <3> QED
        BY <2>1, <3>1, <3>3, ReachGrows
    <2>3. c \in push.heads
      BY <1>3, <1>5, <2>1 DEF WillBeRead
    <2>4. Gate!CommitIsClean(c, Gate!Asked)
      BY <1>2, <2>3, FewerPatternsMatchLess DEF Cleared
    <2>5. ASSUME NEW p \in Gate!Paths, commits[c].tree[p] # Gate!Absent,
                 \A d \in published : commits[d].tree[p] # commits[c].tree[p]
          PROVE  Gate!FileIsClean(p, commits[c].tree[p], Gate!Asked)
      <3>1. PICK d \in Gate!Reach({c}) : commits[d].tree[p] = commits[c].tree[p] /\ Gate!NewTo(d, p)
        BY <2>2, <2>5, Origin
      <3>2. WillBeRead(d)
        BY <1>3, <2>1, <2>2, <3>1
      <3>3. <<d, p>> \in push.blobs
        BY <2>5, <3>1, <3>2 DEF WillBeRead
      <3>4. Gate!FileIsClean(p, commits[d].tree[p], ps)
        BY <1>2, <3>3 DEF Cleared
      <3> QED
        BY <1>2, <3>1, <3>4, FewerPatternsMatchLess
    <2>6. ASSUME NEW p \in Gate!Paths
          PROVE  \/ commits[c].tree[p] = Gate!Absent
                 \/ \E d \in published : commits[d].tree[p] = commits[c].tree[p]
                 \/ Gate!FileIsClean(p, commits[c].tree[p], Gate!Asked)
      BY <2>5, Zenon
    <2> QED
      BY <2>4, <2>6, Zenon
  <1> QED
    BY <1>5, Zenon DEF Gate!NothingMatchedLands

LEMMA SentIsRead ==
  ASSUME Gate!GateAssumption, GateInv, Gate!Send
  PROVE  Gate!EveryLineIsRead
  <1> USE DEF GateInv
  <1> DEFINE ps == push.patterns
  <1>1. Cleared(ps) /\ Gate!Asked \subseteq ps /\ ps \subseteq {"word", "me"}
    BY DEF Gate!Send, SendInv, Cleared
  <1> HIDE DEF ps
  <1>2. ASSUME NEW l \in Gate!ToSet(push.lines), NEW text \in Gate!PublishedBy(l)
        PROVE  ~Gate!Matches(text, ps)
    <2>1. PICK i \in DOMAIN push.lines : l = push.lines[i]
      BY DEF Gate!ToSet
    <2>2. i \in Gate!ToSet(push.listed)
      <3>1. push.listed = [j \in 1 .. Len(push.lines) |-> j] /\ push.lines \in Seq(LineSet)
        BY <1>1 DEF Cleared, Gate!AnswersForAll, PushTypes
      <3>2. i \in 1 .. Len(push.lines)
        BY <2>1, <3>1
      <3>3. i \in DOMAIN push.listed /\ push.listed[i] = i
        BY <3>1, <3>2
      <3> QED
        BY <3>3 DEF Gate!ToSet
    <2>3. ~Gate!Matches(NamedAs[l.ref], ps) /\ Gate!TipIsClean(l.tip, ps) /\ TipIsThere(l.tip)
      BY <1>1, <2>1, <2>2 DEF Cleared, Gate!StreamIsClean, PushTypes
    <2>4. CASE text = NamedAs[l.ref]
      BY <2>3, <2>4
    <2>5. CASE text \in Gate!ToSet(l.tip.chain)
      BY <2>3, <2>5 DEF Gate!TipIsClean
    <2>6. CASE text = l.tip.text
      <3>1. CASE l.tip.kind = "blob"
        BY <2>3, <2>6, <3>1 DEF Gate!TipIsClean
      <3>2. CASE l.tip.kind # "blob"
        <4>1. text = "plain"
          BY <2>3, <2>6, <3>2 DEF TipIsThere
        <4> QED
          BY <1>1, <4>1 DEF Gate!Matches
      <3> QED
        BY <3>1, <3>2
    <2>7. ASSUME l.tip.kind = "tree", NEW p \in Gate!Paths, commits[l.tip.commit].tree[p] # Gate!Absent,
                 text \in {commits[l.tip.commit].tree[p], Gate!PathText(p)}
          PROVE  ~Gate!Matches(text, ps)
      <3>1. /\ ~Gate!Matches(Gate!PathText(p), ps)
            /\ commits[l.tip.commit].tree[p] = "link" \/ ~Gate!Matches(commits[l.tip.commit].tree[p], ps)
        BY <2>3, <2>7 DEF Gate!TipIsClean
      <3>2. ~Gate!Matches("link", ps)
        BY <1>1 DEF Gate!Matches
      <3> QED
        BY <2>7, <3>1, <3>2
    <2> QED
      BY <2>4, <2>5, <2>6, <2>7 DEF Gate!PublishedBy
  <1>3. ASSUME NEW text, ~Gate!Matches(text, ps) PROVE ~Gate!Matches(text, Gate!Asked)
    BY <1>1, <1>3, FewerPatternsMatchLess
  <1> QED
    BY <1>2, <1>3, Zenon DEF Gate!EveryLineIsRead

(* No push lands a message, a name or a line that a pattern the pushed     *)
(* tree, or the machine, asks for matches (pushGate, push.mjs).            *)
THEOREM NothingMatchedEverLands ==
  ASSUME Gate!GateAssumption
  PROVE  Gate!Spec => [][Gate!NothingMatchedLands]_(Gate!vars)
  <1>1. GateInv /\ [Gate!Next]_(Gate!vars) => Gate!NothingMatchedLands
    <2> SUFFICES ASSUME GateInv, [Gate!Next]_(Gate!vars), Gate!Sends PROVE Gate!NothingMatchedLands
      BY DEF Gate!NothingMatchedLands
    <2> QED
      BY OnlySendSends, SentIsClean
  <1> QED
    BY <1>1, GateInvariant, PTL DEF Gate!Spec

(* Of what a push lands, every line was read, whatever the patterns: a     *)
(* push whose reading failed is refused.                                   *)
THEOREM EveryLineIsAlwaysRead ==
  ASSUME Gate!GateAssumption
  PROVE  Gate!Spec => [][Gate!EveryLineIsRead]_(Gate!vars)
  <1>1. GateInv /\ [Gate!Next]_(Gate!vars) => Gate!EveryLineIsRead
    <2> SUFFICES ASSUME GateInv, [Gate!Next]_(Gate!vars), Gate!Sends PROVE Gate!EveryLineIsRead
      BY DEF Gate!EveryLineIsRead
    <2> QED
      BY OnlySendSends, SentIsRead
  <1> QED
    BY <1>1, GateInvariant, PTL DEF Gate!Spec

(* A commit's files hold what a file of that name can hold.                *)
TreesInv ==
    /\ \A c \in Gate!Ids : \A p \in Gate!Paths : commits[c].tree[p] \in Gate!ContentsOf(p)
    /\ working \in {Gate!Absent, "declares"}

LEMMA NewTreesAreTyped ==
  ASSUME HistoryInv, TreesInv, NEW parents \in SUBSET Gate!Ids, NEW changes,
         \A ch \in changes : \/ ch[1] \in Gate!Paths /\ ch[2] \in Gate!ContentsOf(ch[1])
                             \/ ch[1] \in Kinds /\ ch[2] \in Gate!Texts,
         NEW c \in Gate!NewCommits(parents, changes), NEW p \in Gate!Paths
  PROVE  c.tree[p] \in Gate!ContentsOf(p)
  <1>1. PICK paths \in Gate!Merged(parents) : \E ch \in changes :
            c = [parents |-> parents, tree |-> IF ch[1] \in Gate!Paths THEN [paths EXCEPT ![ch[1]] = ch[2]] ELSE paths,
                 texts |-> IF ch[1] \in Gate!Paths THEN Gate!Mine ELSE [Gate!Mine EXCEPT ![ch[1]] = ch[2]]]
    BY DEF Gate!NewCommits
  <1>2. PICK ch \in changes :
            c = [parents |-> parents, tree |-> IF ch[1] \in Gate!Paths THEN [paths EXCEPT ![ch[1]] = ch[2]] ELSE paths,
                 texts |-> IF ch[1] \in Gate!Paths THEN Gate!Mine ELSE [Gate!Mine EXCEPT ![ch[1]] = ch[2]]]
    BY <1>1
  <1>3. DOMAIN paths = Gate!Paths /\ paths[p] \in Gate!ContentsOf(p)
    <2>1. CASE parents = {}
      <3>1. paths = Gate!Bare
        BY <1>1, <2>1 DEF Gate!Merged
      <3> QED
        BY <3>1 DEF Gate!Bare, Gate!Paths, Gate!ContentsOf, Gate!Absent
    <2>2. CASE parents # {}
      <3>1. PICK of \in [Gate!Paths -> parents] : paths = [q \in Gate!Paths |-> commits[of[q]].tree[q]]
        BY <1>1, <2>2 DEF Gate!Merged
      <3>2. of[p] \in Gate!Ids
        BY <3>1
      <3> QED
        BY <3>1, <3>2 DEF TreesInv
    <2> QED
      BY <2>1, <2>2
  <1>4. CASE ch[1] \in Gate!Paths
    <2>1. ch[1] \notin Kinds
      BY <1>4 DEF Gate!Paths, Kinds
    <2>2. ch[2] \in Gate!ContentsOf(ch[1])
      BY <2>1
    <2>3. c.tree = [paths EXCEPT ![ch[1]] = ch[2]]
      BY <1>2, <1>4
    <2>4. c.tree[p] = IF p = ch[1] THEN ch[2] ELSE paths[p]
      BY <1>3, <2>3
    <2> QED
      BY <1>3, <2>2, <2>4
  <1>5. CASE ch[1] \notin Gate!Paths
    <2>1. c.tree = paths
      BY <1>2, <1>5
    <2> QED
      BY <1>3, <2>1
  <1> QED
    BY <1>4, <1>5

LEMMA NewCommitKeepsTrees ==
  ASSUME HistoryInv, TreesInv, NEW parents \in SUBSET Gate!Ids, NEW changes,
         \A ch \in changes : \/ ch[1] \in Gate!Paths /\ ch[2] \in Gate!ContentsOf(ch[1])
                             \/ ch[1] \in Kinds /\ ch[2] \in Gate!Texts,
         NEW c \in Gate!NewCommits(parents, changes), commits' = Append(commits, c), UNCHANGED working
  PROVE  TreesInv'
  <1>1. c \in CommitSet /\ c.parents = parents
    BY CommitsAreTyped
  <1>2. Grown /\ Gate!Ids' = Gate!Ids \cup {Len(commits')} /\ commits'[Len(commits')] = c
    BY <1>1, AppendGrows
  <1>3. ASSUME NEW d \in Gate!Ids', NEW p \in Gate!Paths PROVE commits'[d].tree[p] \in Gate!ContentsOf(p)
    <2>1. CASE d \in Gate!Ids
      BY <1>2, <2>1 DEF Grown, TreesInv
    <2>2. CASE d = Len(commits')
      BY <1>2, <2>2, NewTreesAreTyped
    <2> QED
      BY <1>2, <2>1, <2>2
  <1> QED
    BY <1>3 DEF TreesInv

LEMMA GateTypes ==
  ASSUME Gate!GateAssumption
  PROVE  Gate!Spec => []Gate!TypeOK
  <1>1. Gate!Init => TreesInv
    <2> SUFFICES ASSUME Gate!Init PROVE TreesInv
      OBVIOUS
    <2>1. PICK first \in {"declares", Gate!Absent} :
              commits = <<[parents |-> {}, tree |-> [Gate!Bare EXCEPT !["config"] = first], texts |-> Gate!Mine]>>
      BY DEF Gate!Init
    <2>2. Len(commits) = 1 /\ Gate!Ids = {1}
      BY <2>1 DEF Gate!Ids
    <2>3. commits[1].tree = [Gate!Bare EXCEPT !["config"] = first]
      BY <2>1
    <2> QED
      BY <2>2, <2>3 DEF Gate!Init, TreesInv, Gate!Bare, Gate!Paths, Gate!ContentsOf, Gate!Absent
  <1>2. GateInv /\ TreesInv /\ [Gate!Next]_(Gate!vars) => TreesInv'
    <2> SUFFICES ASSUME GateInv, TreesInv, [Gate!Next]_(Gate!vars) PROVE TreesInv'
      OBVIOUS
    <2>1. CASE Gate!Commit
      <3>1. PICK parents \in {s \in SUBSET known : Gate!Cardinality(s) <= 2} : \E c \in Gate!NewCommits(parents, Changes) :
                commits' = Append(commits, c)
        BY <2>1 DEF Gate!Commit
      <3>2. PICK c \in Gate!NewCommits(parents, Changes) : commits' = Append(commits, c)
        BY <3>1
      <3>3. parents \in SUBSET Gate!Ids /\ HistoryInv /\ UNCHANGED working
        BY <2>1 DEF GateInv, RefsInv, Gate!Commit
      <3>4. \A ch \in Changes : \/ ch[1] \in Gate!Paths /\ ch[2] \in Gate!ContentsOf(ch[1])
                                \/ ch[1] \in Kinds /\ ch[2] \in Gate!Texts
        BY DEF Gate!GateAssumption, Kinds
      <3> QED
        BY <3>2, <3>3, <3>4, NewCommitKeepsTrees
    <2>2. CASE Gate!OtherClone
      <3> DEFINE theirChanges == {<<"note", "word">>, <<"config", "declares">>}
      <3>1. PICK r \in Refs :
              \/ \E c \in Gate!NewCommits({remote[r]} \ {Gate!NoCommit}, theirChanges) : commits' = Append(commits, c)
              \/ UNCHANGED commits
        BY <2>2 DEF Gate!OtherClone
      <3>2. HistoryInv /\ UNCHANGED working /\ {remote[r]} \ {Gate!NoCommit} \in SUBSET Gate!Ids
        BY <2>2 DEF GateInv, RefsInv, Gate!OtherClone
      <3>3. \A ch \in theirChanges : \/ ch[1] \in Gate!Paths /\ ch[2] \in Gate!ContentsOf(ch[1])
                                     \/ ch[1] \in Kinds /\ ch[2] \in Gate!Texts
        BY DEF Gate!Paths, Gate!ContentsOf
      <3> HIDE DEF theirChanges
      <3>4. CASE UNCHANGED commits
        BY <3>2, <3>4 DEF TreesInv, Gate!Ids
      <3>5. ASSUME NEW c \in Gate!NewCommits({remote[r]} \ {Gate!NoCommit}, theirChanges), commits' = Append(commits, c)
            PROVE  TreesInv'
        BY <3>2, <3>3, <3>5, NewCommitKeepsTrees
      <3> QED
        BY <3>1, <3>4, <3>5
    <2>3. CASE UNCHANGED <<commits, working>>
      BY <2>3 DEF TreesInv, Gate!Ids
    <2>4. \/ Gate!Fetch \/ Gate!Begin \/ Gate!ListNoRange \/ Gate!ListUpdate \/ Gate!QueryRemote \/ Gate!ListNew
          \/ Gate!EnumerationEnds \/ Gate!EnumerationFails \/ Gate!Scan \/ Gate!ReadFails \/ Gate!Send \/ Gate!Over
          \/ UNCHANGED Gate!vars
          => UNCHANGED <<commits, working>>
      BY Zenon DEF Gate!Fetch, Gate!Begin, Gate!ListNoRange, Gate!ListUpdate, Gate!QueryRemote, Gate!ListNew, Gate!EnumerationEnds,
         Gate!EnumerationFails, Gate!Enumerates, Gate!Scan, Gate!ReadFails, Gate!Send, Gate!Over, Gate!Refuse, Gate!vars, Gate!steady
    <2> QED
      BY <2>1, <2>2, <2>3, <2>4, Zenon DEF Gate!Next
  <1>3. GateInv /\ TreesInv => Gate!TypeOK
    BY DEF GateInv, HistoryInv, RefsInv, PushTypes, TreesInv, Gate!TypeOK
  <1> QED
    BY <1>1, <1>2, <1>3, GateInvariant, PTL DEF Gate!Spec

(***************************************************************************)
(* The parts side by side: a behaviour of Setup is one of one part, and    *)
(* that part's own.                                                        *)
(***************************************************************************)

LEMMA MachineApart == Spec => (part = "machine" /\ MachineFile!Spec) \/ [](~(part = "machine"))
  <1>1. Init /\ part = "machine" => MachineFile!Init
    BY DEF Init
  <1>2. part = "machine" /\ [Next]_vars => (part = "machine")' /\ [MachineFile!Next]_(MachineFile!vars)
    BY DEF Next, vars, ofMachine, MachineFile!vars
  <1>3. ~(part = "machine") /\ [Next]_vars => ~(part = "machine")'
    BY DEF Next, vars
  <1> QED
    BY <1>1, <1>2, <1>3, PTL DEF Spec, MachineFile!Spec

LEMMA ManagedApart == Spec => (part = "managed" /\ Managed!Spec) \/ [](~(part = "managed"))
  <1>1. Init /\ part = "managed" => Managed!Init
    BY DEF Init
  <1>2. part = "managed" /\ [Next]_vars => (part = "managed")' /\ [Managed!Next]_(Managed!vars)
    BY DEF Next, vars, ofManaged, Managed!vars
  <1>3. ~(part = "managed") /\ [Next]_vars => ~(part = "managed")'
    BY DEF Next, vars
  <1> QED
    BY <1>1, <1>2, <1>3, PTL DEF Spec, Managed!Spec

LEMMA LedgerApart == Spec => (part = "init" /\ Ledger!Spec) \/ [](~(part = "init"))
  <1>1. Init /\ part = "init" => Ledger!Init
    BY DEF Init
  <1>2. part = "init" /\ [Next]_vars => (part = "init")' /\ [Ledger!Next]_(Ledger!vars)
    BY DEF Next, vars, ofInit, Ledger!vars
  <1>3. ~(part = "init") /\ [Next]_vars => ~(part = "init")'
    BY DEF Next, vars
  <1> QED
    BY <1>1, <1>2, <1>3, PTL DEF Spec, Ledger!Spec

LEMMA GateApart == Spec => (part = "gate" /\ Gate!Spec) \/ [](~(part = "gate"))
  <1>1. Init /\ part = "gate" => Gate!Init
    BY DEF Init
  <1>2. part = "gate" /\ [Next]_vars => (part = "gate")' /\ [Gate!Next]_(Gate!vars)
    BY DEF Next, vars, ofGate, Gate!vars
  <1>3. ~(part = "gate") /\ [Next]_vars => ~(part = "gate")'
    BY DEF Next, vars
  <1> QED
    BY <1>1, <1>2, <1>3, PTL DEF Spec, Gate!Spec

(* No register, however many run at once, die or leave a half-written      *)
(* machine file, mixes the state of two vaults: each brings its own        *)
(* directory, none is lost, and a command that fails changes nothing; for  *)
(* any vaults and paths (registerVault, machine/state.mjs).                *)
THEOREM EveryStateIsItsVaults == MachineFile!MachineAssumption /\ ~Reuse => (Spec => MachineStateIsKept)
  <1>1. part = "machine" /\ [Next]_vars /\ [MachineFile!MachineStateIsKept]_(MachineFile!vars)
        => [part = "machine" => MachineFile!MachineStateIsKept]_vars
    BY DEF Next, vars, MachineFile!vars, ofMachine
  <1>2. ~(part = "machine") /\ [Next]_vars => [part = "machine" => MachineFile!MachineStateIsKept]_vars
    BY DEF Next, vars
  <1>3. part = "machine" /\ [Next]_vars => (part = "machine")'
    BY DEF Next, vars
  <1> QED
    BY <1>1, <1>2, <1>3, MachineApart, MachineStateIsAlwaysKept, PTL DEF Spec, MachineStateIsKept

(* Nothing the kit runs takes what is another's: no update, however many   *)
(* run at once and of whatever kit, overwrites what the owner wrote, goes  *)
(* back to an older text or hides one he has not seen, and init's undo     *)
(* keeps what others made meanwhile; for any files, kits and places        *)
(* (updateKit, commands/update.mjs; undo of commands/init.mjs).            *)
THEOREM WhatIsOthersIsAlwaysKept ==
  ASSUME Managed!ManagedAssumption, ~AcceptsUnseen, Ledger!LedgerAssumption, ~HalfMade
  PROVE  Spec => WhatIsTheirsIsKept
  <1> DEFINE P == /\ part = "managed" => Managed!NoEditOverwritten /\ Managed!NeverBackwards /\ Managed!NothingNewIsHidden
                  /\ part = "init" => Ledger!OthersAreKept
  <1>1. /\ part = "managed" /\ [Next]_vars
        /\ [Managed!NoEditOverwritten]_(Managed!vars)
        /\ [Managed!NeverBackwards]_(Managed!vars)
        /\ [Managed!NothingNewIsHidden]_(Managed!vars)
        => [P]_vars
    BY DEF Next, vars, Managed!vars, ofManaged
  <1>2. part = "init" /\ [Next]_vars /\ [Ledger!OthersAreKept]_(Ledger!vars) => [P]_vars
    BY DEF Next, vars, Ledger!vars, ofInit
  <1>3. ~(part = "managed") /\ ~(part = "init") => [P]_vars
    OBVIOUS
  <1>4. part = "managed" /\ [Next]_vars => (part = "managed")'
    BY DEF Next, vars
  <1>5. part = "init" /\ [Next]_vars => (part = "init")'
    BY DEF Next, vars
  <1> HIDE DEF P
  <1>6. Spec => [][P]_vars
    BY <1>1, <1>2, <1>3, <1>4, <1>5, ManagedApart, LedgerApart,
       EditsAreNotOverwritten, FilesOnlyGetNewer, NothingIsHidden, OthersAreAlwaysKept, PTL DEF Spec
  <1> QED
    BY <1>6, PTL DEF P, WhatIsTheirsIsKept

(* A command that failed leaves what it found and nothing of its own but   *)
(* what it names, and the manifest says what `update` last left in a file  *)
(* nobody edited; for any places, files and deaths (init.mjs and its       *)
(* ledger, commands/update.mjs).                                           *)
THEOREM NothingIsEverWrong ==
  ASSUME MachineFile!MachineAssumption, ~Reuse, Managed!ManagedAssumption,
         Ledger!LedgerAssumption, ~HalfMade, Gate!GateAssumption
  PROVE  Spec => []NothingIsLeftWrong
  <1> DEFINE M == part = "machine" => MachineFile!TypeOK
             F == part = "managed" => Managed!TypeOK /\ Managed!ManifestIsTrue
             L == part = "init" => Ledger!NothingIsLeftWrong
             G == part = "gate" => Gate!TypeOK
  <1>1. (MachineFile!TypeOK => M) /\ (~(part = "machine") => M)
    OBVIOUS
  <1>2. (FilesInv /\ Managed!ManifestIsTrue => F) /\ (~(part = "managed") => F)
    BY DEF FilesInv, Typed
  <1>3. (Ledger!NothingIsLeftWrong => L) /\ (~(part = "init") => L)
    OBVIOUS
  <1>4. (Gate!TypeOK => G) /\ (~(part = "gate") => G)
    OBVIOUS
  <1>5. M /\ F /\ L /\ G => NothingIsLeftWrong
    BY DEF NothingIsLeftWrong
  <1> HIDE DEF M, F, L, G
  <1>6. Spec => []M
    BY <1>1, MachineApart, MachineTypes, PTL
  <1>7. Spec => []F
    BY <1>2, ManagedApart, FilesInvariant, ManifestHolds, PTL
  <1>8. Spec => []L
    BY <1>3, LedgerApart, NothingIsEverLeftWrong, PTL
  <1>9. Spec => []G
    BY <1>4, GateApart, GateTypes, PTL
  <1> QED
    BY <1>5, <1>6, <1>7, <1>8, <1>9, PTL

(* Nothing the patterns match is in what a push that the gate let through  *)
(* publishes, its commits, trees, tags and names of references, whatever   *)
(* is pushed beside it and whichever scan fails; for any histories of      *)
(* commits (runPushGate, push-gate.mjs).                                   *)
THEOREM NothingMatchedIsPublished ==
  ASSUME Gate!GateAssumption
  PROVE  Spec => NothingMatchedLands
  <1> DEFINE P == part = "gate" => Gate!NothingMatchedLands /\ Gate!EveryLineIsRead
  <1>1. /\ part = "gate" /\ [Next]_vars
        /\ [Gate!NothingMatchedLands]_(Gate!vars)
        /\ [Gate!EveryLineIsRead]_(Gate!vars)
        => [P]_vars
    BY DEF Next, vars, Gate!vars, ofGate
  <1>2. ~(part = "gate") => [P]_vars
    OBVIOUS
  <1>3. part = "gate" /\ [Next]_vars => (part = "gate")'
    BY DEF Next, vars
  <1> HIDE DEF P
  <1>4. Spec => [][P]_vars
    BY <1>1, <1>2, <1>3, GateApart, NothingMatchedEverLands, EveryLineIsAlwaysRead, PTL DEF Spec
  <1> QED
    BY <1>4, PTL DEF P, NothingMatchedLands
=============================================================================
