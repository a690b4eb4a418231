---------------------------- MODULE MachineState ----------------------------
(***************************************************************************)
(* The state a machine keeps of each vault, outside the vault, in a        *)
(* directory named after the vault's path; and the commands that write its *)
(* machine.json: `init`, `machine set`, `machine register` in its three    *)
(* forms.  Vaults are moved, copied here and deleted by the person; a      *)
(* register is several calls, any of which fails or is the last.           *)
(* src/commands/machine.mjs, src/init/machine.mjs, src/state.mjs.          *)
(***************************************************************************)
EXTENDS Naturals, FiniteSets

CONSTANTS
    Vaults,
    Paths,      \* where a vault may be; each has its own state directory
    NameOf,     \* the folder name of a path
    None,
    MaxPerson,  \* bound: moves, copies and deletions by the person
    MaxCuts,    \* bound: commands killed half way
    Reuse       \* a vault may begin where another began that moved away

MachineAssumption ==
    /\ None \notin Vaults \cup Paths
    /\ DOMAIN NameOf = Paths /\ IsFiniteSet(Paths)
    /\ MaxPerson \in Nat /\ MaxCuts \in Nat /\ Reuse \in BOOLEAN

VARIABLES
    at,       \* where each vault is, None when it is not on this machine
    was,      \* where each vault was before its last move
    dirs,     \* the state directories, by the path they derive from
    op,       \* the register in progress
    reply,    \* what the last command answered
    person, cuts

vars == <<at, was, dirs, op, reply, person, cuts>>

NoMachine == [id |-> None, canonical |-> None, home |-> None]
NoDir     == [there |-> FALSE, machine |-> NoMachine, trace |-> FALSE, marks |-> None, queue |-> None]
NoOp      == [step |-> "none", vault |-> None, source |-> None, next |-> NoMachine, before |-> <<>>, from |-> None,
              aside |-> FALSE]
Silent    == [command |-> "none", vault |-> None, from |-> None]

Machines == [id : Paths \cup {None}, canonical : Paths \cup {None}, home : Paths \cup {None}]
States   == [there : BOOLEAN, machine : Machines, trace : BOOLEAN,
             marks : Vaults \cup {None}, queue : Vaults \cup {None}]

TypeOK ==
    /\ at \in [Vaults -> Paths \cup {None}] /\ was \in [Vaults -> Paths \cup {None}]
    /\ dirs \in [Paths -> States]
    /\ op.step \in {"none", "clear", "move", "write", "back"}
    /\ person \in 0 .. MaxPerson /\ cuts \in 0 .. MaxCuts

Registered(p) == dirs[p].machine # NoMachine
Live(p)       == {v \in Vaults : at[v] = p}

Init ==
    /\ at = [v \in Vaults |-> None] /\ was = at
    /\ dirs = [p \in Paths |-> NoDir]
    /\ op = NoOp /\ reply = Silent
    /\ person = 0 /\ cuts = 0

(***************************************************************************)
(* The person.                                                             *)
(***************************************************************************)

Acts == op = NoOp /\ person + cuts < MaxPerson /\ person' = person + 1 /\ reply' = Silent

(* A clone of a configured vault, moved here or opened for the first time. *)
Move(v, p) ==
    /\ Acts
    /\ Live(p) = {}
    /\ at' = [at EXCEPT ![v] = p]
    /\ was' = [was EXCEPT ![v] = at[v]]
    /\ UNCHANGED <<dirs, op, cuts>>

(* Deleted, its state not cleaned up.                                      *)
Delete(v) ==
    /\ Acts
    /\ at[v] # None
    /\ at' = [at EXCEPT ![v] = None]
    /\ was' = [was EXCEPT ![v] = None]
    /\ UNCHANGED <<dirs, op, cuts>>

(* The person removes a machine.json: the undo `register --new` prints, or *)
(* what adopting again asks for.                                           *)
RemoveMachine(p) ==
    /\ Acts
    /\ Registered(p)
    /\ dirs' = [dirs EXCEPT ![p].machine = NoMachine]
    /\ UNCHANGED <<at, was, op, cuts>>

(***************************************************************************)
(* A round, and what it writes where.                                      *)
(***************************************************************************)

(* Without a machine.json a round leaves its trace; with one, its marks in *)
(* this directory and its questions where the file's paths say.            *)
Round(v) ==
    LET p == at[v]
        d == dirs[p]
        home == d.machine.home
    IN  /\ op = NoOp /\ p # None
        /\ reply' = Silent
        /\ dirs' =
             IF ~Registered(p) THEN [dirs EXCEPT ![p].there = TRUE, ![p].trace = TRUE]
             ELSE [q \in Paths |->
                     [dirs[q] EXCEPT
                        !.there = @ \/ q = p,
                        !.trace = @ \/ q = p,
                        !.marks = IF q = p /\ @ = None THEN v ELSE @,
                        !.queue = IF q = home /\ dirs[q].there /\ @ = None THEN v ELSE @]]
        /\ UNCHANGED <<at, was, op, person, cuts>>

(* The id is made of the path: two vaults that began at one path share it. *)
NewId(p) == Reuse \/ \A q \in Paths : dirs[q].machine.id # p

(* A new machine.json (writeMachineFile), created exclusively.             *)
Write(p) == [dirs EXCEPT ![p].there = TRUE, ![p].machine = [id |-> p, canonical |-> p, home |-> p]]

(* init, and init --adopt: nothing there yet may record a machine.         *)
Create(v, p) ==
    /\ op = NoOp /\ at[v] = None /\ was[v] = None /\ Live(p) = {}
    /\ person + cuts < MaxPerson /\ person' = person + 1
    /\ ~Registered(p) /\ NewId(p)
    /\ at' = [at EXCEPT ![v] = p]
    /\ dirs' = Write(p)
    /\ reply' = [command |-> "init", vault |-> v, from |-> None]
    /\ UNCHANGED <<was, op, cuts>>

(***************************************************************************)
(* register                                                                *)
(***************************************************************************)

(* beyondTrace: more than what a refused round leaves.                     *)
Beyond(d) == d.marks # None \/ d.queue # None

(* The vault that is in place where a machine.json says, other than v.     *)
OtherLive(recorded, v) == recorded \in Paths /\ Live(recorded) \ {v} # {}

(* Records whose vault is gone, or leads here: what `register` lists.      *)
Orphans(v) == {q \in Paths \ {at[v]} : Registered(q) /\ ~OtherLive(dirs[q].machine.canonical, v)}

(* Mutant: only a path that leads here is recognised.                      *)
LooksMovedByLink(v) == {q \in Orphans(v) : Live(dirs[q].machine.canonical) = {v}}

LooksMoved(v) ==
    {q \in Orphans(v) :
        \/ Live(dirs[q].machine.canonical) = {v}
        \/ NameOf[dirs[q].machine.canonical] = NameOf[at[v]]}

(* register --new: the person says this machine never had state for it.    *)
RegisterNew(v) ==
    LET p == at[v]
    IN  /\ op = NoOp /\ p # None
        /\ ~Registered(p) /\ ~Beyond(dirs[p]) /\ NewId(p)
        /\ LooksMoved(v) = {}
        /\ dirs' = Write(p)
        /\ reply' = [command |-> "new", vault |-> v, from |-> None]
        /\ UNCHANGED <<at, was, op, person, cuts>>

(* Where --from leads: a directory that holds a machine.json, the target   *)
(* itself only when the other does not.                                    *)
SourceFor(from, target) ==
    IF from = None THEN target
    ELSE IF Registered(from) THEN from
    ELSE IF Registered(target) THEN target ELSE None

(* Mutant: a record at the target that names this path is this vault's.    *)
MaySettleByPath(source, target) ==
    \/ source = target
    \/ Registered(target) /\ dirs[target].machine.canonical = target
    \/ ~Registered(target) /\ ~Beyond(dirs[target])

(* The target has this vault's own record, by its id, or nothing at all    *)
(* but a refused round's trace.                                            *)
MaySettle(source, target) ==
    \/ source = target
    \/ Registered(target) /\ dirs[target].machine.id = dirs[source].machine.id
    \/ ~Registered(target) /\ ~Beyond(dirs[target])

(* Mutant: what the file points at stays where it was.                     *)
RebaseNothing(machine, old, new) == [machine EXCEPT !.canonical = new]

(* The paths inside the directory follow it; others stay.                  *)
Rebase(machine, old, new) ==
    [machine EXCEPT !.canonical = new, !.home = IF @ = old THEN new ELSE @]

(* The checks, under the vault lock; what passes them starts to write.     *)
Register(v, from) ==
    LET target  == at[v]
        asked   == SourceFor(from, target)
        source  == IF asked # target /\ Registered(target) THEN target ELSE asked
        machine == dirs[source].machine
    IN  /\ op = NoOp /\ target # None
        /\ asked # None /\ Registered(asked)
        /\ MaySettle(asked, target)
        /\ IF source = target /\ machine.canonical = target
           THEN /\ reply' = [command |-> "register", vault |-> v, from |-> from]
                /\ op' = NoOp
           ELSE /\ ~OtherLive(machine.canonical, v)
                /\ reply' = Silent
                /\ op' = [step |-> IF source = target THEN "write" ELSE "clear",
                          vault |-> v, source |-> source, from |-> from,
                          next |-> Rebase(machine, source, target), before |-> dirs,
                          aside |-> FALSE]
        /\ UNCHANGED <<at, was, dirs, person, cuts>>

(* An empty directory in the way is removed, a trace set aside.            *)
Clear ==
    LET target == at[op.vault]
    IN  /\ op.step = "clear"
        /\ dirs' = [dirs EXCEPT ![target] = NoDir]
        /\ op' = [op EXCEPT !.step = "move", !.aside = dirs[target].trace]
        /\ UNCHANGED <<at, was, reply, person, cuts>>

MoveDir ==
    LET target == at[op.vault]
    IN  /\ op.step = "move"
        /\ dirs' = [dirs EXCEPT ![target] = dirs[op.source], ![op.source] = NoDir]
        /\ op' = [op EXCEPT !.step = "write"]
        /\ UNCHANGED <<at, was, reply, person, cuts>>

(* The new machine.json, and the trace thrown away.                        *)
Finish ==
    LET target == at[op.vault]
    IN  /\ op.step = "write"
        /\ dirs' = [dirs EXCEPT ![target].machine = op.next]
        /\ reply' = [command |-> "register", vault |-> op.vault, from |-> op.from]
        /\ op' = NoOp
        /\ UNCHANGED <<at, was, person, cuts>>

(* Mutant: only a failed write is undone.                                  *)
UndoWriteOnly ==
    LET target == at[op.vault]
    IN  /\ op.step \in {"move", "write"}
        /\ dirs' = IF op.step = "move" \/ op.source = target THEN dirs
                   ELSE [dirs EXCEPT ![op.source] = dirs[target],
                                     ![target] = [NoDir EXCEPT !.there = op.aside, !.trace = op.aside]]
        /\ reply' = [command |-> "failed", vault |-> op.vault, from |-> op.from]
        /\ op' = NoOp
        /\ UNCHANGED <<at, was, person, cuts>>

(* One call fails: the directory goes back, and the trace after it.        *)
Undo ==
    LET target == at[op.vault]
        trace  == [NoDir EXCEPT !.there = op.aside, !.trace = op.aside]
    IN  /\ op.step \in {"move", "write"}
        /\ dirs' = IF op.step = "write" /\ op.source = target THEN dirs
                   ELSE IF op.step = "write"
                   THEN [dirs EXCEPT ![op.source] = dirs[target], ![target] = trace]
                   ELSE [dirs EXCEPT ![target] = trace]
        /\ reply' = [command |-> "failed", vault |-> op.vault, from |-> op.from]
        /\ op' = NoOp
        /\ UNCHANGED <<at, was, person, cuts>>

(* The command, or the machine, is killed.                                 *)
Cut ==
    /\ op # NoOp /\ cuts < MaxCuts /\ person + cuts < MaxPerson
    /\ cuts' = cuts + 1
    /\ op' = NoOp /\ reply' = Silent
    /\ UNCHANGED <<at, was, dirs, person>>

Next ==
    \/ \E v \in Vaults :
          \/ Delete(v) \/ Round(v) \/ RegisterNew(v)
          \/ \E p \in Paths : Move(v, p) \/ Create(v, p)
          \/ \E from \in Paths \cup {None} : Register(v, from)
    \/ \E p \in Paths : RemoveMachine(p)
    \/ Clear \/ MoveDir \/ Finish \/ Undo \/ Cut

Spec == Init /\ [][Next]_vars

(***************************************************************************)
(* Properties.                                                             *)
(***************************************************************************)

Answered(command) == op' = NoOp /\ reply'.command = command /\ reply' # reply

(* The person told the truth: --from is where this vault was.              *)
Honest == reply'.from # None /\ reply'.from = was[reply'.vault] /\ reply'.from # at[reply'.vault]

(* The directories as the command found them.                              *)
Found == IF op = NoOp THEN dirs ELSE op.before

(* A register that worked gave a vault no other vault's marks: not those   *)
(* of a dead one left at the path it moved to, however often both moved.   *)
RegisterBringsItsOwn ==
    (Answered("register") /\ Honest /\ Found[reply'.from].marks \in {reply'.vault, None}
        /\ Found[reply'.from].machine # NoMachine)
      => dirs'[at[reply'.vault]].marks \in {reply'.vault, None}

(* The marks and the questions of a vault are never deleted, whatever      *)
(* fails or dies.                                                          *)
StateIsNeverLost ==
    \A v \in Vaults :
        /\ Cardinality({p \in Paths : dirs[p].marks = v}) <= Cardinality({p \in Paths : dirs'[p].marks = v})
        /\ Cardinality({p \in Paths : dirs[p].queue = v}) <= Cardinality({p \in Paths : dirs'[p].queue = v})

Contents(all) == [p \in Paths |-> [all[p] EXCEPT !.there = FALSE]]

(* A register whose call failed is no register: every directory holds what *)
(* it held before the command.                                             *)
FailedIsNone ==
    Answered("failed") => Contents(dirs') = Contents(op.before)

(* `register --new` never starts an empty state beside this vault's own    *)
(* when its folder kept its name and nothing else took its place.          *)
NewHidesNothing ==
    Answered("new") =>
          \A q \in Paths :
             (dirs[q].marks = reply'.vault /\ dirs[q].machine.canonical = q /\ q # at[reply'.vault]
                /\ Live(q) = {})
                => NameOf[q] # NameOf[at[reply'.vault]]

(* After a register the file's paths lead into its own directory, so the   *)
(* questions asked before the move are found after it.                     *)
PathsFollow ==
    Answered("register") =>
        \A p \in Paths :
           (p = at[reply'.vault] /\ dirs'[p].queue = reply'.vault) => dirs'[p].machine.home = p

(* The same, when no register was cut short.                               *)
PathsFollowWhole == cuts = 0 => PathsFollow

(* What no command does to the state of a machine.                         *)
MachineStateIsKept ==
    RegisterBringsItsOwn /\ StateIsNeverLost /\ FailedIsNone /\ NewHidesNothing /\ PathsFollowWhole
=============================================================================
