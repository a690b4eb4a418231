------------------------------- MODULE Setup -------------------------------
(***************************************************************************)
(* What the kit writes outside a round: the machine file, the managed      *)
(* files, a vault as init makes it, the scheduler's entries and the push   *)
(* gate.  They share no state, so a behaviour is one of one part, and the  *)
(* variables of the others keep still.                                     *)
(***************************************************************************)
EXTENDS Naturals, Sequences

CONSTANTS
    Parts,   \* the parts a run looks at
    None,
    Vaults, VaultPaths, NameOf, MaxMoves, MaxStops, Reuse,             \* see MachineState
    ManagedNames, Stampable, KitText, UpdateRuns, MaxPerson, MaxRuns, MaxCuts, AcceptsUnseen,  \* see ManagedFiles
    Places, Chain, Vault, State, Machine, Git, Hook, Manifest, Plans, HalfMade, MaxOthers, MaxFaults,  \* see InitLedger
    Systems, Failing, MaxEdits, MaxStarts, MaxBreaks, Unended,         \* see Schedule
    Refs, NamedAs, Chains, MaxTagDepth, Changes, MaxCommits, MaxOdd, MaxTheirs, MaxPushes, MaxLosses  \* see PushGate

VARIABLES
    part,
    at, was, dirs, op, reply, moved, stopped,
    file, beside, recorded, config, kit, updates, runs, person, cuts, dealt, whole, touched,
    fs, loose, hooksPath, listed, command, step, ledger, wiredHere, signal, failed, left, phase, others, faults, before,
    os, bus, want, files, held, crontab, cmd, edits, starts, breaks,
    commits, known, remote, tracking, published, working, push, theirs, pushes, losses

ofMachine == <<at, was, dirs, op, reply, moved, stopped>>
ofManaged == <<file, beside, recorded, config, kit, updates, runs, person, cuts, dealt, whole, touched>>
ofInit == <<fs, loose, hooksPath, listed, command, step, ledger, wiredHere, signal, failed, left, phase, others, faults, before>>
ofSchedule == <<os, bus, want, files, held, crontab, cmd, edits, starts, breaks>>
ofGate == <<commits, known, remote, tracking, published, working, push, theirs, pushes, losses>>
vars == <<part, ofMachine, ofManaged, ofInit, ofSchedule, ofGate>>

MachineFile == INSTANCE MachineState WITH
    Paths <- VaultPaths, MaxPerson <- MaxMoves, MaxCuts <- MaxStops, person <- moved, cuts <- stopped
Managed == INSTANCE ManagedFiles WITH Files <- ManagedNames, Commands <- UpdateRuns, command <- updates
Ledger == INSTANCE InitLedger
Entries == INSTANCE Schedule WITH
    MaxPerson <- MaxEdits, MaxRuns <- MaxStarts, MaxFaults <- MaxBreaks, person <- edits, runs <- starts, faults <- breaks
Gate == INSTANCE PushGate WITH MaxFaults <- MaxLosses, faults <- losses

-----------------------------------------------------------------------------

MachineIdle == at = None /\ was = None /\ dirs = None /\ op = None /\ reply = None /\ moved = None /\ stopped = None

ManagedIdle ==
    /\ file = None /\ beside = None /\ recorded = None /\ config = None /\ kit = None /\ updates = None
    /\ runs = None /\ person = None /\ cuts = None /\ dealt = None /\ whole = None /\ touched = None

InitIdle ==
    /\ fs = None /\ loose = None /\ hooksPath = None /\ listed = None /\ command = None /\ step = None /\ ledger = None
    /\ wiredHere = None /\ signal = None /\ failed = None /\ left = None /\ phase = None /\ others = None /\ faults = None
    /\ before = None

ScheduleIdle ==
    /\ os = None /\ bus = None /\ want = None /\ files = None /\ held = None /\ crontab = None /\ cmd = None
    /\ edits = None /\ starts = None /\ breaks = None

GateIdle ==
    /\ commits = None /\ known = None /\ remote = None /\ tracking = None /\ published = None /\ working = None
    /\ push = None /\ theirs = None /\ pushes = None /\ losses = None

Init ==
    /\ part \in Parts
    /\ IF part = "machine" THEN MachineFile!Init ELSE MachineIdle
    /\ IF part = "managed" THEN Managed!Init ELSE ManagedIdle
    /\ IF part = "init" THEN Ledger!Init ELSE InitIdle
    /\ IF part = "schedule" THEN Entries!Init ELSE ScheduleIdle
    /\ IF part = "gate" THEN Gate!Init ELSE GateIdle

Next ==
    \/ part = "machine" /\ MachineFile!Next /\ UNCHANGED <<part, ofManaged, ofInit, ofSchedule, ofGate>>
    \/ part = "managed" /\ Managed!Next /\ UNCHANGED <<part, ofMachine, ofInit, ofSchedule, ofGate>>
    \/ part = "init" /\ Ledger!Next /\ UNCHANGED <<part, ofMachine, ofManaged, ofSchedule, ofGate>>
    \/ part = "schedule" /\ Entries!Next /\ UNCHANGED <<part, ofMachine, ofManaged, ofInit, ofGate>>
    \/ part = "gate" /\ Gate!Next /\ UNCHANGED <<part, ofMachine, ofManaged, ofInit, ofSchedule>>

Spec == Init /\ [][Next]_vars

-----------------------------------------------------------------------------

\* A vault registered on this machine brings its own state directory and no
\* other vault's, no command loses one, one that fails changes nothing, and
\* after a register its paths lead into its own directory.
MachineStateIsKept == [][part = "machine" => MachineFile!MachineStateIsKept]_vars

\* No update overwrites what the owner wrote, takes a file back to an older
\* kit, or hides a text the owner has not seen; and init's undo keeps what
\* other processes made while it ran.
WhatIsTheirsIsKept ==
    [][/\ part = "managed" => Managed!NoEditOverwritten /\ Managed!NeverBackwards /\ Managed!NothingNewIsHidden
       /\ part = "init" => Ledger!OthersAreKept]_vars

\* An init that failed leaves what it found and nothing of its own but what
\* it names; the manifest records what update compares a file with.
NothingIsLeftWrong ==
    /\ part = "machine" => MachineFile!TypeOK
    /\ part = "managed" => Managed!TypeOK /\ Managed!ManifestIsTrue
    /\ part = "init" => Ledger!NothingIsLeftWrong
    /\ part = "gate" => Gate!TypeOK

\* An entry installed fires what the configuration says, one uninstalled is
\* gone, one that fires an older text is not called active where the
\* scheduler is asked, and the crontab keeps the person's lines.
EntriesAreWhatTheySay ==
    [][part = "schedule" =>
          /\ Entries!TypeOK'
          /\ Entries!InstalledFires
          /\ Entries!GoneIsGone
          /\ Entries!TheirLinesStay
          /\ Entries!HeldIsShown]_vars

\* What the patterns match is in nothing the gate let through, and in no name
\* or tag of a reference it was asked about.
NothingMatchedLands ==
    [][part = "gate" =>
          /\ Gate!NothingMatchedLands
          /\ Gate!EveryLineIsRead]_vars
=============================================================================
