---------------------------- MODULE ManagedFiles ----------------------------
(***************************************************************************)
(* `brain-kit update`: the files the kit manages in a vault, by the hashes *)
(* the manifest records, for kits that get newer while the person edits    *)
(* the same files and one command may run beside another or be killed.     *)
(* src/commands/update.mjs, src/manifest.mjs.                              *)
(*                                                                         *)
(* A text is what decides between two: which text of the kit it is or was  *)
(* made from, its generated.at, and whether lines of it are the person's.  *)
(* A hash is the text itself.                                              *)
(***************************************************************************)
EXTENDS Naturals, FiniteSets

CONSTANTS
    Files,
    Stampable,    \* the notes; the hook and .gitignore take no stamp
    KitText,      \* KitText[v][f]: the text of f that version v ships
    Commands,     \* the updates that may run at once
    None,
    MaxPerson,    \* bound: edits, merges, deletions
    MaxRuns,      \* bound: commands, and so the moments they stamp
    MaxCuts,      \* bound: commands killed or whose write fails; each takes one of both others
    AcceptsUnseen \* the person accepts also when the offer is an older kit's

Versions == DOMAIN KitText
Stamps   == 0 .. MaxRuns
AllTexts == UNION {{KitText[v][f] : f \in Files} : v \in Versions}
Texts    == [of : AllTexts, at : Stamps, mine : BOOLEAN]

ManagedAssumption ==
    /\ Stampable \subseteq Files
    /\ Versions = 1 .. Cardinality(Versions) /\ 1 \in Versions
    /\ \A v \in Versions : DOMAIN KitText[v] = Files
    /\ None \notin AllTexts \cup Texts \cup {0, 1, 3}
    /\ MaxPerson \in Nat /\ MaxRuns \in Nat /\ MaxCuts \in Nat

VARIABLES
    file,      \* what is at each managed path, None when nothing is
    beside,    \* <name>.brain-kit-new
    recorded,  \* the manifest, None where it holds no entry
    config,    \* the configuration's kit_version
    kit,       \* the kit installed
    command,   \* the commands running
    runs, person, cuts,
    dealt,     \* history: the kit's texts each file held, or was compared with
    whole,     \* history: no command was killed or said it failed
    touched    \* history: the files someone edited

vars == <<file, beside, recorded, config, kit, command, runs, person, cuts, dealt, whole, touched>>

(* This version's text at a stamp; a file that takes none ignores it.      *)
VersionAt(v, f, stamp) == [of |-> KitText[v][f], at |-> IF f \in Stampable THEN stamp ELSE 0, mine |-> FALSE]

Idle == [step |-> "idle", kit |-> 0, stamp |-> 0, read |-> <<>>, outcome |-> <<>>, left |-> {},
         from |-> 0, failed |-> FALSE, exit |-> None]

TypeOK ==
    /\ file \in [Files -> Texts \cup {None}]
    /\ beside \in [Files -> AllTexts \cup {None}]
    /\ recorded \in [Files -> Texts \cup {None}]
    /\ config \in Versions /\ kit \in Versions
    /\ \A c \in Commands : command[c].step \in {"idle", "write", "record", "bump", "accept", "unlink"}
    /\ runs \in 0 .. MaxRuns /\ person \in 0 .. MaxPerson /\ cuts \in 0 .. MaxCuts

(* init wrote every file with one moment, and recorded it.                 *)
Init ==
    /\ file = [f \in Files |-> VersionAt(1, f, 0)]
    /\ recorded = file
    /\ beside = [f \in Files |-> None]
    /\ config = 1 /\ kit = 1
    /\ command = [c \in Commands |-> Idle]
    /\ runs = 0 /\ person = 0 /\ cuts = 0
    /\ dealt = [f \in Files |-> {KitText[1][f]}]
    /\ whole = TRUE /\ touched = {}

(***************************************************************************)
(* The person, and the agents that edit for them.                          *)
(***************************************************************************)

Acts == person + cuts < MaxPerson /\ person' = person + 1
MayFail == cuts < MaxCuts /\ person + cuts < MaxPerson /\ runs + cuts < MaxRuns

(* An agent re-stamps generated.at on an edit; a person does not.          *)
Edit(f) ==
    /\ Acts /\ file[f] # None
    /\ \E at \in {file[f].at, runs} :
          /\ (at # file[f].at => f \in Stampable)
          /\ file' = [file EXCEPT ![f] = [of |-> file[f].of, at |-> at, mine |-> TRUE]]
    /\ touched' = touched \cup {f}
    /\ UNCHANGED <<beside, recorded, config, kit, command, runs, cuts, dealt, whole>>

(* What is beside is taken, whole or in part.                              *)
Take(f) ==
    /\ Acts /\ file[f] # None /\ beside[f] # None
    /\ \E mine \in BOOLEAN, at \in {file[f].at, runs} :
          /\ (at # file[f].at => f \in Stampable)
          /\ file' = [file EXCEPT ![f] = [of |-> beside[f], at |-> at, mine |-> mine]]
    /\ dealt' = [dealt EXCEPT ![f] = @ \cup {beside[f]}]
    /\ touched' = touched \cup {f}
    /\ UNCHANGED <<beside, recorded, config, kit, command, runs, cuts, whole>>

Delete(f) ==
    /\ Acts /\ file[f] # None
    /\ file' = [file EXCEPT ![f] = None]
    /\ touched' = touched \cup {f}
    /\ UNCHANGED <<beside, recorded, config, kit, command, runs, cuts, dealt, whole>>

Upgrade ==
    /\ kit + 1 \in Versions
    /\ kit' = kit + 1
    /\ UNCHANGED <<file, beside, recorded, config, command, runs, person, cuts, dealt, whole, touched>>

(***************************************************************************)
(* update: every decision is made before the first write.                  *)
(***************************************************************************)

Managed(manifest) == {f \in Files : manifest[f] # None}

(* The stamps the recorded text could have carried: those of the managed   *)
(* notes on disk.                                                          *)
StampsOnDisk(manifest) == {file[f].at : f \in {g \in Managed(manifest) \cap Stampable : file[g] # None}}

(* Mutant: an edited file is kept once the manifest holds any kit's text.  *)
KeptOnceAny(v, f, manifest) ==
    \E stamp \in StampsOnDisk(manifest) \cup {0} :
        \E k \in Versions : VersionAt(k, f, stamp) = manifest[f]

(* Nothing newer: this kit's text, at such a stamp, is the one recorded.   *)
Kept(v, f, manifest) ==
    \E stamp \in StampsOnDisk(manifest) \cup {0} : VersionAt(v, f, stamp) = manifest[f]

Classify(v, f, manifest) ==
    IF file[f] = None THEN "missing"
    ELSE IF file[f] = VersionAt(v, f, file[f].at) THEN "current"
    ELSE IF file[f] = manifest[f] THEN "refresh"
    ELSE IF Kept(v, f, manifest) THEN "kept"
    ELSE IF beside[f] # None THEN "blocked"
    ELSE "offer"

(* --check ends here: it writes nothing.                                   *)
Start(c) ==
    /\ command[c].step = "idle" /\ runs + cuts < MaxRuns
    /\ kit >= config
    /\ runs' = runs + 1
    /\ command' = [command EXCEPT ![c] =
          [Idle EXCEPT !.step = "write", !.kit = kit, !.stamp = runs', !.read = recorded, !.from = config,
                       !.left = Managed(recorded),
                       !.outcome = [f \in Managed(recorded) |-> Classify(kit, f, recorded)]]]
    /\ UNCHANGED <<file, beside, recorded, config, kit, person, cuts, dealt, whole, touched>>

(* Mutant: the file is not read again before it is replaced.               *)
ReplaceBlindly(c, f) ==
    /\ file' = [file EXCEPT ![f] = VersionAt(command[c].kit, f, command[c].stamp)]
    /\ dealt' = [dealt EXCEPT ![f] = @ \cup {KitText[command[c].kit][f]}]
    /\ command' = [command EXCEPT ![c].left = @ \ {f}]

(* replaceIfUnchanged: what is there is still what the manifest recorded.  *)
Replace(c, f) ==
    IF file[f] = command[c].read[f]
    THEN /\ file' = [file EXCEPT ![f] = VersionAt(command[c].kit, f, command[c].stamp)]
         /\ dealt' = [dealt EXCEPT ![f] = @ \cup {KitText[command[c].kit][f]}]
         /\ command' = [command EXCEPT ![c].left = @ \ {f}]
    ELSE /\ command' = [command EXCEPT ![c].left = @ \ {f}, ![c].outcome[f] = "raced"]
         /\ UNCHANGED <<file, dealt>>

(* Created exclusively: one already there is never overwritten.            *)
Offer(c, f) ==
    /\ UNCHANGED <<file, dealt>>
    /\ IF beside[f] = None
       THEN /\ beside' = [beside EXCEPT ![f] = KitText[command[c].kit][f]]
            /\ command' = [command EXCEPT ![c].left = @ \ {f}]
       ELSE /\ command' = [command EXCEPT ![c].left = @ \ {f}, ![c].outcome[f] = "blocked"]
            /\ UNCHANGED beside

WriteFile(c, f) ==
    /\ command[c].step = "write" /\ f \in command[c].left
    /\ CASE command[c].outcome[f] = "refresh" -> Replace(c, f) /\ UNCHANGED beside
         [] command[c].outcome[f] = "offer"   -> Offer(c, f)
         [] OTHER -> command' = [command EXCEPT ![c].left = @ \ {f}] /\ UNCHANGED <<file, beside, dealt>>
    /\ UNCHANGED <<recorded, config, kit, runs, person, cuts, whole, touched>>

(* One file of several cannot be written: the others are, and the run says *)
(* so at its end.                                                          *)
WriteFails(c, f) ==
    /\ command[c].step = "write" /\ f \in command[c].left /\ MayFail
    /\ command[c].outcome[f] \in {"refresh", "offer"}
    /\ cuts' = cuts + 1 /\ whole' = FALSE
    /\ command' = [command EXCEPT ![c].left = @ \ {f}, ![c].outcome[f] = "failed", ![c].failed = TRUE]
    /\ UNCHANGED <<file, beside, recorded, config, kit, runs, person, dealt, touched>>

Refreshed(c) == {f \in DOMAIN command[c].outcome : command[c].outcome[f] = "refresh"}
Attention    == {"offer", "blocked", "missing", "raced"}

(* The manifest written over whatever is there, if the other replaced it.  *)
Written(c) ==
    [f \in Files |-> IF f \in Refreshed(c) THEN VersionAt(command[c].kit, f, command[c].stamp) ELSE command[c].read[f]]

(* Replaced only if it is still the one read, else the run failed.         *)
Record(c) ==
    /\ command[c].step = "write" /\ command[c].left = {}
    /\ IF Refreshed(c) # {} /\ recorded # command[c].read
       THEN /\ command' = [command EXCEPT ![c].step = "bump", ![c].failed = TRUE]
            /\ whole' = FALSE
            /\ UNCHANGED recorded
       ELSE /\ recorded' = IF Refreshed(c) = {} THEN recorded ELSE Written(c)
            /\ command' = [command EXCEPT ![c].step = "bump"]
            /\ UNCHANGED whole
    /\ UNCHANGED <<file, beside, config, kit, runs, person, cuts, dealt, touched>>

(* kit_version last, and only when nothing failed; then the exit code.     *)
Bump(c) ==
    LET run   == command[c]
        bumps == run.kit > run.from /\ ~run.failed
        fails == run.failed \/ (bumps /\ config # run.from)
        exit  == IF fails THEN 1
                 ELSE IF \E f \in DOMAIN run.outcome : run.outcome[f] \in Attention THEN 3 ELSE 0
    IN  /\ run.step = "bump"
        /\ config' = IF bumps /\ ~fails THEN run.kit ELSE config
        /\ whole' = (whole /\ ~fails)
        /\ command' = [command EXCEPT ![c] = [Idle EXCEPT !.exit = exit, !.kit = run.kit]]
        /\ UNCHANGED <<file, beside, recorded, kit, runs, person, cuts, dealt, touched>>

(***************************************************************************)
(* update --accept                                                         *)
(***************************************************************************)

(* Mutant: the file's own bytes become the baseline.                       *)
BaselineOwn(v, f) == file[f]

(* This kit's version at the file's own stamp, never the file's bytes.     *)
Baseline(v, f) == VersionAt(v, f, file[f].at)

(* After an update that named the file, and having looked at what is       *)
(* beside it; an entry whose file is gone is dropped, but never the last.  *)
Accept(c, f) ==
    /\ command[c].step = "idle" /\ runs + cuts < MaxRuns /\ Acts
    /\ kit >= config /\ recorded[f] # None
    /\ beside[f] # None \/ file[f] = None
    /\ (beside[f] # None /\ beside[f] # KitText[kit][f]) => AcceptsUnseen
    /\ file[f] = None => Managed(recorded) # {f}
    /\ runs' = runs + 1
    /\ dealt' = [dealt EXCEPT ![f] = @ \cup ({beside[f]} \ {None})]
    /\ command' = [command EXCEPT ![c] =
          [Idle EXCEPT !.step = "accept", !.kit = kit, !.read = recorded, !.left = {f},
                       !.outcome = [recorded EXCEPT ![f] = IF file[f] = None THEN None ELSE Baseline(kit, f)]]]
    /\ UNCHANGED <<file, beside, recorded, config, kit, cuts, whole, touched>>

(* Mutant: the manifest is rewritten whatever it holds by now.             *)
RecordAcceptBlindly(c) ==
    /\ command[c].step = "accept"
    /\ recorded' = command[c].outcome
    /\ command' = [command EXCEPT ![c].step = "unlink"]
    /\ UNCHANGED <<file, beside, config, kit, runs, person, cuts, dealt, whole, touched>>

(* The manifest first, so that an offer is not removed while it is asked.  *)
RecordAccept(c) ==
    /\ command[c].step = "accept"
    /\ IF recorded # command[c].read
       THEN /\ command' = [command EXCEPT ![c] = [Idle EXCEPT !.exit = 1]]
            /\ whole' = FALSE
            /\ UNCHANGED recorded
       ELSE /\ recorded' = command[c].outcome
            /\ command' = [command EXCEPT ![c].step = "unlink"]
            /\ UNCHANGED whole
    /\ UNCHANGED <<file, beside, config, kit, runs, person, cuts, dealt, touched>>

RemoveOffer(c) ==
    LET gone == {f \in command[c].left : command[c].outcome[f] # None}
    IN  /\ command[c].step = "unlink"
        /\ beside' = [f \in Files |-> IF f \in gone THEN None ELSE beside[f]]
        /\ command' = [command EXCEPT ![c] = Idle]
        /\ UNCHANGED <<file, recorded, config, kit, runs, person, cuts, dealt, whole, touched>>

(* Killed between two writes.                                              *)
Cut(c) ==
    /\ command[c].step # "idle" /\ MayFail
    /\ cuts' = cuts + 1 /\ whole' = FALSE
    /\ command' = [command EXCEPT ![c] = Idle]
    /\ UNCHANGED <<file, beside, recorded, config, kit, runs, person, dealt, touched>>

Next ==
    \/ Upgrade
    \/ \E f \in Files : Edit(f) \/ Take(f) \/ Delete(f)
    \/ \E c \in Commands :
          \/ Start(c) \/ Record(c) \/ Bump(c) \/ RecordAccept(c) \/ RemoveOffer(c) \/ Cut(c)
          \/ \E f \in Files : WriteFile(c, f) \/ WriteFails(c, f) \/ Accept(c, f)

Spec == Init /\ [][Next]_vars

(***************************************************************************)
(* Properties.                                                             *)
(***************************************************************************)

(* No command ever replaces a file that holds a line of the person's, at   *)
(* this version of the kit or any later one.                               *)
NoEditOverwritten ==
    \A f \in Files : (file[f] # None /\ file[f].mine /\ person' = person) => file'[f] = file[f]

(* The kit's files never go back to an older text, with a command of the   *)
(* older kit still running.                                                *)
NeverBackwards ==
    \A f \in Files : (file[f] # None /\ file'[f] # file[f] /\ person' = person)
          => \E a, b \in Versions : a < b /\ file[f].of = KitText[a][f] /\ file'[f].of = KitText[b][f]

(* An update that ends with 0 leaves no text of its kit the person has not *)
(* had in the file or beside it.                                           *)
NothingNewIsHidden ==
    \A c \in Commands : (command[c].step = "bump" /\ command'[c].exit = 0) =>
          \A f \in DOMAIN command[c].outcome : KitText[command[c].kit][f] \in dealt[f]

(* When no command failed or was killed, a file that no one edited is the  *)
(* one recorded, so the next kit replaces it and offers nothing.           *)
ManifestIsTrue ==
    (whole /\ \A c \in Commands : command[c].step = "idle") =>
        \A f \in Files : (file[f] # None /\ recorded[f] # None /\ f \notin touched) => file[f] = recorded[f]
=============================================================================
