------------------------------- MODULE Round -------------------------------
(***************************************************************************)
(* One curator round from its lock to its last word: src/commands/         *)
(* curate.mjs with the model's process (src/harness/claude-code.mjs), the  *)
(* proposes that join the round (src/commands/propose.mjs), the round's    *)
(* record and its cleanup (src/guards/proposed.mjs) and the incidents      *)
(* (src/incidents.mjs).  Rounds run beside each other, beside the person   *)
(* writing in the vault and beside signals, timers and deaths.             *)
(*                                                                         *)
(* Taken from other modules: the lock (VaultLock.tla), here one variable   *)
(* that a dead round leaves to the next; the marks (Watermark.tla), here   *)
(* two answers of a round, `unread` and `stuck'.                           *)
(***************************************************************************)
EXTENDS Integers, FiniteSets, Sequences

CONSTANTS
    Rounds,       \* the rounds, each a process that runs once
    Children,     \* the proposes the model may have running at once
    Paths,        \* the notes
    Old,          \* the line of a round past the retention, in incidents.jsonl
    NoRound,
    MaxTexts,     \* bound: texts written, by the model and by the person
    MaxPushes,    \* bound: proposes
    MaxDeaths,    \* bound: rounds killed outright
    Timed,        \* whether curate.timeout_minutes sets a limit
    Hasty         \* whether the person writes while the cleanup brings files back

ASSUME RoundsAssumption ==
    /\ NoRound \notin Rounds
    /\ Old \notin [of : Rounds, locked : BOOLEAN]
    /\ {MaxTexts, MaxPushes, MaxDeaths} \subseteq Nat
    /\ {Timed, Hasty} \subseteq BOOLEAN

VARIABLES
    lock,         \* who holds brain-kit.lock
    at,           \* at[r]: where round r is
    end,          \* end[r]: the exit and the reason code it goes by
    interrupted,  \* interrupted[r]: a signal came
    model,        \* the model's process, of the round that holds the lock
    child,        \* child[c]: a propose the model runs
    record,       \* record[r]: the entries of brain-kit-round-<token>.json
    spoiled,      \* spoiled[r]: what is there is no record
    guard,        \* guard[r]: its .lock is there
    kept,         \* the rounds that keep their record, for the person
    taken,        \* taken[r]: the entries the round read
    matching,     \* matching[r]: the paths its cleanup found as they were pushed
    tree,         \* tree[p]: the text in the working tree, 0 for HEAD's
    pushed,       \* the texts some branch of the remote holds
    incidents,    \* the lines of incidents.jsonl
    seen,         \* seen[r]: the lines the prune of r read
    budget,       \* texts, pushes and deaths so far
    written       \* history: written[p], the last text the model wrote in p

vars == <<lock, at, end, interrupted, model, child, record, spoiled, guard, kept,
          taken, matching, tree, pushed, incidents, seen, budget, written>>

modelVars == <<model, child>>
bookVars  == <<record, spoiled, guard, kept, taken, matching>>
vaultVars == <<tree, pushed, written>>
lineVars  == <<incidents, seen>>

Texts   == 0 .. MaxTexts
Entries == [body : [Paths -> Texts], opened : BOOLEAN]
\* FAILURE stands for 1, 64, 69 and 75, and for 4 before the model: no property
\* tells them apart.
Exits   == {"OK", "DEGRADED", "FAILURE", "SOURCE_UNREAD"}
Reasons == {"none", "machine_invalid", "lock_unusable", "lock_held", "checked", "early", "internal_error",
            "interrupted", "model", "source_unread", "record_invalid", "leftovers", "not_opened",
            "proposed", "nothing_proposed", "nothing_available"}
RoundEnd == [exit : Exits, reason : Reasons]
Places  == {"idle", "checking", "held", "clean", "model", "record", "compare", "restore", "decide",
            "tidy", "incident", "prune", "rewrite", "release", "gone", "dead"}

\* The reason codes that close the incidents before them.
Closing  == {"proposed", "nothing_proposed"}
\* A line of incidents.jsonl: whose, and whether it had the lock.  The first
\* one is past the retention.
Lines   == [of : Rounds, locked : BOOLEAN]
NoEnd   == [exit |-> "FAILURE", reason |-> "none"]

NoModel == [at |-> "none", launch |-> 0, stopping |-> FALSE, timedOut |-> FALSE,
            aborted |-> "no", ok |-> FALSE]
Models  == [at : {"none", "starting", "working", "exited", "closed"}, launch : 0 .. 2,
            stopping : BOOLEAN, timedOut : BOOLEAN,
            aborted : {"no", "signal", "isolation", "relaunch"}, ok : BOOLEAN]
NoChild == [at |-> "none", body |-> [p \in Paths |-> 0], opened |-> FALSE, saw |-> <<>>]
ChildStates == [at : {"none", "built", "pushed", "guarded", "recorded"},
                body : [Paths -> Texts], opened : BOOLEAN, saw : Seq(Entries)]
AllDead == [c \in Children |-> NoChild]

TypeOK ==
    /\ lock \in Rounds \cup {NoRound}
    /\ at \in [Rounds -> Places]
    /\ end \in [Rounds -> RoundEnd]
    /\ interrupted \in [Rounds -> BOOLEAN]
    /\ model \in Models
    /\ child \in [Children -> ChildStates]
    /\ record \in [Rounds -> Seq(Entries)]
    /\ spoiled \in [Rounds -> BOOLEAN]
    /\ guard \in [Rounds -> BOOLEAN]
    /\ kept \in SUBSET Rounds
    /\ taken \in [Rounds -> Seq(Entries)]
    /\ matching \in [Rounds -> SUBSET Paths]
    /\ tree \in [Paths -> Texts]
    /\ pushed \in SUBSET (1 .. MaxTexts)
    /\ incidents \in SUBSET (Lines \cup {Old})
    /\ seen \in [Rounds -> SUBSET (Lines \cup {Old})]
    /\ budget \in [texts : 0 .. MaxTexts, pushes : 0 .. MaxPushes, deaths : 0 .. MaxDeaths]
    /\ written \in [Paths -> Texts]

Init ==
    /\ lock = NoRound
    /\ at = [r \in Rounds |-> "idle"]
    /\ end = [r \in Rounds |-> NoEnd]
    /\ interrupted = [r \in Rounds |-> FALSE]
    /\ model = NoModel
    /\ child = AllDead
    /\ record = [r \in Rounds |-> <<>>]
    /\ spoiled = [r \in Rounds |-> FALSE]
    /\ guard = [r \in Rounds |-> FALSE]
    /\ kept = {}
    /\ taken = [r \in Rounds |-> <<>>]
    /\ matching = [r \in Rounds |-> {}]
    /\ tree = [p \in Paths |-> 0]
    /\ pushed = {}
    /\ incidents = {Old}
    /\ seen = [r \in Rounds |-> {}]
    /\ budget = [texts |-> 0, pushes |-> 0, deaths |-> 0]
    /\ written = [p \in Paths |-> 0]

Goto(r, place) == at' = [at EXCEPT ![r] = place]

\* fail(exit, code, reason), and where the round goes from there.
EndBy(r, exit, reason, place) ==
    /\ end' = [end EXCEPT ![r] = [exit |-> exit, reason |-> reason]]
    /\ Goto(r, place)

Dirty == {p \in Paths : tree[p] # 0}

----------------------------------------------------------------------------
(* Before the model.                                                       *)

\* machine.json cannot be read: told without the lock.  With --check every
\* end of a round is the reason "checked" here, and leaves no incident.
MachineInvalid(r) ==
    /\ at[r] = "idle"
    /\ \E reason \in {"machine_invalid", "checked"} : EndBy(r, "FAILURE", reason, "incident")
    /\ UNCHANGED <<lock, interrupted, modelVars, bookVars, vaultVars, lineVars, budget>>

\* acquireLock: free, or its holder dead, for a round or for a --check.
Acquire(r) ==
    /\ at[r] = "idle"
    /\ IF lock = NoRound THEN TRUE ELSE at[lock] = "dead"
    /\ lock' = r
    /\ \E place \in {"held", "checking"} : Goto(r, place)
    /\ UNCHANGED <<end, interrupted, modelVars, bookVars, vaultVars, lineVars, budget>>

\* Held by a live round, or a lock that cannot be used at all.
Refuse(r) ==
    /\ at[r] = "idle"
    /\ \/ lock # NoRound /\ at[lock] # "dead" /\ EndBy(r, "FAILURE", "lock_held", "incident")
       \/ \E reason \in {"lock_unusable", "checked"} : EndBy(r, "FAILURE", reason, "incident")
    /\ UNCHANGED <<lock, interrupted, modelVars, bookVars, vaultVars, lineVars, budget>>

\* The early ends: network, sync, configuration, nothing to do, a source that
\* cannot be read.  A --check always ends before the model.
EndsEarly(r) ==
    /\ \/ at[r] \in {"held", "clean"} /\ \E exit \in {"OK", "FAILURE"} : EndBy(r, exit, "early", "tidy")
       \/ at[r] = "checking" /\ \E exit \in {"OK", "FAILURE"} : EndBy(r, exit, "checked", "tidy")
    /\ UNCHANGED <<lock, interrupted, modelVars, bookVars, vaultVars, lineVars, budget>>

\* A dirty tree postpones the round: only a clean one goes on.
CheckDirtyTree(r) ==
    /\ at[r] = "held"
    /\ ~interrupted[r]
    /\ Dirty = {}
    /\ Goto(r, "clean")
    /\ UNCHANGED <<lock, end, interrupted, modelVars, bookVars, vaultVars, lineVars, budget>>

\* The command started, or a binary that cannot be.
Spawned(launch) ==
    {[NoModel EXCEPT !.at = place, !.launch = launch] : place \in {"starting", "closed"}}

Launch(r) ==
    /\ at[r] = "clean"
    /\ ~interrupted[r]
    /\ model' \in Spawned(1)
    /\ Goto(r, "model")
    /\ UNCHANGED <<lock, end, interrupted, child, bookVars, vaultVars, lineVars, budget>>

----------------------------------------------------------------------------
(* The model's process group.                                              *)

Up      == model.at \in {"starting", "working"}
Running == model.at \in {"starting", "working", "exited"}
Stopped(m) == [m EXCEPT !.stopping = TRUE]

UnchangedByModel == UNCHANGED <<lock, at, end, bookVars, vaultVars, lineVars, budget>>

\* The model takes its first turn; never one stopped at its init event.
FirstTurn ==
    /\ model.at = "starting" /\ model.aborted # "relaunch"
    /\ model' = [model EXCEPT !.at = "working"]
    /\ UNCHANGED <<interrupted, child>> /\ UnchangedByModel

\* onLine: a hook, or a connector that is not there, seen on the first init.
AbortByLine ==
    /\ Running /\ model.aborted = "no"
    /\ \/ model' = Stopped([model EXCEPT !.aborted = "isolation"])
       \/ /\ model.at = "starting" /\ model.launch = 1
          /\ model' = Stopped([model EXCEPT !.aborted = "relaunch"])
    /\ UNCHANGED <<interrupted, child>> /\ UnchangedByModel

\* SIGINT or SIGTERM to the round, heard only while it waits, for the network
\* or for the model, which is then aborted.  The rest of a round is one
\* stretch without an await, and its signals are never heard.
Signal(r) ==
    /\ at[r] \in {"held", "model"}
    /\ ~interrupted[r]
    /\ interrupted' = [interrupted EXCEPT ![r] = TRUE]
    /\ model' = IF at[r] = "model" /\ Running
                THEN Stopped([model EXCEPT !.aborted = IF model.aborted = "no" THEN "signal" ELSE model.aborted])
                ELSE model
    /\ UNCHANGED child /\ UnchangedByModel

\* The kill timer.  It is not cleared when the CLI exits, only at the close.
Timeout ==
    /\ Timed /\ Running /\ ~model.timedOut
    /\ model' = Stopped([model EXCEPT !.timedOut = TRUE])
    /\ UNCHANGED <<interrupted, child>> /\ UnchangedByModel

\* The CLI exits by itself: on SIGTERM, at its end, on an error.  `ok': by 0,
\* its result a success and its stream an isolated one.
CliExits ==
    /\ Up
    /\ \E ok \in {FALSE, model.at = "working"} :
         model' = [model EXCEPT !.at = "exited", !.ok = ok]
    /\ UNCHANGED <<interrupted, child>> /\ UnchangedByModel

\* Mutant: the grace ends in one more SIGTERM.
GraceTerm ==
    /\ Running /\ model.stopping
    /\ UNCHANGED <<interrupted, model, child>> /\ UnchangedByModel

\* SIGKILL to the group, the grace after SIGTERM over.
GraceKill ==
    /\ Running /\ model.stopping
    /\ model' = IF Up THEN [model EXCEPT !.at = "exited", !.ok = FALSE] ELSE model
    /\ child' = AllDead
    /\ UNCHANGED interrupted /\ UnchangedByModel

\* SIGKILL to the group, its output still open after the CLI exited.
Drain ==
    /\ model.at = "exited"
    /\ child' = AllDead
    /\ UNCHANGED <<interrupted, model>> /\ UnchangedByModel

\* Mutant: the group is left alone once the output is closed.
CloseSparing ==
    /\ model.at = "exited"
    /\ model' = [model EXCEPT !.at = "closed"]
    /\ UNCHANGED <<interrupted, child>> /\ UnchangedByModel

\* The output is closed: finish, with one more SIGKILL to the group.
Close ==
    /\ model.at = "exited"
    /\ model' = [model EXCEPT !.at = "closed"]
    /\ child' = AllDead
    /\ UNCHANGED interrupted /\ UnchangedByModel

\* runModel resolved: on to the evidence, as after a run stopped for a
\* relaunch in whose stream a hook is found, or a second launch without what
\* was missing, or none when nothing is left to read.
AfterModel(r) ==
    /\ at[r] = "model" /\ model.at = "closed"
    /\ \/ Goto(r, "record") /\ UNCHANGED <<end, model>>
       \/ /\ model.aborted = "relaunch" /\ ~interrupted[r]
          /\ \/ model' \in Spawned(2) /\ UNCHANGED <<at, end>>
             \/ EndBy(r, "OK", "nothing_available", "tidy") /\ UNCHANGED model
             \/ EndBy(r, "SOURCE_UNREAD", "source_unread", "tidy") /\ UNCHANGED model
    /\ UNCHANGED <<lock, interrupted, child, bookVars, vaultVars, lineVars, budget>>

----------------------------------------------------------------------------
(* What the model does: it writes notes and runs proposes, which join.     *)

NewText == budget.texts + 1

Writes(p, mine) ==
    /\ budget.texts < MaxTexts
    /\ tree' = [tree EXCEPT ![p] = NewText]
    /\ written' = [written EXCEPT ![p] = IF mine THEN NewText ELSE 0]
    /\ budget' = [budget EXCEPT !.texts = NewText]
    /\ UNCHANGED <<lock, at, end, interrupted, modelVars, bookVars, pushed, lineVars>>

ModelWrites(p) == model.at = "working" /\ Writes(p, TRUE)

PersonWrites(p) ==
    /\ Hasty \/ \A r \in Rounds : at[r] # "restore"
    /\ Writes(p, FALSE)

UnchangedByChild == UNCHANGED <<lock, at, end, interrupted, model, kept, taken, matching, lineVars>>

\* The joined propose reads what it will push.  Which of the idle ones it is
\* says nothing.
Idle == {c \in Children : child[c].at = "none"}

Propose(c) ==
    /\ model.at = "working"
    /\ Idle # {} /\ c = CHOOSE d \in Idle : TRUE
    /\ budget.pushes < MaxPushes
    /\ \E chosen \in (SUBSET Dirty) \ {{}} :
         child' = [child EXCEPT ![c] =
           [NoChild EXCEPT !.at = "built", !.body = [p \in Paths |-> IF p \in chosen THEN tree[p] ELSE 0]]]
    /\ budget' = [budget EXCEPT !.pushes = @ + 1]
    /\ UNCHANGED <<record, spoiled, guard, vaultVars>> /\ UnchangedByChild

\* The push, and whether every url took it and the pull request is confirmed.
Push(c) ==
    /\ child[c].at = "built"
    /\ pushed' = pushed \cup ({child[c].body[p] : p \in Paths} \ {0})
    /\ \E opened \in BOOLEAN : child' = [child EXCEPT ![c].at = "pushed", ![c].opened = opened]
    /\ UNCHANGED <<record, spoiled, guard, tree, written, budget>> /\ UnchangedByChild

\* Mutant: the guard is written over.
TakeGuardOver(c) ==
    /\ child[c].at = "pushed"
    /\ ~spoiled[lock]
    /\ guard' = [guard EXCEPT ![lock] = TRUE]
    /\ child' = [child EXCEPT ![c].at = "guarded", ![c].saw = record[lock]]
    /\ UNCHANGED <<record, spoiled, vaultVars, budget>> /\ UnchangedByChild

\* appendRecord: the guard, then what is there.
TakeGuard(c) ==
    /\ child[c].at = "pushed"
    /\ ~guard[lock] /\ ~spoiled[lock]
    /\ guard' = [guard EXCEPT ![lock] = TRUE]
    /\ child' = [child EXCEPT ![c].at = "guarded", ![c].saw = record[lock]]
    /\ UNCHANGED <<record, spoiled, vaultVars, budget>> /\ UnchangedByChild

\* Mutant: the record is written anew, not merged.
AppendEntryAlone(c) ==
    /\ child[c].at = "guarded"
    /\ record' = [record EXCEPT ![lock] = <<[body |-> child[c].body, opened |-> child[c].opened]>>]
    /\ child' = [child EXCEPT ![c].at = "recorded"]
    /\ UNCHANGED <<spoiled, guard, vaultVars, budget>> /\ UnchangedByChild

\* The whole written beside it and renamed into place.
AppendEntry(c) ==
    /\ child[c].at = "guarded"
    /\ record' = [record EXCEPT ![lock] =
                    Append(child[c].saw, [body |-> child[c].body, opened |-> child[c].opened])]
    /\ child' = [child EXCEPT ![c].at = "recorded"]
    /\ UNCHANGED <<spoiled, guard, vaultVars, budget>> /\ UnchangedByChild

\* The guard is removed, the entry written or its writing failed.
ReleaseGuard(c) ==
    /\ child[c].at \in {"guarded", "recorded"}
    /\ guard' = [guard EXCEPT ![lock] = FALSE]
    /\ child' = [child EXCEPT ![c] = NoChild]
    /\ UNCHANGED <<record, spoiled, vaultVars, budget>> /\ UnchangedByChild

\* Refused, its push failed, the guard waited for in vain, or killed by the
\* CLI: the propose ends where it is.
ChildEnds(c) ==
    /\ child[c].at # "none"
    /\ child' = [child EXCEPT ![c] = NoChild]
    /\ UNCHANGED <<record, spoiled, guard, vaultVars, budget>> /\ UnchangedByChild

\* Something other than a record is left under its name.
Spoil ==
    /\ model.at = "working"
    /\ ~spoiled[lock] /\ ~guard[lock]
    /\ spoiled' = [spoiled EXCEPT ![lock] = TRUE]
    /\ record' = [record EXCEPT ![lock] = <<>>]
    /\ UNCHANGED <<child, guard, vaultVars, budget>> /\ UnchangedByChild

----------------------------------------------------------------------------
(* After the model: the record, the cleanup, the exit.                     *)

ReadRecord(r) ==
    /\ at[r] = "record"
    /\ IF spoiled[r]
       THEN kept' = kept \cup {r} /\ Goto(r, "decide") /\ UNCHANGED taken
       ELSE /\ taken' = [taken EXCEPT ![r] = record[r]]
            /\ Goto(r, IF record[r] = <<>> THEN "decide" ELSE "compare")
            /\ UNCHANGED kept
    /\ UNCHANGED <<lock, end, interrupted, modelVars, record, spoiled, guard, matching,
                   vaultVars, lineVars, budget>>

\* proposedMatch: each named path against the latest proposal naming it.
Naming(entries, p) == {i \in DOMAIN entries : entries[i].body[p] # 0}
Latest(entries, p) == {i \in Naming(entries, p) : \A j \in Naming(entries, p) : j <= i}

\* Mutant: a path named is a path restored, whatever was written since.
MatchingByName(entries) == {p \in Paths : Naming(entries, p) # {}}

Matching(entries) ==
    {p \in Paths : \E i \in Latest(entries, p) : tree[p] = entries[i].body[p]}

Compare(r) ==
    /\ at[r] = "compare"
    /\ matching' = [matching EXCEPT ![r] = Matching(taken[r])]
    /\ Goto(r, "restore")
    /\ UNCHANGED <<lock, end, interrupted, modelVars, record, spoiled, guard, kept, taken,
                   vaultVars, lineVars, budget>>

BackToHead(ps) == tree' = [p \in Paths |-> IF p \in ps THEN 0 ELSE tree[p]]

\* restoreMatching: every matching path, or some of them and an error.
Restore(r) ==
    /\ at[r] = "restore"
    /\ \/ BackToHead(matching[r]) /\ Goto(r, "decide") /\ UNCHANGED end
       \/ /\ \E ps \in SUBSET matching[r] : BackToHead(ps)
          /\ EndBy(r, "FAILURE", "internal_error", "tidy")
    /\ UNCHANGED <<lock, interrupted, modelVars, bookVars, pushed, written, lineVars, budget>>

ModelOk == model.ok /\ ~model.timedOut /\ model.aborted = "no"

\* Mutant: only what was proposed is looked at, not what was left.
OutcomeWithoutLeftovers(r, unread, stuck) ==
    IF model.aborted # "no" \/ interrupted[r] \/ ~ModelOk \/ r \in kept THEN <<"FAILURE", "model">>
    ELSE IF unread \/ stuck THEN <<"SOURCE_UNREAD", "source_unread">>
    ELSE <<"OK", "proposed">>

\* Step 16, first match wins; `stuck': a required source's mark did not move.
Outcome(r, unread, stuck) ==
    IF model.aborted = "isolation" THEN <<"FAILURE", "model">>
    ELSE IF interrupted[r] THEN <<"FAILURE", "interrupted">>
    ELSE IF ~ModelOk THEN <<"FAILURE", "model">>
    ELSE IF unread THEN <<"SOURCE_UNREAD", "source_unread">>
    ELSE IF r \in kept THEN <<"FAILURE", "record_invalid">>
    ELSE IF Dirty # {} THEN <<"FAILURE", "leftovers">>
    ELSE IF \E i \in DOMAIN taken[r] : ~taken[r][i].opened THEN <<"DEGRADED", "not_opened">>
    ELSE IF stuck THEN <<"SOURCE_UNREAD", "source_unread">>
    ELSE IF taken[r] # <<>> THEN <<"OK", "proposed">>
    ELSE <<"OK", "nothing_proposed">>

Decide(r) ==
    /\ at[r] = "decide"
    /\ \E unread, stuck \in BOOLEAN :
         LET o == Outcome(r, unread, stuck) IN EndBy(r, o[1], o[2], "tidy")
    /\ UNCHANGED <<lock, interrupted, modelVars, bookVars, vaultVars, lineVars, budget>>

\* An exception the round does not expect.
Throws(r) ==
    /\ at[r] \in {"held", "clean", "record", "compare", "decide"}
    /\ EndBy(r, "FAILURE", "internal_error", "tidy")
    /\ UNCHANGED <<lock, interrupted, modelVars, bookVars, vaultVars, lineVars, budget>>

\* The finally: signals are no longer listened to, the record goes with its
\* guard, unless it is kept, and what the round held in memory with it.
Tidy(r) ==
    /\ at[r] = "tidy"
    /\ record' = IF r \in kept THEN record ELSE [record EXCEPT ![r] = <<>>]
    /\ spoiled' = IF r \in kept THEN spoiled ELSE [spoiled EXCEPT ![r] = FALSE]
    /\ guard' = [guard EXCEPT ![r] = FALSE]
    /\ model' = NoModel
    /\ taken' = [taken EXCEPT ![r] = <<>>]
    /\ matching' = [matching EXCEPT ![r] = {}]
    /\ interrupted' = [interrupted EXCEPT ![r] = FALSE]
    /\ kept' = kept \ {r}
    /\ Goto(r, "incident")
    /\ UNCHANGED <<lock, end, child, vaultVars, lineVars, budget>>

----------------------------------------------------------------------------
(* finishRound.                                                            *)

\* incidentFor: whether the round leaves a line; `repaired': it repaired
\* something on its way.
LeavesLine(r, repaired) ==
    /\ end[r].reason \notin {"lock_held", "checked"}
    /\ end[r].exit # "OK" \/ end[r].reason \in Closing \/ repaired

\* Mutant: the lock goes before the prune.
AppendIncidentUnlocking(r) ==
    /\ at[r] = "incident"
    /\ \E repaired \in BOOLEAN :
         incidents' = IF LeavesLine(r, repaired)
                      THEN incidents \cup {[of |-> r, locked |-> lock = r]} ELSE incidents
    /\ end' = [end EXCEPT ![r] = NoEnd]
    /\ Goto(r, IF lock # r THEN "gone" ELSE "prune")
    /\ lock' = IF lock = r THEN NoRound ELSE lock
    /\ UNCHANGED <<interrupted, modelVars, bookVars, vaultVars, seen, budget>>

AppendIncident(r) ==
    /\ at[r] = "incident"
    /\ \E repaired \in BOOLEAN :
         incidents' = IF LeavesLine(r, repaired)
                      THEN incidents \cup {[of |-> r, locked |-> lock = r]} ELSE incidents
    /\ end' = [end EXCEPT ![r] = NoEnd]
    /\ Goto(r, IF lock # r THEN "gone" ELSE IF end[r].reason = "checked" THEN "release" ELSE "prune")
    /\ UNCHANGED <<lock, interrupted, modelVars, bookVars, vaultVars, seen, budget>>

\* pruneIncidents: read, and rewritten only when a line is too old.
PruneRead(r) ==
    /\ at[r] = "prune"
    /\ IF Old \in incidents
       THEN seen' = [seen EXCEPT ![r] = incidents] /\ Goto(r, "rewrite")
       ELSE UNCHANGED seen /\ Goto(r, "release")
    /\ UNCHANGED <<lock, end, interrupted, modelVars, bookVars, vaultVars, incidents, budget>>

PruneWrite(r) ==
    /\ at[r] = "rewrite"
    /\ incidents' = seen[r] \ {Old}
    /\ seen' = [seen EXCEPT ![r] = {}]
    /\ Goto(r, "release")
    /\ UNCHANGED <<lock, end, interrupted, modelVars, bookVars, vaultVars, budget>>

Release(r) ==
    /\ at[r] = "release"
    /\ lock' = NoRound
    /\ Goto(r, "gone")
    /\ UNCHANGED <<end, interrupted, modelVars, bookVars, vaultVars, lineVars, budget>>

\* The round's whole control group killed, or the machine stopped.
Die(r) ==
    /\ at[r] \notin {"idle", "gone", "dead"}
    /\ budget.deaths < MaxDeaths
    /\ budget' = [budget EXCEPT !.deaths = @ + 1]
    /\ Goto(r, "dead")
    /\ IF lock = r THEN model' = NoModel /\ child' = AllDead ELSE UNCHANGED modelVars
    /\ interrupted' = [interrupted EXCEPT ![r] = FALSE]
    /\ taken' = [taken EXCEPT ![r] = <<>>]
    /\ matching' = [matching EXCEPT ![r] = {}]
    /\ seen' = [seen EXCEPT ![r] = {}]
    /\ end' = [end EXCEPT ![r] = NoEnd]
    /\ kept' = kept \ {r}
    /\ UNCHANGED <<lock, record, spoiled, guard, vaultVars, incidents>>

----------------------------------------------------------------------------
RoundStep(r) ==
    \/ EndsEarly(r) \/ CheckDirtyTree(r) \/ Launch(r) \/ AfterModel(r)
    \/ ReadRecord(r) \/ Compare(r) \/ Restore(r) \/ Decide(r) \/ Throws(r) \/ Tidy(r)
    \/ AppendIncident(r) \/ PruneRead(r) \/ PruneWrite(r) \/ Release(r)

ChildStep(c) ==
    \/ Propose(c) \/ Push(c) \/ TakeGuard(c) \/ AppendEntry(c) \/ ReleaseGuard(c) \/ ChildEnds(c)

ModelStep == FirstTurn \/ AbortByLine \/ Timeout \/ CliExits \/ GraceKill \/ Drain \/ Close \/ Spoil

Next ==
    \/ \E r \in Rounds : MachineInvalid(r) \/ Acquire(r) \/ Refuse(r) \/ RoundStep(r) \/ Signal(r) \/ Die(r)
    \/ ModelStep
    \/ \E c \in Children : ChildStep(c)
    \/ \E p \in Paths : ModelWrites(p) \/ PersonWrites(p)

Spec == Init /\ [][Next]_vars

(***************************************************************************)
(* A round's own steps are taken, its timers fire, and the output of a     *)
(* group that is dead closes.  Nothing is assumed of the CLI or of what it *)
(* runs: they may go on, catch SIGTERM and hold the output open.           *)
(***************************************************************************)
QuietClose == Close /\ \A c \in Children : child[c].at = "none"
Fairness ==
    /\ \A r \in Rounds : WF_vars(RoundStep(r))
    /\ WF_vars(Timeout) /\ WF_vars(GraceKill) /\ WF_vars(Drain) /\ WF_vars(QuietClose)

FairSpec == Spec /\ Fairness

----------------------------------------------------------------------------
(* The inductive invariant.                                                *)

AfterClose == {"record", "compare", "restore", "decide", "tidy"}
UnderLock  == {"checking", "held", "clean", "model", "prune", "rewrite", "release"} \cup AfterClose

\* A place under the lock is the holder's.
HolderIsHere == \A r \in Rounds : at[r] \in UnderLock => lock = r

\* The model runs only while its round waits for it, and a propose only
\* while the model's group does.
ModelIsAwaited ==
    /\ Running => lock \in Rounds /\ at[lock] = "model"
    /\ model.stopping <=> model.timedOut \/ model.aborted # "no"
    /\ model.aborted = "relaunch" => model.at # "working"
    /\ \A c \in Children : child[c].at # "none" => Running /\ model.at # "starting" /\ model.aborted # "relaunch"

\* One propose at a time is inside the record's guard, and what it read is
\* what is there.
GuardIsExclusive ==
    \A c \in Children : child[c].at \in {"guarded", "recorded"} =>
        /\ guard[lock] /\ ~spoiled[lock]
        /\ \A d \in Children : child[d].at \in {"guarded", "recorded"} => d = c
        /\ child[c].at = "guarded" => child[c].saw = record[lock]

Held(body) == \A p \in Paths : body[p] \in pushed \cup {0}

\* What an entry names was pushed before it was written.
EntriesAreHeld ==
    /\ \A c \in Children : child[c].at \in {"pushed", "guarded", "recorded"} => Held(child[c].body)
    /\ \A c \in Children : \A i \in DOMAIN child[c].saw : Held(child[c].saw[i].body)
    /\ \A r \in Rounds : \A i \in DOMAIN record[r] : Held(record[r][i].body)
    /\ \A r \in Rounds : \A i \in DOMAIN taken[r] : Held(taken[r][i].body)

\* No entry is written before the model's first turn, none is read before the
\* model's end, and a round has an end only from where it says it to its line.
NothingYet ==
    \A r \in Rounds :
        /\ \/ at[r] \in {"idle", "checking", "held", "clean"}
           \/ at[r] = "model" /\ (model.at = "starting" \/ model.aborted = "relaunch")
           => record[r] = <<>>
        /\ at[r] \in {"idle", "checking", "held", "clean", "model", "record"} => taken[r] = <<>>
        /\ at[r] \notin {"tidy", "incident"} => end[r] = NoEnd

\* From its reading to its removal the record is what the round read, unless
\* something else is in its place.
ReadIsWhole ==
    \A r \in Rounds :
        /\ r \in kept => spoiled[r]
        /\ spoiled[r] => record[r] = <<>>
        /\ at[r] \in {"compare", "restore", "decide"} => taken[r] = record[r] \/ spoiled[r]
        /\ at[r] = "tidy" =>
             taken[r] = record[r] \/ spoiled[r] \/ end[r].reason = "internal_error"

\* Where the cleanup found a note as it was pushed, the model's text is on a
\* branch, and so is the person's, unless it came after the look.
FoundIsHeld ==
    \A r \in Rounds : at[r] = "restore" => \A p \in matching[r] :
        /\ written[p] \in pushed \cup {0}
        /\ Hasty \/ tree[p] \in pushed \cup {0}

\* The model's last text in a note is in the tree or on a branch.
TextsAreSomewhere == \A p \in Paths : written[p] \in {0, tree[p]} \cup pushed

\* The lines a prune will write hold every line of a holder there is.
PruneHasAll ==
    \A r \in Rounds : at[r] = "rewrite" => \A line \in incidents : line = Old \/ ~line.locked \/ line \in seen[r]

IInv ==
    /\ TypeOK
    /\ HolderIsHere
    /\ ModelIsAwaited
    /\ GuardIsExclusive
    /\ EntriesAreHeld
    /\ NothingYet
    /\ ReadIsWhole
    /\ FoundIsHeld
    /\ TextsAreSomewhere
    /\ PruneHasAll

----------------------------------------------------------------------------
(* Properties.                                                             *)

\* No command of the model's outlives the run of the model, and none is ever
\* at work without the lock of its round: a propose still pushing after the
\* release would push beside another command.
ChildrenUnderLock ==
    \A c \in Children : child[c].at # "none" => lock \in Rounds /\ at[lock] = "model"

\* The cleanup takes a text out of the working tree only when a branch of the
\* remote holds that very text.
RestoresOnlyPushed ==
    [][\A p \in Paths : tree[p] # 0 /\ tree'[p] = 0 => tree[p] \in pushed]_vars

\* A round that closes its days (exit 0 or 3) leaves no text of its model
\* unpushed: one that stayed in the tree is told, by exit 1.
LeavesNothingUnsaid ==
    [][\A r \in Rounds : at[r] = "decide" /\ end'[r].exit \in {"OK", "DEGRADED"} =>
         \A p \in Paths : written[p] \in pushed \cup {0}]_vars

\* A run that was sent a signal, by the timeout or an abort, is never a
\* success, whatever code its CLI went by.
StoppedIsNoSuccess ==
    [][\A r \in Rounds : at[r] = "decide" /\ end'[r].exit \in {"OK", "DEGRADED"} =>
         ~model.stopping /\ ~interrupted[r]]_vars

\* An entry leaves the round's record only after the round read it: none is
\* lost between two proposes, none is removed unread, unless something was
\* put in the record's place or the round ends by an error it tells.
EntriesAreRead ==
    [][\A r \in Rounds : \A i \in DOMAIN record[r] :
         \/ \E j \in DOMAIN record'[r] : record'[r][j] = record[r][i]
         \/ \E j \in DOMAIN taken[r] : taken[r][j] = record[r][i]
         \/ spoiled'[r] \/ end[r].reason = "internal_error"]_vars

\* The rewrite of incidents.jsonl loses, besides what is too old, only lines
\* of rounds that never held the lock.
LinesOfHoldersStay ==
    [][\A line \in incidents \ incidents' : line = Old \/ ~line.locked]_vars

\* A round that took the lock lets it go or dies, whatever its model does.
RoundEnds == \A r \in Rounds : at[r] \in {"held", "checking"} ~> at[r] \in {"gone", "dead"}
=============================================================================
