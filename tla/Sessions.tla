------------------------------ MODULE Sessions ------------------------------
(***************************************************************************)
(* Sessions of Claude Code in one working tree of a vault, with the two    *)
(* hooks the kit gives them (src/hooks/), beside the rounds that hold the  *)
(* vault lock and the legacy job whose flock the kit honours while a vault *)
(* moves to it (src/guards/legacy-lock.mjs).                               *)
(*                                                                         *)
(* SessionStart records what is dirty already; Stop asks a session, once   *)
(* per path, to propose what it changed since.  Both work on three shared  *)
(* files, one of each per working tree: the snapshot, the record of what   *)
(* was asked, and the ledger of what was proposed.  A Stop reads them one  *)
(* after the other while other sessions run.                               *)
(***************************************************************************)
EXTENDS Naturals, FiniteSets

CONSTANTS
    Sessions,      \* one per session of Claude Code
    Anonymous,     \* the sessions whose events carry no session_id
    Watched,       \* the session whose history is kept
    Rounds,        \* commands that take the vault lock
    Job,           \* the legacy job
    Nobody,        \* no holder, no session, no file
    Paths,         \* of the vault: none under .claude/worktrees/
    Settings,      \* the settings of machine.json and of the bridge to start from
    Limit          \* bound: how many contents each path takes but HEAD's

(* machine.json that is missing has no bridge; a setting that is not an    *)
(* absolute path makes the whole file invalid.                             *)
AllSettings ==
    {s \in {"ok", "absent", "invalid", "elsewhere"} \X {"off", "on", "unusable", "invalid"} :
        (s[1] = "absent" => s[2] = "off") /\ (s[2] = "invalid" => s[1] = "invalid")}

ASSUME SessionsAssumption ==
    /\ Anonymous \subseteq Sessions
    /\ Watched \in Sessions
    /\ Settings \subseteq AllSettings
    /\ Limit \in [Paths -> Nat]
    /\ Nobody \notin Sessions \cup Rounds \cup {Job}
    /\ Nobody \notin [session : Sessions \cup {Nobody}, paths : SUBSET Paths]
    /\ Job \notin Rounds

VARIABLES
    machine,    \* machine.json: "ok", "absent", "invalid", or of another path
    bridge,     \* paths.legacy_lock: "off", "on", "unusable" or "invalid"
    content,    \* what each path holds; 0 is HEAD's content
    snapshot,   \* brain-kit-snapshot.json: [session, paths]; Nobody when none can be read
    reminded,   \* brain-kit-stop-reminded.json: [session, paths] or Nobody
    ledger,     \* <<path, content>> of every pinned proposal
    lock,       \* the round the vault lock names, or Nobody
    flock,      \* who has the legacy file locked exclusively, or Nobody
    rounds,     \* where each round is
    at,         \* where each session is
    active,     \* stop_hook_active: its turn goes on because its Stop blocked
    before,     \* history of Watched: the paths dirty when it started,
    mine,       \* ... the others it changed,
    asked,      \* ... the paths a block of its Stop named,
    spoiled     \* ... and whether its record was not written, or was replaced

files == <<machine, bridge, content, snapshot, reminded, ledger>>
locks == <<lock, flock, rounds>>
session == <<at, active, mine, before, asked, spoiled>>
vars == <<files, locks, session>>

Places  == {"off", "open", "probe", "decide"}
Written == [session : Sessions \cup {Nobody}, paths : SUBSET Paths]

TypeOK ==
    /\ machine \in {"ok", "absent", "invalid", "elsewhere"}
    /\ bridge \in {"off", "on", "unusable", "invalid"}
    /\ content \in [Paths -> Nat]
    /\ snapshot \in Written \cup {Nobody}
    /\ reminded \in Written \cup {Nobody}
    /\ ledger \in SUBSET (Paths \X Nat)
    /\ lock \in Rounds \cup {Nobody}
    /\ flock \in Rounds \cup {Job, Nobody}
    /\ rounds \in [Rounds -> {"idle", "locked", "working", "dead"}]
    /\ at \in [Sessions -> Places]
    /\ active \in [Sessions -> BOOLEAN]
    /\ before \in SUBSET Paths /\ mine \in SUBSET Paths /\ asked \in SUBSET Paths
    /\ spoiled \in BOOLEAN

Init ==
    /\ \E setting \in Settings : machine = setting[1] /\ bridge = setting[2]
    /\ content = [p \in Paths |-> 0]
    /\ snapshot = Nobody
    /\ reminded = Nobody
    /\ ledger = {}
    /\ lock = Nobody /\ flock = Nobody
    /\ rounds = [r \in Rounds |-> "idle"]
    /\ at = [s \in Sessions |-> "off"]
    /\ active = [s \in Sessions |-> FALSE]
    /\ before = {} /\ mine = {} /\ asked = {} /\ spoiled = FALSE

IdOf(s) == IF s \in Anonymous THEN Nobody ELSE s

dirty == {p \in Paths : content[p] # 0}

(* A path whose bytes are those an earlier proposal pushed; a ledger that  *)
(* cannot be read leaves every path in.                                    *)
Proposed(S, readable) == IF readable THEN {p \in S : <<p, content[p]>> \in ledger} ELSE {}

(***************************************************************************)
(* The vault lock with the legacy lock added.  `holder` of a dead round    *)
(* is stale; how a stale lock is replaced is VaultLock.tla's.              *)
(***************************************************************************)
(* The sessions whose Stop has the legacy file locked shared.              *)
Probing == IF bridge = "on" THEN {s \in Sessions : at[s] = "decide"} ELSE {}

LockHeld == lock # Nobody /\ rounds[lock] # "dead"

LockVault(r) ==
    /\ rounds[r] \in {"idle", "dead"} /\ ~LockHeld
    /\ lock' = r
    /\ rounds' = [rounds EXCEPT ![r] = "locked"]
    /\ UNCHANGED <<files, flock, session>>

(* Mutant: a bridge that is held is taken for one that is off.             *)
TakeBridgeAnyway(r) ==
    /\ rounds[r] = "locked"
    /\ IF bridge \in {"off", "on"}
       THEN rounds' = [rounds EXCEPT ![r] = "working"] /\ UNCHANGED lock
       ELSE rounds' = [rounds EXCEPT ![r] = "idle"] /\ lock' = Nobody
    /\ flock' = IF bridge = "on" /\ flock = Nobody /\ Probing = {} THEN r ELSE flock
    /\ UNCHANGED <<files, session>>

(* withLegacyLock, takeBridge: off is nothing to take; an exclusive flock  *)
(* without waiting is refused while anyone has the file locked, a Stop's   *)
(* probe included; a bridge that cannot be used, or a machine.json that    *)
(* cannot say whether there is one, refuses.  A refusal drops the vault    *)
(* lock before it is thrown on.                                            *)
TakeBridge(r) ==
    /\ rounds[r] = "locked"
    /\ LET free == flock = Nobody /\ Probing = {} IN
       /\ IF bridge = "off" \/ (bridge = "on" /\ free)
          THEN rounds' = [rounds EXCEPT ![r] = "working"] /\ UNCHANGED lock
          ELSE rounds' = [rounds EXCEPT ![r] = "idle"] /\ lock' = Nobody
       /\ flock' = IF bridge = "on" /\ free THEN r ELSE flock
    /\ UNCHANGED <<files, session>>

(* The release: the legacy lock, then the vault lock.  Whoever looks in    *)
(* between finds the vault lock held, as before it.                        *)
ReleaseLocks(r) ==
    /\ rounds[r] = "working"
    /\ flock' = IF flock = r THEN Nobody ELSE flock
    /\ lock' = Nobody
    /\ rounds' = [rounds EXCEPT ![r] = "idle"]
    /\ UNCHANGED <<files, session>>

(* A death: the kernel closes the descriptor, the vault lock's file stays. *)
RoundDies(r) ==
    /\ rounds[r] \in {"locked", "working"}
    /\ rounds' = [rounds EXCEPT ![r] = "dead"]
    /\ flock' = IF flock = r THEN Nobody ELSE flock
    /\ UNCHANGED <<files, lock, session>>

(* What a round at work writes in the tree.                                *)
RoundWrites(r, p) ==
    /\ rounds[r] = "working" /\ content[p] < Limit[p]
    /\ content' = [content EXCEPT ![p] = @ + 1]
    /\ UNCHANGED <<machine, bridge, snapshot, reminded, ledger, locks, session>>

(* The legacy job: `exec 9>>file; flock -n 9`, or its run is skipped.      *)
JobStarts ==
    /\ bridge # "off" /\ flock = Nobody /\ Probing = {}
    /\ flock' = Job
    /\ UNCHANGED <<files, lock, rounds, session>>

JobEnds ==
    /\ flock = Job
    /\ flock' = Nobody
    /\ UNCHANGED <<files, lock, rounds, session>>

(***************************************************************************)
(* SessionStart.  A session that begins takes a snapshot; one that is      *)
(* compacted or resumed never writes one, whoever the one there is of.     *)
(***************************************************************************)
TakeSnapshot(s) == snapshot' = [session |-> IdOf(s), paths |-> dirty]

(* Mutant: what the ledger holds is told again.                            *)
PendingAll(s, readable) ==
    IF reminded = Nobody \/ reminded.session = IdOf(s) THEN {} ELSE reminded.paths \cap dirty

(* pendingSentence: another session's paths the Stop hook asked about,     *)
(* still dirty, that no proposal holds.                                    *)
Pending(s, readable) ==
    IF reminded = Nobody \/ reminded.session = IdOf(s) THEN {}
    ELSE LET left == reminded.paths \cap dirty IN left \ Proposed(left, readable)

(* Mutant: a snapshot is taken whatever the source of the event.           *)
SessionStartRetaking(s, source) ==
    /\ (at[s] = "off") <=> (source = "startup")
    /\ at[s] \in {"off", "open"}
    /\ TakeSnapshot(s)
    /\ before' = IF s = Watched /\ at[s] = "off" THEN dirty ELSE before
    /\ at' = [at EXCEPT ![s] = IF @ = "off" THEN "open" ELSE @]
    /\ UNCHANGED <<machine, bridge, content, reminded, ledger, locks,
                   active, mine, asked, spoiled>>

SessionStart(s, source) ==
    \/ /\ source = "startup" /\ at[s] = "off"
       /\ TakeSnapshot(s)
       /\ before' = IF s = Watched THEN dirty ELSE before
       /\ at' = [at EXCEPT ![s] = "open"]
       /\ UNCHANGED <<machine, bridge, content, reminded, ledger, locks,
                      active, mine, asked, spoiled>>
    \/ /\ source = "compact" /\ at[s] = "open"
       /\ UNCHANGED vars

(* git or the disk fails: nothing is written, the session begins anyway.   *)
SessionStartFails(s) ==
    /\ at[s] = "off"
    /\ before' = IF s = Watched THEN dirty ELSE before
    /\ at' = [at EXCEPT ![s] = "open"]
    /\ UNCHANGED <<files, locks, active, mine, asked, spoiled>>

(* The session, or the model in it, writes a path.                         *)
Edit(s, p) ==
    /\ at[s] = "open" /\ content[p] < Limit[p]
    /\ content' = [content EXCEPT ![p] = @ + 1]
    /\ mine' = IF s = Watched THEN mine \cup ({p} \ before) ELSE mine
    /\ UNCHANGED <<machine, bridge, snapshot, reminded, ledger, locks,
                   at, active, before, asked, spoiled>>

(* A `propose` of the session, whole: Proposals.tla has its steps.  It     *)
(* takes both locks, and leaves the working tree as it is.                 *)
Propose(s, S) ==
    /\ at[s] = "open" /\ S # {} /\ S \subseteq dirty
    /\ ~LockHeld
    /\ bridge = "off" \/ (bridge = "on" /\ flock = Nobody)
    /\ ledger' = ledger \cup {<<p, content[p]>> : p \in S}
    /\ UNCHANGED <<machine, bridge, content, snapshot, reminded, locks, session>>

(* A proposal merged and brought by `sync`: the path is HEAD's again.      *)
Land(p) ==
    /\ ~LockHeld /\ <<p, content[p]>> \in ledger
    /\ content' = [content EXCEPT ![p] = 0]
    /\ ledger' = {e \in ledger : e[1] # p}
    /\ UNCHANGED <<machine, bridge, snapshot, reminded, locks, session>>

(***************************************************************************)
(* Stop, which only ever asks, never writes to the vault.  `stop_hook_     *)
(* active` is a turn that goes on because this very hook blocked its end.  *)
(***************************************************************************)
Stopping == {"probe", "decide"}

Leave(s, blocked) ==
    /\ at' = [at EXCEPT ![s] = "open"]
    /\ active' = [active EXCEPT ![s] = blocked]

Release(s) == Leave(s, FALSE)
Block(s)   == Leave(s, TRUE)

GoOn(s, place) ==
    /\ at' = [at EXCEPT ![s] = place]
    /\ UNCHANGED active

(* Mutant: a turn that goes on because of the hook is asked like any other. *)
StopBeginsAgain(s) ==
    /\ at[s] = "open"
    /\ IF machine \in {"absent", "elsewhere"} \/ (machine = "ok" /\ LockHeld) THEN Release(s)
       ELSE IF machine = "invalid" THEN Block(s)
       ELSE GoOn(s, "probe")
    /\ UNCHANGED <<files, locks, mine, before, asked, spoiled>>

(* A vault this machine has not registered, or registered at another path, *)
(* is released; a machine.json that cannot be used blocks; with a live     *)
(* holder of the vault lock what is dirty may be the round's.              *)
StopBegins(s) ==
    /\ at[s] = "open"
    /\ IF active[s] \/ machine \in {"absent", "elsewhere"} \/ (machine = "ok" /\ LockHeld)
       THEN Release(s)
       ELSE IF machine = "invalid" THEN Block(s)
       ELSE GoOn(s, "probe")
    /\ UNCHANGED <<files, locks, mine, before, asked, spoiled>>

(* probeLegacyLock: a shared lock, taken without waiting.  A bridge that   *)
(* cannot be used is only named.                                           *)
StopProbes(s) ==
    /\ at[s] = "probe"
    /\ IF bridge = "on" /\ flock # Nobody
       THEN Release(s)
       ELSE GoOn(s, "decide")
    /\ UNCHANGED <<files, locks, mine, before, asked, spoiled>>

(* snapshotTrust: only a snapshot of this very session splits its work     *)
(* from earlier work.  One that is missing, that cannot be read or that    *)
(* was taken for no session leaves every dirty path to this session.       *)
Own(shot, s) == shot # Nobody /\ shot.session # Nobody /\ shot.session = IdOf(s)

(* splitDirty, less what a proposal holds byte for byte.                   *)
Since(s, readable) ==
    LET changed == IF Own(snapshot, s) THEN dirty \ snapshot.paths ELSE dirty
    IN  changed \ Proposed(changed, readable)

Recorded(s) ==
    IF reminded # Nobody /\ reminded.session = IdOf(s) THEN reminded.paths ELSE {}

(* Mutant: the record keeps the last block's paths only.                   *)
RecordLast(s, names) == names

(* What the record is to hold: all the session was asked about.            *)
Record(s, names) == Recorded(s) \cup names

(* Each path is asked about once: a reply that changed only paths its      *)
(* session was asked about goes through.  A session with no id has nothing *)
(* to be remembered under.  A record that cannot be written is no failure; *)
(* one that is written replaces any other session's.                       *)
Ask(s, names, written) ==
    /\ Block(s)
    /\ asked' = IF s = Watched THEN asked \cup names ELSE asked
    /\ IF s \in Anonymous THEN UNCHANGED <<reminded, spoiled>>
       ELSE IF written
       THEN /\ reminded' = [session |-> s, paths |-> Record(s, names)]
            /\ spoiled' = (spoiled \/ (s # Watched /\ asked # {}))
       ELSE /\ spoiled' = (spoiled \/ s = Watched)
            /\ UNCHANGED reminded

StopDecides(s, readable, written) ==
    /\ at[s] = "decide"
    /\ LET names == Since(s, readable) IN
       IF names = {} \/ (s \notin Anonymous /\ names \subseteq Recorded(s))
       THEN Release(s) /\ UNCHANGED <<reminded, asked, spoiled>>
       ELSE Ask(s, names, written)
    /\ UNCHANGED <<machine, bridge, content, snapshot, ledger, locks, mine, before>>

(* Anything that throws on the way blocks.                                 *)
StopFails(s) ==
    /\ at[s] \in Stopping
    /\ Block(s)
    /\ UNCHANGED <<files, locks, mine, before, asked, spoiled>>

StopStep(s) ==
    \/ StopBegins(s) \/ StopProbes(s)
    \/ \E readable, written \in BOOLEAN : StopDecides(s, readable, written)

SessionStep(s) ==
    \/ \E source \in {"startup", "compact"} : SessionStart(s, source)
    \/ SessionStartFails(s) \/ StopFails(s) \/ StopStep(s)
    \/ \E p \in Paths : Edit(s, p)
    \/ \E S \in SUBSET Paths : Propose(s, S)

RoundStep(r) ==
    \/ LockVault(r) \/ TakeBridge(r) \/ ReleaseLocks(r) \/ RoundDies(r)
    \/ \E p \in Paths : RoundWrites(r, p)

Next ==
    \/ \E s \in Sessions : SessionStep(s)
    \/ \E r \in Rounds : RoundStep(r)
    \/ JobStarts \/ JobEnds
    \/ \E p \in Paths : Land(p)

Spec == Init /\ [][Next]_vars

(* A hook Claude Code started runs, and a turn it held comes to its end.   *)
(* When a person says something more is theirs to choose.                  *)
FairSpec ==
    Spec /\ WF_vars((at[Watched] # "open" \/ active[Watched]) /\ StopStep(Watched))

(***************************************************************************)
(* The strengthening of the properties: what each of them rests on.        *)
(***************************************************************************)

(* A command at work has the bridge, when there is one.                    *)
WorksUnderBridge ==
    /\ \A r \in Rounds : rounds[r] = "working" => bridge = "off" \/ (bridge = "on" /\ flock = r)
    /\ flock = Job => bridge # "off"

(* The snapshot of the watched session is of when it began, and what it    *)
(* changed was clean then.                                                 *)
SnapshotIsItsOwn ==
    /\ snapshot # Nobody /\ snapshot.session = Watched => snapshot.paths = before /\ at[Watched] # "off"
    /\ at[Watched] = "off" => mine = {}
    /\ mine \cap before = {}

(* The record names only what the watched session was asked about, and all *)
(* of it while it was written each time and by nobody else.                *)
RecordIsWhole ==
    /\ reminded # Nobody /\ reminded.session = Watched => reminded.paths \subseteq asked
    /\ ~spoiled /\ Watched \notin Anonymous /\ asked # {} =>
          reminded # Nobody /\ reminded.session = Watched /\ reminded.paths = asked
    /\ reminded # Nobody => reminded.session \in Sessions \ Anonymous

IInv == TypeOK /\ WorksUnderBridge /\ SnapshotIsItsOwn /\ RecordIsWhole

(***************************************************************************)
(* Properties.                                                             *)
(***************************************************************************)

(* The bridge: a command at work under the vault lock and the legacy job   *)
(* are never both in the tree, wherever either dies.                       *)
NeverWithTheJob == flock = Job => \A r \in Rounds : rounds[r] # "working"

(* A Stop that lets a session go after looking at its work leaves nothing  *)
(* of it behind unasked: every path the session changed that was clean     *)
(* when it began is HEAD's, is held byte for byte by a proposal, or was    *)
(* named to that session by an earlier block.  And one whose record nobody *)
(* replaced is not asked twice: a block names at least one path no earlier *)
(* block of it named.                                                      *)
NothingLeavesUnasked ==
    [][at[Watched] = "decide" /\ at'[Watched] = "open" =>
          /\ ~active'[Watched] =>
                \A p \in mine \cap dirty : <<p, content[p]>> \in ledger \/ p \in asked
          /\ reminded' # reminded /\ ~spoiled /\ Watched \notin Anonymous => asked' # asked]_vars

(* A session that begins is told of all, and only, the paths the last one  *)
(* was asked about and left dirty with no proposal that holds them.        *)
LeftWorkIsTold ==
    \A s \in Sessions \ {Watched} :
        (at[s] = "off" /\ reminded # Nobody /\ reminded.session = Watched /\ ~spoiled)
            => Pending(s, TRUE) = {p \in asked \cap dirty : <<p, content[p]>> \notin ledger}

(* No turn is held for ever: a session that means to stop is let go, with  *)
(* no session id, with a record that cannot be written, and whatever other *)
(* sessions do to the files its Stop reads.                                *)
TurnEnds == at[Watched] \in Stopping ~> (at[Watched] = "open" /\ ~active[Watched])
=============================================================================
