------------------------------- MODULE Doctor -------------------------------
(***************************************************************************)
(* `brain-kit doctor` beside what it speaks for: the round and the push.   *)
(* The machine and the vault are a record of facts, each at one of a few   *)
(* values; a person, a program or the forge spoils one fact or repairs it. *)
(* Each check of src/doctor/checks.mjs is an operator from the facts to    *)
(* its results, <<id, status, reason>>; Refusal is what stops a round      *)
(* before its model, in the order of src/commands/curate.mjs; PushOutcome  *)
(* is what a push meets.                                                   *)
(***************************************************************************)
EXTENDS Naturals, Sequences, FiniteSets, DefaultBranch

CONSTANTS Bases,     \* the vaults the facts start from
          MaxWrong,  \* bound: facts away from their base at once
          Blind      \* values doctor reads as right and the round does not

VARIABLES base, world

vars == <<base, world>>

\* What the last round carried on of a connector; "-" is no record.
States == {"-", "blocked", "connected", "needs_auth", "tools_missing"}

\* Every fact, with its values besides the one a base gives it.
Values == [
    nodeRun |-> {"ok", "old", "unreadable"},
    nodePath |-> {"ok", "missing", "failed", "unrecognised", "old", "other"},
    git |-> {"ok", "missing", "unrecognised"},
    place |-> {"top", "below", "no_repo"},
    hooksPath |-> {"here", "unset", "elsewhere", "unreadable"},
    hook |-> {"gate", "edited", "locked", "empty", "missing"},
    kit |-> {"ok", "missing", "failed", "unrecognised", "other", "unread"},
    roundPath |-> {"ok", "lacks"},
    config |-> {"ok", "unreadable", "machine_key", "invalid", "pattern", "unscoped"},
    enabled |-> BOOLEAN,
    budget |-> {"set", "none", "bad"}, turns |-> {"set", "none", "bad"}, minutes |-> {"set", "none", "bad"},
    policy |-> {"ok", "bad", "outside", "overlay"},
    keywords |-> {"off", "own", "legacy"},
    scope |-> {"inside", "beyond"},
    kitVersion |-> {"same", "older", "newer"},
    manifest |-> {"ok", "missing", "unreadable", "lang"},
    machine |-> {"ok", "missing", "unreadable", "invalid", "elsewhere"},
    access |-> {"private", "open_dir", "open_file", "writable"},
    digests |-> {"safe", "unsafe"},
    legacy |-> {"off", "free", "held", "invalid", "unusable", "unmade"},
    gh |-> {"ok", "missing", "failed", "unrecognised"},
    login |-> {"in", "out", "unverified"},
    claudeBin |-> {"named", "relative"},
    claude |-> {"real", "missing", "batch", "stub", "failed", "unrecognised", "unflagged", "helpless"},
    ignore |-> {"ignored", "not", "local", "tracked", "unknown"},
    timezone |-> {"ok", "bad"},
    mark |-> {"open", "level", "unset", "behind", "future", "corrupt"},
    timer |-> {"active", "inactive", "outdated", "elsewhere", "absent", "refused"},
    notify |-> {"found", "unset", "missing"},
    briefing |-> {"on", "off"},
    task |-> {"ok", "absent", "unreadable", "unsigned", "no_command", "kit_missing", "vault_differs", "kit_other"},
    queue |-> {"ok", "corrupt", "unreadable"}, blocks |-> {"ok", "problem"}, signature |-> {"ok", "bad"},
    lastRun |-> {"none", "unreadable", "no_exit", "ok", "short", "dead", "soft", "auth", "failed"},
    tree |-> {"clean", "dirty", "busy", "no_commit"},
    network |-> {"up", "down"},
    head |-> {"none", "main", "dev", "outside"}, tracked |-> SUBSET {"main", "dev"},
    locals |-> SUBSET {"main", "dev"}, published |-> SUBSET {"main", "dev"}, reachable |-> BOOLEAN,
    committed |-> {"unset", "dev", "no name"}, worktree |-> {"unset", "dev", "no name"},
    upstream |-> {"same", "local", "dev"}, remote |-> BOOLEAN, diverged |-> BOOLEAN,
    unknownSource |-> BOOLEAN,
    transcripts |-> {"no", "required", "best_effort"},
    list |-> {"own", "name", "both", "empty", "all"}, named |-> {"default", "named", "moved"},
    root |-> {"there", "gone", "other", "unreadable"},
    nameable |-> BOOLEAN,
    own |-> {"directory", "gone", "other", "unreachable", "unlisted"},
    project |-> {"directory", "gone", "other", "unreachable", "unlisted"},
    calendar |-> {"no", "required", "best_effort"}, calendarSet |-> {"on", "off", "half"},
    notes |-> {"no", "required", "best_effort"}, notesSet |-> {"on", "off", "half"},
    calendarState |-> {"connected", "needs_auth", "pending", "tools_missing"},
    notesState |-> {"connected", "needs_auth", "pending", "tools_missing"},
    calendarSeen |-> States, notesSeen |-> States,
    team |-> {"ok", "unauthorized"}, twice |-> BOOLEAN, consentFlag |-> BOOLEAN,
    rules |-> {"none", "refuse", "calendar"},
    launch |-> {"init", "no_init", "breach"}]

Facts == DOMAIN Values
Connectors == {"calendar", "notes"}

TypeOK ==
    /\ base \in Bases
    /\ LET values == Values IN
        /\ DOMAIN world = DOMAIN values
        /\ \A f \in DOMAIN values : world[f] \in values[f]

Wrong == {f \in DOMAIN base : world[f] # base[f]}

-----------------------------------------------------------------------------
(* The shape of a check: a table of <<condition, status, reason>>, read    *)
(* down to the first condition that holds.                                 *)

FirstRow(table) == table[CHOOSE k \in DOMAIN table : table[k][1] /\ \A j \in 1..k - 1 : ~table[j][1]]
Answer(id, table) == {<<id, FirstRow(table)[2], FirstRow(table)[3]>>}
Ok == <<TRUE, "ok", "ok">>
\* A row for each value of a fact that means the same thing to a check.
Fails(value, values) == <<value \in values, "fail", value>>
Warns(value, values) == <<value \in values, "warn", value>>

ConfigRead(w) == w.config # "unreadable"
MachineRead(w) == w.machine \notin {"missing", "unreadable"}
MachineValid(w) == w.machine \in {"ok", "elsewhere"}
BadLimit(w) == "bad" \in {w.budget, w.turns, w.minutes}
\* The schema refuses a limit and a privacy level it does not take, too.
ConfigLoads(w) ==
    /\ w.config \in {"ok", "pattern", "unscoped"}
    /\ ~BadLimit(w)
    /\ w.policy # "bad"

\* The checks of the curator say so when it is off, and cannot ask when the
\* configuration is not read.
Curator(id, w, table) ==
    Answer(id, <<<<~ConfigRead(w), "warn", "config_unknown">>, <<~w.enabled, "ok", "disabled">>>> \o table)

-----------------------------------------------------------------------------
(* The push: node, git, the hook, brain-kit on PATH, the configuration.    *)

NodeVersion(w) == Answer("node-version",
    <<Fails(w.nodeRun, {"old", "unreadable"}),
      Fails(w.nodePath, {"missing", "failed", "unrecognised", "old"}), Ok>>)

GitPresent(w) == Answer("git-present", <<Fails(w.git, {"missing", "unrecognised"}), Ok>>)

\* Mutant: a vault below its work tree's top reads as hooked.
HooksPathAnywhere(w) == Answer("hooks-path",
    <<<<w.git = "missing" \/ w.place = "no_repo", "fail", "not_a_repo">>,
      Fails(w.hooksPath, {"unset", "unreadable", "elsewhere"}),
      Fails(w.hook, {"missing", "empty", "locked"}),
      Warns(w.hook, {"edited"}), Ok>>)

HooksPath(w) == Answer("hooks-path",
    <<<<w.git = "missing" \/ w.place = "no_repo", "fail", "not_a_repo">>,
      Fails(w.hooksPath, {"unset", "unreadable", "elsewhere"}),
      <<w.place = "below", "fail", "not_top_level">>,
      Fails(w.hook, {"missing", "empty", "locked"}),
      Warns(w.hook, {"edited"}), Ok>>)

\* The round's own PATH is asked only where a round can be scheduled.
RoundLacks(w) == ConfigRead(w) /\ w.enabled /\ MachineValid(w) /\ w.roundPath = "lacks"

BrainKitOnPath(w) == Answer("brain-kit-on-path",
    <<Fails(w.kit, {"missing"}), Warns(w.kit, {"unread"}), Fails(w.kit, {"failed", "unrecognised"}),
      <<RoundLacks(w), "fail", "unit_missing">>, Warns(w.kit, {"other"}), Ok>>)

ConfigValid(w) == Answer("config-valid",
    <<Fails(w.config, {"unreadable", "machine_key", "invalid"}),
      <<~ConfigLoads(w), "fail", "invalid">>,
      Fails(w.config, {"pattern", "unscoped"}), Ok>>)

\* What git does with a push: it runs the hook only where core.hooksPath
\* leads to a file it may execute, and the hook refuses everything when it
\* has no brain-kit to ask, no vault at the top of the tree, or a
\* configuration its scanners cannot use.
HookRuns(w) ==
    w.place # "no_repo" /\ w.hooksPath = "here" /\ w.hook \notin {"missing", "locked", "empty"}
PushOutcome(w) ==
    IF ~HookRuns(w) THEN "unguarded"
    ELSE IF w.hook = "edited" THEN "unknown"
    ELSE IF \/ w.place = "below"
            \/ w.kit \in {"missing", "failed", "unrecognised"}
            \/ w.nodePath \in {"missing", "failed", "unrecognised", "old"}
            \/ ~ConfigLoads(w)
            \/ w.config = "pattern"
         THEN "always refused"
    ELSE "judged"

-----------------------------------------------------------------------------
(* The vault and the machine.                                              *)

ManifestValid(w) == Answer("manifest-valid",
    <<Fails(w.manifest, {"missing", "unreadable"}),
      <<ConfigRead(w) /\ w.manifest = "lang", "warn", "lang_differs">>,
      <<ConfigRead(w) /\ w.kitVersion = "newer", "warn", "kit_older">>, Ok>>)

MachineValidCheck(w) == Answer("machine-valid",
    <<Fails(w.machine, {"missing", "unreadable", "invalid"}), Warns(w.machine, {"elsewhere"}), Ok>>)

StateDirResolves(w) == Answer("state-dir-resolves", <<Fails(w.machine, {"missing"}), Ok>>)

StateDirMode(w) == Answer("state-dir-mode",
    <<Fails(w.access, {"open_dir", "writable"}),
      <<w.machine = "missing", "fail", "file_missing">>,
      Fails(w.access, {"open_file"}), Ok>>)

DigestDir(w) == Curator("digest-dir", w, <<Fails(w.digests, {"unsafe"}), Ok>>)

\* With no machine.json there is no bridge; one that cannot be read cannot
\* say.  The probe never creates the file a writer would have to.
Bridge(w) ==
    IF w.machine = "missing" THEN "off" ELSE IF w.machine = "unreadable" THEN "invalid" ELSE w.legacy
LegacyLock(w) == Answer("legacy-lock", <<Fails(Bridge(w), {"invalid", "unusable"}), Ok>>)

KitVersion(w) == Answer("kit-version",
    <<<<~ConfigRead(w), "warn", "unknown">>, Warns(w.kitVersion, {"older", "newer"}), Ok>>)

GhPresent(w) == Answer("gh-present", <<Warns(w.gh, {"missing", "failed", "unrecognised"}), Ok>>)
GhAuth(w) == Answer("gh-auth",
    <<<<w.gh = "missing", "ok", "skipped">>, Warns(w.login, {"unverified"}), Fails(w.login, {"out"}), Ok>>)

GitignoreNodeModules(w) == Answer("gitignore-node-modules",
    <<Warns(w.ignore, {"not", "unknown", "local", "tracked"}), Ok>>)

PrivacyPolicy(w) == Answer("privacy-policy",
    <<<<~ConfigRead(w), "warn", "config_unknown">>, Fails(w.policy, {"bad"}),
      Warns(w.policy, {"outside", "overlay"}), Ok>>)

PrivacyKeywords(w) == Answer("privacy-keywords",
    <<<<~ConfigRead(w), "warn", "config_unknown">>, Warns(w.keywords, {"legacy"}), Ok>>)

Limit(id, w, value) == Curator(id, w, <<Fails(value, {"bad"}), Ok>>)
CostCap(w) == Limit("cost-cap", w, w.budget)
TurnCap(w) == Limit("turn-cap", w, w.turns)
TimeCap(w) == Limit("time-cap", w, w.minutes)

-----------------------------------------------------------------------------
(* The default branch.                                                     *)

\* Mutant: what the remote publishes is not compared.
DefaultBranchHere(w) == Answer("default-branch-known",
    <<<<DefaultBranchOf(w) = "no name", "warn", "config_invalid">>,
      <<w.head = "outside", "warn", "unrecognised">>,
      <<w.head # "none" /\ w.head \notin w.tracked, "warn", "dangling">>,
      <<DefaultBranchOf(w) = Nothing, "warn", "unset">>,
      <<w.upstream = "local", "warn", "local_upstream">>,
      <<w.remote /\ ~w.reachable, "warn", "remote_unverified">>, Ok>>)

DefaultBranchKnown(w) == Answer("default-branch-known",
    <<<<DefaultBranchOf(w) = "no name", "warn", "config_invalid">>,
      <<w.head = "outside", "warn", "unrecognised">>,
      <<w.head # "none" /\ w.head \notin w.tracked, "warn", "dangling">>,
      <<DefaultBranchOf(w) = Nothing, "warn", "unset">>,
      <<w.upstream = "local", "warn", "local_upstream">>,
      <<w.remote /\ ~w.reachable, "warn", "remote_unverified">>,
      <<w.remote /\ w.published # {} /\ UpstreamOf(w) \notin w.published, "warn", "remote_lacks_branch">>,
      Ok>>)

\* Sync's own answer, step by step: "ok", or the outcome that stops a round.
SyncStops(w) ==
    <<<<w.tree = "busy", "sync_postponed">>,
      <<w.tree = "no_commit", "sync_no_commit">>,
      <<w.tree = "dirty", "dirty_tree">>,
      <<DefaultBranchOf(w) \in {Nothing, "no name"}, "sync_failed">>,
      <<w.upstream = "local", "sync_failed">>,
      <<~w.remote, "sync_unlinked">>,
      <<~w.reachable, "sync_failed">>,
      <<w.published = {}, "ok">>,
      <<UpstreamOf(w) \notin w.published, "sync_failed">>,
      <<DefaultBranchOf(w) \notin w.locals, "sync_unlinked">>,
      <<w.diverged, "sync_diverged">>,
      <<TRUE, "ok">>>>
Sync(w) == FirstRow(SyncStops(w))[2]

-----------------------------------------------------------------------------
(* The CLI.                                                                *)

\* The refusals before doctor runs the file machine.json names.
MayRun(w) == MachineValid(w) /\ w.access # "writable"
Untrusted(w) == <<~MayRun(w), "warn", "machine_not_trusted">>

ClaudePresent(w) == Answer("claude-present",
    <<Untrusted(w), Warns(w.claude, {"missing", "batch", "failed", "stub", "unrecognised"}), Ok>>)
ClaudeReal(w) == Curator("claude-real", w,
    <<Untrusted(w), Fails(w.claude, {"missing", "batch", "stub", "failed"}), Ok>>)
ClaudeIsolationFlags(w) == Curator("claude-isolation-flags", w,
    <<Untrusted(w), Fails(w.claude, {"missing", "batch", "stub", "failed", "unrecognised", "helpless", "unflagged"}), Ok>>)

\* The round's guard.  A relative claude_bin is read from the directory the
\* round was started in, where this model has nothing.
CliProblem(w) == w.claude \in {"missing", "batch", "stub", "failed"} \/ w.claudeBin = "relative"

-----------------------------------------------------------------------------
(* The transcripts.  A list names the vault's own project ("own", the      *)
(* entry {vault}), another by its name, both, none, or all of them.        *)

Entry(w) == w.list \in {"own", "both"}
Listed(w) == {p \in {"own", "project"} :
    \/ p = "own" /\ Entry(w) /\ w.nameable
    \/ p = "project" /\ w.list \in {"name", "both"}}
Projects(w) ==
    IF w.list = "all" THEN {p \in {"own", "project"} : w[p] \notin {"gone", "other"}} ELSE Listed(w)
Missing(w) == {p \in Projects(w) : w[p] \in {"gone", "other"}}
Unreadable(w) == {p \in Projects(w) : w[p] \in {"unreachable", "unlisted"}}
Present(w) == {p \in Projects(w) : w[p] = "directory"}

\* The one project that may have no folder yet: the vault's own, unless
\* Claude Code keeps its projects where this kit was not told.
MayWait(w) == IF w.named # "moved" /\ w.nameable /\ w.list # "all" THEN {"own"} ELSE {}
NeverUsed(w) == w.named = "default" /\ w.root = "gone" /\ Listed(w) # {} /\ Listed(w) \subseteq MayWait(w)

\* Doctor's: what is missing and may not wait.
Lost(w) == Missing(w) \ MayWait(w)
Found(w) == Projects(w) \ Missing(w)

IncludeProjects(w) == Curator("include-projects", w,
    <<<<w.transcripts = "no", "ok", "not_used">>,
      <<w.list # "all" /\ Listed(w) = {}, "fail", "empty">>,
      <<NeverUsed(w), "ok", "no_sessions_yet">>,
      Fails(w.root, {"gone", "other", "unreadable"}),
      <<Projects(w) = {}, "fail", "all_empty">>,
      <<Unreadable(w) # {}, "fail", "unreadable">>,
      <<Lost(w) # {} /\ Found(w) = {}, "fail", "all_missing">>,
      <<Lost(w) # {}, "warn", "some_missing">>,
      <<Entry(w) /\ ~w.nameable, "warn", "some_unnamed">>, Ok>>)

\* The round's: a project waits only when nothing at all is there.
Waits(w) == {p \in Missing(w) \cap MayWait(w) : w[p] = "gone"}
Misconfigured(w) ==
    /\ ~NeverUsed(w)
    /\ \/ w.root # "there"
       \/ /\ Present(w) = {}
          /\ Unreadable(w) = {}
          /\ ~(Waits(w) # {} /\ Missing(w) = Waits(w) /\ ~(Entry(w) /\ ~w.nameable))
TranscriptsUnreadable(w) == w.root = "there" /\ Unreadable(w) # {}

-----------------------------------------------------------------------------
(* The connector sources: the calendar and the meeting notes.              *)

Setting(w, c) == IF c = "calendar" THEN w.calendarSet ELSE w.notesSet
StateOf(w, c) == IF c = "calendar" THEN w.calendarState ELSE w.notesState
Seen(w, c) == IF c = "calendar" THEN w.calendarSeen ELSE w.notesSeen
ListedConnectors(w) == {c \in Connectors : w[c] # "no"}
On(w) == {c \in ListedConnectors(w) : Setting(w, c) = "on"}
Required(w) == {c \in ListedConnectors(w) : w[c] = "required"}
Severity(w, c) == IF c \in Required(w) THEN "fail" ELSE "warn"

\* What the person's own rules leave of them.
Denied(w) == IF w.rules = "calendar" THEN On(w) \cap {"calendar"} ELSE {}
Available(w) == IF w.rules = "refuse" THEN {} ELSE On(w) \ Denied(w)

\* What `--probe` sees: nothing when it launches nothing.
Launches(w) == Available(w) # {} /\ MayRun(w) /\ w.claude \in {"real", "unrecognised", "unflagged", "helpless"}
ProbeShows(w) == Launches(w) /\ w.launch # "no_init"
ProbeLines(w) ==
    IF Available(w) = {} THEN {<<"connectors", "ok", "probe_nothing">>}
    ELSE IF ~MayRun(w) THEN {<<"connectors", "warn", "machine_not_trusted">>}
    ELSE IF w.claude = "missing" THEN {<<"connectors", "fail", "not_found">>}
    ELSE IF ~ProbeShows(w)
         THEN {<<"connectors", IF Available(w) \cap Required(w) # {} THEN "fail" ELSE "warn", "probe_no_init">>}
    ELSE IF w.launch = "breach" THEN {<<"connectors", "fail", "probe_isolation">>} ELSE {}

\* The state a check knows of a source: asked now, else the last round's.
Known(w, c, probe) ==
    IF c \in Denied(w) THEN "blocked"
    ELSE IF c \notin Available(w) THEN "-"
    ELSE IF probe /\ ProbeShows(w) THEN StateOf(w, c) ELSE Seen(w, c)
StateLine(w, c, state) ==
    <<"connectors", IF state = "connected" THEN "ok" ELSE IF state = "-" THEN "warn" ELSE Severity(w, c), state>>

SourceLines(w, c, probe) ==
    IF c \notin On(w)
    THEN {<<"connectors",
            IF c \in Required(w) THEN "fail" ELSE IF Setting(w, c) = "off" THEN "ok" ELSE "warn", "off">>}
    ELSE IF c \in Denied(w) THEN {<<"connectors", Severity(w, c), "denied">>}
    ELSE IF c \in Available(w) THEN {StateLine(w, c, Known(w, c, probe))}
    ELSE {}

CalendarLines(w) == {line \in {<<"connectors", "warn", "consent_superseded">>, <<"connectors", "warn", "listed_twice">>,
                               <<"connectors", "fail", "team_authorization">>} :
    /\ "calendar" \in ListedConnectors(w)
    /\ \/ line[3] = "consent_superseded" /\ w.consentFlag
       \/ line[3] = "listed_twice" /\ w.twice
       \/ line[3] = "team_authorization" /\ "calendar" \in On(w) /\ w.team = "unauthorized"}

\* Mutant: a source waits only for a calendar that never answered.
WaitingLineUnseen(w, probe) ==
    IF On(w) = Connectors /\ Known(w, "calendar", probe) = "-"
    THEN {<<"connectors", Severity(w, "notes"), "waiting">>} ELSE {}

WaitingLine(w, probe) ==
    IF On(w) = Connectors /\ Known(w, "calendar", probe) \notin {"-", "connected", "pending"}
    THEN {<<"connectors", Severity(w, "notes"), "waiting">>} ELSE {}

ConnectorsCheck(w, probe) ==
    IF ~ConfigRead(w) THEN {<<"connectors", "warn", "config_unknown">>}
    ELSE IF ~w.enabled THEN {<<"connectors", "ok", "disabled">>}
    ELSE UNION {
        IF ListedConnectors(w) = {} THEN {<<"connectors", "ok", "none">>} ELSE {},
        IF w.rules = "refuse" /\ On(w) # {}
        THEN {<<"connectors", IF On(w) \cap Required(w) # {} THEN "fail" ELSE "warn", "blocked">>} ELSE {},
        IF probe THEN ProbeLines(w) ELSE {},
        CalendarLines(w),
        UNION {SourceLines(w, c, probe) : c \in ListedConnectors(w)},
        WaitingLine(w, probe)}

RoundScope(w) ==
    LET widened == Available(w) # {} /\ w.scope = "beyond"
    IN Curator("round-scope", w, <<<<widened, "warn", "beyond">>, Ok>>)

\* The sources a round leaves unread whatever its model does: refused by the
\* person's rules, gone from the launch, or waiting for a calendar that is.
Gone(w) == (On(w) \ Available(w)) \cup {c \in Available(w) : StateOf(w, c) \in {"needs_auth", "tools_missing"}}
LeftUnread(w) == Gone(w) \cup (IF On(w) = Connectors /\ "calendar" \in Gone(w) THEN {"notes"} ELSE {})

-----------------------------------------------------------------------------
(* The curator's marks, its last round, its timer and what it announces.   *)

SourcesOn(w) == On(w) \cup (IF w.transcripts = "no" THEN {} ELSE {"transcripts"})

WatermarkCheck(w) == Curator("watermark", w,
    <<<<w.timezone = "bad", "warn", "bad_timezone">>,
      Fails(w.mark, {"corrupt", "future"}), Warns(w.mark, {"behind", "unset"}),
      <<w.unknownSource, "warn", "unset">>, Ok>>)

LastRun(w) == Curator("last-run", w,
    <<Warns(w.lastRun, {"none", "soft"}),
      Fails(w.lastRun, {"unreadable", "no_exit", "dead", "auth", "failed"}), Ok>>)

ScheduleCheck(w) == Answer("schedule",
    <<<<~ConfigRead(w), "warn", "config_unknown">>,
      <<~w.enabled /\ w.timer \notin {"active", "inactive", "outdated"}, "ok", "disabled">>,
      <<~w.enabled, "warn", "disabled_installed">>,
      Fails(w.timer, {"inactive", "refused"}), Warns(w.timer, {"outdated", "elsewhere", "absent"}), Ok>>)

Notify(w) == Curator("notify", w,
    <<<<~MachineRead(w), "warn", "unset">>, Warns(w.notify, {"unset", "missing"}), Ok>>)

BriefingCheck(w) ==
    IF ~ConfigLoads(w) THEN {<<"briefing", "warn", "config_unknown">>}
    ELSE (IF w.signature = "bad" THEN {<<"briefing", "fail", "bad_signature">>} ELSE {}) \cup
         IF w.briefing = "off"
         THEN Answer("briefing", <<<<w.task = "absent", "ok", "disabled">>, <<TRUE, "warn", "disabled_registered">>>>)
         ELSE UNION {
             IF w.blocks = "problem" THEN {<<"briefing", "warn", "block_problem">>} ELSE {},
             IF w.queue = "corrupt" THEN {<<"briefing", "warn", "queue_corrupt">>} ELSE {},
             IF w.queue = "unreadable" THEN {<<"briefing", "fail", "queue_unreadable">>} ELSE {},
             Answer("briefing", <<Warns(w.task, {"absent", "kit_other"}),
                 Fails(w.task, {"unreadable", "unsigned", "no_command", "kit_missing", "vault_differs"}), Ok>>)}

-----------------------------------------------------------------------------
(* The whole report, and its exit.                                         *)

Results(w, probe) == UNION {
    NodeVersion(w), GitPresent(w), DefaultBranchKnown(w), HooksPath(w), BrainKitOnPath(w), ConfigValid(w),
    ManifestValid(w), MachineValidCheck(w), StateDirResolves(w), StateDirMode(w), DigestDir(w), LegacyLock(w),
    KitVersion(w), GhPresent(w), GhAuth(w), ClaudePresent(w), GitignoreNodeModules(w), PrivacyPolicy(w),
    PrivacyKeywords(w), ClaudeReal(w), ClaudeIsolationFlags(w), RoundScope(w), CostCap(w), TurnCap(w), TimeCap(w),
    IncludeProjects(w), ConnectorsCheck(w, probe), WatermarkCheck(w), LastRun(w), ScheduleCheck(w), Notify(w),
    BriefingCheck(w)}

Speaks(results, checks) == \E r \in results : r[1] \in checks /\ r[2] # "ok"

-----------------------------------------------------------------------------
(* What stops a round before its model, in the order it asks.              *)

Stops(w) ==
    <<<<~MachineValid(w), "machine_invalid">>,
      <<w.git = "missing" \/ w.place = "no_repo", "not_a_repository">>,
      <<Bridge(w) \in {"invalid", "unusable", "unmade"}, "lock_unusable">>,
      <<Bridge(w) = "held", "lock_held">>,
      <<w.network = "down", "no_network">>,
      <<Sync(w) # "ok", Sync(w)>>,
      <<~ConfigLoads(w), "config_invalid">>,
      <<~w.enabled, "disabled">>,
      <<w.policy = "outside", "prompt_outside">>,
      <<w.config = "unscoped", "config_invalid">>,
      <<w.timezone = "bad", "bad_timezone">>,
      <<w.mark = "corrupt", "watermark_unreadable">>,
      <<w.mark = "future" /\ SourcesOn(w) # {}, "watermark_future">>,
      <<w.mark = "level" \/ SourcesOn(w) = {}, "up_to_date">>,
      <<CliProblem(w), "cli_unusable">>,
      <<w.unknownSource, "source_unknown">>,
      <<Required(w) \ On(w) # {}, "source_misconfigured">>,
      <<w.transcripts = "required" /\ Misconfigured(w), "source_misconfigured">>,
      <<w.transcripts = "required" /\ TranscriptsUnreadable(w), "source_unreadable">>,
      <<w.transcripts # "no" /\ Present(w) # {} /\ w.digests = "unsafe", "digest_dir_unsafe">>,
      <<TRUE, "none">>>>
Refusal(w) == FirstRow(Stops(w))[2]

\* The checks that speak for a refusal.  The others (the network, a lock
\* held, what the person is writing, two histories apart) are not states a
\* check can vouch for.
SpokenBy == [
    machine_invalid |-> {"machine-valid"}, not_a_repository |-> {"git-present", "hooks-path"},
    lock_unusable |-> {"legacy-lock"}, sync_failed |-> {"default-branch-known"},
    config_invalid |-> {"config-valid"}, prompt_outside |-> {"privacy-policy"},
    bad_timezone |-> {"watermark"}, watermark_unreadable |-> {"watermark"}, watermark_future |-> {"watermark"},
    cli_unusable |-> {"claude-real"}, source_unknown |-> {"watermark"},
    source_misconfigured |-> {"include-projects", "connectors"}, source_unreadable |-> {"include-projects"},
    digest_dir_unsafe |-> {"digest-dir"}]

-----------------------------------------------------------------------------
(* The steps.                                                              *)

\* Values doctor reads as right where the round does not; each is allowed
\* only to an instance that asks for it.
BlindSpots == {"own", "legacy", "claudeBin"}
BlindValue(f, v) ==
    \/ f = "own" /\ v = "other"
    \/ f = "legacy" /\ v = "unmade"
    \/ f = "claudeBin" /\ v = "relative"

\* A base gives every fact one of its values, and none a blind one.
DoctorAssumption == \A b \in Bases :
    /\ DOMAIN b = Facts
    /\ \A f \in Facts : b[f] \in Values[f] /\ ~BlindValue(f, b[f])

Init ==
    /\ base \in Bases
    /\ world = base

Spoil(f) ==
    /\ \E v \in Values[f] \ {base[f]} :
        /\ f \in BlindSpots => (~BlindValue(f, v) \/ f \in Blind)
        /\ world' = [world EXCEPT ![f] = v]
    /\ UNCHANGED base

Repair(f) ==
    /\ world' = [world EXCEPT ![f] = base[f]]
    /\ UNCHANGED base

Next ==
    \/ Cardinality(Wrong) < MaxWrong /\ \E f \in Facts \ Wrong : Spoil(f)
    \/ \E f \in Wrong : Repair(f)

Spec == Init /\ [][Next]_vars

-----------------------------------------------------------------------------
(* What the report is worth.                                               *)

\* A round that stops for a cause doctor's checks speak for is one of which
\* a check that speaks for it does not say ok: "wrongly ok is the one answer
\* this command must never give".  Doctor and the round read the same facts
\* by two different programs.
EveryRefusalIsNamed ==
    Refusal(world) \in DOMAIN SpokenBy =>
        Speaks(Results(world, FALSE), SpokenBy[Refusal(world)])

\* Where the checks of the push all say ok, a push is judged by the gate:
\* neither let through unread nor refused whatever it carries.
OkIsGated ==
    ~Speaks(Results(world, FALSE),
            {"node-version", "git-present", "hooks-path", "brain-kit-on-path", "config-valid"})
    => PushOutcome(world) = "judged"

\* A required connector source the next round would leave unread, through
\* the person's rules, its own state or the calendar it waits for, makes
\* `doctor --probe` fail.
RequiredUnreadFails ==
    (/\ Refusal(world) = "none"
     /\ LeftUnread(world) \cap Required(world) # {})
    => \E r \in Results(world, TRUE) : r[2] = "fail"

\* The three together: what the report is worth to who reads it.
DoctorTellsTheRound == TypeOK /\ EveryRefusalIsNamed /\ OkIsGated /\ RequiredUnreadFails

\* A branch the hook guards against its automation is the one every other
\* part of the kit takes for the default, once the remote publishes it: "an
\* agent pushing directly to the default branch has skipped the review".  A
\* hook that finds no branch says that it guards none.
GuardWatchesTheDefault ==
    PublishedDefault(world) # Nothing => HookBranch(world) \in {PublishedDefault(world), Nothing}
=============================================================================
