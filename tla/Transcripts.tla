---------------------------- MODULE Transcripts ----------------------------
(***************************************************************************)
(* Which sessions a round offers its model, what their digests hold, and   *)
(* when their days are closed (src/sources/transcripts-claude-code.mjs     *)
(* with the window and the mark of the round that calls it).               *)
(*                                                                         *)
(* A session is a file that grows line by line; time is in instants, two   *)
(* to a day, so that a modification time may fall behind the window by     *)
(* less than a day.  A line holds where it came from, not its words.       *)
(***************************************************************************)
EXTENDS Integers, Sequences, FiniteSetsExt

CONSTANTS Sessions, Projects, ProjectOf,
          Own,        \* the project the list's {vault} entry stands for
          MaxDays,    \* the days of one window
          Cap,        \* curate.caps.transcripts
          Room,       \* the message lines a digest holds
          Slack,      \* MTIME_SLACK_MS, in instants
          Behind,     \* how far the clock of a project's folder is behind
          LastInstant, MaxLines, MaxFaults,  \* bounds
          Midway      \* whether Claude Code may rename a field under a session

VARIABLES now, mark, file, place, renamed, plan, faults

vars == <<now, mark, file, place, renamed, plan, faults>>

NoPlan == [covered |-> -1]
Kinds == {"person", "kit", "excluded", "unsafe"}
Line == [at : 0 .. LastInstant, form : {"said", "harness", "long", "undated"}]

DayOf(at) == at \div 2
Today == DayOf(now)
\* The window: the oldest MaxDays of the days after the mark that have ended.
Window == mark + 1 .. Min({Today - 1, mark + MaxDays})
LinesOf(s) == DOMAIN file[s].lines
TypeOK ==
    /\ now \in 0 .. LastInstant
    /\ mark \in -1 .. DayOf(LastInstant)
    /\ \A s \in Sessions :
        /\ file[s].kind \in Kinds
        /\ file[s].lines \in Seq(Line)
        /\ file[s].mtime \in -Slack .. LastInstant
    /\ place \in [Projects -> {"there", "gone", "unlistable"}]
    /\ renamed \in BOOLEAN
    /\ faults \in 0 .. MaxFaults

-----------------------------------------------------------------------------
(* The world: sessions are written, folders come and go, time passes.      *)

Init ==
    /\ now = 2
    /\ mark = 0
    /\ file \in [Sessions -> [kind : Kinds, lines : {<<>>}, mtime : {0}]]
    /\ place = [p \in Projects |-> "there"]
    /\ renamed = FALSE
    /\ plan = NoPlan
    /\ faults = Cardinality({s \in Sessions : file[s].kind # "person"})
    /\ faults <= MaxFaults

Tick ==
    /\ now < LastInstant
    /\ now' = now + 1
    /\ UNCHANGED <<mark, file, place, renamed, plan, faults>>

\* A line is written now, by the clock of its folder.
Write(s) ==
    /\ FoldSet(LAMBDA t, n : n + Len(file[t].lines), 0, Sessions) < MaxLines
    /\ now < LastInstant
    /\ \E form \in (IF renamed THEN {"undated"} ELSE {"said", "harness", "long"}) :
        /\ IF form = "long" THEN faults < MaxFaults /\ faults' = faults + 1 ELSE UNCHANGED faults
        /\ (renamed /\ ~Midway) => \A i \in LinesOf(s) : file[s].lines[i].form = "undated"
        /\ file' = [file EXCEPT ![s].lines = Append(file[s].lines, [at |-> now, form |-> form]),
                                ![s].mtime = now - Behind[ProjectOf[s]]]
    /\ UNCHANGED <<now, mark, place, renamed, plan>>

\* Claude Code writes the time of a line in another field.
Rename ==
    /\ ~renamed
    /\ faults < MaxFaults
    /\ renamed' = TRUE
    /\ faults' = faults + 1
    /\ UNCHANGED <<now, mark, file, place, plan>>

Move(p) ==
    /\ \/ place[p] = "there" /\ faults < MaxFaults /\ faults' = faults + 1
          /\ \E to \in {"gone", "unlistable"} : place' = [place EXCEPT ![p] = to]
       \/ place[p] # "there" /\ place' = [place EXCEPT ![p] = "there"] /\ UNCHANGED faults
    /\ UNCHANGED <<now, mark, file, renamed, plan>>

-----------------------------------------------------------------------------
(* One file.                                                               *)

\* Not opened: last written before the window, the slack allowed for.
BeforeWindow(s) == file[s].mtime < 2 * (mark + 1) - Slack

\* The lines that carry an instant; an overlong one is skipped unread.
Dated(s) == {i \in LinesOf(s) : file[s].lines[i].form \in {"said", "harness"}}
InWindow(s) == {i \in Dated(s) : DayOf(file[s].lines[i].at) \in Window}
DaysIn(s) == {DayOf(file[s].lines[i].at) : i \in InWindow(s)}

\* A conversation none of whose lines can be dated.
Undatable(s) == Dated(s) = {} /\ \E i \in LinesOf(s) : file[s].lines[i].form = "undated"

Exists(s) == file[s].lines # <<>> /\ place[ProjectOf[s]] = "there"
Opened(s) == Exists(s) /\ file[s].kind # "excluded" /\ ~BeforeWindow(s)

\* Mutant: what cannot be dated has no message in the window.
UnreadableOpenedOnly(bad) ==
    {s \in Sessions : Opened(s) /\ (s \in bad \/ (file[s].kind = "unsafe" /\ InWindow(s) # {}))}

Unreadable(bad) ==
    {s \in Sessions : Opened(s) /\ (s \in bad \/ Undatable(s) \/ (file[s].kind = "unsafe" /\ InWindow(s) # {}))}

Candidates(bad) ==
    {s \in Sessions \ Unreadable(bad) : Opened(s) /\ InWindow(s) # {} /\ file[s].kind = "person"}

-----------------------------------------------------------------------------
(* The days a round covers: whole, oldest first, within the cap.           *)

Within(files, days) == {s \in files : DaysIn(s) \cap days # {}}
First(n) == {d \in Window : d <= mark + n}

CoveredByCap(files) ==
    Max({0} \cup {n \in 1 .. Cardinality(Window) : Cardinality(Within(files, First(n))) <= Cap})

\* The messages of a session a digest over these days holds: the person's
\* and the model's, in order.
Messages(s, days) ==
    {i \in LinesOf(s) : file[s].lines[i].form = "said" /\ DayOf(file[s].lines[i].at) \in days}

Holds(s, covered) ==
    Max({0} \cup {n \in 1 .. covered : Cardinality(Messages(s, First(n))) <= Room})

\* Mutant: a first day too large for a digest covers no day.
FittedWhole(files, covered) == Min({covered} \cup {Holds(s, covered) : s \in files})

\* The days every digest holds whole, and never fewer than one.
Fitted(files, covered) == Min({covered} \cup {Max({1, Holds(s, covered)}) : s \in files})

\* A digest keeps the end of a first day that alone is too large.
Kept(s, days) ==
    {i \in Messages(s, days) : Cardinality({j \in Messages(s, days) : j >= i}) <= Room}

-----------------------------------------------------------------------------
(* The round: it collects, its model reads, and it closes the days.        *)

Found == {p \in Projects : place[p] = "there"}
Misconfigured ==
    /\ Found = {}
    /\ \A p \in Projects : place[p] # "unlistable"
    /\ {p \in Projects : place[p] = "gone"} # {Own}

\* bad cannot be read by the scan, late no more when the digests are made.
Collect ==
    /\ plan = NoPlan
    /\ Window # {}
    /\ \E bad, late \in SUBSET Sessions :
        LET files   == Candidates(bad)
            capped  == CoveredByCap(files)
            taken   == Within(files, First(capped))
            lost    == taken \cap late
            covered == Fitted(taken \ lost, capped)
            kept    == Within(taken \ lost, First(covered))
        IN /\ Cardinality(bad \cup late) <= MaxFaults - faults
           /\ faults' = faults + Cardinality(bad \cup late)
           /\ plan' = [
                covered    |-> covered,
                files      |-> kept,
                unreadable |-> Unreadable(bad) \cup lost \cup
                               {p \in Projects : place[p] = "unlistable"},
                missing    |-> {p \in Projects : place[p] = "gone"},
                refused    |-> Misconfigured \/ capped = 0,
                shown      |-> [s \in kept |-> Kept(s, First(covered))],
                \* the digest's first line: how many messages, its first, are cut
                cut        |-> [s \in kept |-> Cardinality(Messages(s, First(covered))) -
                                               Cardinality(Kept(s, First(covered)))],
                read       |-> [s \in kept |-> "no"]]
    /\ UNCHANGED <<now, mark, file, place, renamed>>

\* The model runs only on a plan with nothing to fix.
Runs == plan # NoPlan /\ ~plan.refused /\ plan.unreadable = {}

\* The model reads some digests whole, some in a slice, and some not.
Model ==
    /\ Runs
    /\ \A s \in plan.files : plan.read[s] = "no"
    /\ \E how \in [plan.files -> {"no", "slice", "whole"}] : plan' = [plan EXCEPT !.read = how]
    /\ UNCHANGED <<now, mark, file, place, renamed, faults>>

Evidence == \A s \in plan.files : plan.read[s] = "whole"

\* The round ends; its mark moves over the days it covered, when it ran and
\* everything it offered was read.
Close ==
    /\ plan # NoPlan
    /\ mark' = IF Runs /\ Evidence THEN mark + plan.covered ELSE mark
    /\ plan' = NoPlan
    /\ UNCHANGED <<now, file, place, renamed, faults>>

Next ==
    \/ Tick
    \/ Rename
    \/ \E s \in Sessions : Write(s)
    \/ \E p \in Projects : Move(p)
    \/ Collect
    \/ Model
    \/ Close

Spec == Init /\ [][Next]_vars

-----------------------------------------------------------------------------
(* What a closed day is worth.                                             *)

\* Nobody looks at a closed day again, so the step that closes it has, for
\* everything said on it: read it whole in a digest, or said in that
\* digest's first line that it was cut (from one day alone, and from its
\* beginning), or named the project it could not find.  The kit's own sessions, the excluded paths and a line too long to
\* be one are out of the promise.
SaidCut(s, i) ==
    /\ s \in plan.files
    /\ plan.covered = 1
    /\ plan.read[s] = "whole"
    /\ i \notin plan.shown[s]
    /\ \A j \in plan.shown[s] : i < j
    /\ Cardinality({j \in LinesOf(s) :
            /\ j <= i
            /\ file[s].lines[j].form = "said"
            /\ DayOf(file[s].lines[j].at) > mark}) <= plan.cut[s]
Accounted(s, i) ==
    \/ s \in plan.files /\ plan.read[s] = "whole" /\ i \in plan.shown[s]
    \/ SaidCut(s, i)
    \/ file[s].kind \in {"kit", "excluded"}
    \/ file[s].lines[i].form \in {"harness", "long"}
    \/ ProjectOf[s] \in plan.missing
NoDayClosedUnread ==
    \A s \in Sessions : \A i \in LinesOf(s) :
        (mark < DayOf(file[s].lines[i].at) /\ DayOf(file[s].lines[i].at) <= mark')
        => Accounted(s, i)

\* A plan with nothing to fix covers a day: a digest too small for its first
\* day is cut and never leaves a round that can read no day, today or ever.
EveryPlanCovers == Runs => plan.covered > 0
=============================================================================
