------------------------------- MODULE Texts -------------------------------
(***************************************************************************)
(* What the kit reads and judges: the lint of a change, the notes verify   *)
(* stamps, the links, the leak scan, the tables and what doctor looks at.  *)
(* They share no state, so a behaviour is one of one part, and the         *)
(* variables of the others keep still.                                     *)
(***************************************************************************)
EXTENDS Naturals, FiniteSets, Sequences

CONSTANTS
    Parts,  \* the parts a run looks at
    None,
    Notes, Index, Others, Ignored, Lines, Chars, Keywords, Secrets, Asked, MaxSteps,  \* see Lint
    StampedNotes, MaxWrites, MaxRuns,                                                 \* see Verify
    Paths, Targets, WithMd, Folders, MaxDraws,                                        \* see VaultLinks
    Scanned, Generic, OwnLists, Personal, Refused, WrongLists, MaxLines, MaxChars, Context, Floor, MaxMatches,  \* see LeakScan
    TableNotes, Scopes, Unscoped, Rows, Wide, Other, Empty, Labels, Due, Never, Doubtful, Today, UpcomingDays,  \* see NoteTables
    Bases, MaxWrong, Blind                                                            \* see Doctor

VARIABLES
    part,
    repo, branch, known, old, head, work, tracked, report, steps,
    tree, merged, commits, checkedOut, latest, pr, here, run, writes, runs,
    disk, walked, links, confidential, templates, drawn,
    text, config, personal, patterns, at, hits, prefilter, matches, total, status,
    reader, note, added, first, last, line, header, rows, found, findings, buckets, later, problems, done,
    base, world

ofLint == <<repo, branch, known, old, head, work, tracked, report, steps>>
ofVerify == <<tree, merged, commits, checkedOut, latest, pr, here, run, writes, runs>>
ofLinks == <<disk, walked, links, confidential, templates, drawn>>
ofLeaks == <<text, config, personal, patterns, at, hits, prefilter, matches, total, status>>
ofTables == <<reader, note, added, first, last, line, header, rows, found, findings, buckets, later, problems, done>>
ofDoctor == <<base, world>>
allVars == <<part, ofLint, ofVerify, ofLinks, ofLeaks, ofTables, ofDoctor>>

Linted == INSTANCE Lint
Verified == INSTANCE Verify WITH Notes <- StampedNotes, head <- merged, branch <- checkedOut
Linked == INSTANCE VaultLinks WITH MaxSteps <- MaxDraws, steps <- drawn
Leaks == INSTANCE LeakScan WITH Texts <- Scanned, Configured <- OwnLists, Wrong <- WrongLists
Tables == INSTANCE NoteTables WITH Notes <- TableNotes, at <- line
Health == INSTANCE Doctor

-----------------------------------------------------------------------------

LintIdle ==
    /\ repo = None /\ branch = None /\ known = None /\ old = None /\ head = None
    /\ work = None /\ tracked = None /\ report = None /\ steps = None

VerifyIdle ==
    /\ tree = None /\ merged = None /\ commits = None /\ checkedOut = None /\ latest = None
    /\ pr = None /\ here = None /\ run = None /\ writes = None /\ runs = None

LinksIdle ==
    disk = None /\ walked = None /\ links = None /\ confidential = None /\ templates = None /\ drawn = None

LeaksIdle ==
    /\ text = None /\ config = None /\ personal = None /\ patterns = None /\ at = None
    /\ hits = None /\ prefilter = None /\ matches = None /\ total = None /\ status = None

TablesIdle ==
    /\ reader = None /\ note = None /\ added = None /\ first = None /\ last = None /\ line = None /\ header = None
    /\ rows = None /\ found = None /\ findings = None /\ buckets = None /\ later = None /\ problems = None /\ done = None

DoctorIdle == base = None /\ world = None

EachInit ==
    /\ part \in Parts
    /\ IF part = "lint" THEN Linted!Init ELSE LintIdle
    /\ IF part = "verify" THEN Verified!Init ELSE VerifyIdle
    /\ IF part = "links" THEN Linked!Init ELSE LinksIdle
    /\ IF part = "leaks" THEN Leaks!Init ELSE LeaksIdle
    /\ IF part = "tables" THEN Tables!Init ELSE TablesIdle
    /\ IF part = "doctor" THEN Health!Init ELSE DoctorIdle

EachNext ==
    \/ part = "lint" /\ Linted!Next /\ UNCHANGED <<part, ofVerify, ofLinks, ofLeaks, ofTables, ofDoctor>>
    \/ part = "verify" /\ Verified!Next /\ UNCHANGED <<part, ofLint, ofLinks, ofLeaks, ofTables, ofDoctor>>
    \/ part = "links" /\ Linked!Next /\ UNCHANGED <<part, ofLint, ofVerify, ofLeaks, ofTables, ofDoctor>>
    \/ part = "leaks" /\ Leaks!Next /\ UNCHANGED <<part, ofLint, ofVerify, ofLinks, ofTables, ofDoctor>>
    \/ part = "tables" /\ Tables!Next /\ UNCHANGED <<part, ofLint, ofVerify, ofLinks, ofLeaks, ofDoctor>>
    \/ part = "doctor" /\ Health!Next /\ UNCHANGED <<part, ofLint, ofVerify, ofLinks, ofLeaks, ofTables>>

EachSpec == EachInit /\ [][EachNext]_allVars

-----------------------------------------------------------------------------

\* A lint that passed read what it was asked to: each new line, none of the
\* old ones, and the whole vault when it says the vault is clean.
LintJudgesTheChange == part = "lint" => Linted!LintJudgesTheChange

\* Whatever the owner writes while verify stamps the notes of a merge is
\* there after it, and a run that failed leaves no stamp behind.
VerifyTakesNothing == part = "verify" => Verified!VerifyTakesNothing

\* A note is an orphan only for want of a link a reader could follow, and a
\* confidential one is reached by none, however the link spells it.
LinksAreOneForAllReaders == part = "links" => Linked!LinksAreOneForAllReaders

\* The scan finds what every pattern matches, in runs of any size, and shows
\* around a match no other match.
LeaksAreFound == part = "leaks" => Leaks!TypeOK /\ Leaks!ScanIsExact /\ Leaks!ExcerptsShowNoMatch

\* A row is of the table whose header is nearest, a table a change touched is
\* judged whole, and no item of the briefing is silent.
EveryRowHasItsTable ==
    part = "tables" =>
        /\ Tables!TypeOK /\ Tables!EveryRowHasItsTable /\ Tables!TouchedTablesAreJudged /\ Tables!NoItemIsSilent

\* The doctor names what a round would refuse to start over, calls nothing ok
\* that no gate guards, and fails a required source no round can read.
DoctorTellsTheRound == part = "doctor" => Health!DoctorTellsTheRound

\* The briefing drops no item of its table (src/src/briefing/pending.mjs:28).
ItemsAreNeverDropped == part = "tables" => Tables!ItemsAreNeverDropped
=============================================================================
