-------------------------------- MODULE Lint --------------------------------
(***************************************************************************)
(* `brain-kit lint` over a vault in a git repository: the base a run       *)
(* compares with, the lines git says a change added, the files each rule   *)
(* reads, and the verdict.  A file is the set of its lines, whose order is *)
(* the numbers' own, so that a line's place in one version of the file may *)
(* be another's in the next one.                                           *)
(***************************************************************************)
EXTENDS Naturals, FiniteSets

CONSTANTS Notes, Index,      \* the markdown files, and the vault's root index
          Others,            \* what only the secrets rule reads
          Ignored,           \* what git ignores while it does not track it
          Lines, Chars, Keywords, Secrets,  \* lines, and the ones each rule refuses
          Asked,             \* the bases asked for
          MaxSteps           \* bound: what the owner does

LintAssumption ==
    /\ Index \in Notes
    /\ Lines \subseteq Nat \ {0} /\ IsFiniteSet(Lines)
    /\ Chars \cup Keywords \cup Secrets \cup {1, 2} \subseteq Lines

Files == Notes \cup Others
Rules == {"style", "privacy", "secrets"}
Absent == {0}

VARIABLES repo,     \* "outside", "unborn" or "git"
          branch,   \* "default", or "topic", the branch checked out
          known,    \* is the default branch known, and does it share history
          old,      \* the default branch's last commit, where the topic began
          head, work, tracked,
          report, steps

vars == <<repo, branch, known, old, head, work, tracked, report, steps>>

NoReport == [exit |-> 0, verdict |-> "none", base |-> "none", asked |-> "none", ran |-> {}, hidden |-> {}, findings |-> {}]

There(version) == {f \in Files : version[f] # Absent}

-----------------------------------------------------------------------------
(* What git answers.                                                       *)

Untracked == There(work) \ (tracked \cup Ignored)

\* The working tree as git compares it: what it tracks.
Tree == [f \in Files |-> IF f \in tracked THEN work[f] ELSE Absent]

\* A file is another's under a new name when they are alike by half.
Alike(a, b) ==
    /\ a \cap b # {}
    /\ 2 * Cardinality(a \cap b) >= Cardinality(a)
    /\ 2 * Cardinality(a \cap b) >= Cardinality(b)

\* Mutant: each path is compared with itself alone.
RenameSourcesOfNone(from, to, f) == {}

RenameSources(from, to, f) ==
    {g \in There(from) \ There(to) : f \notin There(from) /\ Alike(from[g], to[f])}

DiffNames(from, to) == {f \in There(to) : from[f] # to[f]}

\* Mutant: a dirty tree is the change, whatever the branch has committed.
ResolveBaseOrElse(asked) ==
    IF asked = "auto" /\ repo = "git" /\ (DiffNames(head, Tree) # {} \/ Untracked # {})
    THEN [kind |-> "worktree", from |-> head, to |-> Tree]
    ELSE IF asked = "auto" /\ repo = "git" /\ branch = "topic"
    THEN [kind |-> "merge-base", from |-> old, to |-> head]
    ELSE [kind |-> "all", from |-> head, to |-> Tree]

\* A default branch that is known, is not the one checked out, and shares a
\* commit with it.
MergeBase == known /\ branch = "topic"

\* What a base compares: `all` compares nothing.
ResolveBase(asked) ==
    LET Whole == [kind |-> "all", from |-> head, to |-> Tree]
        Since(kind, from, to) == [kind |-> kind, from |-> from, to |-> to]
    IN  IF repo # "git" \/ asked = "all" THEN Whole
        ELSE IF asked = "worktree" THEN Since("worktree", head, Tree)
        ELSE IF asked = "merge-base"
        THEN IF MergeBase THEN Since("merge-base", old, head) ELSE Whole
        ELSE IF MergeBase THEN Since("auto", old, Tree)
        ELSE IF known /\ DiffNames(head, Tree) = {} /\ Untracked = {} THEN Whole
        ELSE Since("auto", head, Tree)

\* The lines of a tracked file a change added, and the places it says.
AddedText(base, f) ==
    base.to[f] \ (base.from[f] \cup (UNION {base.from[g] : g \in RenameSources(base.from, base.to, f)}) \cup Absent)

Place(version, line) == Cardinality({l \in version : l <= line})

AddedLines(base, f) == {Place(base.to[f], line) : line \in AddedText(base, f)}

\* No line restriction for this file.
EveryLine(base, f) == base.kind = "all" \/ f \notin tracked

-----------------------------------------------------------------------------
(* The files a run reads.                                                  *)

\* What a push could publish, unless git cannot say.
Publishable == {f \in Files : f \in tracked \/ f \in Untracked}

Listing(trouble) ==
    IF repo = "outside" THEN "walk"
    ELSE IF trouble.kind = "unlisted" THEN "failed"
    ELSE IF Index \notin Publishable THEN "walk" ELSE "git"

NoteFileSet(listing) ==
    IF listing = "git" THEN Notes \cap There(work) \cap Publishable ELSE Notes \cap There(work)

Excluded(trouble) == IF trouble.kind = "excluded" THEN {trouble.file} ELSE {}

\* Mutant: the secrets rule reads the notes, as the others do.
SecretScanOfNotes(listing, trouble) == NoteFileSet(listing) \ Excluded(trouble)

\* The secrets rule reads everything a push publishes that is in the tree.
SecretScan(listing, trouble) ==
    (IF listing = "git" THEN Publishable \cap There(work)
     ELSE IF listing = "walk" THEN There(work) ELSE {}) \ Excluded(trouble)

-----------------------------------------------------------------------------
(* The rules.  A finding is the rule, the file and the line; line 0 is for *)
(* a file as a whole, and a defect is a rule that could not do its work.   *)

Finding(rule, file, line, severity, defect) ==
    [rule |-> rule, file |-> file, line |-> line, severity |-> severity, defect |-> defect]

Style(base, notes, severity) ==
    {Finding("style", p[1], p[2], severity, FALSE) : p \in
        {p \in notes \X Chars :
            /\ p[2] \in work[p[1]]
            /\ EveryLine(base, p[1]) \/ Place(work[p[1]], p[2]) \in AddedLines(base, p[1])}}

\* The text is git's own; a whole vault is no change to judge.
ThirdPartyKeywords(base, notes, severity) ==
    IF base.kind = "all" THEN {}
    ELSE {Finding("privacy", p[1], p[2], severity, FALSE) : p \in
            {p \in notes \X Keywords :
                p[2] \in (IF EveryLine(base, p[1]) THEN work[p[1]] ELSE AddedText(base, p[1]))}}

\* What one file costs: a defect for what it cannot read or has no time for,
\* an error of its own for one too large.
OneFile(f, trouble, severity) ==
    IF trouble.file = f /\ trouble.kind = "unreadable" THEN {Finding("secrets", f, 0, severity, TRUE)}
    ELSE IF trouble.file = f /\ trouble.kind = "large" THEN {Finding("secrets", f, 0, severity, FALSE)}
    ELSE {Finding("secrets", f, line, severity, FALSE) : line \in work[f] \cap Secrets}

SecretsRule(listing, trouble, severity) ==
    (UNION {OneFile(f, trouble, severity) : f \in SecretScan(listing, trouble)})
    \cup (IF listing = "failed" THEN {Finding("secrets", Index, 0, severity, TRUE)} ELSE {})

\* A rule that is off is never asked; one that dies is a defect of its own,
\* and the others still answer.
RunLintRules(base, listing, trouble, severity) ==
    (IF severity.style = "off" THEN {} ELSE Style(base, NoteFileSet(listing), severity.style))
    \cup (IF severity.privacy = "off" THEN {}
          ELSE ThirdPartyKeywords(base, NoteFileSet(listing), severity.privacy))
    \cup (IF severity.secrets = "off" THEN {}
          ELSE IF trouble.kind = "crash" THEN {Finding("secrets", Index, 0, severity.secrets, TRUE)}
          ELSE SecretsRule(listing, trouble, severity.secrets))
    \cup (IF listing = "failed" THEN {Finding("file-set", Index, 0, "error", TRUE)} ELSE {})

-----------------------------------------------------------------------------
(* The report.                                                             *)

Defects(findings) == {x \in findings : x.defect}
Errors(findings) == {x \in findings \ Defects(findings) : x.severity = "error"}

Exit(findings) ==
    IF Defects(findings) # {} THEN 70 ELSE IF Errors(findings) # {} THEN 1 ELSE 0

\* Mutant: what the change did not touch is not mentioned.
VerdictOfRules(findings, base, skipped) ==
    IF Defects(findings) # {} THEN "degraded"
    ELSE IF Errors(findings) # {} THEN "failing"
    ELSE IF findings # {} THEN "warnings"
    ELSE IF skipped # {} THEN "partial" ELSE "clean"

Verdict(findings, base, skipped) ==
    IF Defects(findings) # {} THEN "degraded"
    ELSE IF Errors(findings) # {} THEN "failing"
    ELSE IF findings # {} THEN "warnings"
    ELSE IF skipped # {} \/ base.kind # "all" THEN "partial" ELSE "clean"

\* The rules a run names with --rule are the ones it considers.
RestrictedConfig(severity, only) == [r \in Rules |-> IF r \in only THEN severity[r] ELSE "off"]

Skipped(severity, only) == {r \in only : severity[r] = "off"}

Report(findings, base, asked, skipped, ran, hidden) ==
    [exit |-> Exit(findings), verdict |-> Verdict(findings, base, skipped), base |-> base.kind,
     asked |-> asked, ran |-> ran, hidden |-> hidden, findings |-> findings]

RunLint(asked, only, severity, trouble) ==
    LET base == ResolveBase(asked)
        config == RestrictedConfig(severity, only)
        findings == RunLintRules(base, Listing(trouble), trouble, config)
    IN  /\ report' = Report(findings, base, asked, Skipped(severity, only),
                            {r \in Rules : config[r] # "off"}, Excluded(trouble))
        /\ UNCHANGED <<repo, branch, known, old, head, work, tracked, steps>>

-----------------------------------------------------------------------------
(* The owner, between two runs.                                            *)

Init ==
    /\ repo \in {"outside", "unborn", "git"}
    /\ branch \in {"default", "topic"}
    /\ known \in BOOLEAN
    /\ old \in {v \in [Files -> {Absent, {1}, {2}}] :
                    /\ repo = "git" => v[Index] = {1} /\ \A f \in Files \ {Index} : v[f] # {1}
                    /\ repo # "git" => There(v) = {}}
    /\ repo # "git" => branch = "default" /\ known
    /\ head = old
    /\ work = [old EXCEPT ![Index] = {1}]
    /\ tracked = There(old)
    /\ report = NoReport
    /\ steps = 0

Busy ==
    /\ report = NoReport
    /\ steps < MaxSteps
    /\ steps' = steps + 1
    /\ UNCHANGED <<repo, branch, known, old, report>>

Edit(f, line) ==
    /\ Busy
    /\ LET content == work[f] \ Absent
       IN  work' = [work EXCEPT ![f] = IF line \in content THEN content \ {line} ELSE content \cup {line}]
    /\ UNCHANGED <<head, tracked>>

Track(f) ==
    /\ Busy
    /\ repo # "outside"
    /\ f \in There(work) \ tracked
    /\ tracked' = tracked \cup {f}
    /\ UNCHANGED <<head, work>>

\* A note takes another name, in the tree and for git.
Move(f, g) ==
    /\ Busy
    /\ repo # "outside"
    /\ f \in tracked \cap There(work)
    /\ g \notin There(work) \cup tracked
    /\ work' = [work EXCEPT ![g] = work[f], ![f] = Absent]
    /\ tracked' = (tracked \ {f}) \cup {g}
    /\ UNCHANGED head

Commit ==
    /\ Busy
    /\ repo = "git"
    /\ head' = Tree
    /\ UNCHANGED <<work, tracked>>

Troubles ==
    {[kind |-> k, file |-> Index] : k \in {"none", "unlisted", "crash"}}
    \cup [kind : {"excluded", "unreadable", "large"}, file : Files]

Severities == {[style |-> s, privacy |-> "warn", secrets |-> "error"] : s \in {"off", "warn"}}

Next ==
    \/ /\ report = NoReport
       /\ \E asked \in Asked, severity \in Severities :
             \/ \E trouble \in Troubles : RunLint(asked, Rules, severity, trouble)
             \/ \E only \in Rules : RunLint(asked, {only}, severity, [kind |-> "none", file |-> Index])
    \/ \E f \in Files, line \in Lines : Edit(f, line)
    \/ \E f \in Files : Track(f)
    \/ \E f, g \in Notes : Move(f, g)
    \/ Commit

Spec == Init /\ [][Next]_vars

-----------------------------------------------------------------------------

TypeOK ==
    /\ work \in [Files -> (SUBSET Lines) \cup {Absent}]
    /\ tracked \subseteq Files
    /\ report.findings \subseteq [rule : Rules \cup {"file-set"}, file : Files, line : Lines \cup {0},
                                  severity : {"warn", "error"}, defect : BOOLEAN]

Reported(rule, f, line) == \E x \in report.findings : x.rule = rule /\ x.file = f /\ x.line = line

\* A run that passes read everything a push could publish, the files that
\* are no notes included, and found no secret in it: whatever could not be
\* listed, opened or read to its end makes another exit.  What the vault
\* excludes by name is the exception the report prints.
PassedMeansRead ==
    (report.verdict # "none" /\ report.exit = 0 /\ "secrets" \in report.ran)
    => \A f \in There(work) \ report.hidden :
        (repo = "outside" \/ f \in tracked \/ f \notin Ignored) => work[f] \cap Secrets = {}

\* `auto` judges every line of a published note that its branch's start does
\* not hold, committed since or not, whatever else lies in the tree.
NewLinesAreJudged ==
    (report.asked = "auto" /\ "style" \in report.ran)
    => \A f \in Notes \cap Publishable \cap There(work), line \in Chars :
        (line \in work[f] /\ \A g \in Files : line \notin (IF branch = "topic" /\ known THEN old ELSE head)[g])
        => Reported("style", f, line)

\* A line the change did not add is left alone, in a note that moved too,
\* by `auto` and by the base the tree is compared with.
OldLinesAreLeftAlone ==
    report.base \in {"auto", "worktree"}
    => LET from == IF report.base = "auto" /\ branch = "topic" /\ known THEN old ELSE head
       IN  \A f \in tracked, line \in Lines :
            (Reported("style", f, line) \/ Reported("privacy", f, line))
            => /\ line \notin from[f]
               /\ (f \notin There(from) /\ \E g \in There(from) \ tracked : from[g] = work[f]) => line = 0

\* The same of the base that is compared commit by commit.
OnlyTheChangeIsJudged ==
    report.base = "merge-base"
    => \A f \in tracked, line \in Lines : Reported("style", f, line) => line \notin old[f]

\* A verdict of no findings with no reserve is about the vault as it is: no
\* published note holds, on any line, what a rule that was considered
\* refuses.
CleanIsTheVault ==
    (report.verdict = "clean" /\ report.ran = Rules)
    => \A f \in NoteFileSet(Listing([kind |-> "none", file |-> Index])) \ report.hidden :
        work[f] \cap (Chars \cup Secrets) = {}

\* What a run of the lint says of a change, whole.
LintJudgesTheChange ==
    TypeOK /\ PassedMeansRead /\ NewLinesAreJudged /\ OldLinesAreLeftAlone /\ CleanIsTheVault
=============================================================================
