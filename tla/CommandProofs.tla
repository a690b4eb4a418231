---------------------------- MODULE CommandProofs ----------------------------
(***************************************************************************)
(* What a command reads and judges on its way (module Texts): `verify`, a  *)
(* lint, the rules that read links, the tables of a note, and the doctor;  *)
(* and the lock's staleness rule.  A theorem is about one of them, for any *)
(* values of its constants; the last ones of each are about Texts, where   *)
(* they stand side by side.                                                *)
(***************************************************************************)
EXTENDS LockIdentity, Texts, SequenceTheorems, FiniteSetTheorems, WellFoundedInduction, TLAPS

(***************************************************************************)
(* A least number, for any set of them.                                    *)
(***************************************************************************)

LEMMA LeastOne ==
  ASSUME NEW S \in SUBSET Nat, S # {}
  PROVE  \E m \in S : \A k \in S : m <= k
  <1> DEFINE T == {0 .. n : n \in S}
  <1>1. T # {} /\ T \subseteq FiniteSubsetsOf(Nat)
    <2>1. \A n \in S : 0 .. n \in SUBSET Nat /\ IsFiniteSet(0 .. n)
      <3> TAKE n \in S
      <3>1. n \in Int /\ 0 \in Int
        OBVIOUS
      <3> QED
        BY <3>1, FS_Interval
    <2> QED
      BY <2>1 DEF FiniteSubsetsOf
  <1> HIDE DEF T
  <1>2. PICK x \in T : \A y \in T : ~(<<y, x>> \in StrictSubsetOrdering(Nat))
    BY <1>1, WFMin, FS_StrictSubsetOrderingWellFounded
  <1>3. PICK m \in S : x = 0 .. m
    BY <1>2 DEF T
  <1>4. ASSUME NEW k \in S, k < m PROVE FALSE
    <2>1. 0 .. k \in T /\ 0 .. k \subseteq 0 .. m /\ 0 .. k # 0 .. m
      BY <1>4 DEF T
    <2>2. 0 .. k \in SUBSET Nat /\ 0 .. m \in SUBSET Nat
      OBVIOUS
    <2> QED
      BY <1>2, <1>3, <2>1, <2>2, Zenon DEF StrictSubsetOrdering
  <1> QED
    BY <1>4

(***************************************************************************)
(* Verify: the owner's words and the stamps.                               *)
(***************************************************************************)

Content == [text : Nat, stamps : Nat]
RunFields == {"at", "plan", "original", "written", "start", "parent", "over", "exit"}
Moments == {"idle", "asked", "proved", "writing", "committed"}

(* What is there, how far the owner has written, and what a run read.      *)
VerifyTypes ==
    /\ tree \in [StampedNotes -> Content] /\ merged \in [StampedNotes -> Content] /\ latest \in [StampedNotes -> Nat]
    /\ commits \in Nat /\ writes \in Nat
    /\ pr \in [state : {"OPEN", "MERGED"}, files : SUBSET StampedNotes]
    /\ run = [field \in RunFields |-> run[field]]
    /\ run.at \in Moments /\ run.start \in Nat
    /\ run.plan \in SUBSET StampedNotes
    /\ \A n \in StampedNotes : tree[n].text <= writes
    /\ run.start <= commits /\ run.written \subseteq run.plan

(* What a run that writes read is not newer than the owner's last word.    *)
RunHasRead ==
    /\ run.at \in {"asked", "proved"} => run.written = {}
    /\ IF run.at \in {"writing", "committed"} \/ run.written # {}
       THEN run.original \in [run.plan -> Content] /\ \A n \in run.plan : run.original[n].text <= writes
       ELSE run.written = {}

(* A note written holds the stamp, or what the owner wrote in it since.    *)
StampedOrEdited ==
    run.at = "writing" =>
        \A n \in run.written : tree[n] = Verified!Stamped(run.original[n]) \/ tree[n].text # run.original[n].text

CommittedMoved == run.at = "committed" => run.start < commits

VerifyInv == VerifyTypes /\ RunHasRead /\ Verified!WordsAreKept /\ StampedOrEdited /\ CommittedMoved /\ Verified!FailedLeavesNoStamp

LEMMA VerifyStarts == Verified!Init => VerifyInv
  BY DEF Verified!Init, VerifyInv, VerifyTypes, RunHasRead, Verified!WordsAreKept, StampedOrEdited, CommittedMoved,
         Verified!FailedLeavesNoStamp, Verified!Idle, Content, Moments, RunFields

(* Steps that write no note.                                               *)
LEMMA RunsAside ==
  ASSUME VerifyInv, Verified!Begin \/ Verified!Prove \/ Verified!Stamp \/ Verified!End \/ Verified!Die
  PROVE  VerifyInv'
  <1> USE DEF VerifyInv, VerifyTypes, RunHasRead, Verified!WordsAreKept, StampedOrEdited, CommittedMoved,
              Verified!FailedLeavesNoStamp, Content, Moments, RunFields, Verified!repository
  <1>1. CASE Verified!Begin
    BY <1>1 DEF Verified!Begin, Verified!Idle
  <1>2. CASE Verified!Prove
    <2>1. run' = [field \in RunFields |-> run'[field]] /\ run'.at \in {"proved", "idle"} /\ run'.start = run.start /\ run'.written = {} /\ run'.plan \in SUBSET StampedNotes
      BY <1>2 DEF Verified!Prove, Verified!Fail
    <2>2. VerifyTypes' /\ RunHasRead'
      BY <1>2, <2>1 DEF Verified!Prove, Verified!Fail
    <2> QED
      BY <1>2, <2>1, <2>2 DEF Verified!Prove, Verified!Fail
  <1>3. CASE Verified!Stamp
    <2>1. run' = [field \in RunFields |-> run'[field]] /\ run'.at \in {"writing", "idle"} /\ run'.start \in {run.start, commits} /\ run'.written = {} /\ run'.plan = run.plan
         /\ (run'.at = "writing" => run'.original = [n \in run.plan |-> tree[n]])
      BY <1>3 DEF Verified!Stamp, Verified!Fail
    <2>2. VerifyTypes' /\ RunHasRead'
      BY <1>3, <2>1 DEF Verified!Stamp, Verified!Fail
    <2> QED
      BY <1>3, <2>1, <2>2 DEF Verified!Stamp, Verified!Fail
  <1>4. CASE Verified!End
    <2>1. run' = [field \in RunFields |-> run'[field]] /\ run'.at = "idle" /\ run'.start = run.start /\ run'.written = run.written /\ run'.plan = run.plan /\ run'.original = run.original
      BY <1>4 DEF Verified!End, Verified!Proven
    <2>2. VerifyTypes' /\ RunHasRead'
      BY <1>4, <2>1 DEF Verified!End, Verified!Proven
    <2> QED
      BY <1>4, <2>1, <2>2 DEF Verified!End, Verified!Proven
  <1>5. CASE Verified!Die
    <2>1. run' = [field \in RunFields |-> run'[field]] /\ run'.at = "idle" /\ run'.exit = 137 /\ run'.start = run.start /\ run'.written = run.written /\ run'.plan = run.plan /\ run'.original = run.original
      BY <1>5 DEF Verified!Die
    <2>2. VerifyTypes' /\ RunHasRead'
      BY <1>5, <2>1 DEF Verified!Die
    <2> QED
      BY <1>5, <2>1, <2>2 DEF Verified!Die
  <1> QED
    BY <1>1, <1>2, <1>3, <1>4, <1>5

(* The undo leaves every text as it is, and takes back every stamp of the  *)
(* run that nobody wrote over.                                             *)
LEMMA UndoTakesBackStamps ==
  ASSUME VerifyInv, run.at = "writing", Verified!GiveUp, UNCHANGED <<Verified!repository, latest, writes>>
  PROVE  VerifyInv'
  <1> USE DEF VerifyInv, VerifyTypes, RunHasRead, Content, Verified!repository, RunFields
  <1>1. \A n \in StampedNotes : tree'[n] \in Content /\ tree'[n].text = tree[n].text
    BY DEF Verified!GiveUp, Verified!Restored, Verified!Stamped
  <1>2. tree' \in [StampedNotes -> Content]
    BY <1>1 DEF Verified!GiveUp, Verified!Restored
  <1>3. run' = [run EXCEPT !.at = "idle", !.exit = 1]
    BY DEF Verified!GiveUp, Verified!Fail
  <1>4. VerifyTypes' /\ RunHasRead' /\ CommittedMoved' /\ StampedOrEdited'
    BY <1>1, <1>2, <1>3 DEF CommittedMoved, StampedOrEdited, Moments
  <1>5. Verified!WordsAreKept'
    BY <1>1 DEF Verified!WordsAreKept
  <1>6. Verified!FailedLeavesNoStamp'
    <2> SUFFICES ASSUME NEW n \in run.written, tree'[n].text = run.original[n].text
                 PROVE  tree'[n].stamps <= run.original[n].stamps
      BY <1>2, <1>3 DEF Verified!FailedLeavesNoStamp
    <2>1. tree[n] = Verified!Stamped(run.original[n])
      BY <1>1 DEF StampedOrEdited
    <2> QED
      BY <2>1 DEF Verified!GiveUp, Verified!Restored
  <1> QED
    BY <1>4, <1>5, <1>6

LEMMA WritesAndCommits ==
  ASSUME VerifyInv, (\E n \in StampedNotes : Verified!Write(n)) \/ Verified!Commit
  PROVE  VerifyInv'
  <1> USE DEF VerifyInv, VerifyTypes, RunHasRead, Content, Verified!repository, RunFields
  <1>1. CASE Verified!Commit
    <2>1. CASE Verified!GiveUp /\ UNCHANGED <<merged, commits>>
      BY <1>1, <2>1, UndoTakesBackStamps DEF Verified!Commit
    <2>2. CASE ~(Verified!GiveUp /\ UNCHANGED <<merged, commits>>)
      <3>1. /\ run' = [field \in RunFields |-> run'[field]]
            /\ run'.at = "committed" /\ run'.start = run.start /\ run'.plan = run.plan
            /\ run'.written = run.written /\ run'.original = run.original
            /\ run.at = "writing" /\ tree' = tree /\ commits' = commits + 1
        BY <1>1, <2>2 DEF Verified!Commit
      <3>2. merged' \in [StampedNotes -> Content]
        BY <1>1, <2>2 DEF Verified!Commit
      <3> QED
        BY <1>1, <3>1, <3>2 DEF Verified!Commit, Verified!WordsAreKept, StampedOrEdited, CommittedMoved, Verified!FailedLeavesNoStamp, Moments
    <2> QED
      BY <2>1, <2>2
  <1>2. ASSUME NEW n \in StampedNotes, Verified!Write(n) PROVE VerifyInv'
    <2>1. CASE Verified!GiveUp
      BY <1>2, <2>1, UndoTakesBackStamps DEF Verified!Write
    <2>2. CASE Verified!Replaced(n) /\ run' = [run EXCEPT !.written = run.written \cup {n}]
      <3>1. n \in run.plan /\ tree[n] = run.original[n] /\ tree' = [tree EXCEPT ![n] = Verified!Stamped(tree[n])]
        BY <1>2, <2>2 DEF Verified!Write, Verified!Replaced
      <3>2. tree' \in [StampedNotes -> Content] /\ \A m \in StampedNotes : tree'[m].text = tree[m].text
        BY <3>1 DEF Verified!Stamped
      <3> QED
        BY <1>2, <2>2, <3>1, <3>2
           DEF Verified!Write, Verified!WordsAreKept, StampedOrEdited, CommittedMoved, Verified!FailedLeavesNoStamp, Moments
    <2> QED
      BY <1>2, <2>1, <2>2 DEF Verified!Write
  <1> QED
    BY <1>1, <1>2

LEMMA OwnerWrites ==
  ASSUME VerifyInv, (\E n \in StampedNotes : Verified!Edit(n)) \/ Verified!CommitAll \/ Verified!Merge
  PROVE  VerifyInv'
  <1> USE DEF VerifyInv, VerifyTypes, RunHasRead, Content, Verified!repository, RunFields, Moments, RunFields, Verified!Busy,
              Verified!WordsAreKept, StampedOrEdited, CommittedMoved, Verified!FailedLeavesNoStamp
  <1>1. ASSUME NEW n \in StampedNotes, Verified!Edit(n) PROVE VerifyInv'
    <2>1. tree' \in [StampedNotes -> Content] /\ tree'[n].text = writes + 1 /\ \A m \in StampedNotes \ {n} : tree'[m] = tree[m]
      BY <1>1 DEF Verified!Edit
    <2> QED
      BY <1>1, <2>1 DEF Verified!Edit
  <1>2. CASE Verified!CommitAll
    BY <1>2 DEF Verified!CommitAll
  <1>3. CASE Verified!Merge
    BY <1>3 DEF Verified!Merge
  <1> QED
    BY <1>1, <1>2, <1>3

(* What a run read is what the owner wrote last, and every note it wrote   *)
(* holds its stamp or a later word.                                        *)
THEOREM VerifyInvariant == Verified!Spec => []VerifyInv
  <1>1. VerifyInv /\ [Verified!Next]_(Verified!vars) => VerifyInv'
    <2> SUFFICES ASSUME VerifyInv, [Verified!Next]_(Verified!vars) PROVE VerifyInv'
      OBVIOUS
    <2>1. CASE UNCHANGED Verified!vars
      BY <2>1 DEF Verified!vars, VerifyInv, VerifyTypes, RunHasRead, Verified!WordsAreKept, StampedOrEdited, CommittedMoved,
                  Verified!FailedLeavesNoStamp
    <2>2. CASE Verified!Next
      BY <2>2, RunsAside, WritesAndCommits, OwnerWrites DEF Verified!Next
    <2> QED
      BY <2>1, <2>2
  <1> QED
    BY <1>1, VerifyStarts, PTL DEF Verified!Spec

(* Whatever the owner writes while the notes of a merge are stamped is     *)
(* there after it, and a run that failed leaves no stamp of its own        *)
(* (runVerify and its undo, verify.mjs).                                   *)
THEOREM VerifyTakesNoWord == Verified!Spec => []Verified!VerifyTakesNothing
  <1>1. VerifyInv => Verified!VerifyTakesNothing
    BY DEF VerifyInv, Verified!VerifyTakesNothing
  <1> QED
    BY <1>1, VerifyInvariant, PTL

(***************************************************************************)
(* Lint: what a run says of a change.                                      *)
(***************************************************************************)

LEMMA SameSets == \A S : Linted!IsFiniteSet(S) = IsFiniteSet(S) /\ Linted!Cardinality(S) = Cardinality(S)
  BY Zenon DEF IsFiniteSet, Linted!IsFiniteSet, Cardinality, Linted!Cardinality

LEMMA CountOf ==
  ASSUME NEW S, Linted!IsFiniteSet(S), NEW T \in SUBSET S
  PROVE  /\ Linted!Cardinality(S) \in Nat /\ Linted!Cardinality(T) \in Nat /\ Linted!IsFiniteSet(T)
         /\ Linted!Cardinality(T) = Linted!Cardinality(S) => T = S
  BY SameSets, FS_Subset, FS_CardinalityType

LEMMA OneIsFinite == \A x : Linted!IsFiniteSet({x})
  BY SameSets, FS_Singleton, Zenon

(* Two lines of a version have two places in it.                           *)
LEMMA PlaceIsOne ==
  ASSUME NEW version, version \subseteq Nat, Linted!IsFiniteSet(version), NEW a \in version, NEW b \in version,
         Linted!Place(version, a) = Linted!Place(version, b)
  PROVE  a = b
  <1>1. ASSUME NEW c \in version, NEW d \in version, c < d, Linted!Place(version, c) = Linted!Place(version, d) PROVE FALSE
    <2> DEFINE low  == {l \in version : l <= c}
               high == {l \in version : l <= d}
    <2>0. c \in Nat /\ d \in Nat
      OBVIOUS
    <2>4. ASSUME NEW l \in low PROVE l \in high
      <3>1. l \in Nat /\ l <= c /\ l \in version
        OBVIOUS
      <3>2. l <= d
        BY <3>1, <2>0, <1>1
      <3> QED
        BY <3>1, <3>2
    <2>5. d <= d /\ ~(d <= c)
      BY <2>0, <1>1
    <2>1. high \in SUBSET version /\ low \in SUBSET high /\ d \in high /\ d \notin low
      BY <2>4, <2>5
    <2>2. Linted!Cardinality(low) = Linted!Cardinality(high)
      BY <1>1 DEF Linted!Place
    <2> HIDE DEF low, high
    <2>3. Linted!IsFiniteSet(high)
      BY <2>1, CountOf
    <2>6. low = high
      BY <2>1, <2>2, <2>3, CountOf
    <2> QED
      BY <2>1, <2>6
  <1>2. a \in Nat /\ b \in Nat
    OBVIOUS
  <1> QED
    BY <1>1, <1>2

LEMMA AlikeItself ==
  ASSUME NEW words, Linted!IsFiniteSet(words), words # {}
  PROVE  Linted!Alike(words, words)
  <1>1. PICK n \in Nat : n = Linted!Cardinality(words)
    BY CountOf
  <1>2. words \cap words = words
    OBVIOUS
  <1>3. 2 * n >= n
    OBVIOUS
  <1> QED
    BY <1>1, <1>2, <1>3 DEF Linted!Alike

(***************************************************************************)
(* Lint: the report of a run.                                              *)
(***************************************************************************)

Start == IF branch = "topic" /\ known THEN old ELSE head

LEMMA BaseIs ==
  ASSUME NEW asked, NEW basis, basis = Linted!ResolveBase(asked), basis.kind # "all"
  PROVE  /\ basis.kind \in {"auto", "worktree"} => basis.to = Linted!Tree
         /\ basis.kind = "auto" => basis.from = Start
         /\ basis.kind = "worktree" => basis.from = head
         /\ basis.kind = "merge-base" => basis.from = old /\ basis.to = head
         /\ asked = "auto" => basis.kind = "auto"
  BY DEF Linted!ResolveBase, Linted!MergeBase, Start

LEMMA NothingIsAll ==
  ASSUME NEW asked, NEW basis, basis = Linted!ResolveBase(asked)
  PROVE  basis.kind \in {"all", "auto", "worktree", "merge-base"}
  BY DEF Linted!ResolveBase

(* What a run tells of the state it ran in.                                *)
Ran(asked, only, severity, trouble, basis, policy, answers) ==
  /\ basis = Linted!ResolveBase(asked)
  /\ answers = Linted!RunLintRules(basis, Linted!Listing(trouble), trouble, policy)
  /\ report'.exit = Linted!Exit(answers) /\ report'.verdict = Linted!Verdict(answers, basis, Linted!Skipped(severity, only))
  /\ report'.base = basis.kind /\ report'.asked = asked /\ report'.ran = {r \in Linted!Rules : policy[r] # "off"}
  /\ report'.hidden = Linted!Excluded(trouble) /\ report'.findings = answers
  /\ policy.secrets \in {"error", "off"} /\ policy.privacy \in {"warn", "off"} /\ policy.style \in {"warn", "off"}

LEMMA RunIs ==
  ASSUME NEW asked, NEW only \in SUBSET Linted!Rules, NEW severity \in Linted!Severities, NEW trouble, Linted!RunLint(asked, only, severity, trouble)
  PROVE  \E basis, policy, answers : Ran(asked, only, severity, trouble, basis, policy, answers)
  <1>1. PICK basis : basis = Linted!ResolveBase(asked)
    OBVIOUS
  <1>2. PICK policy : policy = Linted!RestrictedConfig(severity, only)
    OBVIOUS
  <1>3. PICK answers : answers = Linted!RunLintRules(basis, Linted!Listing(trouble), trouble, policy)
    OBVIOUS
  <1>4. report' = Linted!Report(answers, basis, asked, Linted!Skipped(severity, only), {r \in Linted!Rules : policy[r] # "off"}, Linted!Excluded(trouble))
    BY <1>1, <1>2, <1>3 DEF Linted!RunLint
  <1>5. severity.secrets = "error" /\ severity.privacy = "warn" /\ severity.style \in {"off", "warn"}
    BY DEF Linted!Severities
  <1>6. policy.secrets \in {"error", "off"} /\ policy.privacy \in {"warn", "off"} /\ policy.style \in {"warn", "off"}
    BY <1>2, <1>5 DEF Linted!RestrictedConfig, Linted!Rules
  <1> QED
    BY <1>1, <1>3, <1>4, <1>6 DEF Linted!Report, Ran

(* The findings of a rule that is on are findings of the run.              *)
LEMMA Together ==
  ASSUME NEW basis, NEW listing, NEW trouble, NEW policy
  PROVE  LET all == Linted!RunLintRules(basis, listing, trouble, policy)
         IN  /\ policy.style # "off" => Linted!Style(basis, Linted!NoteFileSet(listing), policy.style) \subseteq all
             /\ (policy.secrets # "off" /\ trouble.kind = "crash")
                => Linted!Finding("secrets", Index, 0, policy.secrets, TRUE) \in all
             /\ (policy.secrets # "off" /\ trouble.kind # "crash")
                => Linted!SecretsRule(listing, trouble, policy.secrets) \subseteq all
             /\ listing = "failed" => Linted!Finding("file-set", Index, 0, "error", TRUE) \in all
  BY DEF Linted!RunLintRules

LEMMA StyleHas ==
  ASSUME NEW basis, NEW notes, NEW severity, NEW f \in notes, NEW char \in Chars, char \in work[f],
         Linted!EveryLine(basis, f) \/ Linted!Place(work[f], char) \in Linted!AddedLines(basis, f)
  PROVE  Linted!Finding("style", f, char, severity, FALSE) \in Linted!Style(basis, notes, severity)
  <1>1. PICK p \in notes \X Chars : p = <<f, char>>
    OBVIOUS
  <1>2. p[1] = f /\ p[2] = char
    BY <1>1
  <1> QED
    BY <1>2 DEF Linted!Style

LEMMA StyleIs ==
  ASSUME NEW basis, NEW notes, NEW severity, NEW x \in Linted!Style(basis, notes, severity)
  PROVE  \E f \in notes, char \in Chars :
            /\ x = Linted!Finding("style", f, char, severity, FALSE) /\ char \in work[f]
            /\ Linted!EveryLine(basis, f) \/ Linted!Place(work[f], char) \in Linted!AddedLines(basis, f)
  BY DEF Linted!Style

LEMMA KeywordIs ==
  ASSUME NEW basis, NEW notes, NEW severity, NEW x \in Linted!ThirdPartyKeywords(basis, notes, severity)
  PROVE  \E f \in notes, key \in Keywords :
            /\ x = Linted!Finding("privacy", f, key, severity, FALSE)
            /\ Linted!EveryLine(basis, f) \/ key \in Linted!AddedText(basis, f)
  BY DEF Linted!ThirdPartyKeywords

LEMMA SecretIs ==
  ASSUME NEW listing, NEW trouble, NEW severity, NEW x \in Linted!SecretsRule(listing, trouble, severity)
  PROVE  \/ \E f \in Linted!SecretScan(listing, trouble) : x \in Linted!OneFile(f, trouble, severity)
         \/ x = Linted!Finding("secrets", Index, 0, severity, TRUE)
  BY DEF Linted!SecretsRule

LEMMA SecretHas ==
  ASSUME NEW listing, NEW trouble, NEW severity, NEW f \in Linted!SecretScan(listing, trouble)
  PROVE  Linted!OneFile(f, trouble, severity) \subseteq Linted!SecretsRule(listing, trouble, severity)
  BY DEF Linted!SecretsRule

(* Which rule a finding is of.                                             *)
LEMMA WhoseIsIt ==
  ASSUME NEW basis, NEW listing, NEW trouble, NEW policy, NEW x \in Linted!RunLintRules(basis, listing, trouble, policy)
  PROVE  \/ policy.style # "off" /\ x \in Linted!Style(basis, Linted!NoteFileSet(listing), policy.style)
         \/ policy.privacy # "off" /\ x \in Linted!ThirdPartyKeywords(basis, Linted!NoteFileSet(listing), policy.privacy)
         \/ policy.secrets # "off" /\ x = Linted!Finding("secrets", Index, 0, policy.secrets, TRUE)
         \/ policy.secrets # "off" /\ x \in Linted!SecretsRule(listing, trouble, policy.secrets)
         \/ x = Linted!Finding("file-set", Index, 0, "error", TRUE)
  BY DEF Linted!RunLintRules

LEMMA ScannedAre ==
  ASSUME NEW listing, NEW trouble
  PROVE  /\ Linted!NoteFileSet(listing) \subseteq Notes /\ Linted!NoteFileSet(listing) \subseteq Linted!There(work)
         /\ Linted!SecretScan(listing, trouble) \subseteq Linted!Files
  BY DEF Linted!NoteFileSet, Linted!SecretScan, Linted!There, Linted!Publishable, Linted!Files

LEMMA FindingTyped ==
  ASSUME NEW rule \in Linted!Rules \cup {"file-set"}, NEW f \in Linted!Files, NEW l \in Lines \cup {0},
         NEW severity \in {"warn", "error"}, NEW defect \in BOOLEAN
  PROVE  Linted!Finding(rule, f, l, severity, defect)
            \in [rule : Linted!Rules \cup {"file-set"}, file : Linted!Files, line : Lines \cup {0}, severity : {"warn", "error"}, defect : BOOLEAN]
  BY DEF Linted!Finding

LEMMA OneFileTyped ==
  ASSUME Linted!LintAssumption, Linted!TypeOK, NEW f \in Linted!Files, NEW trouble, NEW severity \in {"warn", "error"}, NEW x \in Linted!OneFile(f, trouble, severity)
  PROVE  x \in [rule : Linted!Rules \cup {"file-set"}, file : Linted!Files, line : Lines \cup {0}, severity : {"warn", "error"}, defect : BOOLEAN]
  <1>1. \E l \in Lines \cup {0}, defect \in BOOLEAN : x = Linted!Finding("secrets", f, l, severity, defect)
    BY DEF Linted!OneFile, Linted!LintAssumption
  <1>2. "secrets" \in Linted!Rules \cup {"file-set"}
    BY DEF Linted!Rules
  <1> QED
    BY <1>1, <1>2, FindingTyped

LEMMA FindingsTyped ==
  ASSUME Linted!LintAssumption, Linted!TypeOK, NEW asked, NEW only \in SUBSET Linted!Rules, NEW severity \in Linted!Severities, NEW trouble,
         Linted!RunLint(asked, only, severity, trouble)
  PROVE  report'.findings \subseteq [rule : Linted!Rules \cup {"file-set"}, file : Linted!Files, line : Lines \cup {0},
                                     severity : {"warn", "error"}, defect : BOOLEAN]
  <1> DEFINE Typed == [rule : Linted!Rules \cup {"file-set"}, file : Linted!Files, line : Lines \cup {0},
                       severity : {"warn", "error"}, defect : BOOLEAN]
  <1>0. PICK basis, policy, answers : Ran(asked, only, severity, trouble, basis, policy, answers)
    BY RunIs
  <1>1. /\ answers = Linted!RunLintRules(basis, Linted!Listing(trouble), trouble, policy)
        /\ report'.findings = answers
        /\ policy.secrets \in {"error", "off"} /\ policy.privacy \in {"warn", "off"} /\ policy.style \in {"warn", "off"}
    BY <1>0 DEF Ran
  <1>2. Index \in Linted!Files /\ Notes \subseteq Linted!Files /\ Chars \subseteq Lines /\ Keywords \subseteq Lines
    BY DEF Linted!LintAssumption, Linted!Files
  <1>3. {"style", "privacy", "secrets", "file-set"} \subseteq Linted!Rules \cup {"file-set"}
    BY DEF Linted!Rules
  <1>4. ASSUME NEW x \in answers PROVE x \in Typed
    <2>1. CASE policy.style # "off" /\ x \in Linted!Style(basis, Linted!NoteFileSet(Linted!Listing(trouble)), policy.style)
      <3>1. PICK f \in Linted!NoteFileSet(Linted!Listing(trouble)), char \in Chars :
                    /\ x = Linted!Finding("style", f, char, policy.style, FALSE) /\ char \in work[f]
                    /\ Linted!EveryLine(basis, f) \/ Linted!Place(work[f], char) \in Linted!AddedLines(basis, f)
        BY <2>1, StyleIs
      <3>2. f \in Linted!Files /\ char \in Lines \cup {0} /\ policy.style \in {"warn", "error"} /\ FALSE \in BOOLEAN
        BY <1>1, <1>2, <2>1, ScannedAre
      <3> QED
        BY <3>1, <3>2, <1>3, FindingTyped
    <2>2. CASE policy.privacy # "off" /\ x \in Linted!ThirdPartyKeywords(basis, Linted!NoteFileSet(Linted!Listing(trouble)), policy.privacy)
      <3>1. PICK f \in Linted!NoteFileSet(Linted!Listing(trouble)), key \in Keywords :
                    /\ x = Linted!Finding("privacy", f, key, policy.privacy, FALSE)
                    /\ Linted!EveryLine(basis, f) \/ key \in Linted!AddedText(basis, f)
        <4>1. x \in Linted!ThirdPartyKeywords(basis, Linted!NoteFileSet(Linted!Listing(trouble)), policy.privacy)
          BY <2>2
        <4> QED
          BY <4>1, KeywordIs DEF Linted!Finding
      <3>2. f \in Linted!Files /\ key \in Lines \cup {0} /\ policy.privacy \in {"warn", "error"} /\ FALSE \in BOOLEAN
        BY <1>1, <1>2, <2>2, ScannedAre
      <3> QED
        BY <3>1, <3>2, <1>3, FindingTyped
    <2>3. CASE policy.secrets # "off" /\ x = Linted!Finding("secrets", Index, 0, policy.secrets, TRUE)
      <3>1. policy.secrets \in {"warn", "error"} /\ TRUE \in BOOLEAN /\ 0 \in Lines \cup {0}
        BY <1>1, <2>3
      <3> QED
        BY <3>1, <2>3, <1>2, <1>3, FindingTyped
    <2>4. CASE policy.secrets # "off" /\ x \in Linted!SecretsRule(Linted!Listing(trouble), trouble, policy.secrets)
      <3>1. policy.secrets \in {"warn", "error"} /\ TRUE \in BOOLEAN /\ 0 \in Lines \cup {0}
        BY <1>1, <2>4
      <3>2. CASE x = Linted!Finding("secrets", Index, 0, policy.secrets, TRUE)
        BY <3>1, <3>2, <1>2, <1>3, FindingTyped
      <3>3. CASE \E f \in Linted!SecretScan(Linted!Listing(trouble), trouble) : x \in Linted!OneFile(f, trouble, policy.secrets)
        BY <3>1, <3>3, ScannedAre, OneFileTyped
      <3> QED
        BY <2>4, <3>2, <3>3, SecretIs
    <2>5. CASE x = Linted!Finding("file-set", Index, 0, "error", TRUE)
      BY <2>5, <1>2, <1>3, FindingTyped
    <2> QED
      BY <1>1, <2>1, <2>2, <2>3, <2>4, <2>5, WhoseIsIt
  <1> QED
    BY <1>1, <1>4

(* What the run leaves alone.                                              *)
LEMMA RunKeeps ==
  ASSUME NEW asked, NEW only, NEW severity, NEW trouble, Linted!RunLint(asked, only, severity, trouble)
  PROVE  /\ repo' = repo /\ branch' = branch /\ known' = known /\ old' = old /\ head' = head /\ work' = work
         /\ tracked' = tracked /\ Linted!There(work)' = Linted!There(work) /\ Linted!Publishable' = Linted!Publishable
         /\ \A f, listing : Linted!NoteFileSet(listing)' = Linted!NoteFileSet(listing)
         /\ Start' = Start
         /\ \A kind : (Linted!Listing([kind |-> kind, file |-> Index]))' = Linted!Listing([kind |-> kind, file |-> Index])
  <1>1. repo' = repo /\ branch' = branch /\ known' = known /\ old' = old /\ head' = head /\ work' = work /\ tracked' = tracked
    BY DEF Linted!RunLint
  <1>2. Linted!There(work)' = Linted!There(work)
    BY <1>1 DEF Linted!There
  <1>3. Linted!Untracked' = Linted!Untracked
    BY <1>1, <1>2 DEF Linted!Untracked
  <1>4. Linted!Publishable' = Linted!Publishable
    BY <1>1, <1>3 DEF Linted!Publishable
  <1>5. \A f, listing : Linted!NoteFileSet(listing)' = Linted!NoteFileSet(listing)
    BY <1>1, <1>2, <1>4 DEF Linted!NoteFileSet
  <1>6. Start' = Start
    BY <1>1 DEF Start
  <1>7. \A kind : (Linted!Listing([kind |-> kind, file |-> Index]))' = Linted!Listing([kind |-> kind, file |-> Index])
    BY <1>1, <1>4 DEF Linted!Listing
  <1> QED
    BY <1>1, <1>2, <1>4, <1>5, <1>6, <1>7

LEMMA PassedRead ==
  ASSUME Linted!LintAssumption, Linted!TypeOK, NEW asked, NEW only \in SUBSET Linted!Rules, NEW severity \in Linted!Severities, NEW trouble,
         Linted!RunLint(asked, only, severity, trouble)
  PROVE  Linted!PassedMeansRead'
  <1>0. PICK basis, policy, answers : Ran(asked, only, severity, trouble, basis, policy, answers)
    BY RunIs
  <1>1. /\ answers = Linted!RunLintRules(basis, Linted!Listing(trouble), trouble, policy)
        /\ report'.exit = Linted!Exit(answers) /\ report'.ran = {r \in Linted!Rules : policy[r] # "off"}
        /\ report'.hidden = Linted!Excluded(trouble)
        /\ policy.secrets \in {"error", "off"}
    BY <1>0 DEF Ran
  <1>2. SUFFICES ASSUME report'.exit = 0, "secrets" \in report'.ran, NEW f \in Linted!There(work), f \notin Linted!Excluded(trouble),
                        repo = "outside" \/ f \in tracked \/ f \notin Ignored,
                        NEW row \in work[f] \cap Secrets
                 PROVE  FALSE
    BY <1>1, RunKeeps DEF Linted!PassedMeansRead
  <1>3. policy.secrets = "error"
    BY <1>1, <1>2
  <1>4. \A x \in answers : ~x.defect /\ x.severity # "error"
    BY <1>1, <1>2 DEF Linted!Exit, Linted!Defects, Linted!Errors
  <1> HIDE DEF Linted!Finding
  <1>5. \A rule, g, l, s, d : Linted!Finding(rule, g, l, s, d).defect = d /\ Linted!Finding(rule, g, l, s, d).severity = s
    BY DEF Linted!Finding
  <1>6. trouble.kind # "crash" /\ Linted!Listing(trouble) # "failed"
    <2>1. ASSUME trouble.kind = "crash" PROVE Linted!Finding("secrets", Index, 0, policy.secrets, TRUE) \in answers
      BY <1>1, <1>3, <2>1, Together
    <2>2. ASSUME Linted!Listing(trouble) = "failed" PROVE Linted!Finding("file-set", Index, 0, "error", TRUE) \in answers
      BY <1>1, <2>2, Together
    <2>3. Linted!Finding("secrets", Index, 0, policy.secrets, TRUE).defect = TRUE /\ Linted!Finding("file-set", Index, 0, "error", TRUE).defect = TRUE
      BY DEF Linted!Finding
    <2>4. trouble.kind # "crash"
      BY <1>4, <2>1, <2>3
    <2>5. Linted!Listing(trouble) # "failed"
      BY <1>4, <2>2, <2>3
    <2> QED
      BY <2>4, <2>5
  <1>7. Linted!SecretsRule(Linted!Listing(trouble), trouble, "error") \subseteq answers
    BY <1>1, <1>3, <1>6, Together
  <1>8. f \in Linted!SecretScan(Linted!Listing(trouble), trouble)
    BY <1>2, <1>6 DEF Linted!SecretScan, Linted!Listing, Linted!Publishable, Linted!Untracked, Linted!There
  <1>9. Linted!OneFile(f, trouble, "error") \subseteq answers
    BY <1>7, <1>8, SecretHas
  <1>10. \E l, d : Linted!Finding("secrets", f, l, "error", d) \in Linted!OneFile(f, trouble, "error")
    BY <1>2 DEF Linted!OneFile
  <1> QED
    BY <1>4, <1>5, <1>9, <1>10

LEMMA NewJudged ==
  ASSUME Linted!LintAssumption, Linted!TypeOK, NEW asked, NEW only \in SUBSET Linted!Rules, NEW severity \in Linted!Severities, NEW trouble,
         Linted!RunLint(asked, only, severity, trouble)
  PROVE  Linted!NewLinesAreJudged'
  <1>0. PICK basis, policy, answers : Ran(asked, only, severity, trouble, basis, policy, answers)
    BY RunIs
  <1>1. /\ basis = Linted!ResolveBase(asked)
        /\ answers = Linted!RunLintRules(basis, Linted!Listing(trouble), trouble, policy)
        /\ report'.asked = asked /\ report'.ran = {r \in Linted!Rules : policy[r] # "off"} /\ report'.findings = answers
    BY <1>0 DEF Ran
  <1>2. SUFFICES ASSUME asked = "auto", "style" \in report'.ran, NEW f \in Notes, f \in Linted!Publishable, f \in Linted!There(work),
                        NEW row \in Chars, row \in work[f], \A g \in Linted!Files : row \notin Start[g]
                 PROVE  \E x \in answers : x.rule = "style" /\ x.file = f /\ x.line = row
    BY <1>1, RunKeeps DEF Linted!NewLinesAreJudged, Linted!Reported, Start
  <1>3. policy.style # "off"
    BY <1>1, <1>2
  <1>4. f \in Linted!NoteFileSet(Linted!Listing(trouble))
    BY <1>2 DEF Linted!NoteFileSet
  <1>5. Linted!EveryLine(basis, f) \/ Linted!Place(work[f], row) \in Linted!AddedLines(basis, f)
    <2>1. CASE basis.kind = "all" \/ f \notin tracked
      BY <2>1 DEF Linted!EveryLine
    <2>2. CASE basis.kind # "all" /\ f \in tracked
      <3>1. basis.kind = "auto" /\ basis.from = Start /\ basis.to = Linted!Tree
        BY <1>1, <1>2, <2>2, BaseIs
      <3>2. Linted!Tree[f] = work[f]
        BY <1>2, <2>2 DEF Linted!Tree, Linted!Files
      <3>3. row \notin Linted!Absent
        BY DEF Linted!LintAssumption, Linted!Absent
      <3>4. f \in Linted!Files
        BY DEF Linted!Files
      <3>5. \A g \in Linted!RenameSources(basis.from, basis.to, f) : row \notin basis.from[g]
        BY <1>2, <3>1 DEF Linted!RenameSources, Linted!There
      <3>6. row \in Linted!AddedText(basis, f)
        BY <1>2, <3>1, <3>2, <3>3, <3>4, <3>5 DEF Linted!AddedText
      <3> QED
        BY <3>1, <3>2, <3>6 DEF Linted!AddedLines
    <2> QED
      BY <2>1, <2>2
  <1>6. Linted!Finding("style", f, row, policy.style, FALSE) \in answers
    <2>1. Linted!Finding("style", f, row, policy.style, FALSE) \in Linted!Style(basis, Linted!NoteFileSet(Linted!Listing(trouble)), policy.style)
      BY <1>2, <1>4, <1>5, StyleHas
    <2>2. Linted!Style(basis, Linted!NoteFileSet(Linted!Listing(trouble)), policy.style) \subseteq answers
      BY <1>1, <1>3, Together
    <2> QED
      BY <2>1, <2>2
  <1> QED
    BY <1>6 DEF Linted!Finding

LEMMA OldLeftAlone ==
  ASSUME Linted!LintAssumption, Linted!TypeOK, NEW asked, NEW only \in SUBSET Linted!Rules, NEW severity \in Linted!Severities, NEW trouble,
         Linted!RunLint(asked, only, severity, trouble)
  PROVE  Linted!OldLinesAreLeftAlone'
  <1>0. PICK basis, policy, answers : Ran(asked, only, severity, trouble, basis, policy, answers)
    BY RunIs
  <1>1. /\ basis = Linted!ResolveBase(asked)
        /\ answers = Linted!RunLintRules(basis, Linted!Listing(trouble), trouble, policy)
        /\ report'.base = basis.kind /\ report'.findings = answers
    BY <1>0 DEF Ran
  <1>2. SUFFICES ASSUME basis.kind \in {"auto", "worktree"}, NEW f \in tracked, NEW row \in Lines,
                        NEW x \in answers, x.rule \in {"style", "privacy"}, x.file = f, x.line = row
                 PROVE  /\ row \notin basis.from[f]
                        /\ ~(f \notin Linted!There(basis.from) /\ \E g \in Linted!There(basis.from) \ tracked : basis.from[g] = work[f])
    <2>1. ASSUME basis.kind \in {"auto", "worktree"}
          PROVE  basis.from = IF basis.kind = "auto" /\ branch = "topic" /\ known THEN old ELSE head
      <3>1. (basis.kind = "auto" => basis.from = Start) /\ (basis.kind = "worktree" => basis.from = head)
        BY <1>1, <2>1, BaseIs
      <3>2. CASE basis.kind = "worktree"
        BY <3>1, <3>2
      <3>3. CASE basis.kind = "auto"
        BY <3>1, <3>3, Zenon DEF Start
      <3>4. basis.kind = "auto" \/ basis.kind = "worktree"
        BY <2>1
      <3> QED
        BY <3>4, <3>2, <3>3, Zenon
    <2> QED
      BY <1>1, <1>2, <2>1, RunKeeps DEF Linted!OldLinesAreLeftAlone, Linted!Reported, Linted!There
  <1>3. f \in Linted!Files /\ work[f] \in (SUBSET Lines) \cup {Linted!Absent}
    BY DEF Linted!TypeOK
  <1>4. basis.to = Linted!Tree /\ Linted!Tree[f] = work[f] /\ ~Linted!EveryLine(basis, f)
    BY <1>1, <1>2, <1>3, BaseIs DEF Linted!Tree, Linted!EveryLine
  <1>5. work[f] \subseteq Nat /\ Linted!IsFiniteSet(work[f])
    <2>1. Linted!IsFiniteSet(Lines) /\ Lines \subseteq Nat
      BY DEF Linted!LintAssumption
    <2>2. CASE work[f] \in SUBSET Lines
      BY <2>1, <2>2, CountOf
    <2>3. CASE work[f] = {0}
      <3>1. Linted!IsFiniteSet({0})
        BY OneIsFinite
      <3>2. {0} \subseteq Nat
        OBVIOUS
      <3> QED
        BY <2>3, <3>1, <3>2
    <2> QED
      BY <1>3, <2>2, <2>3 DEF Linted!Absent
  <1>6. row \in Linted!AddedText(basis, f)
    <2>1. CASE x \in Linted!Style(basis, Linted!NoteFileSet(Linted!Listing(trouble)), policy.style)
      <3>1. PICK g \in Linted!NoteFileSet(Linted!Listing(trouble)), char \in Chars :
                    /\ x = Linted!Finding("style", g, char, policy.style, FALSE) /\ char \in work[g]
                    /\ Linted!EveryLine(basis, g) \/ Linted!Place(work[g], char) \in Linted!AddedLines(basis, g)
        BY <2>1, StyleIs
      <3>2. g = f /\ char = row
        BY <1>2, <3>1 DEF Linted!Finding
      <3>3. PICK other \in Linted!AddedText(basis, f) : Linted!Place(work[f], row) = Linted!Place(work[f], other)
        BY <1>4, <3>1, <3>2 DEF Linted!AddedLines
      <3>4. other \in work[f] /\ row \in work[f]
        BY <1>4, <3>1, <3>2, <3>3 DEF Linted!AddedText
      <3> QED
        BY <1>5, <3>3, <3>4, PlaceIsOne
    <2>2. CASE x \in Linted!ThirdPartyKeywords(basis, Linted!NoteFileSet(Linted!Listing(trouble)), policy.privacy)
      <3>1. PICK g \in Linted!NoteFileSet(Linted!Listing(trouble)), key \in Keywords :
                    /\ x = Linted!Finding("privacy", g, key, policy.privacy, FALSE)
                    /\ Linted!EveryLine(basis, g) \/ key \in Linted!AddedText(basis, g)
        <4>1. x \in Linted!ThirdPartyKeywords(basis, Linted!NoteFileSet(Linted!Listing(trouble)), policy.privacy)
          BY <2>2
        <4> QED
          BY <4>1, KeywordIs DEF Linted!Finding
      <3>2. g = f /\ key = row
        BY <1>2, <3>1 DEF Linted!Finding
      <3> QED
        BY <1>4, <3>1, <3>2
    <2>3. CASE x \in Linted!SecretsRule(Linted!Listing(trouble), trouble, policy.secrets)
      <3>1. x.rule = "secrets"
        BY <2>3, SecretIs DEF Linted!OneFile, Linted!Finding
      <3> QED
        BY <1>2, <3>1
    <2>4. CASE x \in {Linted!Finding("secrets", Index, 0, policy.secrets, TRUE), Linted!Finding("file-set", Index, 0, "error", TRUE)}
      <3>1. x.rule \in {"secrets", "file-set"}
        BY <2>4 DEF Linted!Finding
      <3> QED
        BY <1>2, <3>1
    <2> QED
      BY <1>1, <1>2, <2>1, <2>2, <2>3, <2>4, WhoseIsIt
  <1>7. row \notin basis.from[f] /\ row \in work[f]
    BY <1>4, <1>6 DEF Linted!AddedText
  <1>8. ASSUME f \notin Linted!There(basis.from), NEW g \in Linted!There(basis.from) \ tracked, basis.from[g] = work[f] PROVE FALSE
    <2>1. g \in Linted!Files /\ Linted!Tree[g] = Linted!Absent
      BY <1>8 DEF Linted!There, Linted!Tree
    <2>2. g \in Linted!There(basis.from) \ Linted!There(basis.to)
      BY <1>4, <1>8, <2>1 DEF Linted!There
    <2>3. Linted!Alike(basis.from[g], basis.to[f])
      BY <1>4, <1>5, <1>7, <1>8, AlikeItself
    <2>4. g \in Linted!RenameSources(basis.from, basis.to, f)
      BY <1>8, <2>2, <2>3 DEF Linted!RenameSources
    <2> QED
      BY <1>6, <1>7, <1>8, <2>4 DEF Linted!AddedText
  <1> QED
    BY <1>7, <1>8

LEMMA CleanIs ==
  ASSUME Linted!LintAssumption, Linted!TypeOK, NEW asked, NEW only \in SUBSET Linted!Rules, NEW severity \in Linted!Severities, NEW trouble,
         Linted!RunLint(asked, only, severity, trouble)
  PROVE  Linted!CleanIsTheVault'
  <1>0. PICK basis, policy, answers : Ran(asked, only, severity, trouble, basis, policy, answers)
    BY RunIs
  <1>1. /\ basis = Linted!ResolveBase(asked)
        /\ answers = Linted!RunLintRules(basis, Linted!Listing(trouble), trouble, policy)
        /\ report'.verdict = Linted!Verdict(answers, basis, Linted!Skipped(severity, only))
        /\ report'.ran = {r \in Linted!Rules : policy[r] # "off"} /\ report'.hidden = Linted!Excluded(trouble)
    BY <1>0 DEF Ran
  <1>2. SUFFICES ASSUME report'.verdict = "clean", report'.ran = Linted!Rules,
                        NEW f \in Linted!NoteFileSet(Linted!Listing([kind |-> "none", file |-> Index])), f \notin Linted!Excluded(trouble),
                        NEW row \in work[f], row \in Chars \cup Secrets
                 PROVE  FALSE
    <2>1. (Linted!NoteFileSet(Linted!Listing([kind |-> "none", file |-> Index])))' = Linted!NoteFileSet(Linted!Listing([kind |-> "none", file |-> Index]))
      BY RunKeeps DEF Linted!NoteFileSet
    <2> QED
      BY <1>1, <1>2, <2>1, RunKeeps DEF Linted!CleanIsTheVault
  <1>3. answers = {} /\ basis.kind = "all"
    BY <1>1, <1>2 DEF Linted!Verdict, Linted!Defects, Linted!Errors
  <1>4. policy.style # "off" /\ policy.secrets # "off"
    BY <1>1, <1>2 DEF Linted!Rules
  <1>5. trouble.kind # "crash" /\ Linted!Listing(trouble) # "failed"
    BY <1>1, <1>3, <1>4, Together
  <1>6. Linted!Listing(trouble) = Linted!Listing([kind |-> "none", file |-> Index])
    BY <1>5 DEF Linted!Listing
  <1>7. Linted!EveryLine(basis, f)
    BY <1>3 DEF Linted!EveryLine
  <1>8. row \notin Chars
    BY <1>1, <1>2, <1>3, <1>4, <1>6, <1>7, StyleHas, Together
  <1>9. f \in Linted!SecretScan(Linted!Listing(trouble), trouble)
    BY <1>2, <1>5, <1>6 DEF Linted!SecretScan, Linted!NoteFileSet, Linted!Listing
  <1>10. \E x : x \in Linted!OneFile(f, trouble, policy.secrets)
    BY <1>2, <1>8 DEF Linted!OneFile
  <1> QED
    BY <1>1, <1>3, <1>4, <1>5, <1>9, <1>10, SecretHas, Together

(***************************************************************************)
(* Lint: the invariant.                                                    *)
(***************************************************************************)

NothingSaid == report = Linted!NoReport

LEMMA NothingSaidIsFine ==
  ASSUME NothingSaid
  PROVE  /\ report.findings = {}
         /\ Linted!PassedMeansRead /\ Linted!NewLinesAreJudged /\ Linted!OldLinesAreLeftAlone /\ Linted!CleanIsTheVault
  BY DEF NothingSaid, Linted!NoReport, Linted!PassedMeansRead, Linted!NewLinesAreJudged, Linted!OldLinesAreLeftAlone, Linted!CleanIsTheVault

LEMMA LintStarts ==
  ASSUME Linted!LintAssumption, Linted!Init
  PROVE  Linted!LintJudgesTheChange
  <1>1. NothingSaid
    BY DEF Linted!Init, NothingSaid
  <1>2. PICK start \in [Linted!Files -> {Linted!Absent, {1}, {2}}] : old = start
    BY DEF Linted!Init
  <1>3. work = [start EXCEPT ![Index] = {1}] /\ tracked = Linted!There(start)
    BY <1>2 DEF Linted!Init
  <1>4. {1} \in SUBSET Lines /\ {2} \in SUBSET Lines
    BY DEF Linted!LintAssumption
  <1>5. work \in [Linted!Files -> (SUBSET Lines) \cup {Linted!Absent}] /\ tracked \subseteq Linted!Files
    BY <1>2, <1>3, <1>4 DEF Linted!There
  <1> QED
    BY <1>1, <1>5, NothingSaidIsFine DEF Linted!LintJudgesTheChange, Linted!TypeOK

LEMMA BusyKeeps ==
  ASSUME Linted!Busy, work' \in [Linted!Files -> (SUBSET Lines) \cup {Linted!Absent}], tracked' \subseteq Linted!Files
  PROVE  Linted!LintJudgesTheChange'
  <1>1. NothingSaid'
    BY DEF Linted!Busy, NothingSaid
  <1>2. /\ report'.findings = {}
        /\ Linted!PassedMeansRead' /\ Linted!NewLinesAreJudged' /\ Linted!OldLinesAreLeftAlone' /\ Linted!CleanIsTheVault'
    BY <1>1 DEF NothingSaid, Linted!NoReport, Linted!PassedMeansRead, Linted!NewLinesAreJudged, Linted!OldLinesAreLeftAlone, Linted!CleanIsTheVault
  <1> QED
    BY <1>2 DEF Linted!LintJudgesTheChange, Linted!TypeOK

LEMMA LintSteps ==
  ASSUME Linted!LintAssumption, Linted!LintJudgesTheChange, [Linted!Next]_(Linted!vars)
  PROVE  Linted!LintJudgesTheChange'
  <1>0. Linted!TypeOK
    BY DEF Linted!LintJudgesTheChange
  <1>1. ASSUME NEW asked, NEW only \in SUBSET Linted!Rules, NEW severity \in Linted!Severities, NEW trouble,
               Linted!RunLint(asked, only, severity, trouble)
        PROVE  Linted!LintJudgesTheChange'
    <2>1. work' = work /\ tracked' = tracked
      BY <1>1, RunKeeps
    <2>2. Linted!TypeOK'
      BY <1>0, <1>1, <2>1, FindingsTyped DEF Linted!TypeOK
    <2> QED
      BY <1>0, <1>1, <2>2, PassedRead, NewJudged, OldLeftAlone, CleanIs DEF Linted!LintJudgesTheChange
  <1>2. ASSUME NEW f \in Linted!Files, NEW row \in Lines, Linted!Edit(f, row) PROVE Linted!LintJudgesTheChange'
    <2>1. PICK words \in SUBSET Lines : work' = [work EXCEPT ![f] = words]
      <3>1. work[f] \ Linted!Absent \in SUBSET Lines
        BY <1>0 DEF Linted!TypeOK
      <3> QED
        BY <1>2, <3>1 DEF Linted!Edit
    <2> QED
      BY <1>0, <1>2, <2>1, BusyKeeps DEF Linted!TypeOK, Linted!Edit
  <1>3. ASSUME NEW f \in Linted!Files, Linted!Track(f) PROVE Linted!LintJudgesTheChange'
    BY <1>0, <1>3, BusyKeeps DEF Linted!TypeOK, Linted!Track
  <1>4. ASSUME NEW f \in Notes, NEW g \in Notes, Linted!Move(f, g) PROVE Linted!LintJudgesTheChange'
    <2>1. f \in Linted!Files /\ g \in Linted!Files
      BY DEF Linted!Files
    <2> QED
      BY <1>0, <1>4, <2>1, BusyKeeps DEF Linted!TypeOK, Linted!Move
  <1>5. CASE Linted!Commit
    BY <1>0, <1>5, BusyKeeps DEF Linted!TypeOK, Linted!Commit
  <1>6. CASE UNCHANGED Linted!vars
    BY <1>6 DEF Linted!vars, Linted!LintJudgesTheChange, Linted!TypeOK, Linted!PassedMeansRead, Linted!NewLinesAreJudged, Linted!OldLinesAreLeftAlone, Linted!CleanIsTheVault,
              Linted!Reported, Linted!There, Linted!Publishable, Linted!Untracked, Linted!NoteFileSet, Linted!Listing
  <1>7. Linted!Rules \in SUBSET Linted!Rules /\ \A only \in Linted!Rules : {only} \in SUBSET Linted!Rules
    OBVIOUS
  <1> QED
    BY <1>1, <1>2, <1>3, <1>4, <1>5, <1>6, <1>7 DEF Linted!Next

(* Every lint of a change judges it: one that passes read what a push      *)
(* could publish and found no secret there, `auto` judges each new line    *)
(* and none of the old ones, and `clean` is said of the vault as it is.    *)
(* For any notes, lines and rules that refuse them, whatever the owner     *)
(* does between two runs.                                                  *)
THEOREM EveryChangeIsJudged == Linted!LintAssumption => (Linted!Spec => []Linted!LintJudgesTheChange)
  <1>1. SUFFICES ASSUME Linted!LintAssumption PROVE Linted!Spec => []Linted!LintJudgesTheChange
    OBVIOUS
  <1> QED
    BY <1>1, LintStarts, LintSteps, PTL DEF Linted!Spec

(***************************************************************************)
(* VaultLinks: paths.                                                      *)
(***************************************************************************)

Names == STRING \cup {"index.md", "index"}
Walks == Seq(Names)

LEMMA FrontOf ==
  ASSUME NEW path \in Walks, path # <<>>
  PROVE  /\ Linked!Front(path) \in Walks /\ Len(Linked!Front(path)) = Len(path) - 1
         /\ \A i \in 1 .. (Len(path) - 1) : Linked!Front(path)[i] = path[i]
  <1>1. Len(path) \in Nat \ {0}
    BY DEF Walks
  <1> QED
    <2>1. PICK n \in Nat : n = Len(path) - 1
      BY <1>1
    <2>2. n <= Len(path) /\ 1 \in 1 .. (Len(path) + 1) /\ n \in 0 .. Len(path)
      BY <1>1, <2>1
    <2>3. Linked!Front(path) = SubSeq(path, 1, n)
      BY <2>1 DEF Linked!Front
    <2>4. SubSeq(path, 1, n) \in Walks /\ Len(SubSeq(path, 1, n)) = n /\ \A i \in 1 .. n : SubSeq(path, 1, n)[i] = path[i]
      BY <2>2 DEF Walks
    <2> QED
      BY <2>1, <2>3, <2>4

LEMMA AppendOf ==
  ASSUME NEW path \in Walks, NEW name \in Names
  PROVE  /\ Append(path, name) \in Walks /\ Len(Append(path, name)) = Len(path) + 1
         /\ \A i \in 1 .. Len(path) : Append(path, name)[i] = path[i]
         /\ Append(path, name)[Len(path) + 1] = name
  <1>1. path \in Seq(Names)
    BY DEF Walks
  <1>2. PICK more : more = Append(path, name)
    OBVIOUS
  <1>3. more \in Seq(Names) /\ Len(more) = Len(path) + 1 /\ (\A i \in 1 .. Len(path) : more[i] = path[i]) /\ more[Len(path) + 1] = name
    BY <1>1, <1>2, AppendProperties
  <1> QED
    BY <1>2, <1>3 DEF Walks

LEMMA PrefixIs ==
  ASSUME NEW s \in Walks, NEW t \in Walks
  PROVE  Linked!IsPrefix(s, t) <=> (Len(s) <= Len(t) /\ \A i \in 1 .. Len(s) : s[i] = t[i])
  <1>1. Len(s) \in Nat /\ Len(t) \in Nat
    BY DEF Walks
  <1>2. SubSeq(s, 1, Len(s)) = s
    BY SubSeqFull DEF Walks
  <1>3. ASSUME Len(s) <= Len(t)
        PROVE  (SubSeq(t, 1, Len(s)) = s) <=> \A i \in 1 .. Len(s) : s[i] = t[i]
    <2>1. SubSeq(t, 1, Len(s)) \in Walks /\ Len(SubSeq(t, 1, Len(s))) = Len(s)
          /\ \A i \in 1 .. Len(s) : SubSeq(t, 1, Len(s))[i] = t[i]
      BY <1>1, <1>3 DEF Walks
    <2> QED
      BY <2>1, SeqEqual DEF Walks
  <1> QED
    BY <1>2, <1>3 DEF Linked!IsPrefix

LEMMA SamePath ==
  ASSUME NEW s \in Walks, NEW t \in Walks, Len(s) = Len(t), \A i \in 1 .. Len(s) : s[i] = t[i]
  PROVE  s = t
  BY SeqEqual DEF Walks

LEMMA BelowIs ==
  ASSUME NEW s \in Walks, NEW t \in Walks
  PROVE  Linked!Below(t, s) <=> (Len(s) < Len(t) /\ \A i \in 1 .. Len(s) : s[i] = t[i])
  <1>1. Len(s) \in Nat /\ Len(t) \in Nat
    BY DEF Walks
  <1>2. Linked!Below(t, s) <=> (Linked!IsPrefix(s, t) /\ s # t)
    BY DEF Linked!Below, Linked!IsStrictPrefix
  <1>3. ASSUME Linked!IsPrefix(s, t), s # t PROVE Len(s) < Len(t) /\ \A i \in 1 .. Len(s) : s[i] = t[i]
    <2>1. Len(s) <= Len(t) /\ \A i \in 1 .. Len(s) : s[i] = t[i]
      BY <1>3, PrefixIs
    <2>2. Len(s) # Len(t)
      BY <1>3, <2>1, SamePath
    <2> QED
      BY <1>1, <2>1, <2>2
  <1>4. ASSUME Len(s) < Len(t), \A i \in 1 .. Len(s) : s[i] = t[i] PROVE Linked!IsPrefix(s, t) /\ s # t
    BY <1>1, <1>4, PrefixIs
  <1> QED
    BY <1>2, <1>3, <1>4

LEMMA IndexIs ==
  ASSUME NEW dir \in Walks
  PROVE  /\ Linked!IndexOf(dir) \in Walks /\ Len(Linked!IndexOf(dir)) = Len(dir) + 1
         /\ \A i \in 1 .. Len(dir) : Linked!IndexOf(dir)[i] = dir[i]
         /\ Linked!IndexOf(dir)[Len(dir) + 1] = "index.md"
  <1>1. "index.md" \in Names
    BY DEF Names
  <1> QED
    BY <1>1, AppendOf DEF Linked!IndexOf

LEMMA NamedIsAPath ==
  ASSUME NEW path \in Walks, NEW name \in Names
  PROVE  Linked!Named(path, name) \in Walks
  BY FrontOf, AppendOf DEF Linked!Named

(***************************************************************************)
(* VaultLinks: a link resolves to a path.                                  *)
(***************************************************************************)

\* The first names of a path, each read after the ones before it.
Follows(g, names, n) ==
  g = [i \in 0 .. n |-> IF i = 0 THEN <<>> ELSE Linked!Named(g[i - 1], names[i])]

LEMMA SomeFollows ==
  ASSUME NEW names, NEW length \in Nat
  PROVE  \E g : Follows(g, names, length)
  <1> DEFINE Stuck == {n \in Nat : ~\E g : Follows(g, names, n)}
  <1>1. SUFFICES ASSUME Stuck # {} PROVE FALSE
    OBVIOUS
  <1>2. PICK m \in Stuck : \A k \in Stuck : m <= k
    BY <1>1, LeastOne
  <1>3. m # 0
    <2>1. Follows([i \in 0 .. 0 |-> <<>>], names, 0)
      BY DEF Follows
    <2> QED
      BY <2>1
  <1>4. PICK g : Follows(g, names, m - 1)
    <2>1. m - 1 \in Nat /\ ~(m <= m - 1)
      BY <1>3
    <2> QED
      BY <1>2, <2>1
  <1>5. PICK h : h = [i \in 0 .. m |-> IF i = m THEN Linked!Named(g[m - 1], names[m]) ELSE g[i]]
    OBVIOUS
  <1>6. \A i \in 0 .. m : h[i] = IF i = 0 THEN <<>> ELSE Linked!Named(h[i - 1], names[i])
    <2> TAKE i \in 0 .. m
    <2>1. CASE i = m
      BY <1>3, <1>5, <2>1
    <2>2. CASE i # m
      <3>1. i \in 0 .. (m - 1) /\ (i # 0 => i - 1 \in 0 .. (m - 1) /\ i - 1 # m /\ i - 1 \in 0 .. m)
        BY <1>3, <2>2
      <3>2. g[i] = IF i = 0 THEN <<>> ELSE Linked!Named(g[i - 1], names[i])
        BY <1>4, <3>1 DEF Follows
      <3>3. h[i] = g[i] /\ (i # 0 => h[i - 1] = g[i - 1])
        BY <1>5, <2>2, <3>1
      <3> QED
        BY <3>2, <3>3
    <2> QED
      BY <2>1, <2>2
  <1>7. Follows(h, names, m)
    BY <1>5, <1>6 DEF Follows
  <1> QED
    BY <1>2, <1>7

LEMMA NormalizedIsAPath ==
  ASSUME NEW names \in Walks
  PROVE  Linked!Normalized(names) \in Walks
  <1>1. PICK length \in Nat : length = Len(names)
    BY DEF Walks
  <1> DEFINE upTo == CHOOSE g : g = [n \in 0 .. Len(names) |-> IF n = 0 THEN <<>> ELSE Linked!Named(g[n - 1], names[n])]
  <1>2. Linked!Normalized(names) = upTo[length]
    BY <1>1 DEF Linked!Normalized
  <1>3. Follows(upTo, names, length)
    BY <1>1, SomeFollows DEF Follows
  <1> HIDE DEF upTo
  <1>4. \A n \in 0 .. length : upTo[n] = IF n = 0 THEN <<>> ELSE Linked!Named(upTo[n - 1], names[n])
    BY <1>3 DEF Follows
  <1> DEFINE Odd == {n \in 0 .. length : upTo[n] \notin Walks}
  <1>5. SUFFICES ASSUME Odd # {} PROVE FALSE
    BY <1>2
  <1>6. PICK m \in Odd : \A k \in Odd : m <= k
    <2>1. Odd \in SUBSET Nat
      OBVIOUS
    <2> HIDE DEF Odd
    <2> QED
      BY <1>5, <2>1, LeastOne
  <1>7. m # 0
    <2>1. <<>> \in Walks /\ 0 \in 0 .. length
      BY DEF Walks
    <2>2. upTo[0] \in Walks
      BY <1>4, <2>1
    <2> QED
      BY <1>6, <2>2
  <1>8. m - 1 \in 0 .. length /\ ~(m <= m - 1) /\ m \in 1 .. length
    BY <1>6, <1>7
  <1>9. upTo[m - 1] \in Walks
    BY <1>6, <1>8
  <1>10. names[m] \in Names
    BY <1>1, <1>8 DEF Walks
  <1>11. upTo[m] \in Walks
    BY <1>4, <1>7, <1>8, <1>9, <1>10, NamedIsAPath
  <1> QED
    BY <1>6, <1>11

LinksTyped ==
  /\ walked \subseteq disk /\ disk \subseteq Paths
  /\ links \subseteq [from : Paths, to : Targets, wiki : BOOLEAN]
  /\ confidential \subseteq Folders

LEMMA PathsAre ==
  ASSUME Linked!LinksAssumption
  PROVE  /\ Paths \subseteq Walks /\ Targets \subseteq Walks /\ Folders \subseteq Walks
         /\ \A path \in Paths : path # <<>> /\ path[Len(path)] # "index"
         /\ \A name \in DOMAIN WithMd : WithMd[name] \in Names
  <1>1. STRING \subseteq Names
    BY DEF Names
  <1>2. Seq(STRING) \subseteq Walks
    BY <1>1, SeqMonotonic DEF Walks
  <1> QED
    BY <1>1, <1>2 DEF Linked!LinksAssumption

LEMMA ResolvedArePaths ==
  ASSUME Linked!LinksAssumption, NEW link \in [from : Paths, to : Targets, wiki : BOOLEAN], NEW path \in Linked!Resolved(link)
  PROVE  path \in Walks
  <1>1. PICK piece \in Linked!LinkParts(link) : path = Linked!ResolveLinkPath(link.from, piece)
    BY DEF Linked!Resolved
  <1>2. link.from \in Walks /\ link.from # <<>> /\ link.to \in Walks
    BY PathsAre
  <1>3. piece \in Walks
    <2>1. CASE piece = link.to
      BY <1>2, <2>1
    <2>2. CASE /\ link.to # <<>> /\ Linked!Last(link.to) \in DOMAIN WithMd
               /\ piece = Append(Linked!Front(link.to), WithMd[Linked!Last(link.to)])
      BY <1>2, <2>2, PathsAre, FrontOf, AppendOf
    <2> QED
      BY <1>1, <2>1, <2>2 DEF Linked!LinkParts, Linked!WikilinkPathParts
  <1>4. Linked!Folder(link.from) \in Walks
    BY <1>2, FrontOf DEF Linked!Folder
  <1>5. Linked!Folder(link.from) \o piece \in Walks
    BY <1>3, <1>4 DEF Walks
  <1>6. piece # <<>> => Tail(piece) \in Walks
    BY <1>3 DEF Walks
  <1> QED
    BY <1>1, <1>5, <1>6, NormalizedIsAPath DEF Linked!ResolveLinkPath

LEMMA VisitedIs ==
  ASSUME LinksTyped
  PROVE  /\ Linked!Visited \subseteq walked
         /\ \A link \in links : link.from \in Linked!Visited => Linked!FollowLink(link) \subseteq Linked!Visited
  <1>1. Linked!Visited \subseteq walked
    BY DEF Linked!Visited
  <1>2. ASSUME NEW link \in links, link.from \in Linked!Visited, NEW file \in Linked!FollowLink(link)
        PROVE  file \in Linked!Visited
    <2>1. file \in walked
      BY <1>2 DEF Linked!FollowLink, Linked!ClassifyTarget
    <2>2. ASSUME NEW notes \in Linked!Whole PROVE file \in notes
      <3>1. link.from \in notes
        BY <1>2, <2>2 DEF Linked!Visited
      <3>2. PICK lead : lead = <<link.from, Linked!FollowLink(link)>>
        OBVIOUS
      <3>3. lead[1] \in notes => lead[2] \subseteq notes
        BY <2>2, <3>2 DEF Linked!Whole
      <3> QED
        BY <1>2, <3>1, <3>2, <3>3
    <2> QED
      BY <2>1, <2>2 DEF Linked!Visited
  <1> QED
    BY <1>1, <1>2

LEMMA OrphansHave ==
  ASSUME Linked!LinksAssumption, LinksTyped
  PROVE  Linked!OrphansHaveACause
  <1>1. SUFFICES ASSUME NEW link \in links, link.from \in Linked!Visited, ~link.wiki, NEW path \in Linked!Resolved(link)
                 PROVE  \/ path \in Linked!Visited \ Linked!Orphans
                        \/ link \in Linked!Broken \cup Linked!LinksOutOfTheWalk
                        \/ Linked!IndexOf(path) \in Linked!Visited
                        \/ path \in Linked!MissingIndexes
                        \/ \A file \in walked : ~Linked!Below(file, path)
    BY DEF Linked!OrphansHaveACause
  <1>2. Linked!Resolved(link) = {path}
    BY <1>1 DEF Linked!Resolved, Linked!LinkParts
  <1>3. link.from \in walked /\ Linked!FollowLink(link) \subseteq Linked!Visited
    BY <1>1, VisitedIs
  <1>4. path \in Walks
    BY ResolvedArePaths DEF LinksTyped
  <1>5. CASE Linked!ClassifyTarget(path) \in {"outside", "absent"}
    BY <1>1, <1>2, <1>3, <1>5 DEF Linked!Broken
  <1>6. CASE Linked!ClassifyTarget(path) = "unwalked"
    BY <1>1, <1>2, <1>3, <1>6 DEF Linked!LinksOutOfTheWalk
  <1>7. CASE Linked!ClassifyTarget(path) = "in-walk"
    <2>1. path \in Linked!FollowLink(link)
      BY <1>2, <1>7 DEF Linked!FollowLink
    <2> QED
      BY <1>3, <2>1 DEF Linked!Orphans
  <1>8. CASE Linked!ClassifyTarget(path) = "directory"
    <2>1. CASE Linked!IndexOf(path) \in walked
      <3>1. Linked!IndexOf(path) \in Linked!FollowLink(link)
        BY <1>2, <1>8, <2>1 DEF Linked!FollowLink
      <3> QED
        BY <1>3, <3>1
    <2>2. CASE Linked!IndexOf(path) \notin walked /\ \E file \in walked : Linked!Below(file, path)
      <3>1. PICK file \in walked : Linked!Below(file, path)
        BY <2>2
      <3>2. file \in Walks
        BY <3>1, PathsAre DEF LinksTyped
      <3>3. Len(path) < Len(file) /\ \A i \in 1 .. Len(path) : path[i] = file[i]
        BY <1>4, <3>1, <3>2, BelowIs
      <3>4. path = SubSeq(file, 1, Len(path))
        <4>1. Linked!IsPrefix(path, file) /\ SubSeq(path, 1, Len(path)) = path
          BY <1>4, <3>1, SubSeqFull DEF Linked!Below, Linked!IsStrictPrefix, Walks
        <4> QED
          BY <4>1 DEF Linked!IsPrefix
      <3>5. Len(path) \in 0 .. (Len(file) - 1)
        BY <1>4, <3>2, <3>3 DEF Walks
      <3>6. path \in Linked!AncestorDirs(file)
        BY <3>4, <3>5 DEF Linked!AncestorDirs
      <3> QED
        BY <2>2, <3>1, <3>6 DEF Linked!MissingIndexes
    <2> QED
      BY <2>1, <2>2
  <1> QED
    BY <1>5, <1>6, <1>7, <1>8 DEF Linked!ClassifyTarget

LEMMA OneBoundary ==
  ASSUME Linked!LinksAssumption, Linked!NoFolderIsAnIndex, LinksTyped
  PROVE  Linked!BoundaryIsOneForAllSpellings
  <1>1. ASSUME NEW link \in links, NEW dir \in confidential, dir # <<>>, link.from \in walked,
               \A d \in confidential : ~Linked!UnderPath(link.from, d),
               NEW file \in Linked!FollowLink(link), Linked!Below(file, dir), file # Linked!IndexOf(dir)
        PROVE  link \in Linked!LinksIntoConfidential
    <2>1. dir \in Walks /\ file \in walked /\ file \in Walks
      BY <1>1, PathsAre DEF LinksTyped, Linked!FollowLink, Linked!ClassifyTarget
    <2>2. Len(dir) \in Nat /\ Len(file) \in Nat /\ Len(dir) < Len(file) /\ \A i \in 1 .. Len(dir) : dir[i] = file[i]
      BY <1>1, <2>1, BelowIs DEF Walks
    <2>3. SUFFICES ASSUME NEW path \in Linked!Resolved(link), Linked!Below(path, dir), path \notin {Linked!IndexOf(dir), Append(dir, "index")}
                   PROVE  link \in Linked!LinksIntoConfidential
      <3>1. \E path \in Linked!Resolved(link) : Linked!Below(path, dir) /\ path \notin {Linked!IndexOf(dir), Append(dir, "index")}
        <4>1. CASE file \in Linked!Resolved(link)
          <5>1. file # Append(dir, "index")
            <6>1. "index" \in Names /\ file[Len(file)] # "index"
              BY <2>1, PathsAre DEF LinksTyped, Names
            <6>2. Len(Append(dir, "index")) = Len(dir) + 1 /\ Append(dir, "index")[Len(dir) + 1] = "index"
              BY <2>1, <6>1, AppendOf
            <6> QED
              BY <6>1, <6>2
          <5> QED
            BY <1>1, <4>1, <5>1
        <4>2. CASE \E path \in Linked!Resolved(link) : Linked!ClassifyTarget(path) = "directory" /\ file = Linked!IndexOf(path)
          <5>1. PICK path \in Linked!Resolved(link) : Linked!ClassifyTarget(path) = "directory" /\ file = Linked!IndexOf(path)
            BY <4>2
          <5>2. path \in Walks
            BY ResolvedArePaths DEF LinksTyped
          <5>3. Len(path) \in Nat /\ Len(file) = Len(path) + 1 /\ \A i \in 1 .. Len(path) : file[i] = path[i]
            BY <5>1, <5>2, IndexIs DEF Walks
          <5>4. Len(dir) # Len(path)
            <6>1. ASSUME Len(dir) = Len(path) PROVE dir = path
              BY <2>1, <2>2, <5>2, <5>3, <6>1, SamePath
            <6> QED
              BY <1>1, <5>1, <6>1
          <5>5. Linked!Below(path, dir)
            BY <2>1, <2>2, <5>2, <5>3, <5>4, BelowIs
          <5>6. PICK under \in disk : Linked!Below(under, path)
            <6>1. path # <<>>
              BY <2>1, <5>2, <5>5, BelowIs DEF Walks
            <6> QED
              BY <5>1, <6>1 DEF Linked!ClassifyTarget
          <5>7. under \in Paths /\ under \in Walks
            BY <5>6, PathsAre DEF LinksTyped
          <5>8. Len(path) < Len(under) /\ \A i \in 1 .. Len(path) : path[i] = under[i]
            BY <5>2, <5>6, <5>7, BelowIs
          <5>9. Len(dir) + 1 \in 1 .. Len(path)
            BY <2>2, <5>3, <5>4
          <5>10. path[Len(dir) + 1] \notin {"index", "index.md"}
            BY <5>3, <5>7, <5>8, <5>9 DEF Linked!NoFolderIsAnIndex, Walks
          <5>11. Linked!IndexOf(dir)[Len(dir) + 1] = "index.md"
            BY <2>1, IndexIs
          <5>12. path # Append(dir, "index")
            <6>1. "index" \in Names
              BY DEF Names
            <6>2. Append(dir, "index")[Len(dir) + 1] = "index"
              BY <2>1, <6>1, AppendOf
            <6> QED
              BY <5>10, <6>2
          <5> QED
            BY <5>5, <5>10, <5>11, <5>12
        <4> QED
          BY <1>1, <4>1, <4>2 DEF Linked!FollowLink
      <3> QED
        BY <2>3, <3>1
    <2>4. Linked!ConfidentialContent(path)
      BY <1>1, <2>3 DEF Linked!ConfidentialContent
    <2> QED
      BY <1>1, <2>4 DEF Linked!LinksIntoConfidential, Linked!UnderAnyConfidential
  <1>2. ASSUME NEW link \in Linked!LinksOf(Linked!Root),
               \A path \in Linked!Resolved(link) : \E file \in disk : path \in {<<file[1]>>, Linked!IndexOf(<<file[1]>>)},
               link \in Linked!LinksIntoConfidential
        PROVE  FALSE
    <2>1. PICK path \in Linked!Resolved(link) : Linked!ConfidentialContent(path)
      BY <1>2 DEF Linked!LinksIntoConfidential
    <2>2. PICK dir \in confidential : dir # <<>> /\ Linked!Below(path, dir) /\ path # Linked!IndexOf(dir)
      BY <2>1 DEF Linked!ConfidentialContent
    <2>3. PICK file \in disk : path \in {<<file[1]>>, Linked!IndexOf(<<file[1]>>)}
      BY <1>2
    <2>4. dir \in Walks /\ Len(dir) \in Nat \ {0}
      BY <2>2, PathsAre DEF LinksTyped, Walks
    <2>5. file \in Walks /\ file # <<>>
      BY PathsAre DEF LinksTyped
    <2>6. PICK top \in Names : top = file[1]
      BY <2>5 DEF Walks
    <2>7. <<top>> \in Walks /\ Len(<<top>>) = 1 /\ <<top>>[1] = top
      BY DEF Walks
    <2>8. CASE path = <<top>>
      <3>1. path \in Walks /\ Len(path) = 1
        BY <2>7, <2>8
      <3>2. Len(dir) < Len(path)
        BY <2>2, <2>4, <3>1, BelowIs
      <3> QED
        BY <2>4, <3>1, <3>2
    <2>9. CASE path = Linked!IndexOf(<<top>>)
      <3>1. path \in Walks /\ Len(path) = 2 /\ path[1] = top
        <4>1. PICK lead : lead = <<top>>
          OBVIOUS
        <4>2. lead \in Walks /\ Len(lead) = 1 /\ lead[1] = top /\ path = Linked!IndexOf(lead)
          BY <2>7, <2>9, <4>1
        <4>3. path \in Walks /\ Len(path) = 1 + 1 /\ \A i \in 1 .. 1 : path[i] = lead[i]
          BY <4>2, IndexIs
        <4> QED
          BY <4>2, <4>3
      <3>2. Len(dir) = 1 /\ dir[1] = top
        <4>1. Len(dir) < Len(path) /\ \A i \in 1 .. Len(dir) : dir[i] = path[i]
          BY <2>2, <2>4, <3>1, BelowIs
        <4>2. Len(dir) = 1
          <5>1. PICK n \in Nat \ {0} : n = Len(dir)
            BY <2>4
          <5>2. n < 2
            BY <3>1, <4>1, <5>1
          <5>3. n = 1
            BY <5>2
          <5> QED
            BY <5>1, <5>3
        <4>3. 1 \in 1 .. Len(dir)
          BY <4>2
        <4> QED
          BY <3>1, <4>1, <4>2, <4>3
      <3>3. dir = <<top>>
        BY <2>4, <2>7, <3>2, SamePath
      <3> QED
        BY <2>2, <2>9, <3>3
    <2> QED
      BY <2>3, <2>6, <2>8, <2>9
  <1> QED
    BY <1>1, <1>2 DEF Linked!BoundaryIsOneForAllSpellings

LEMMA LinksStart ==
  ASSUME Linked!LinksAssumption, Linked!Init
  PROVE  LinksTyped
  BY DEF Linked!Init, LinksTyped, Linked!LinksAssumption

LEMMA LinksStep ==
  ASSUME LinksTyped, [Linked!Next]_(Linked!vars)
  PROVE  LinksTyped'
  <1>1. ASSUME NEW file \in Paths, Linked!AddFile(file) PROVE LinksTyped'
    BY <1>1 DEF Linked!AddFile, Linked!Busy, LinksTyped
  <1>2. ASSUME NEW file \in Paths, NEW to \in Targets, NEW wiki \in BOOLEAN, Linked!AddLink(file, to, wiki) PROVE LinksTyped'
    BY <1>2 DEF Linked!AddLink, Linked!Busy, LinksTyped
  <1>3. CASE UNCHANGED Linked!vars
    BY <1>3 DEF Linked!vars, LinksTyped
  <1> QED
    BY <1>1, <1>2, <1>3 DEF Linked!Next

LEMMA LinksHold ==
  ASSUME Linked!LinksAssumption, Linked!NoFolderIsAnIndex, LinksTyped
  PROVE  Linked!LinksAreOneForAllReaders
  <1>1. Linked!Orphans \subseteq walked
    BY DEF Linked!Orphans
  <1> QED
    BY <1>1, OrphansHave, OneBoundary DEF Linked!LinksAreOneForAllReaders, Linked!TypeOK, LinksTyped

(* From a root index every walk takes the same links the rules report: a   *)
(* note that is an orphan has a cause a rule names, and a confidential one *)
(* is reached by no link from outside that is not reported, however it is  *)
(* spelled; for any tree of notes, links and confidential folders, as long *)
(* as no folder is named as a front door is.                               *)
THEOREM LinksLeadToOnePlace == Linked!LinksAssumption /\ Linked!NoFolderIsAnIndex => (Linked!Spec => []Linked!LinksAreOneForAllReaders)
  <1>1. SUFFICES ASSUME Linked!LinksAssumption, Linked!NoFolderIsAnIndex PROVE Linked!Spec => []Linked!LinksAreOneForAllReaders
    OBVIOUS
  <1> QED
    BY <1>1, LinksStart, LinksStep, LinksHold, PTL DEF Linked!Spec

(***************************************************************************)
(* NoteTables: the scanner, and what is said of the tables it found.       *)
(***************************************************************************)

(* Whether the scanner would take a line as another row.                   *)
Takes(i) == i <= last /\ Tables!HasPipe(i) /\ ~(i < last /\ Tables!IsDelimiterRow(i + 1))

(* A header, its delimiter, and one row after another.                     *)
Block(h, rs) ==
    /\ h \in Nat /\ rs \in Seq(Nat)
    /\ first <= h /\ Tables!StartsTable(h)
    /\ \A j \in 1..Len(rs) : rs[j] = h + 1 + j /\ Takes(h + 1 + j)

SectionInv ==
    reader = "pending" /\ Tables!HeadingsOf(note) # {}
    => \E start \in Tables!HeadingsOf(note) :
        /\ first = start + 1 /\ start <= last
        /\ \A i \in Tables!HeadingsOf(note) : start <= i

GivenInv ==
    /\ Len(note) \in Nat /\ DOMAIN note = 1..Len(note)
    /\ first \in Nat \ {0} /\ last \in Nat /\ last <= Len(note)
    /\ SectionInv

FoundInv ==
    /\ found \in Seq([header : Nat, rows : Seq(Nat)])
    /\ \A k \in 1..Len(found) :
        /\ Block(found[k].header, found[k].rows)
        /\ ~Takes(found[k].header + 2 + Len(found[k].rows))
        /\ found[k].header + 2 + Len(found[k].rows) <= line
    /\ \A j, k \in 1..Len(found) : j < k => found[j].header + 1 + Len(found[j].rows) < found[k].header

OpenInv ==
    header # 0 =>
        /\ Block(header, rows)
        /\ line = header + 2 + Len(rows)
        /\ \A k \in 1..Len(found) : found[k].header + 1 + Len(found[k].rows) < header

SeenInv ==
    \A i \in first..(line - 1) : Tables!StartsTable(i)
        => \/ \E k \in 1..Len(found) : i \in {found[k].header, found[k].header + 1}
           \/ header # 0 /\ i \in {header, header + 1}

ScanInv ==
    /\ GivenInv
    /\ line \in Nat /\ first <= line /\ (line = first \/ line <= last + 1)
    /\ header \in Nat /\ rows \in Seq(Nat)
    /\ FoundInv /\ OpenInv /\ SeenInv
    /\ DOMAIN buckets = {"overdue", "today", "upcoming", "undated"}
    /\ ~done => buckets["upcoming"] = {}
    /\ done => header = 0 /\ line >= last

TablesInv == ScanInv /\ Tables!EveryRowHasItsTable /\ Tables!TouchedTablesAreJudged /\ Tables!NoItemIsSilent

(* What a CHOOSE of the least finds.                                       *)
LEMMA SameCounts == \A S : Tables!IsFiniteSet(S) = IsFiniteSet(S) /\ Tables!Cardinality(S) = Cardinality(S)
  BY Zenon DEF IsFiniteSet, Tables!IsFiniteSet, Cardinality, Tables!Cardinality

LEMMA MinIs ==
  ASSUME NEW S \in SUBSET Nat, S # {}
  PROVE  Tables!Min(S) \in S /\ \A k \in S : Tables!Min(S) <= k
  <1>1. \E m \in S : \A k \in S : m <= k
    BY LeastOne
  <1> QED
    BY <1>1, Zenon DEF Tables!Min

LEMMA MaxOfTwo ==
  ASSUME NEW a \in Int, NEW b \in Int
  PROVE  Tables!Max({a, b}) \in {a, b} /\ Tables!Max({a, b}) >= a /\ Tables!Max({a, b}) >= b
  <1>1. \E x \in {a, b} : \A y \in {a, b} : x >= y
    OBVIOUS
  <1>2. Tables!Max({a, b}) \in {a, b} /\ \A y \in {a, b} : Tables!Max({a, b}) >= y
    BY <1>1, Zenon DEF Tables!Max
  <1> QED
    BY <1>2

(* A line is taken exactly when it carries a separator, heads no table and *)
(* has no bare rule under it.                                              *)
LEMMA TakesIs ==
  ASSUME GivenInv, NEW i \in Nat, i <= last
  PROVE  Takes(i) <=> Tables!HasPipe(i) /\ ~Tables!StartsTable(i) /\ ~Tables!BareRuleUnder(i)
  BY DEF Takes, Tables!HasPipe, Tables!StartsTable, Tables!BareRuleUnder, Tables!IsDelimiterRow, GivenInv

(***************************************************************************)
(* The scan.                                                               *)
(***************************************************************************)

LEMMA TablesStart == Tables!TablesAssumption /\ Tables!Init => TablesInv
  <1> SUFFICES ASSUME Tables!TablesAssumption, Tables!Init PROVE TablesInv
    OBVIOUS
  <1>1. Len(note) \in Nat /\ DOMAIN note = 1..Len(note)
    BY DEF Tables!Init, Tables!TablesAssumption
  <1>2. ~done /\ header = 0 /\ rows = <<>> /\ found = <<>> /\ line = first
    BY DEF Tables!Init
  <1>3. /\ first \in Nat \ {0} /\ last \in Nat /\ last <= Len(note)
        /\ SectionInv
    <2>1. CASE reader = "tables"
      BY <1>1, <2>1 DEF Tables!Init, SectionInv
    <2>2. CASE reader # "tables" /\ Tables!HeadingsOf(note) = {}
      BY <1>1, <2>2 DEF Tables!Init, SectionInv
    <2>3. CASE reader # "tables" /\ Tables!HeadingsOf(note) # {}
      <3> DEFINE start == Tables!Min(Tables!HeadingsOf(note))
                 ends == {i \in (start + 1)..Len(note) : note[i] \in {Tables!Heading, Tables!Above}}
      <3>1. Tables!HeadingsOf(note) \in SUBSET Nat /\ Tables!HeadingsOf(note) \subseteq 1..Len(note)
        BY <1>1 DEF Tables!HeadingsOf
      <3>2. start \in Tables!HeadingsOf(note) /\ \A k \in Tables!HeadingsOf(note) : start <= k
        BY <3>1, <2>3, MinIs
      <3>3. start \in 1..Len(note)
        BY <3>1, <3>2
      <3>4. first = start + 1 /\ last = IF ends = {} THEN Len(note) ELSE Tables!Min(ends) - 1
        BY <2>3 DEF Tables!Init, Tables!SectionUnder
      <3>5. ends # {} => Tables!Min(ends) \in ends
        <4>1. ends \in SUBSET Nat
          BY <1>1, <3>3
        <4> HIDE DEF ends
        <4> QED
          BY <4>1, MinIs
      <3>6. start <= last /\ last <= Len(note) /\ last \in Nat
        <4>1. CASE ends = {}
          BY <4>1, <3>3, <3>4, <1>1
        <4>2. CASE ends # {}
          <5>1. Tables!Min(ends) \in (start + 1)..Len(note)
            BY <4>2, <3>5
          <5>2. last = Tables!Min(ends) - 1
            BY <4>2, <3>4
          <5> HIDE DEF ends, start
          <5> QED
            BY <5>1, <5>2, <3>3, <1>1
        <4> QED
          BY <4>1, <4>2
      <3>7. first \in Nat \ {0}
        BY <3>3, <3>4
      <3> HIDE DEF start
      <3> QED
        BY <3>2, <3>4, <3>6, <3>7 DEF SectionInv
    <2> QED
      BY <2>1, <2>2, <2>3
  <1>4. FoundInv /\ OpenInv /\ SeenInv
    BY <1>2, <1>3 DEF FoundInv, OpenInv, SeenInv
  <1>5. DOMAIN buckets = {"overdue", "today", "upcoming", "undated"} /\ buckets["upcoming"] = {}
    BY DEF Tables!Init
  <1>6. ScanInv
    BY <1>1, <1>2, <1>3, <1>4, <1>5 DEF ScanInv, GivenInv
  <1> QED
    BY <1>2, <1>6 DEF TablesInv, Tables!EveryRowHasItsTable, Tables!TouchedTablesAreJudged, Tables!NoItemIsSilent

(* While the scan goes on nothing is said, and the text is what it was.    *)
LEMMA GivenStays ==
  ASSUME GivenInv, UNCHANGED Tables!given
  PROVE  /\ GivenInv'
         /\ \A i \in Nat : (Tables!StartsTable(i)' <=> Tables!StartsTable(i)) /\ (Takes(i)' <=> Takes(i))
         /\ \A h, rs : Block(h, rs)' <=> Block(h, rs)
  <1>1. GivenInv'
    BY DEF GivenInv, SectionInv, Tables!HeadingsOf, Tables!given
  <1>2. \A i \in Nat : (Tables!StartsTable(i)' <=> Tables!StartsTable(i)) /\ (Takes(i)' <=> Takes(i))
    BY DEF Tables!StartsTable, Takes, Tables!HasPipe, Tables!IsDelimiterRow, Tables!given
  <1>3. \A h, rs : Block(h, rs)' <=> Block(h, rs)
    BY DEF Block, Tables!StartsTable, Takes, Tables!HasPipe, Tables!IsDelimiterRow, Tables!given
  <1> QED
    BY <1>1, <1>2, <1>3

LEMMA FoundStays ==
  ASSUME FoundInv, UNCHANGED Tables!given, found' = found, line \in Nat, line' \in Nat, line <= line'
  PROVE  FoundInv'
  <1>1. ASSUME NEW k \in 1..Len(found)
        PROVE  /\ Block(found[k].header, found[k].rows)
               /\ ~Takes(found[k].header + 2 + Len(found[k].rows))
               /\ found[k].header + 2 + Len(found[k].rows) <= line'
    <2>1. found[k] \in [header : Nat, rows : Seq(Nat)]
      BY ElementOfSeq DEF FoundInv
    <2>2. /\ Block(found[k].header, found[k].rows)
          /\ ~Takes(found[k].header + 2 + Len(found[k].rows))
          /\ found[k].header + 2 + Len(found[k].rows) <= line
      BY DEF FoundInv
    <2>3. found[k].header + 2 + Len(found[k].rows) \in Nat
      BY <2>1
    <2> QED
      BY <2>2, <2>3
  <1>2. (\A k \in 1..Len(found) : Block(found[k].header, found[k].rows))'
    BY <1>1 DEF Block, Tables!StartsTable, Takes, Tables!HasPipe, Tables!IsDelimiterRow, Tables!given
  <1>3. (\A k \in 1..Len(found) : ~Takes(found[k].header + 2 + Len(found[k].rows)))'
    BY <1>1 DEF Takes, Tables!HasPipe, Tables!IsDelimiterRow, Tables!given
  <1>4. (\A k \in 1..Len(found) : found[k].header + 2 + Len(found[k].rows) <= line)'
    BY <1>1
  <1>5. /\ found' \in Seq([header : Nat, rows : Seq(Nat)])
        /\ (\A j, k \in 1..Len(found) : j < k => found[j].header + 1 + Len(found[j].rows) < found[k].header)'
    BY DEF FoundInv
  <1> QED
    BY <1>2, <1>3, <1>4, <1>5, Zenon DEF FoundInv

LEMMA ScanSteps ==
  ASSUME ScanInv, Tables!Skip \/ Tables!Open \/ Tables!Row \/ Tables!Close
  PROVE  ScanInv' /\ ~done'
  <1>1. ~done' /\ UNCHANGED Tables!given /\ UNCHANGED buckets
    BY DEF Tables!Skip, Tables!Open, Tables!Row, Tables!Close, Tables!Scanning
  <1>2. /\ GivenInv'
        /\ \A i \in Nat : (Tables!StartsTable(i)' <=> Tables!StartsTable(i)) /\ (Takes(i)' <=> Takes(i))
        /\ \A h, rs : Block(h, rs)' <=> Block(h, rs)
    BY <1>1, GivenStays DEF ScanInv
  <1>3. first' = first /\ last' = last /\ note' = note
    BY <1>1 DEF Tables!given
  <1>4. first \in Nat \ {0} /\ last \in Nat /\ line \in Nat /\ first <= line /\ (line = first \/ line <= last + 1)
        /\ header \in Nat /\ rows \in Seq(Nat)
    BY DEF ScanInv, GivenInv
  <1>5. ASSUME NEW k \in 1..Len(found)
        PROVE  found[k].header \in Nat /\ found[k].rows \in Seq(Nat) /\ Len(found[k].rows) \in Nat
    <2>1. found \in Seq([header : Nat, rows : Seq(Nat)])
      BY DEF ScanInv, FoundInv
    <2>2. found[k] \in [header : Nat, rows : Seq(Nat)]
      BY <2>1, ElementOfSeq
    <2> QED
      BY <2>2
  <1>6. Len(found) \in Nat /\ Len(rows) \in Nat
    BY <1>4 DEF ScanInv, FoundInv
  <1>7. CASE Tables!Skip
    <2>1. header = 0 /\ line < last /\ ~Tables!StartsTable(line) /\ line' = line + 1 /\ UNCHANGED <<header, rows, found>>
      BY <1>7 DEF Tables!Skip
    <2>2. FoundInv'
      BY <1>1, <1>4, <2>1, FoundStays DEF ScanInv
    <2>3. OpenInv'
      BY <2>1 DEF OpenInv
    <2>4. SeenInv'
      <3> SUFFICES ASSUME NEW i \in first..line, Tables!StartsTable(i)
                   PROVE  \E k \in 1..Len(found) : i \in {found[k].header, found[k].header + 1}
        BY <2>1, <1>2, <1>3, <1>4 DEF SeenInv
      <3>1. i # line
        BY <2>1
      <3>2. i \in first..(line - 1)
        BY <3>1, <1>4
      <3> QED
        BY <3>2, <2>1 DEF ScanInv, SeenInv
    <2> QED
      BY <1>1, <1>2, <1>3, <1>4, <2>1, <2>2, <2>3, <2>4 DEF ScanInv
  <1>8. CASE Tables!Open
    <2>1. header = 0 /\ line < last /\ Tables!StartsTable(line) /\ header' = line /\ rows' = <<>> /\ line' = line + 2 /\ found' = found
      BY <1>8 DEF Tables!Open
    <2>2. FoundInv'
      BY <1>1, <1>4, <2>1, FoundStays DEF ScanInv
    <2>3. OpenInv'
      <3>1. Block(line, <<>>)
        BY <2>1, <1>4 DEF Block
      <3>2. ASSUME NEW k \in 1..Len(found) PROVE found[k].header + 1 + Len(found[k].rows) < line
        <4>1. found[k].header + 2 + Len(found[k].rows) <= line
          BY DEF ScanInv, FoundInv
        <4> QED
          BY <4>1, <1>4, <1>5
      <3> QED
        BY <2>1, <1>2, <1>4, <3>1, <3>2 DEF OpenInv
    <2>4. SeenInv'
      <3> SUFFICES ASSUME NEW i \in first..(line + 1), Tables!StartsTable(i)
                   PROVE  \/ \E k \in 1..Len(found) : i \in {found[k].header, found[k].header + 1}
                          \/ line # 0 /\ i \in {line, line + 1}
        BY <2>1, <1>2, <1>3, <1>4 DEF SeenInv
      <3>1. CASE i \in first..(line - 1)
        BY <3>1, <2>1 DEF ScanInv, SeenInv
      <3>2. CASE i \in {line, line + 1}
        BY <3>2, <1>4
      <3> QED
        BY <3>1, <3>2, <1>4
    <2> QED
      BY <1>1, <1>2, <1>3, <1>4, <2>1, <2>2, <2>3, <2>4 DEF ScanInv
  <1>9. CASE Tables!Row
    <2>1. header # 0 /\ Tables!TakesRow /\ rows' = Append(rows, line) /\ line' = line + 1 /\ header' = header /\ found' = found
      BY <1>9 DEF Tables!Row
    <2>2. FoundInv'
      BY <1>1, <1>4, <2>1, FoundStays DEF ScanInv
    <2>3. Takes(line) /\ line <= last
      BY <2>1 DEF Tables!TakesRow, Takes
    <2>4. Block(header, rows) /\ line = header + 2 + Len(rows)
      BY <2>1 DEF ScanInv, OpenInv
    <2>5. /\ rows' \in Seq(Nat) /\ Len(rows') = Len(rows) + 1
          /\ rows'[Len(rows) + 1] = line /\ \A j \in 1..Len(rows) : rows'[j] = rows[j]
      BY <2>1, <1>4
    <2>6. Block(header, rows')
      <3>1. ASSUME NEW j \in 1..Len(rows') PROVE rows'[j] = header + 1 + j /\ Takes(header + 1 + j)
        <4>1. CASE j = Len(rows) + 1
          <5>1. header + 1 + j = line
            BY <4>1, <2>4, <1>4, <1>6
          <5> QED
            BY <4>1, <5>1, <2>3, <2>5
        <4>2. CASE j # Len(rows) + 1
          <5>1. j \in 1..Len(rows)
            BY <4>2, <2>5, <1>6
          <5> QED
            BY <5>1, <2>4, <2>5 DEF Block
        <4> QED
          BY <4>1, <4>2
      <3> QED
        BY <3>1, <2>4, <2>5 DEF Block
    <2>7. OpenInv'
      <3>1. line' = header' + 2 + Len(rows')
        BY <2>1, <2>4, <2>5, <1>4, <1>6
      <3>2. Block(header, rows)'
        BY <2>1, <2>6, <1>3 DEF Block, Tables!StartsTable, Takes, Tables!HasPipe, Tables!IsDelimiterRow
      <3>3. (\A k \in 1..Len(found) : found[k].header + 1 + Len(found[k].rows) < header)'
        BY <2>1 DEF ScanInv, OpenInv
      <3> QED
        BY <3>1, <3>2, <3>3 DEF OpenInv
    <2>8. SeenInv'
      <3> SUFFICES ASSUME NEW i \in first..line, Tables!StartsTable(i)
                   PROVE  \/ \E k \in 1..Len(found) : i \in {found[k].header, found[k].header + 1}
                          \/ header # 0 /\ i \in {header, header + 1}
        BY <2>1, <1>2, <1>3, <1>4 DEF SeenInv
      <3>1. ~Tables!StartsTable(line)
        BY <2>3, <1>4, TakesIs DEF ScanInv
      <3>2. i \in first..(line - 1)
        BY <3>1, <1>4
      <3> QED
        BY <3>2, <2>1 DEF ScanInv, SeenInv
    <2> QED
      BY <1>1, <1>2, <1>3, <1>4, <2>1, <2>2, <2>3, <2>5, <2>7, <2>8 DEF ScanInv
  <1>10. CASE Tables!Close
    <2>1. /\ header # 0 /\ ~Tables!TakesRow /\ header' = 0 /\ UNCHANGED <<line, rows>>
          /\ found' = Append(found, [header |-> header, rows |-> rows])
      BY <1>10 DEF Tables!Close
    <2> DEFINE t == [header |-> header, rows |-> rows]
    <2>2. t \in [header : Nat, rows : Seq(Nat)] /\ t.header = header /\ t.rows = rows
      BY <1>4
    <2>3. /\ found' \in Seq([header : Nat, rows : Seq(Nat)]) /\ Len(found') = Len(found) + 1
          /\ found'[Len(found) + 1] = t /\ \A k \in 1..Len(found) : found'[k] = found[k]
      BY <2>1, <2>2 DEF ScanInv, FoundInv
    <2>4. /\ Block(header, rows) /\ line = header + 2 + Len(rows)
          /\ \A k \in 1..Len(found) : found[k].header + 1 + Len(found[k].rows) < header
      BY <2>1 DEF ScanInv, OpenInv
    <2>5. ~Takes(line)
      BY <2>1 DEF Tables!TakesRow, Takes
    <2> HIDE DEF t
    <2>6. FoundInv'
      <3>1. ASSUME NEW k \in 1..Len(found')
            PROVE  /\ Block(found'[k].header, found'[k].rows)
                   /\ ~Takes(found'[k].header + 2 + Len(found'[k].rows))
                   /\ found'[k].header + 2 + Len(found'[k].rows) <= line
        <4>1. CASE k = Len(found) + 1
          BY <4>1, <2>2, <2>3, <2>4, <2>5, <1>4
        <4>2. CASE k # Len(found) + 1
          <5>1. k \in 1..Len(found)
            BY <4>2, <2>3, <1>6
          <5> QED
            BY <5>1, <2>3 DEF ScanInv, FoundInv
        <4> QED
          BY <4>1, <4>2
      <3>2. ASSUME NEW j \in 1..Len(found'), NEW k \in 1..Len(found'), j < k
            PROVE  found'[j].header + 1 + Len(found'[j].rows) < found'[k].header
        <4>1. j \in 1..Len(found)
          BY <3>2, <2>3, <1>6
        <4>2. CASE k = Len(found) + 1
          BY <4>1, <4>2, <2>2, <2>3, <2>4
        <4>3. CASE k # Len(found) + 1
          <5>1. k \in 1..Len(found)
            BY <4>3, <2>3, <1>6
          <5> QED
            BY <5>1, <4>1, <3>2, <2>3 DEF ScanInv, FoundInv
        <4> QED
          BY <4>2, <4>3
      <3>3. /\ found' \in Seq([header : Nat, rows : Seq(Nat)])
            /\ \A j, k \in 1..Len(found') : j < k => found'[j].header + 1 + Len(found'[j].rows) < found'[k].header
        BY <3>2, <2>3
      <3>4. (\A k \in 1..Len(found) : Block(found[k].header, found[k].rows))'
        BY <3>1, <1>3 DEF Block, Tables!StartsTable, Takes, Tables!HasPipe, Tables!IsDelimiterRow
      <3>5. (\A k \in 1..Len(found) : ~Takes(found[k].header + 2 + Len(found[k].rows)))'
        BY <3>1, <1>3 DEF Takes, Tables!HasPipe, Tables!IsDelimiterRow
      <3>6. (\A k \in 1..Len(found) : found[k].header + 2 + Len(found[k].rows) <= line)'
        BY <3>1, <2>1
      <3> QED
        BY <3>3, <3>4, <3>5, <3>6, Zenon DEF FoundInv
    <2>7. OpenInv'
      BY <2>1 DEF OpenInv
    <2>8. SeenInv'
      <3> SUFFICES ASSUME NEW i \in first..(line - 1), Tables!StartsTable(i)
                   PROVE  \E k \in 1..Len(found') : i \in {found'[k].header, found'[k].header + 1}
        BY <2>1, <1>2, <1>3, <1>4 DEF SeenInv
      <3>1. \/ \E k \in 1..Len(found) : i \in {found[k].header, found[k].header + 1}
            \/ i \in {header, header + 1}
        BY DEF ScanInv, SeenInv
      <3>2. CASE \E k \in 1..Len(found) : i \in {found[k].header, found[k].header + 1}
        BY <3>2, <2>3, <1>6
      <3>3. CASE i \in {header, header + 1}
        <4>1. Len(found) + 1 \in 1..Len(found')
          BY <2>3, <1>6
        <4> QED
          BY <4>1, <3>3, <2>2, <2>3
      <3> QED
        BY <3>1, <3>2, <3>3
    <2> QED
      BY <1>1, <1>2, <1>3, <1>4, <2>1, <2>6, <2>7, <2>8 DEF ScanInv
  <1> QED
    BY <1>7, <1>8, <1>9, <1>10

(***************************************************************************)
(* What is said of the tables.                                             *)
(***************************************************************************)

LinesOf(table) == {table.header, table.header + 1} \cup Tables!ToSet(table.rows)

(* The rows of a table that was found.                                     *)
LEMMA RowsAre ==
  ASSUME ScanInv, NEW k \in 1..Len(found)
  PROVE  /\ found[k].header \in Nat /\ found[k].rows \in Seq(Nat) /\ Len(found[k].rows) \in Nat
         /\ \A j \in 1..Len(found[k].rows) : found[k].rows[j] = found[k].header + 1 + j
         /\ first <= found[k].header /\ found[k].header < last
         /\ Tables!ToSet(found[k].rows) = (found[k].header + 2)..(found[k].header + 1 + Len(found[k].rows))
         /\ Tables!ToSet(found[k].rows) =
                {r \in Tables!RowsUnder(found[k]) : ~\E i \in Tables!RowsUnder(found[k]) : i <= r /\ Tables!BareRuleUnder(i)}
  <1>1. PICK h, rs : h = found[k].header /\ rs = found[k].rows
    OBVIOUS
  <1>2. /\ h \in Nat /\ rs \in Seq(Nat) /\ first <= h /\ Tables!StartsTable(h) /\ ~Takes(h + 2 + Len(rs))
        /\ \A j \in 1..Len(rs) : rs[j] = h + 1 + j /\ Takes(h + 1 + j)
    BY <1>1 DEF ScanInv, FoundInv, Block
  <1>3. PICK n \in Nat : n = Len(rs)
    BY <1>2
  <1>4. last \in Nat /\ h < last
    BY <1>2 DEF ScanInv, GivenInv, Tables!StartsTable
  <1>5. Tables!ToSet(rs) = (h + 2)..(h + 1 + n)
    <2>1. DOMAIN rs = 1..n
      BY <1>2, <1>3
    <2>2. ASSUME NEW r \in (h + 2)..(h + 1 + n) PROVE r \in Tables!ToSet(rs)
      <3>1. PICK j \in 1..n : r = h + 1 + j
        <4>1. r - h - 1 \in 1..n /\ r = h + 1 + (r - h - 1)
          BY <1>2, <1>3
        <4> QED
          BY <4>1
      <3>2. rs[j] = r
        BY <3>1, <1>2, <1>3
      <3> QED
        BY <2>1, <3>2 DEF Tables!ToSet
    <2>3. ASSUME NEW j \in 1..n PROVE rs[j] \in (h + 2)..(h + 1 + n)
      BY <1>2, <1>3
    <2> QED
      BY <2>1, <2>2, <2>3 DEF Tables!ToSet
  <1>6. \A i \in (h + 2)..(h + 1 + n) : Takes(i)
    <2> TAKE i \in (h + 2)..(h + 1 + n)
    <2>1. i - h - 1 \in 1..n /\ h + 1 + (i - h - 1) = i
      BY <1>2
    <2> QED
      BY <2>1, <1>2, <1>3
  <1>7. Tables!RowsUnder(found[k]) = {r \in (h + 2)..last : \A i \in (h + 2)..r : Tables!HasPipe(i) /\ ~Tables!StartsTable(i)}
    BY <1>1 DEF Tables!RowsUnder
  <1>8. GivenInv
    BY DEF ScanInv
  <1>9. ASSUME NEW r \in (h + 2)..(h + 1 + n)
        PROVE  r \in Tables!RowsUnder(found[k]) /\ ~\E i \in Tables!RowsUnder(found[k]) : i <= r /\ Tables!BareRuleUnder(i)
    <2>1. \A i \in (h + 2)..r : i \in Nat /\ i <= last /\ Tables!HasPipe(i) /\ ~Tables!StartsTable(i) /\ ~Tables!BareRuleUnder(i)
      <3> TAKE i \in (h + 2)..r
      <3>1. i \in Nat /\ i \in (h + 2)..(h + 1 + n)
        BY <1>2
      <3>2. Takes(i) /\ i <= last
        BY <3>1, <1>6 DEF Takes
      <3> QED
        BY <3>1, <3>2, <1>8, TakesIs
    <2>2. r \in (h + 2)..last
      BY <2>1, <1>2
    <2>3. \A i \in Tables!RowsUnder(found[k]) : i <= r => i \in (h + 2)..r
      BY <1>7, <1>2
    <2> QED
      BY <1>7, <2>1, <2>2, <2>3
  <1>10. ASSUME NEW r \in Tables!RowsUnder(found[k]), ~\E i \in Tables!RowsUnder(found[k]) : i <= r /\ Tables!BareRuleUnder(i)
         PROVE  r \in (h + 2)..(h + 1 + n)
    <2> SUFFICES ASSUME ~(r <= h + 1 + n) PROVE FALSE
      BY <1>7, <1>2, <1>4
    <2> DEFINE q == h + 2 + n
    <2>1. r \in (h + 2)..last /\ \A i \in (h + 2)..r : Tables!HasPipe(i) /\ ~Tables!StartsTable(i)
      BY <1>7
    <2>2. q \in Nat /\ q <= r /\ q <= last /\ q \in (h + 2)..r /\ q \in (h + 2)..last /\ (h + 2)..q \subseteq (h + 2)..r
      BY <2>1, <1>2, <1>4
    <2>3. q \in Tables!RowsUnder(found[k])
      BY <2>1, <2>2, <1>7
    <2>4. Takes(q)
      BY <2>1, <2>2, <2>3, <1>8, <1>10, TakesIs
    <2> QED
      BY <2>4, <1>2, <1>3
  <1>11. {r \in Tables!RowsUnder(found[k]) : ~\E i \in Tables!RowsUnder(found[k]) : i <= r /\ Tables!BareRuleUnder(i)} = (h + 2)..(h + 1 + n)
    BY <1>9, <1>10
  <1> QED
    BY <1>1, <1>2, <1>3, <1>4, <1>5, <1>11

(* No line is of two tables.                                               *)
LEMMA TablesApart ==
  ASSUME ScanInv, NEW j \in 1..Len(found), NEW k \in 1..Len(found), NEW i \in LinesOf(found[j]), i \in LinesOf(found[k])
  PROVE  j = k
  <1>1. Len(found) \in Nat
    BY DEF ScanInv, FoundInv
  <1>2. ASSUME NEW m \in 1..Len(found), NEW l \in LinesOf(found[m])
        PROVE  l \in found[m].header..(found[m].header + 1 + Len(found[m].rows)) /\ found[m].header \in Nat /\ Len(found[m].rows) \in Nat
    <2>1. /\ found[m].header \in Nat /\ Len(found[m].rows) \in Nat
          /\ Tables!ToSet(found[m].rows) = (found[m].header + 2)..(found[m].header + 1 + Len(found[m].rows))
      BY RowsAre
    <2> QED
      BY <2>1 DEF LinesOf
  <1>3. i \in found[j].header..(found[j].header + 1 + Len(found[j].rows)) /\ found[j].header \in Nat /\ Len(found[j].rows) \in Nat
    BY <1>2
  <1>4. i \in found[k].header..(found[k].header + 1 + Len(found[k].rows)) /\ found[k].header \in Nat /\ Len(found[k].rows) \in Nat
    BY <1>2
  <1>5. \A a, b \in 1..Len(found) : a < b => found[a].header + 1 + Len(found[a].rows) < found[b].header
    BY DEF ScanInv, FoundInv
  <1>6. PICK a \in Nat, b \in Nat, c \in Nat, d \in Nat :
            /\ a = found[j].header /\ b = Len(found[j].rows)
            /\ c = found[k].header /\ d = Len(found[k].rows)
    BY <1>3, <1>4
  <1>7. i \in a..(a + 1 + b) /\ i \in c..(c + 1 + d) /\ (j < k => a + 1 + b < c) /\ (k < j => c + 1 + d < a)
    BY <1>3, <1>4, <1>5, <1>6
  <1>8. ~(j < k) /\ ~(k < j)
    BY <1>7
  <1> QED
    BY <1>1, <1>8

(* Every header was seen, and every row of it.                             *)
LEMMA AllRows ==
  ASSUME ScanInv, header = 0, line >= last
  PROVE  /\ \A i \in first..last : Tables!StartsTable(i) /\ i \notin Tables!Delimiters => \E k \in DOMAIN found : found[k].header = i
         /\ \A k \in DOMAIN found :
              Tables!ToSet(found[k].rows) = {r \in Tables!RowsUnder(found[k]) : ~\E i \in Tables!RowsUnder(found[k]) : i <= r /\ Tables!BareRuleUnder(i)}
  <1>1. DOMAIN found = 1..Len(found)
    BY DEF ScanInv, FoundInv
  <1>2. ASSUME NEW i \in first..last, Tables!StartsTable(i), i \notin Tables!Delimiters
        PROVE  \E k \in DOMAIN found : found[k].header = i
    <2>1. i \in first..(line - 1)
      BY <1>2 DEF Tables!StartsTable, ScanInv, GivenInv
    <2>2. PICK k \in 1..Len(found) : i \in {found[k].header, found[k].header + 1}
      BY <1>2, <2>1 DEF ScanInv, SeenInv
    <2> QED
      BY <1>1, <1>2, <2>2 DEF Tables!Delimiters
  <1> QED
    BY <1>1, <1>2, RowsAre

LEMMA JudgesWhole ==
  ASSUME ScanInv, Tables!Judge, NEW k \in 1..Len(found)
  PROVE  LET lines == LinesOf(found[k])
             touched == added = Unscoped \/ lines \cap added # {}
         IN  /\ touched => \A r, s \in Tables!ToSet(found[k].rows) :
                 r < s /\ note[r] = note[s] => Tables!Finding(s, "duplicate") \in findings'
             /\ ~touched => \A f \in findings' : f.line \notin lines
  <1> DEFINE touched == added = Unscoped \/ LinesOf(found[k]) \cap added # {}
  <1>1. findings' = UNION {Tables!MissingBlankLine(t) \cup Tables!DuplicateRows(t) \cup Tables!CellsTooLong(t) : t \in {t \in Tables!ToSet(found) : Tables!InScope(t)}}
    BY DEF Tables!Judge
  <1>2. DOMAIN found = 1..Len(found) /\ Tables!ToSet(found) = {found[j] : j \in 1..Len(found)}
    BY DEF ScanInv, FoundInv, Tables!ToSet
  <1>3. \A j \in 1..Len(found) : Tables!InScope(found[j]) <=> (added = Unscoped \/ LinesOf(found[j]) \cap added # {})
    BY Zenon DEF Tables!InScope, Tables!LineIsInScope, LinesOf
  <1>4. ASSUME touched, NEW r \in Tables!ToSet(found[k].rows), NEW s \in Tables!ToSet(found[k].rows), r < s, note[r] = note[s]
        PROVE  Tables!Finding(s, "duplicate") \in findings'
    <2>1. PICK a \in DOMAIN found[k].rows, b \in DOMAIN found[k].rows : found[k].rows[a] = r /\ found[k].rows[b] = s
      BY Zenon DEF Tables!ToSet
    <2>2. found[k].rows \in Seq(Nat) /\ found[k].header \in Nat /\ \A j \in 1..Len(found[k].rows) : found[k].rows[j] = found[k].header + 1 + j
      BY RowsAre
    <2>3. a \in Nat /\ b \in Nat /\ r = found[k].header + 1 + a /\ s = found[k].header + 1 + b /\ 1 <= a
      <3>1. a \in 1..Len(found[k].rows) /\ b \in 1..Len(found[k].rows)
        BY <2>1, <2>2
      <3> QED
        BY <2>1, <2>2, <3>1
    <2>4. a \in 1..(b - 1)
      BY <2>2, <2>3, <1>4
    <2>5. Tables!Finding(s, "duplicate") \in Tables!DuplicateRows(found[k])
      BY <2>1, <2>4, <1>4, Zenon DEF Tables!DuplicateRows
    <2>6. found[k] \in {t \in Tables!ToSet(found) : Tables!InScope(t)}
      BY <1>2, <1>3, <1>4
    <2> QED
      <3> DEFINE all == {t \in Tables!ToSet(found) : Tables!InScope(t)}
      <3>1. \A t \in all : Tables!DuplicateRows(t) \subseteq UNION {Tables!MissingBlankLine(u) \cup Tables!DuplicateRows(u) \cup Tables!CellsTooLong(u) : u \in all}
        OBVIOUS
      <3> QED
        BY <1>1, <2>5, <2>6, <3>1
  <1>5. ASSUME ~touched, NEW f \in findings' PROVE f.line \notin LinesOf(found[k])
    <2>1. PICK j \in 1..Len(found) : Tables!InScope(found[j]) /\ f \in (Tables!MissingBlankLine(found[j]) \cup Tables!DuplicateRows(found[j]) \cup Tables!CellsTooLong(found[j]))
      <3>1. PICK t \in {t \in Tables!ToSet(found) : Tables!InScope(t)} : f \in (Tables!MissingBlankLine(t) \cup Tables!DuplicateRows(t) \cup Tables!CellsTooLong(t))
        BY <1>1, Zenon
      <3> QED
        BY <3>1, <1>2, Zenon
    <2>2. f.line \in LinesOf(found[j])
      <3>1. CASE f \in Tables!MissingBlankLine(found[j])
        BY <3>1 DEF Tables!MissingBlankLine, Tables!Finding, LinesOf
      <3>2. CASE f \in Tables!DuplicateRows(found[j])
        BY <3>2 DEF Tables!DuplicateRows, Tables!Finding, LinesOf, Tables!ToSet
      <3>3. CASE f \in Tables!CellsTooLong(found[j])
        BY <3>3 DEF Tables!CellsTooLong, Tables!Finding, LinesOf
      <3> QED
        BY <2>1, <3>1, <3>2, <3>3, Zenon
    <2>3. f.line \in LinesOf(found[k]) => j = k
      BY <2>2, TablesApart
    <2> QED
      BY <2>1, <2>3, <1>3, <1>5
  <1> QED
    BY <1>4, <1>5, Zenon

(* What the briefing says of the rows.                                     *)
LEMMA BriefingSpeaks ==
  ASSUME Tables!TablesAssumption, ScanInv, Tables!PendingBuckets
  PROVE  Tables!NoItemIsSilent'
  <1>1. /\ header = 0 /\ line >= last /\ done' /\ reader' = "pending" /\ reader = "pending"
        /\ note' = note /\ first' = first /\ last' = last
    BY DEF Tables!PendingBuckets, Tables!given
  <1>2. DOMAIN note = 1..Len(note) /\ Len(note) \in Nat /\ Tables!HeadingsOf(note) \subseteq 1..Len(note)
    BY DEF ScanInv, GivenInv, Tables!HeadingsOf
  <1>3. Tables!SectionProblems \subseteq problems'
    BY Zenon DEF Tables!PendingBuckets
  <1>4. CASE Tables!HeadingsOf(note) = {}
    <2>1. problems' # {}
      <3>1. <<"heading_missing", 0>> \in Tables!SectionProblems
        BY <1>4, Zenon DEF Tables!SectionProblems
      <3> QED
        BY <3>1, <1>3
    <2>2. buckets' = buckets
      BY <1>4 DEF Tables!PendingBuckets
    <2>3. buckets["upcoming"] = {}
      BY DEF ScanInv, Tables!PendingBuckets
    <2> QED
      BY <1>1, <2>1, <2>2, <2>3, Zenon DEF Tables!NoItemIsSilent, Tables!Said, Tables!DateOf
  <1>5. CASE Tables!HeadingsOf(note) # {}
    <2> DEFINE items == IF found # <<>> /\ note[found[1].header] = Labels THEN Tables!Items(found[1]) ELSE {}
               Of(bucket) == {r \in items : Tables!BucketOf(Tables!DateOf(r)) = bucket}
    <2>1. /\ Tables!TableProblems \subseteq problems'
          /\ buckets' = [bucket \in DOMAIN buckets |-> Of(bucket)]
      BY <1>5, Zenon DEF Tables!PendingBuckets
    <2>2. DOMAIN buckets = {"overdue", "today", "upcoming", "undated"}
      BY DEF ScanInv
    <2>3. \A r : Tables!DateOf(r) = Never \/ Tables!DateOf(r) \in Int
      BY DEF Tables!TablesAssumption, Tables!DateOf
    <2>4. Today \in Int /\ UpcomingDays \in Nat
      BY DEF Tables!TablesAssumption
    <2> HIDE DEF items
    <2>5. \A b \in DOMAIN buckets : buckets'[b] = Of(b)
      BY <2>1
    <2>6. DOMAIN buckets' = DOMAIN buckets
      BY <2>1
    (* A row of the table read is in a bucket, or is due later. *)
    <2>7. ASSUME NEW r \in items
          PROVE  \/ \E b \in DOMAIN buckets : r \in buckets'[b]
                 \/ Tables!DateOf(r) # Never /\ Tables!DateOf(r) > Today + UpcomingDays
      <3>1. CASE Tables!DateOf(r) = Never
        <4>1. Tables!BucketOf(Tables!DateOf(r)) = "undated"
          BY <3>1, Zenon DEF Tables!BucketOf
        <4> QED
          BY <4>1, <2>2, <2>5
      <3>2. CASE Tables!DateOf(r) # Never /\ Tables!DateOf(r) <= Today + UpcomingDays
        <4>1. Tables!BucketOf(Tables!DateOf(r)) = IF Tables!DateOf(r) < Today THEN "overdue"
                                    ELSE IF Tables!DateOf(r) = Today THEN "today"
                                    ELSE IF Tables!DateOf(r) <= Today + UpcomingDays THEN "upcoming" ELSE "later"
          BY <3>2, Zenon DEF Tables!BucketOf
        <4>2. Tables!BucketOf(Tables!DateOf(r)) \in DOMAIN buckets
          BY <4>1, <3>2, <2>2
        <4> QED
          BY <4>2, <2>5
      <3> QED
        BY <3>1, <3>2, <2>3, <2>4
    <2>8. \A r \in buckets'["upcoming"] : Tables!DateOf(r) \in (Today + 1)..(Today + UpcomingDays)
      <3>1. TAKE r \in buckets'["upcoming"]
      <3>2. Tables!BucketOf(Tables!DateOf(r)) = "upcoming"
        BY <2>2, <2>5
      <3>3. Tables!DateOf(r) # Never
        BY <3>2, Zenon DEF Tables!BucketOf
      <3>4. Tables!BucketOf(Tables!DateOf(r)) = IF Tables!DateOf(r) < Today THEN "overdue"
                                  ELSE IF Tables!DateOf(r) = Today THEN "today"
                                  ELSE IF Tables!DateOf(r) <= Today + UpcomingDays THEN "upcoming" ELSE "later"
        BY <3>3, Zenon DEF Tables!BucketOf
      <3> QED
        BY <3>2, <3>3, <3>4, <2>3, <2>4
    <2>9. PICK start \in Tables!HeadingsOf(note) : first = start + 1 /\ start <= last /\ \A i \in Tables!HeadingsOf(note) : start <= i
      BY <1>1, <1>5 DEF ScanInv, GivenInv, SectionInv
    <2>10. \A i \in DOMAIN note : note[i] = Tables!Heading /\ i < first - 1 => problems' # {}
      BY <2>9, <1>2 DEF Tables!HeadingsOf
    <2>11. ASSUME NEW i \in DOMAIN note, note[i] = Tables!Heading, i > last PROVE problems' # {}
      <3>1. i \in Tables!HeadingsOf(note) /\ i # start
        <4>1. i \in Tables!HeadingsOf(note)
          BY <2>11 DEF Tables!HeadingsOf
        <4>2. i \in Nat /\ start \in Nat /\ last \in Nat
          BY <4>1, <1>2 DEF ScanInv, GivenInv
        <4> QED
          BY <4>1, <4>2, <2>9, <2>11
      <3>2. Tables!Cardinality(Tables!HeadingsOf(note)) > 1
        <4>1. Tables!IsFiniteSet(1..Len(note))
          <5>1. 1 \in Int /\ Len(note) \in Int
            BY <1>2
          <5> QED
            BY <5>1, SameCounts, FS_Interval
        <4>2. Tables!IsFiniteSet(Tables!HeadingsOf(note))
          BY <4>1, <1>2, SameCounts, FS_Subset
        <4>3. Tables!Cardinality(Tables!HeadingsOf(note)) \in Nat
          BY <4>2, SameCounts, FS_CardinalityType
        <4>4. Tables!Cardinality(Tables!HeadingsOf(note)) # 0
          BY <4>2, <3>1, SameCounts, FS_EmptySet
        <4>5. Tables!Cardinality(Tables!HeadingsOf(note)) # 1
          <5>1. Tables!Cardinality(Tables!HeadingsOf(note)) = 1 <=> \E x : Tables!HeadingsOf(note) = {x}
            BY <4>2, SameCounts, FS_Singleton
          <5> QED
            BY <5>1, <3>1, <2>9
        <4> QED
          BY <4>3, <4>4, <4>5
      <3>3. <<"heading_repeated", 0>> \in Tables!SectionProblems
        BY <3>2, Zenon DEF Tables!SectionProblems
      <3> QED
        BY <3>3, <1>3
    <2>12. ASSUME NEW i \in DOMAIN note, Tables!StartsTable(i), i \in first..last, note[i] = Labels,
                  NEW r \in Tables!RowsUnder([header |-> i])
           PROVE  \/ problems' # {} \/ \E b \in DOMAIN buckets : r \in buckets'[b]
                  \/ note[r] \in Empty \/ (\E j \in (i + 2)..r : Tables!BareRuleUnder(j))
                  \/ Tables!DateOf(r) # Never /\ Tables!DateOf(r) > Today + UpcomingDays
      <3>1. DOMAIN found = 1..Len(found) /\ Len(found) \in Nat
        BY DEF ScanInv, FoundInv
      <3>2. i \notin Tables!Delimiters
        <4> SUFFICES ASSUME i \in Tables!Delimiters PROVE FALSE
          OBVIOUS
        <4>1. PICK k \in 1..Len(found) : i = found[k].header + 1
          BY <3>1 DEF Tables!Delimiters
        <4>2. Tables!StartsTable(found[k].header)
          BY DEF ScanInv, FoundInv, Block
        <4>3. note[i] \in {Tables!Delimiter, Tables!Rule}
          BY <4>1, <4>2 DEF Tables!StartsTable, Tables!IsDelimiterRow
        <4> QED
          BY <4>3, <2>12 DEF Tables!TablesAssumption
      <3>3. PICK k \in 1..Len(found) : found[k].header = i
        BY <1>1, <2>12, <3>1, <3>2, AllRows
      <3>4. CASE Len(found) > 1
        <4>1. <<"tables_ignored", 0>> \in Tables!TableProblems
          BY <3>4, Zenon DEF Tables!TableProblems
        <4> QED
          BY <4>1, <2>1
      <3>5. CASE ~(Len(found) > 1)
        <4>1. k = 1 /\ found # <<>>
          BY <3>1, <3>5
        <4>2. items = Tables!Items(found[1])
          BY <4>1, <3>3, <2>12 DEF items
        <4>3. Tables!RowsUnder([header |-> i]) = Tables!RowsUnder(found[k])
          BY <3>3 DEF Tables!RowsUnder
        <4>4. Tables!ToSet(found[k].rows) = {x \in Tables!RowsUnder(found[k]) : ~\E j \in Tables!RowsUnder(found[k]) : j <= x /\ Tables!BareRuleUnder(j)}
          BY RowsAre
        <4>5. CASE \E j \in Tables!RowsUnder(found[k]) : j <= r /\ Tables!BareRuleUnder(j)
          <5>1. PICK j \in Tables!RowsUnder(found[k]) : j <= r /\ Tables!BareRuleUnder(j)
            BY <4>5
          <5>2. j \in (i + 2)..r
            <6>1. i \in Nat /\ last \in Nat
              BY <1>2 DEF ScanInv, GivenInv
            <6>2. j \in (i + 2)..last /\ r \in (i + 2)..last
              BY <3>3, <4>3 DEF Tables!RowsUnder
            <6> QED
              BY <6>1, <6>2, <5>1
          <5> QED
            BY <5>1, <5>2
        <4>6. CASE ~\E j \in Tables!RowsUnder(found[k]) : j <= r /\ Tables!BareRuleUnder(j)
          <5>1. r \in Tables!ToSet(found[k].rows)
            BY <4>3, <4>4, <4>6
          <5>2. note[r] \notin Empty => r \in items
            BY <5>1, <4>1, <4>2 DEF Tables!Items
          <5> QED
            BY <5>2, <2>7
        <4> QED
          BY <4>5, <4>6
      <3> QED
        BY <3>4, <3>5
    <2>13. \A r : (Tables!Said(r))' <=> problems' # {} \/ \E b \in DOMAIN buckets : r \in buckets'[b]
      BY <2>6, Zenon DEF Tables!Said
    <2> HIDE DEF Of
    <2> QED
      BY <1>1, <2>8, <2>10, <2>11, <2>12, <2>13
         DEF Tables!NoItemIsSilent, Tables!StartsTable, Tables!HasPipe, Tables!IsDelimiterRow, Tables!RowsUnder, Tables!BareRuleUnder, Tables!DateOf
  <1> QED
    BY <1>4, <1>5

LEMMA SaysIt ==
  ASSUME Tables!TablesAssumption, TablesInv, Tables!Judge \/ Tables!PendingBuckets
  PROVE  TablesInv'
  <1>1. /\ UNCHANGED <<Tables!given, line, header, rows, found>> /\ done' /\ header = 0 /\ line >= last /\ ScanInv
    BY DEF Tables!Judge, Tables!PendingBuckets, TablesInv
  <1>2. DOMAIN buckets' = DOMAIN buckets
    BY DEF Tables!Judge, Tables!PendingBuckets
  <1>3. ScanInv'
    BY <1>1, <1>2 DEF ScanInv, GivenInv, SectionInv, Tables!HeadingsOf, FoundInv, OpenInv, SeenInv, Block, Tables!StartsTable, Takes,
                      Tables!HasPipe, Tables!IsDelimiterRow, Tables!given
  <1>4. Tables!EveryRowHasItsTable'
    <2>1. /\ \A i \in first..last : Tables!StartsTable(i) /\ i \notin Tables!Delimiters => \E k \in DOMAIN found : found[k].header = i
          /\ \A k \in DOMAIN found :
               Tables!ToSet(found[k].rows) = {r \in Tables!RowsUnder(found[k]) : ~\E i \in Tables!RowsUnder(found[k]) : i <= r /\ Tables!BareRuleUnder(i)}
      BY <1>1, AllRows
    <2> QED
      BY <2>1, <1>1 DEF Tables!EveryRowHasItsTable, Tables!Delimiters, Tables!RowsUnder, Tables!BareRuleUnder, Tables!StartsTable, Tables!HasPipe, Tables!IsDelimiterRow, Tables!given
  <1>5. Tables!TouchedTablesAreJudged'
    <2>1. CASE Tables!Judge
      <3>1. DOMAIN found = 1..Len(found)
        BY <1>1 DEF ScanInv, FoundInv
      <3> QED
        BY <1>1, <2>1, <3>1, JudgesWhole DEF Tables!TouchedTablesAreJudged, LinesOf, Tables!given
    <2>2. CASE Tables!PendingBuckets
      BY <1>1, <2>2 DEF Tables!PendingBuckets, Tables!TouchedTablesAreJudged, Tables!given
    <2> QED
      BY <2>1, <2>2
  <1>6. Tables!NoItemIsSilent'
    <2>1. CASE Tables!Judge
      BY <1>1, <2>1 DEF Tables!Judge, Tables!NoItemIsSilent, Tables!given
    <2>2. CASE Tables!PendingBuckets
      BY <1>1, <2>2, BriefingSpeaks
    <2> QED
      BY <2>1, <2>2
  <1> QED
    BY <1>3, <1>4, <1>5, <1>6 DEF TablesInv

LEMMA TablesInvNext == Tables!TablesAssumption /\ TablesInv /\ [Tables!Next]_(Tables!vars) => TablesInv'
  <1> SUFFICES ASSUME Tables!TablesAssumption, TablesInv, [Tables!Next]_(Tables!vars) PROVE TablesInv'
    OBVIOUS
  <1>1. CASE Tables!Skip \/ Tables!Open \/ Tables!Row \/ Tables!Close
    <2>1. ScanInv' /\ ~done'
      BY <1>1, ScanSteps DEF TablesInv
    <2> QED
      BY <2>1 DEF TablesInv, Tables!EveryRowHasItsTable, Tables!TouchedTablesAreJudged, Tables!NoItemIsSilent
  <1>2. CASE Tables!Judge \/ Tables!PendingBuckets
    BY <1>2, SaysIt
  <1>3. CASE UNCHANGED Tables!vars
    <2>0. UNCHANGED Tables!given /\ line' = line /\ header' = header /\ rows' = rows /\ found' = found /\ buckets' = buckets /\ done' = done
          /\ findings' = findings /\ problems' = problems /\ ScanInv
      BY <1>3 DEF Tables!vars, Tables!given, TablesInv
    <2>1. ScanInv'
      BY <2>0 DEF Tables!given, ScanInv, GivenInv, SectionInv, Tables!HeadingsOf, FoundInv, OpenInv, SeenInv, Block,
                  Tables!StartsTable, Takes, Tables!HasPipe, Tables!IsDelimiterRow
    <2>2. Tables!EveryRowHasItsTable'
      <3>1. note' = note /\ first' = first /\ last' = last /\ found' = found /\ (done <=> done') /\ Tables!EveryRowHasItsTable
        BY <2>0, <1>3 DEF Tables!vars, Tables!given, TablesInv
      <3> QED
        BY <3>1 DEF Tables!EveryRowHasItsTable, Tables!Delimiters, Tables!RowsUnder, Tables!BareRuleUnder, Tables!StartsTable, Tables!HasPipe, Tables!IsDelimiterRow
    <2>3. Tables!TouchedTablesAreJudged'
      BY <1>3 DEF Tables!vars, Tables!given, TablesInv, Tables!TouchedTablesAreJudged
    <2>4. Tables!NoItemIsSilent'
      BY <1>3 DEF Tables!vars, Tables!given, TablesInv, Tables!NoItemIsSilent, Tables!Said, Tables!RowsUnder, Tables!BareRuleUnder, Tables!StartsTable, Tables!HasPipe, Tables!IsDelimiterRow,
                  Tables!DateOf
    <2> QED
      BY <2>1, <2>2, <2>3, <2>4 DEF TablesInv
  <1> QED
    BY <1>1, <1>2, <1>3 DEF Tables!Next

\* For any notes, scopes and kinds of line, the scanner's place in the text,
\* the table it has open and those it closed are what the lines read so far
\* make them, and nothing is said before the scan ends (findAllTables,
\* lint.mjs; pending.mjs).
THEOREM TablesInvariant == Tables!TablesAssumption => (Tables!Spec => []TablesInv)
  <1> SUFFICES ASSUME Tables!TablesAssumption PROVE Tables!Spec => []TablesInv
    OBVIOUS
  <1>1. Tables!Init => TablesInv
    BY TablesStart
  <1>2. TablesInv /\ [Tables!Next]_(Tables!vars) => TablesInv'
    BY TablesInvNext
  <1> QED
    BY <1>1, <1>2, PTL DEF Tables!Spec

\* Every row of every table of any note is of the table whose header is
\* nearest, but for one with a bare rule under it; a table a change touched
\* is judged whole and no other; and of an item of the briefing's table
\* something is said (findAllTables and checkTables, lint.mjs; pending.mjs).
THEOREM EveryRowAlwaysHasItsTable ==
  Tables!TablesAssumption => (Tables!Spec => [](Tables!TypeOK /\ Tables!EveryRowHasItsTable /\ Tables!TouchedTablesAreJudged /\ Tables!NoItemIsSilent))
  <1> SUFFICES ASSUME Tables!TablesAssumption
               PROVE  Tables!Spec => [](Tables!TypeOK /\ Tables!EveryRowHasItsTable /\ Tables!TouchedTablesAreJudged /\ Tables!NoItemIsSilent)
    OBVIOUS
  <1>1. ASSUME TablesInv PROVE Tables!TypeOK
    <2>1. first \in Int /\ last \in Int /\ last + 1 \in Int /\ line \in Nat /\ first <= line /\ (line = first \/ line <= last + 1)
      BY <1>1 DEF TablesInv, ScanInv, GivenInv
    <2>2. line <= Tables!Max({first, last + 1})
      <3>1. /\ Tables!Max({first, last + 1}) \in {first, last + 1}
            /\ Tables!Max({first, last + 1}) >= first /\ Tables!Max({first, last + 1}) >= last + 1
        BY <2>1, MaxOfTwo, Zenon
      <3>2. \A m : m \in {first, last + 1} /\ m >= first /\ m >= last + 1 => line <= m
        BY <2>1
      <3> QED
        BY <3>1, <3>2, Zenon
    <2>3. header \in 0..Len(note)
      BY <1>1 DEF TablesInv, ScanInv, GivenInv, OpenInv, Block, Tables!StartsTable
    <2>4. \A k \in DOMAIN found : found[k].header \in first..last
      <3>1. DOMAIN found = 1..Len(found)
        BY <1>1 DEF TablesInv, ScanInv, FoundInv
      <3>2. ASSUME NEW k \in 1..Len(found) PROVE found[k].header \in first..last
        <4>1. found[k].header \in Nat /\ first <= found[k].header /\ found[k].header < last
          BY <1>1, RowsAre DEF TablesInv
        <4> QED
          BY <4>1, <2>1
      <3> QED
        BY <3>1, <3>2
    <2> QED
      BY <2>1, <2>2, <2>3, <2>4 DEF Tables!TypeOK
  <1>2. TablesInv => Tables!TypeOK /\ Tables!EveryRowHasItsTable /\ Tables!TouchedTablesAreJudged /\ Tables!NoItemIsSilent
    BY <1>1 DEF TablesInv
  <1> QED
    BY <1>2, TablesInvariant, PTL

(***************************************************************************)
(* Doctor: what its report says of the round and the push, for every       *)
(* state the facts may be in.                                              *)
(***************************************************************************)

(* The first row of a table is one whose condition holds, and no row       *)
(* before it does.                                                         *)
LEMMA FirstRowHolds ==
  ASSUME NEW n \in Nat, NEW t, DOMAIN t = 1..n, NEW k \in 1..n, t[k][1]
  PROVE  \E i \in 1..k : t[i][1] /\ Health!FirstRow(t) = t[i] /\ \A j \in 1..i - 1 : ~t[j][1]
<1> DEFINE S == {i \in 1..n : t[i][1]}
<1>1. S \in SUBSET Nat /\ S # {}
  OBVIOUS
<1>2. PICK m \in S : \A i \in S : m <= i
  BY <1>1, LeastOne
<1>3. m \in DOMAIN t /\ t[m][1] /\ m <= k /\ m \in 1..k
  BY <1>2
<1>4. \A j \in 1..m - 1 : ~t[j][1]
  <2> SUFFICES ASSUME NEW j \in 1..m - 1, t[j][1] PROVE FALSE
    OBVIOUS
  <2>1. j \in S /\ j < m
    BY <1>3
  <2> QED BY <2>1, <1>2
<1> DEFINE i0 == CHOOSE i \in DOMAIN t : t[i][1] /\ \A j \in 1..i - 1 : ~t[j][1]
<1>5. i0 \in DOMAIN t /\ t[i0][1] /\ \A j \in 1..i0 - 1 : ~t[j][1]
  BY <1>3, <1>4
<1>6. Health!FirstRow(t) = t[i0]
  BY DEF Health!FirstRow
<1> HIDE DEF i0
<1>7. i0 \in 1..k
  BY <1>5
<1> QED BY <1>5, <1>6, <1>7

(* A check speaks when a row holds and none up to it says ok.              *)
LEMMA AnswerSpeaks ==
  ASSUME NEW id, NEW n \in Nat, NEW t, DOMAIN t = 1..n, NEW k \in 1..n, t[k][1],
         \A i \in 1..k : t[i][1] => t[i][2] # "ok"
  PROVE  Health!Speaks(Health!Answer(id, t), {id})
<1>1. PICK i \in 1..k : t[i][1] /\ Health!FirstRow(t) = t[i]
  BY FirstRowHolds
<1>2. Health!FirstRow(t)[2] # "ok"
  BY <1>1
<1> QED BY <1>2 DEF Health!Answer, Health!Speaks

LEMMA Row1 ==
  ASSUME NEW a, NEW b, NEW c, NEW z, a[1]
  PROVE  Health!FirstRow(<<a, b, c, z>>) = a
<1> DEFINE t == <<a, b, c, z>>
<1>1. DOMAIN t = 1..4 /\ t[1] = a
  OBVIOUS
<1> HIDE DEF t
<1>2. 1 \in 1..4 /\ t[1][1]
  BY <1>1
<1>3. PICK i \in 1..1 : Health!FirstRow(t) = t[i]
  BY <1>1, <1>2, FirstRowHolds
<1> QED BY <1>1, <1>3 DEF t

LEMMA Rows2 ==
  ASSUME NEW id, NEW a, NEW z,
         (a[1] => a[2] # "ok"),
         a[1]
  PROVE  Health!Speaks(Health!Answer(id, <<a, z>>), {id})
<1> DEFINE t == <<a, z>>
<1>1. DOMAIN t = 1..2
  OBVIOUS
<1>2. PICK k \in 1..1 : t[k][1]
  OBVIOUS
<1>3. \A i \in 1..1 : t[i][1] => t[i][2] # "ok"
  OBVIOUS
<1> HIDE DEF t
<1>4. k \in 1..2 /\ \A i \in 1..k : t[i][1] => t[i][2] # "ok"
  BY <1>3
<1>5. Health!Speaks(Health!Answer(id, t), {id})
  BY <1>1, <1>2, <1>4, AnswerSpeaks
<1> QED BY <1>5 DEF t

LEMMA Rows3 ==
  ASSUME NEW id, NEW a, NEW b, NEW z,
         (a[1] => a[2] # "ok") /\ (b[1] => b[2] # "ok"),
         a[1] \/ b[1]
  PROVE  Health!Speaks(Health!Answer(id, <<a, b, z>>), {id})
<1> DEFINE t == <<a, b, z>>
<1>1. DOMAIN t = 1..3
  OBVIOUS
<1>2. PICK k \in 1..2 : t[k][1]
  OBVIOUS
<1>3. \A i \in 1..2 : t[i][1] => t[i][2] # "ok"
  OBVIOUS
<1> HIDE DEF t
<1>4. k \in 1..3 /\ \A i \in 1..k : t[i][1] => t[i][2] # "ok"
  BY <1>3
<1>5. Health!Speaks(Health!Answer(id, t), {id})
  BY <1>1, <1>2, <1>4, AnswerSpeaks
<1> QED BY <1>5 DEF t

LEMMA Rows4 ==
  ASSUME NEW id, NEW a, NEW b, NEW c, NEW z,
         (a[1] => a[2] # "ok") /\ (b[1] => b[2] # "ok") /\ (c[1] => c[2] # "ok"),
         a[1] \/ b[1] \/ c[1]
  PROVE  Health!Speaks(Health!Answer(id, <<a, b, c, z>>), {id})
<1> DEFINE t == <<a, b, c, z>>
<1>1. DOMAIN t = 1..4
  OBVIOUS
<1>2. PICK k \in 1..3 : t[k][1]
  OBVIOUS
<1>3. \A i \in 1..3 : t[i][1] => t[i][2] # "ok"
  OBVIOUS
<1> HIDE DEF t
<1>4. k \in 1..4 /\ \A i \in 1..k : t[i][1] => t[i][2] # "ok"
  BY <1>3
<1>5. Health!Speaks(Health!Answer(id, t), {id})
  BY <1>1, <1>2, <1>4, AnswerSpeaks
<1> QED BY <1>5 DEF t

LEMMA Rows6 ==
  ASSUME NEW id, NEW a, NEW b, NEW c, NEW d, NEW e, NEW z,
         (a[1] => a[2] # "ok") /\ (b[1] => b[2] # "ok") /\ (c[1] => c[2] # "ok") /\ (d[1] => d[2] # "ok") /\ (e[1] => e[2] # "ok"),
         a[1] \/ b[1] \/ c[1] \/ d[1] \/ e[1]
  PROVE  Health!Speaks(Health!Answer(id, <<a, b, c, d, e, z>>), {id})
<1> DEFINE t == <<a, b, c, d, e, z>>
<1>1. DOMAIN t = 1..6
  OBVIOUS
<1>2. PICK k \in 1..5 : t[k][1]
  OBVIOUS
<1>3. \A i \in 1..5 : t[i][1] => t[i][2] # "ok"
  OBVIOUS
<1> HIDE DEF t
<1>4. k \in 1..6 /\ \A i \in 1..k : t[i][1] => t[i][2] # "ok"
  BY <1>3
<1>5. Health!Speaks(Health!Answer(id, t), {id})
  BY <1>1, <1>2, <1>4, AnswerSpeaks
<1> QED BY <1>5 DEF t

LEMMA Rows8 ==
  ASSUME NEW id, NEW a, NEW b, NEW c, NEW d, NEW e, NEW f, NEW g, NEW z,
         (a[1] => a[2] # "ok") /\ (b[1] => b[2] # "ok") /\ (c[1] => c[2] # "ok") /\ (d[1] => d[2] # "ok") /\ (e[1] => e[2] # "ok") /\ (f[1] => f[2] # "ok") /\ (g[1] => g[2] # "ok"),
         a[1] \/ b[1] \/ c[1] \/ d[1] \/ e[1] \/ f[1] \/ g[1]
  PROVE  Health!Speaks(Health!Answer(id, <<a, b, c, d, e, f, g, z>>), {id})
<1> DEFINE t == <<a, b, c, d, e, f, g, z>>
<1>1. DOMAIN t = 1..8
  OBVIOUS
<1>2. PICK k \in 1..7 : t[k][1]
  OBVIOUS
<1>3. \A i \in 1..7 : t[i][1] => t[i][2] # "ok"
  OBVIOUS
<1> HIDE DEF t
<1>4. k \in 1..8 /\ \A i \in 1..k : t[i][1] => t[i][2] # "ok"
  BY <1>3
<1>5. Health!Speaks(Health!Answer(id, t), {id})
  BY <1>1, <1>2, <1>4, AnswerSpeaks
<1> QED BY <1>5 DEF t

(* The rows of a table come after the two of every check of the curator,   *)
(* which is on and whose configuration is read.                            *)
LEMMA CuratorSpeaks ==
  ASSUME NEW w, Health!ConfigRead(w), w.enabled,
         NEW id, NEW S, NEW t \in Seq(S), NEW k \in 1..Len(t), t[k][1],
         \A i \in 1..k : t[i][1] => t[i][2] # "ok"
  PROVE  Health!Speaks(Health!Curator(id, w, t), {id})
<1>1. PICK a : a = <<~Health!ConfigRead(w), "warn", "config_unknown">>
  OBVIOUS
<1>2. PICK b : b = <<~w.enabled, "ok", "disabled">>
  OBVIOUS
<1>3. ~a[1] /\ ~b[1]
  BY <1>1, <1>2
<1> DEFINE T == S \cup {a, b}
<1>4. <<a, b>> \in Seq(T) /\ t \in Seq(T)
  OBVIOUS
<1>5. PICK u : u = <<a, b>> \o t
  OBVIOUS
<1>6. Len(t) \in Nat /\ Len(<<a, b>>) = 2
  OBVIOUS
<1>7. /\ u \in Seq(T) /\ Len(u) = 2 + Len(t)
      /\ u[1] = a /\ u[2] = b
      /\ \A i \in 1..Len(t) : u[i + 2] = t[i]
  BY <1>4, <1>5, <1>6, ConcatProperties
<1>8. DOMAIN u = 1..Len(u) /\ Len(u) \in Nat
  BY <1>7
<1>9. k + 2 \in 1..Len(u) /\ u[k + 2][1]
  BY <1>6, <1>7
<1>10. PICK i \in 1..k + 2 : u[i][1] /\ Health!FirstRow(u) = u[i]
  BY <1>8, <1>9, FirstRowHolds
<1>11. i # 1 /\ i # 2
  BY <1>3, <1>7, <1>10
<1>12. i - 2 \in 1..k /\ u[i] = t[i - 2]
  BY <1>6, <1>7, <1>10, <1>11
<1>13. Health!FirstRow(u)[2] # "ok"
  BY <1>10, <1>12
<1>14. Health!Curator(id, w, t) = Health!Answer(id, u)
  BY <1>1, <1>2, <1>5, Zenon DEF Health!Curator
<1> QED BY <1>13, <1>14 DEF Health!Answer, Health!Speaks

LEMMA CuratorRows2 ==
  ASSUME NEW w, Health!ConfigRead(w), w.enabled,
         NEW id, NEW a, NEW z,
         (a[1] => a[2] # "ok"),
         a[1]
  PROVE  Health!Speaks(Health!Curator(id, w, <<a, z>>), {id})
<1> DEFINE t == <<a, z>>
           S == {a, z}
<1>1. t \in Seq(S) /\ Len(t) = 2
  OBVIOUS
<1>2. PICK k \in 1..1 : t[k][1]
  OBVIOUS
<1>3. \A i \in 1..1 : t[i][1] => t[i][2] # "ok"
  OBVIOUS
<1> HIDE DEF t, S
<1>4. k \in 1..Len(t) /\ \A i \in 1..k : t[i][1] => t[i][2] # "ok"
  BY <1>1, <1>3
<1>5. Health!Speaks(Health!Curator(id, w, t), {id})
  BY <1>1, <1>2, <1>4, CuratorSpeaks
<1> QED BY <1>5 DEF t

LEMMA CuratorRows3 ==
  ASSUME NEW w, Health!ConfigRead(w), w.enabled,
         NEW id, NEW a, NEW b, NEW z,
         (a[1] => a[2] # "ok") /\ (b[1] => b[2] # "ok"),
         a[1] \/ b[1]
  PROVE  Health!Speaks(Health!Curator(id, w, <<a, b, z>>), {id})
<1> DEFINE t == <<a, b, z>>
           S == {a, b, z}
<1>1. t \in Seq(S) /\ Len(t) = 3
  OBVIOUS
<1>2. PICK k \in 1..2 : t[k][1]
  OBVIOUS
<1>3. \A i \in 1..2 : t[i][1] => t[i][2] # "ok"
  OBVIOUS
<1> HIDE DEF t, S
<1>4. k \in 1..Len(t) /\ \A i \in 1..k : t[i][1] => t[i][2] # "ok"
  BY <1>1, <1>3
<1>5. Health!Speaks(Health!Curator(id, w, t), {id})
  BY <1>1, <1>2, <1>4, CuratorSpeaks
<1> QED BY <1>5 DEF t

LEMMA CuratorRows5 ==
  ASSUME NEW w, Health!ConfigRead(w), w.enabled,
         NEW id, NEW a, NEW b, NEW c, NEW d, NEW z,
         (a[1] => a[2] # "ok") /\ (b[1] => b[2] # "ok") /\ (c[1] => c[2] # "ok") /\ (d[1] => d[2] # "ok"),
         a[1] \/ b[1] \/ c[1] \/ d[1]
  PROVE  Health!Speaks(Health!Curator(id, w, <<a, b, c, d, z>>), {id})
<1> DEFINE t == <<a, b, c, d, z>>
           S == {a, b, c, d, z}
<1>1. t \in Seq(S) /\ Len(t) = 5
  OBVIOUS
<1>2. PICK k \in 1..4 : t[k][1]
  OBVIOUS
<1>3. \A i \in 1..4 : t[i][1] => t[i][2] # "ok"
  OBVIOUS
<1> HIDE DEF t, S
<1>4. k \in 1..Len(t) /\ \A i \in 1..k : t[i][1] => t[i][2] # "ok"
  BY <1>1, <1>3
<1>5. Health!Speaks(Health!Curator(id, w, t), {id})
  BY <1>1, <1>2, <1>4, CuratorSpeaks
<1> QED BY <1>5 DEF t

LEMMA CuratorRows10 ==
  ASSUME NEW w, Health!ConfigRead(w), w.enabled,
         NEW id, NEW a, NEW b, NEW c, NEW d, NEW e, NEW f, NEW g, NEW h, NEW i, NEW z,
         (a[1] => a[2] # "ok") /\ (b[1] => b[2] # "ok") /\ (c[1] => c[2] # "ok") /\ (d[1] => d[2] # "ok") /\ (e[1] => e[2] # "ok") /\ (f[1] => f[2] # "ok") /\ (g[1] => g[2] # "ok") /\ (h[1] => h[2] # "ok") /\ (i[1] => i[2] # "ok"),
         a[1] \/ b[1] \/ c[1] \/ d[1] \/ e[1] \/ f[1] \/ g[1] \/ h[1] \/ i[1]
  PROVE  Health!Speaks(Health!Curator(id, w, <<a, b, c, d, e, f, g, h, i, z>>), {id})
<1> DEFINE t == <<a, b, c, d, e, f, g, h, i, z>>
           S == {a, b, c, d, e, f, g, h, i, z}
<1>1. t \in Seq(S) /\ Len(t) = 10
  OBVIOUS
<1>2. PICK k \in 1..9 : t[k][1]
  OBVIOUS
<1>3. \A m \in 1..9 : t[m][1] => t[m][2] # "ok"
  OBVIOUS
<1> HIDE DEF t, S
<1>4. k \in 1..Len(t) /\ \A m \in 1..k : t[m][1] => t[m][2] # "ok"
  BY <1>1, <1>3
<1>5. Health!Speaks(Health!Curator(id, w, t), {id})
  BY <1>1, <1>2, <1>4, CuratorSpeaks
<1> QED BY <1>5 DEF t

-----------------------------------------------------------------------------
(* What each check says, of the facts it reads.                            *)

LEMMA PushIsNamed ==
  ASSUME NEW w, w.hooksPath \in {"here", "unset", "elsewhere", "unreadable"}
  PROVE  /\ (w.nodeRun \in {"old", "unreadable"} \/ w.nodePath \in {"missing", "failed", "unrecognised", "old"})
               => Health!Speaks(Health!NodeVersion(w), {"node-version"})
         /\ (\/ w.git = "missing" \/ w.place \in {"no_repo", "below"} \/ w.hooksPath # "here"
             \/ w.hook \in {"missing", "empty", "locked", "edited"})
               => Health!Speaks(Health!HooksPath(w), {"hooks-path"})
         /\ w.kit \in {"missing", "failed", "unrecognised"} => Health!Speaks(Health!BrainKitOnPath(w), {"brain-kit-on-path"})
         /\ (~Health!ConfigLoads(w) \/ w.config \in {"pattern", "unscoped"}) => Health!Speaks(Health!ConfigValid(w), {"config-valid"})
<1>1. (w.nodeRun \in {"old", "unreadable"} \/ w.nodePath \in {"missing", "failed", "unrecognised", "old"})
        => Health!Speaks(Health!NodeVersion(w), {"node-version"})
  BY Rows3 DEF Health!NodeVersion, Health!Fails, Health!Warns, Health!Ok
<1>2. (\/ w.git = "missing" \/ w.place \in {"no_repo", "below"} \/ w.hooksPath # "here"
       \/ w.hook \in {"missing", "empty", "locked", "edited"})
        => Health!Speaks(Health!HooksPath(w), {"hooks-path"})
  BY Rows6 DEF Health!HooksPath, Health!Fails, Health!Warns, Health!Ok
<1>3. w.kit \in {"missing", "failed", "unrecognised"} => Health!Speaks(Health!BrainKitOnPath(w), {"brain-kit-on-path"})
  BY Rows6 DEF Health!BrainKitOnPath, Health!Fails, Health!Warns, Health!Ok
<1>4. (~Health!ConfigLoads(w) \/ w.config \in {"pattern", "unscoped"}) => Health!Speaks(Health!ConfigValid(w), {"config-valid"})
  BY Rows4 DEF Health!ConfigValid, Health!Fails, Health!Warns, Health!Ok
<1> QED BY <1>1, <1>2, <1>3, <1>4

LEMMA MachineIsNamed ==
  ASSUME NEW w, w.machine \in {"ok", "missing", "unreadable", "invalid", "elsewhere"}
  PROVE  /\ ~Health!MachineValid(w) => Health!Speaks(Health!MachineValidCheck(w), {"machine-valid"})
         /\ Health!Bridge(w) \in {"invalid", "unusable"} => Health!Speaks(Health!LegacyLock(w), {"legacy-lock"})
         /\ w.access = "writable" => \E r \in Health!StateDirMode(w) : r[2] = "fail"
<1>1. ~Health!MachineValid(w) => Health!Speaks(Health!MachineValidCheck(w), {"machine-valid"})
  BY Rows3 DEF Health!MachineValidCheck, Health!MachineValid, Health!Fails, Health!Warns, Health!Ok
<1>2. Health!Bridge(w) \in {"invalid", "unusable"} => Health!Speaks(Health!LegacyLock(w), {"legacy-lock"})
  BY Rows2 DEF Health!LegacyLock, Health!Fails, Health!Warns, Health!Ok
<1>3. w.access = "writable" => \E r \in Health!StateDirMode(w) : r[2] = "fail"
  <2> SUFFICES ASSUME w.access = "writable" PROVE \E r \in Health!StateDirMode(w) : r[2] = "fail"
    OBVIOUS
  <2>1. PICK a : a = Health!Fails(w.access, {"open_dir", "writable"})
    OBVIOUS
  <2>2. PICK b : b = <<w.machine = "missing", "fail", "file_missing">>
    OBVIOUS
  <2>3. PICK c : c = Health!Fails(w.access, {"open_file"})
    OBVIOUS
  <2>4. a[1] /\ a[2] = "fail"
    BY <2>1 DEF Health!Fails
  <2>5. Health!StateDirMode(w) = Health!Answer("state-dir-mode", <<a, b, c, Health!Ok>>)
    BY <2>1, <2>2, <2>3, Zenon DEF Health!StateDirMode
  <2>6. Health!FirstRow(<<a, b, c, Health!Ok>>) = a
    BY <2>4, Row1
  <2> QED BY <2>4, <2>5, <2>6 DEF Health!Answer
<1> QED BY <1>1, <1>2, <1>3

LEMMA BranchIsNamed ==
  ASSUME NEW w,
         \/ Health!DefaultBranchOf(w) \in {Health!Nothing, "no name"} \/ w.upstream = "local"
         \/ w.remote /\ ~w.reachable
         \/ w.remote /\ w.published # {} /\ Health!UpstreamOf(w) \notin w.published
  PROVE  Health!Speaks(Health!DefaultBranchKnown(w), {"default-branch-known"})
<1>1. PICK a : a = <<Health!DefaultBranchOf(w) = "no name", "warn", "config_invalid">>
  OBVIOUS
<1>2. PICK b : b = <<w.head = "outside", "warn", "unrecognised">>
  OBVIOUS
<1>3. PICK c : c = <<w.head # "none" /\ w.head \notin w.tracked, "warn", "dangling">>
  OBVIOUS
<1>4. PICK d : d = <<Health!DefaultBranchOf(w) = Health!Nothing, "warn", "unset">>
  OBVIOUS
<1>5. PICK e : e = <<w.upstream = "local", "warn", "local_upstream">>
  OBVIOUS
<1>6. PICK f : f = <<w.remote /\ ~w.reachable, "warn", "remote_unverified">>
  OBVIOUS
<1>7. PICK g : g = <<w.remote /\ w.published # {} /\ Health!UpstreamOf(w) \notin w.published, "warn", "remote_lacks_branch">>
  OBVIOUS
<1>8. (a[1] => a[2] # "ok") /\ (b[1] => b[2] # "ok") /\ (c[1] => c[2] # "ok") /\ (d[1] => d[2] # "ok") /\ (e[1] => e[2] # "ok") /\ (f[1] => f[2] # "ok") /\ (g[1] => g[2] # "ok")
  BY <1>1, <1>2, <1>3, <1>4, <1>5, <1>6, <1>7
<1>9. a[1] \/ b[1] \/ c[1] \/ d[1] \/ e[1] \/ f[1] \/ g[1]
  BY <1>1, <1>2, <1>3, <1>4, <1>5, <1>6, <1>7
<1>10. Health!DefaultBranchKnown(w) = Health!Answer("default-branch-known", <<a, b, c, d, e, f, g, Health!Ok>>)
  BY <1>1, <1>2, <1>3, <1>4, <1>5, <1>6, <1>7, Zenon DEF Health!DefaultBranchKnown
<1>11. Health!Speaks(Health!Answer("default-branch-known", <<a, b, c, d, e, f, g, Health!Ok>>), {"default-branch-known"})
  BY <1>8, <1>9, Rows8
<1> QED BY <1>10, <1>11

LEMMA PolicyIsNamed ==
  ASSUME NEW w, w.policy \in {"bad", "outside"}
  PROVE  Health!Speaks(Health!PrivacyPolicy(w), {"privacy-policy"})
BY Rows4 DEF Health!PrivacyPolicy, Health!Fails, Health!Warns, Health!Ok

LEMMA MarkIsNamed ==
  ASSUME NEW w, Health!ConfigRead(w), w.enabled,
         w.timezone = "bad" \/ w.mark \in {"corrupt", "future"} \/ w.unknownSource
  PROVE  Health!Speaks(Health!WatermarkCheck(w), {"watermark"})
BY CuratorRows5 DEF Health!WatermarkCheck, Health!Fails, Health!Warns, Health!Ok

LEMMA CliIsNamed ==
  ASSUME NEW w, Health!ConfigRead(w), w.enabled, w.claude \in {"missing", "batch", "stub", "failed"}
  PROVE  Health!Speaks(Health!ClaudeReal(w), {"claude-real"})
BY CuratorRows3 DEF Health!ClaudeReal, Health!Untrusted, Health!Fails, Health!Warns, Health!Ok

LEMMA DigestsAreNamed ==
  ASSUME NEW w, Health!ConfigRead(w), w.enabled, w.digests = "unsafe"
  PROVE  Health!Speaks(Health!DigestDir(w), {"digest-dir"})
BY CuratorRows2 DEF Health!DigestDir, Health!Fails, Health!Warns, Health!Ok

(* The facts a proof below needs to know all the values of.                *)
Sighted(w) ==
    /\ w.machine \in {"ok", "missing", "unreadable", "invalid", "elsewhere"}
    /\ w.hooksPath \in {"here", "unset", "elsewhere", "unreadable"}
    /\ w.root \in {"there", "gone", "other", "unreadable"}
    /\ w.own \in {"directory", "gone", "unreachable", "unlisted"}
    /\ w.project \in {"directory", "gone", "other", "unreachable", "unlisted"}
    /\ w.claude \in {"real", "missing", "batch", "stub", "failed", "unrecognised", "unflagged", "helpless"}
    /\ w.launch \in {"init", "no_init", "breach"}
    /\ w.legacy # "unmade" /\ w.claudeBin # "relative"

LEMMA ProjectsAreNamed ==
  ASSUME NEW w, Sighted(w), Health!ConfigRead(w), w.enabled, w.transcripts = "required",
         Health!Misconfigured(w) \/ Health!TranscriptsUnreadable(w)
  PROVE  Health!Speaks(Health!IncludeProjects(w), {"include-projects"})
<1>1. ~Health!NeverUsed(w)
  BY DEF Health!Misconfigured, Health!TranscriptsUnreadable, Health!NeverUsed
<1>2. \/ w.root \in {"gone", "other", "unreadable"} \/ Health!Projects(w) = {} \/ Health!Unreadable(w) # {}
      \/ Health!Lost(w) # {} /\ Health!Found(w) = {}
      \/ Health!Entry(w) /\ ~w.nameable
  <2> SUFFICES ASSUME w.root = "there", Health!Projects(w) # {}, Health!Unreadable(w) = {}, ~(Health!Entry(w) /\ ~w.nameable),
                      Health!Lost(w) = {} \/ Health!Found(w) # {}
               PROVE  FALSE
    BY DEF Sighted
  <2>1. Health!Present(w) = {} /\ ~(Health!Waits(w) # {} /\ Health!Missing(w) = Health!Waits(w))
    BY DEF Health!Misconfigured, Health!TranscriptsUnreadable
  <2>2. Health!Projects(w) \subseteq {"own", "project"}
    BY DEF Health!Projects, Health!Listed
  <2>3. ASSUME NEW p \in Health!Projects(w) PROVE w[p] \in {"gone", "other"}
    <3>1. w[p] \in {"directory", "gone", "other", "unreachable", "unlisted"}
      BY <2>2 DEF Sighted
    <3> QED BY <3>1, <2>1 DEF Health!Present, Health!Unreadable
  <2>4. Health!Missing(w) = Health!Projects(w) /\ Health!Found(w) = {}
    BY <2>3 DEF Health!Missing, Health!Found
  <2>5. Health!Missing(w) \subseteq Health!MayWait(w)
    BY <2>4 DEF Health!Lost
  <2>6. \A p \in Health!Missing(w) : p = "own"
    BY <2>5 DEF Health!MayWait
  <2>7. Health!Waits(w) = Health!Missing(w)
    BY <2>3, <2>4, <2>5, <2>6 DEF Health!Waits, Sighted
  <2> QED BY <2>1, <2>4, <2>7
<1>3. PICK a : a = <<w.transcripts = "no", "ok", "not_used">>
  OBVIOUS
<1>4. PICK b : b = <<w.list # "all" /\ Health!Listed(w) = {}, "fail", "empty">>
  OBVIOUS
<1>5. PICK c : c = <<Health!NeverUsed(w), "ok", "no_sessions_yet">>
  OBVIOUS
<1>6. PICK d : d = Health!Fails(w.root, {"gone", "other", "unreadable"})
  OBVIOUS
<1>7. PICK e : e = <<Health!Projects(w) = {}, "fail", "all_empty">>
  OBVIOUS
<1>8. PICK f : f = <<Health!Unreadable(w) # {}, "fail", "unreadable">>
  OBVIOUS
<1>9. PICK g : g = <<Health!Lost(w) # {} /\ Health!Found(w) = {}, "fail", "all_missing">>
  OBVIOUS
<1>10. PICK h : h = <<Health!Lost(w) # {}, "warn", "some_missing">>
  OBVIOUS
<1>11. PICK i : i = <<Health!Entry(w) /\ ~w.nameable, "warn", "some_unnamed">>
  OBVIOUS
<1>12. d[1] = (w.root \in {"gone", "other", "unreadable"}) /\ (d[1] => d[2] # "ok")
  BY <1>6 DEF Health!Fails
<1>13. /\ (a[1] => a[2] # "ok") /\ (b[1] => b[2] # "ok") /\ (c[1] => c[2] # "ok") /\ (d[1] => d[2] # "ok")
       /\ (e[1] => e[2] # "ok") /\ (f[1] => f[2] # "ok") /\ (g[1] => g[2] # "ok") /\ (h[1] => h[2] # "ok")
       /\ (i[1] => i[2] # "ok")
  BY <1>1, <1>3, <1>4, <1>5, <1>7, <1>8, <1>9, <1>10, <1>11, <1>12
<1>14. a[1] \/ b[1] \/ c[1] \/ d[1] \/ e[1] \/ f[1] \/ g[1] \/ h[1] \/ i[1]
  BY <1>2, <1>7, <1>8, <1>9, <1>11, <1>12
<1>15. Health!IncludeProjects(w) = Health!Curator("include-projects", w, <<a, b, c, d, e, f, g, h, i, Health!Ok>>)
  BY <1>3, <1>4, <1>5, <1>6, <1>7, <1>8, <1>9, <1>10, <1>11, Zenon DEF Health!IncludeProjects
<1>16. Health!Speaks(Health!Curator("include-projects", w, <<a, b, c, d, e, f, g, h, i, Health!Ok>>), {"include-projects"})
  BY <1>13, <1>14, CuratorRows10
<1> QED BY <1>15, <1>16

(* What a source's own lines say is among what the connectors check says.  *)
LEMMA SourceLinesAreSaid ==
  ASSUME NEW w, Health!ConfigRead(w), w.enabled, NEW probe \in BOOLEAN, NEW c \in Health!ListedConnectors(w)
  PROVE  /\ Health!SourceLines(w, c, probe) \subseteq Health!ConnectorsCheck(w, probe)
         /\ Health!WaitingLine(w, probe) \subseteq Health!ConnectorsCheck(w, probe)
         /\ probe => Health!ProbeLines(w) \subseteq Health!ConnectorsCheck(w, probe)
         /\ w.rules = "refuse" /\ Health!On(w) \cap Health!Required(w) # {} => <<"connectors", "fail", "blocked">> \in Health!ConnectorsCheck(w, probe)
<1>1. PICK A : A = IF Health!ListedConnectors(w) = {} THEN {<<"connectors", "ok", "none">>} ELSE {}
  OBVIOUS
<1>2. PICK B : B = IF w.rules = "refuse" /\ Health!On(w) # {}
        THEN {<<"connectors", IF Health!On(w) \cap Health!Required(w) # {} THEN "fail" ELSE "warn", "blocked">>} ELSE {}
  OBVIOUS
<1>3. PICK C : C = IF probe THEN Health!ProbeLines(w) ELSE {}
  OBVIOUS
<1>4. PICK D : D = UNION {Health!SourceLines(w, x, probe) : x \in Health!ListedConnectors(w)}
  OBVIOUS
<1>5. Health!ConnectorsCheck(w, probe) = UNION {A, B, C, Health!CalendarLines(w), D, Health!WaitingLine(w, probe)}
  BY <1>1, <1>2, <1>3, <1>4, Zenon DEF Health!ConnectorsCheck
<1>6. Health!SourceLines(w, c, probe) \subseteq D
  BY <1>4
<1>7. probe => Health!ProbeLines(w) = C
  BY <1>3
<1>8. w.rules = "refuse" /\ Health!On(w) \cap Health!Required(w) # {} => <<"connectors", "fail", "blocked">> \in B
  BY <1>2
<1>9. B \cup C \cup D \cup Health!WaitingLine(w, probe) \subseteq Health!ConnectorsCheck(w, probe)
  BY <1>5, Zenon
<1> QED BY <1>6, <1>7, <1>8, <1>9

LEMMA OffIsNamed ==
  ASSUME NEW w, Health!ConfigRead(w), w.enabled, Health!Required(w) \ Health!On(w) # {}
  PROVE  Health!Speaks(Health!ConnectorsCheck(w, FALSE), {"connectors"})
<1>1. PICK c \in Health!Required(w) : c \notin Health!On(w)
  OBVIOUS
<1>2. c \in Health!ListedConnectors(w)
  BY <1>1 DEF Health!Required
<1>3. <<"connectors", "fail", "off">> \in Health!SourceLines(w, c, FALSE)
  BY <1>1 DEF Health!SourceLines
<1>4. <<"connectors", "fail", "off">> \in Health!ConnectorsCheck(w, FALSE)
  BY <1>2, <1>3, SourceLinesAreSaid
<1> QED BY <1>4 DEF Health!Speaks

(* A check that is part of the report.                                     *)
LEMMA ReportSpeaks ==
  ASSUME NEW w, NEW probe, NEW checks
  PROVE  /\ \A id \in checks :
              \A R \in {Health!NodeVersion(w), Health!GitPresent(w), Health!DefaultBranchKnown(w), Health!HooksPath(w), Health!BrainKitOnPath(w),
                        Health!ConfigValid(w), Health!MachineValidCheck(w), Health!DigestDir(w), Health!LegacyLock(w), Health!PrivacyPolicy(w),
                        Health!ClaudeReal(w), Health!IncludeProjects(w), Health!ConnectorsCheck(w, probe), Health!WatermarkCheck(w)} :
                 Health!Speaks(R, {id}) => Health!Speaks(Health!Results(w, probe), checks)
         /\ Health!StateDirMode(w) \subseteq Health!Results(w, probe)
         /\ Health!ConnectorsCheck(w, probe) \subseteq Health!Results(w, probe)
<1>1. \A R \in {Health!NodeVersion(w), Health!GitPresent(w), Health!DefaultBranchKnown(w), Health!HooksPath(w), Health!BrainKitOnPath(w),
                        Health!ConfigValid(w), Health!MachineValidCheck(w), Health!DigestDir(w), Health!LegacyLock(w), Health!PrivacyPolicy(w),
                        Health!ClaudeReal(w), Health!IncludeProjects(w), Health!ConnectorsCheck(w, probe), Health!WatermarkCheck(w), Health!StateDirMode(w)} :
          R \subseteq Health!Results(w, probe)
  BY Zenon DEF Health!Results
<1> QED BY <1>1 DEF Health!Speaks

(* What sync answers when it fails.                                        *)
LEMMA SyncSays ==
  ASSUME NEW w
  PROVE  \/ Health!Sync(w) \in {"ok", "sync_postponed", "sync_no_commit", "dirty_tree", "sync_unlinked", "sync_diverged"}
         \/ /\ Health!Sync(w) = "sync_failed"
            /\ \/ Health!DefaultBranchOf(w) \in {Health!Nothing, "no name"} \/ w.upstream = "local"
               \/ w.remote /\ ~w.reachable
               \/ w.remote /\ w.published # {} /\ Health!UpstreamOf(w) \notin w.published
<1> DEFINE r1 == <<w.tree = "busy", "sync_postponed">>
           r2 == <<w.tree = "no_commit", "sync_no_commit">>
           r3 == <<w.tree = "dirty", "dirty_tree">>
           r4 == <<Health!DefaultBranchOf(w) \in {Health!Nothing, "no name"}, "sync_failed">>
           r5 == <<w.upstream = "local", "sync_failed">>
           r6 == <<~w.remote, "sync_unlinked">>
           r7 == <<~w.reachable, "sync_failed">>
           r8 == <<w.published = {}, "ok">>
           r9 == <<Health!UpstreamOf(w) \notin w.published, "sync_failed">>
           r10 == <<Health!DefaultBranchOf(w) \notin w.locals, "sync_unlinked">>
           r11 == <<w.diverged, "sync_diverged">>
           r12 == <<TRUE, "ok">>
           t == <<r1, r2, r3, r4, r5, r6, r7, r8, r9, r10, r11, r12>>
<1>1. (r1[1] = (w.tree = "busy")) /\ r1[2] = "sync_postponed"
  OBVIOUS
<1>2. (r2[1] = (w.tree = "no_commit")) /\ r2[2] = "sync_no_commit"
  OBVIOUS
<1>3. (r3[1] = (w.tree = "dirty")) /\ r3[2] = "dirty_tree"
  OBVIOUS
<1>4. (r4[1] = (Health!DefaultBranchOf(w) \in {Health!Nothing, "no name"})) /\ r4[2] = "sync_failed"
  OBVIOUS
<1>5. (r5[1] = (w.upstream = "local")) /\ r5[2] = "sync_failed"
  OBVIOUS
<1>6. (r6[1] = (~w.remote)) /\ r6[2] = "sync_unlinked"
  OBVIOUS
<1>7. (r7[1] = (~w.reachable)) /\ r7[2] = "sync_failed"
  OBVIOUS
<1>8. (r8[1] = (w.published = {})) /\ r8[2] = "ok"
  OBVIOUS
<1>9. (r9[1] = (Health!UpstreamOf(w) \notin w.published)) /\ r9[2] = "sync_failed"
  OBVIOUS
<1>10. (r10[1] = (Health!DefaultBranchOf(w) \notin w.locals)) /\ r10[2] = "sync_unlinked"
  OBVIOUS
<1>11. (r11[1] = (w.diverged)) /\ r11[2] = "sync_diverged"
  OBVIOUS
<1>12. (r12[1] = (TRUE)) /\ r12[2] = "ok"
  OBVIOUS
<1>14. Health!SyncStops(w) = t
  BY Zenon DEF Health!SyncStops
<1> HIDE DEF r1, r2, r3, r4, r5, r6, r7, r8, r9, r10, r11, r12
<1>15. DOMAIN t = 1..12 /\ t[1] = r1 /\ t[2] = r2 /\ t[3] = r3 /\ t[4] = r4 /\ t[5] = r5 /\ t[6] = r6 /\ t[7] = r7 /\ t[8] = r8 /\ t[9] = r9 /\ t[10] = r10 /\ t[11] = r11 /\ t[12] = r12
  OBVIOUS
<1> HIDE DEF t
<1>16. \E i \in 1..12 : t[i][1] /\ Health!FirstRow(t) = t[i] /\ \A j \in 1..i - 1 : ~t[j][1]
  <2>1. PICK n : n = 12
    OBVIOUS
  <2>2. r12[1]
    BY <1>12
  <2>3. t[n] = r12 /\ n \in Nat /\ n \in 1..n /\ DOMAIN t = 1..n
    BY <1>15, <2>1
  <2>4. t[n][1]
    BY <2>2, <2>3, Zenon
  <2>5. \E i \in 1..n : t[i][1] /\ Health!FirstRow(t) = t[i] /\ \A j \in 1..i - 1 : ~t[j][1]
    BY <2>3, <2>4, FirstRowHolds
  <2> QED BY <2>1, <2>5
<1>17. PICK k \in 1..12 : t[k][1] /\ Health!FirstRow(t) = t[k] /\ \A j \in 1..k - 1 : ~t[j][1]
  BY <1>16
<1>18. Health!Sync(w) = t[k][2]
  BY <1>14, <1>17, Zenon DEF Health!Sync
<1>19. k = 1 => Health!Sync(w) = "sync_postponed" /\ (w.tree = "busy")
  <2> SUFFICES ASSUME k = 1 PROVE Health!Sync(w) = "sync_postponed" /\ (w.tree = "busy")
    OBVIOUS
  <2>1. r1[1] /\ Health!Sync(w) = r1[2]
    <3>1. t[1][1] /\ Health!Sync(w) = t[1][2]
      BY <1>17, <1>18
    <3>2. t[1] = r1
      BY <1>15
    <3> QED BY <3>1, <3>2, Zenon
  <2>2. Health!Sync(w) = "sync_postponed" /\ (w.tree = "busy")
    BY <2>1, <1>1
  <2> QED BY <2>2
<1>20. k = 2 => Health!Sync(w) = "sync_no_commit" /\ (w.tree = "no_commit")
  <2> SUFFICES ASSUME k = 2 PROVE Health!Sync(w) = "sync_no_commit" /\ (w.tree = "no_commit")
    OBVIOUS
  <2>1. r2[1] /\ Health!Sync(w) = r2[2]
    <3>1. t[2][1] /\ Health!Sync(w) = t[2][2]
      BY <1>17, <1>18
    <3>2. t[2] = r2
      BY <1>15
    <3> QED BY <3>1, <3>2, Zenon
  <2>2. Health!Sync(w) = "sync_no_commit" /\ (w.tree = "no_commit")
    BY <2>1, <1>2
  <2> QED BY <2>2
<1>21. k = 3 => Health!Sync(w) = "dirty_tree" /\ (w.tree = "dirty")
  <2> SUFFICES ASSUME k = 3 PROVE Health!Sync(w) = "dirty_tree" /\ (w.tree = "dirty")
    OBVIOUS
  <2>1. r3[1] /\ Health!Sync(w) = r3[2]
    <3>1. t[3][1] /\ Health!Sync(w) = t[3][2]
      BY <1>17, <1>18
    <3>2. t[3] = r3
      BY <1>15
    <3> QED BY <3>1, <3>2, Zenon
  <2>2. Health!Sync(w) = "dirty_tree" /\ (w.tree = "dirty")
    BY <2>1, <1>3
  <2> QED BY <2>2
<1>22. k = 4 => Health!Sync(w) = "sync_failed" /\ (Health!DefaultBranchOf(w) \in {Health!Nothing, "no name"})
  <2> SUFFICES ASSUME k = 4 PROVE Health!Sync(w) = "sync_failed" /\ (Health!DefaultBranchOf(w) \in {Health!Nothing, "no name"})
    OBVIOUS
  <2>1. r4[1] /\ Health!Sync(w) = r4[2]
    <3>1. t[4][1] /\ Health!Sync(w) = t[4][2]
      BY <1>17, <1>18
    <3>2. t[4] = r4
      BY <1>15
    <3> QED BY <3>1, <3>2, Zenon
  <2>2. Health!Sync(w) = "sync_failed" /\ (Health!DefaultBranchOf(w) \in {Health!Nothing, "no name"})
    BY <2>1, <1>4
  <2> QED BY <2>2
<1>23. k = 5 => Health!Sync(w) = "sync_failed" /\ (w.upstream = "local")
  <2> SUFFICES ASSUME k = 5 PROVE Health!Sync(w) = "sync_failed" /\ (w.upstream = "local")
    OBVIOUS
  <2>1. r5[1] /\ Health!Sync(w) = r5[2]
    <3>1. t[5][1] /\ Health!Sync(w) = t[5][2]
      BY <1>17, <1>18
    <3>2. t[5] = r5
      BY <1>15
    <3> QED BY <3>1, <3>2, Zenon
  <2>2. Health!Sync(w) = "sync_failed" /\ (w.upstream = "local")
    BY <2>1, <1>5
  <2> QED BY <2>2
<1>24. k = 6 => Health!Sync(w) = "sync_unlinked" /\ (~w.remote)
  <2> SUFFICES ASSUME k = 6 PROVE Health!Sync(w) = "sync_unlinked" /\ (~w.remote)
    OBVIOUS
  <2>1. r6[1] /\ Health!Sync(w) = r6[2]
    <3>1. t[6][1] /\ Health!Sync(w) = t[6][2]
      BY <1>17, <1>18
    <3>2. t[6] = r6
      BY <1>15
    <3> QED BY <3>1, <3>2, Zenon
  <2>2. Health!Sync(w) = "sync_unlinked" /\ (~w.remote)
    BY <2>1, <1>6
  <2> QED BY <2>2
<1>25. k = 7 => Health!Sync(w) = "sync_failed" /\ (~w.reachable) /\ ~(~w.remote)
  <2> SUFFICES ASSUME k = 7 PROVE Health!Sync(w) = "sync_failed" /\ (~w.reachable) /\ ~(~w.remote)
    OBVIOUS
  <2>1. r7[1] /\ Health!Sync(w) = r7[2]
    <3>1. t[7][1] /\ Health!Sync(w) = t[7][2]
      BY <1>17, <1>18
    <3>2. t[7] = r7
      BY <1>15
    <3> QED BY <3>1, <3>2, Zenon
  <2>2. Health!Sync(w) = "sync_failed" /\ (~w.reachable)
    BY <2>1, <1>7
  <2>3. ~r6[1]
    <3>1. ~t[6][1]
      BY <1>17
    <3>2. t[6] = r6
      BY <1>15
    <3> QED BY <3>1, <3>2, Zenon
  <2>4. ~(~w.remote)
    BY <2>3, <1>6
  <2> QED BY <2>2, <2>4
<1>26. k = 8 => Health!Sync(w) = "ok" /\ (w.published = {})
  <2> SUFFICES ASSUME k = 8 PROVE Health!Sync(w) = "ok" /\ (w.published = {})
    OBVIOUS
  <2>1. r8[1] /\ Health!Sync(w) = r8[2]
    <3>1. t[8][1] /\ Health!Sync(w) = t[8][2]
      BY <1>17, <1>18
    <3>2. t[8] = r8
      BY <1>15
    <3> QED BY <3>1, <3>2, Zenon
  <2>2. Health!Sync(w) = "ok" /\ (w.published = {})
    BY <2>1, <1>8
  <2> QED BY <2>2
<1>27. k = 9 => Health!Sync(w) = "sync_failed" /\ (Health!UpstreamOf(w) \notin w.published) /\ ~(~w.remote) /\ ~(w.published = {})
  <2> SUFFICES ASSUME k = 9 PROVE Health!Sync(w) = "sync_failed" /\ (Health!UpstreamOf(w) \notin w.published) /\ ~(~w.remote) /\ ~(w.published = {})
    OBVIOUS
  <2>1. r9[1] /\ Health!Sync(w) = r9[2]
    <3>1. t[9][1] /\ Health!Sync(w) = t[9][2]
      BY <1>17, <1>18
    <3>2. t[9] = r9
      BY <1>15
    <3> QED BY <3>1, <3>2, Zenon
  <2>2. Health!Sync(w) = "sync_failed" /\ (Health!UpstreamOf(w) \notin w.published)
    BY <2>1, <1>9
  <2>3. ~r6[1]
    <3>1. ~t[6][1]
      BY <1>17
    <3>2. t[6] = r6
      BY <1>15
    <3> QED BY <3>1, <3>2, Zenon
  <2>4. ~(~w.remote)
    BY <2>3, <1>6
  <2>5. ~r8[1]
    <3>1. ~t[8][1]
      BY <1>17
    <3>2. t[8] = r8
      BY <1>15
    <3> QED BY <3>1, <3>2, Zenon
  <2>6. ~(w.published = {})
    BY <2>5, <1>8
  <2> QED BY <2>2, <2>4, <2>6
<1>28. k = 10 => Health!Sync(w) = "sync_unlinked" /\ (Health!DefaultBranchOf(w) \notin w.locals)
  <2> SUFFICES ASSUME k = 10 PROVE Health!Sync(w) = "sync_unlinked" /\ (Health!DefaultBranchOf(w) \notin w.locals)
    OBVIOUS
  <2>1. r10[1] /\ Health!Sync(w) = r10[2]
    <3>1. t[10][1] /\ Health!Sync(w) = t[10][2]
      BY <1>17, <1>18
    <3>2. t[10] = r10
      BY <1>15
    <3> QED BY <3>1, <3>2, Zenon
  <2>2. Health!Sync(w) = "sync_unlinked" /\ (Health!DefaultBranchOf(w) \notin w.locals)
    BY <2>1, <1>10
  <2> QED BY <2>2
<1>29. k = 11 => Health!Sync(w) = "sync_diverged" /\ (w.diverged)
  <2> SUFFICES ASSUME k = 11 PROVE Health!Sync(w) = "sync_diverged" /\ (w.diverged)
    OBVIOUS
  <2>1. r11[1] /\ Health!Sync(w) = r11[2]
    <3>1. t[11][1] /\ Health!Sync(w) = t[11][2]
      BY <1>17, <1>18
    <3>2. t[11] = r11
      BY <1>15
    <3> QED BY <3>1, <3>2, Zenon
  <2>2. Health!Sync(w) = "sync_diverged" /\ (w.diverged)
    BY <2>1, <1>11
  <2> QED BY <2>2
<1>30. k = 12 => Health!Sync(w) = "ok" /\ (TRUE)
  <2> SUFFICES ASSUME k = 12 PROVE Health!Sync(w) = "ok" /\ (TRUE)
    OBVIOUS
  <2>1. r12[1] /\ Health!Sync(w) = r12[2]
    <3>1. t[12][1] /\ Health!Sync(w) = t[12][2]
      BY <1>17, <1>18
    <3>2. t[12] = r12
      BY <1>15
    <3> QED BY <3>1, <3>2, Zenon
  <2>2. Health!Sync(w) = "ok" /\ (TRUE)
    BY <2>1, <1>12
  <2> QED BY <2>2
<1>31. k = 1 \/ k = 2 \/ k = 3 \/ k = 4 \/ k = 5 \/ k = 6 \/ k = 7 \/ k = 8 \/ k = 9 \/ k = 10 \/ k = 11 \/ k = 12
  OBVIOUS
<1> QED BY <1>31, <1>19, <1>20, <1>21, <1>22, <1>23, <1>24, <1>25, <1>26, <1>27, <1>28, <1>29, <1>30, Zenon

(* What holds of the facts when a round is refused, and when none is.      *)
LEMMA RefusalSays ==
  ASSUME NEW w
  PROVE  \/ Health!Refusal(w) = "machine_invalid" /\ ~Health!MachineValid(w)
         \/ Health!Refusal(w) = "not_a_repository" /\ (w.git = "missing" \/ w.place = "no_repo")
         \/ Health!Refusal(w) = "lock_unusable" /\ Health!Bridge(w) \in {"invalid", "unusable", "unmade"}
         \/ Health!Refusal(w) = Health!Sync(w) /\ Health!Sync(w) # "ok"
         \/ Health!Refusal(w) = "config_invalid" /\ (~Health!ConfigLoads(w) \/ w.config = "unscoped")
         \/ Health!Refusal(w) \in {"lock_held", "no_network", "disabled", "up_to_date"}
         \/ /\ Health!ConfigLoads(w) /\ w.enabled
            /\ \/ Health!Refusal(w) = "prompt_outside" /\ w.policy = "outside"
               \/ Health!Refusal(w) = "bad_timezone" /\ w.timezone = "bad"
               \/ Health!Refusal(w) = "watermark_unreadable" /\ w.mark = "corrupt"
               \/ Health!Refusal(w) = "watermark_future" /\ w.mark = "future"
               \/ Health!Refusal(w) = "cli_unusable" /\ Health!CliProblem(w)
               \/ Health!Refusal(w) = "source_unknown" /\ w.unknownSource
               \/ Health!Refusal(w) = "source_misconfigured" /\ Health!Required(w) \ Health!On(w) # {}
               \/ Health!Refusal(w) = "source_misconfigured" /\ w.transcripts = "required" /\ Health!Misconfigured(w)
               \/ Health!Refusal(w) = "source_unreadable" /\ w.transcripts = "required" /\ Health!TranscriptsUnreadable(w)
               \/ Health!Refusal(w) = "digest_dir_unsafe" /\ w.digests = "unsafe"
               \/ Health!Refusal(w) = "none" /\ Health!MachineValid(w) /\ ~Health!CliProblem(w)
<1> DEFINE r1 == <<~Health!MachineValid(w), "machine_invalid">>
           r2 == <<w.git = "missing" \/ w.place = "no_repo", "not_a_repository">>
           r3 == <<Health!Bridge(w) \in {"invalid", "unusable", "unmade"}, "lock_unusable">>
           r4 == <<Health!Bridge(w) = "held", "lock_held">>
           r5 == <<w.network = "down", "no_network">>
           r6 == <<Health!Sync(w) # "ok", Health!Sync(w)>>
           r7 == <<~Health!ConfigLoads(w), "config_invalid">>
           r8 == <<~w.enabled, "disabled">>
           r9 == <<w.policy = "outside", "prompt_outside">>
           r10 == <<w.config = "unscoped", "config_invalid">>
           r11 == <<w.timezone = "bad", "bad_timezone">>
           r12 == <<w.mark = "corrupt", "watermark_unreadable">>
           r13 == <<w.mark = "future" /\ Health!SourcesOn(w) # {}, "watermark_future">>
           r14 == <<w.mark = "level" \/ Health!SourcesOn(w) = {}, "up_to_date">>
           r15 == <<Health!CliProblem(w), "cli_unusable">>
           r16 == <<w.unknownSource, "source_unknown">>
           r17 == <<Health!Required(w) \ Health!On(w) # {}, "source_misconfigured">>
           r18 == <<w.transcripts = "required" /\ Health!Misconfigured(w), "source_misconfigured">>
           r19 == <<w.transcripts = "required" /\ Health!TranscriptsUnreadable(w), "source_unreadable">>
           r20 == <<w.transcripts # "no" /\ Health!Present(w) # {} /\ w.digests = "unsafe", "digest_dir_unsafe">>
           r21 == <<TRUE, "none">>
           t == <<r1, r2, r3, r4, r5, r6, r7, r8, r9, r10, r11, r12, r13, r14, r15, r16, r17, r18, r19, r20, r21>>
<1>1. (r1[1] = (~Health!MachineValid(w))) /\ r1[2] = "machine_invalid"
  OBVIOUS
<1>2. (r2[1] = (w.git = "missing" \/ w.place = "no_repo")) /\ r2[2] = "not_a_repository"
  OBVIOUS
<1>3. (r3[1] = (Health!Bridge(w) \in {"invalid", "unusable", "unmade"})) /\ r3[2] = "lock_unusable"
  OBVIOUS
<1>4. (r4[1] = (Health!Bridge(w) = "held")) /\ r4[2] = "lock_held"
  OBVIOUS
<1>5. (r5[1] = (w.network = "down")) /\ r5[2] = "no_network"
  OBVIOUS
<1>6. (r6[1] = (Health!Sync(w) # "ok")) /\ r6[2] = Health!Sync(w)
  OBVIOUS
<1>7. (r7[1] = (~Health!ConfigLoads(w))) /\ r7[2] = "config_invalid"
  OBVIOUS
<1>8. (r8[1] = (~w.enabled)) /\ r8[2] = "disabled"
  OBVIOUS
<1>9. (r9[1] = (w.policy = "outside")) /\ r9[2] = "prompt_outside"
  OBVIOUS
<1>10. (r10[1] = (w.config = "unscoped")) /\ r10[2] = "config_invalid"
  OBVIOUS
<1>11. (r11[1] = (w.timezone = "bad")) /\ r11[2] = "bad_timezone"
  OBVIOUS
<1>12. (r12[1] = (w.mark = "corrupt")) /\ r12[2] = "watermark_unreadable"
  OBVIOUS
<1>13. (r13[1] = (w.mark = "future" /\ Health!SourcesOn(w) # {})) /\ r13[2] = "watermark_future"
  OBVIOUS
<1>14. (r14[1] = (w.mark = "level" \/ Health!SourcesOn(w) = {})) /\ r14[2] = "up_to_date"
  OBVIOUS
<1>15. (r15[1] = (Health!CliProblem(w))) /\ r15[2] = "cli_unusable"
  OBVIOUS
<1>16. (r16[1] = (w.unknownSource)) /\ r16[2] = "source_unknown"
  OBVIOUS
<1>17. (r17[1] = (Health!Required(w) \ Health!On(w) # {})) /\ r17[2] = "source_misconfigured"
  OBVIOUS
<1>18. (r18[1] = (w.transcripts = "required" /\ Health!Misconfigured(w))) /\ r18[2] = "source_misconfigured"
  OBVIOUS
<1>19. (r19[1] = (w.transcripts = "required" /\ Health!TranscriptsUnreadable(w))) /\ r19[2] = "source_unreadable"
  OBVIOUS
<1>20. (r20[1] = (w.transcripts # "no" /\ Health!Present(w) # {} /\ w.digests = "unsafe")) /\ r20[2] = "digest_dir_unsafe"
  OBVIOUS
<1>21. (r21[1] = (TRUE)) /\ r21[2] = "none"
  OBVIOUS
<1>23. Health!Stops(w) = t
  BY Zenon DEF Health!Stops
<1> HIDE DEF r1, r2, r3, r4, r5, r6, r7, r8, r9, r10, r11, r12, r13, r14, r15, r16, r17, r18, r19, r20, r21
<1>24. DOMAIN t = 1..21 /\ t[1] = r1 /\ t[2] = r2 /\ t[3] = r3 /\ t[4] = r4 /\ t[5] = r5 /\ t[6] = r6 /\ t[7] = r7 /\ t[8] = r8 /\ t[9] = r9 /\ t[10] = r10 /\ t[11] = r11 /\ t[12] = r12 /\ t[13] = r13 /\ t[14] = r14 /\ t[15] = r15 /\ t[16] = r16 /\ t[17] = r17 /\ t[18] = r18 /\ t[19] = r19 /\ t[20] = r20 /\ t[21] = r21
  OBVIOUS
<1> HIDE DEF t
<1>25. \E i \in 1..21 : t[i][1] /\ Health!FirstRow(t) = t[i] /\ \A j \in 1..i - 1 : ~t[j][1]
  <2>1. PICK n : n = 21
    OBVIOUS
  <2>2. r21[1]
    BY <1>21
  <2>3. t[n] = r21 /\ n \in Nat /\ n \in 1..n /\ DOMAIN t = 1..n
    BY <1>24, <2>1
  <2>4. t[n][1]
    BY <2>2, <2>3, Zenon
  <2>5. \E i \in 1..n : t[i][1] /\ Health!FirstRow(t) = t[i] /\ \A j \in 1..i - 1 : ~t[j][1]
    BY <2>3, <2>4, FirstRowHolds
  <2> QED BY <2>1, <2>5
<1>26. PICK k \in 1..21 : t[k][1] /\ Health!FirstRow(t) = t[k] /\ \A j \in 1..k - 1 : ~t[j][1]
  BY <1>25
<1>27. Health!Refusal(w) = t[k][2]
  BY <1>23, <1>26, Zenon DEF Health!Refusal
<1>28. k = 1 => Health!Refusal(w) = "machine_invalid" /\ (~Health!MachineValid(w))
  <2> SUFFICES ASSUME k = 1 PROVE Health!Refusal(w) = "machine_invalid" /\ (~Health!MachineValid(w))
    OBVIOUS
  <2>1. r1[1] /\ Health!Refusal(w) = r1[2]
    <3>1. t[1][1] /\ Health!Refusal(w) = t[1][2]
      BY <1>26, <1>27
    <3>2. t[1] = r1
      BY <1>24
    <3> QED BY <3>1, <3>2, Zenon
  <2>2. Health!Refusal(w) = "machine_invalid" /\ (~Health!MachineValid(w))
    BY <2>1, <1>1
  <2> QED BY <2>2
<1>29. k = 2 => Health!Refusal(w) = "not_a_repository" /\ (w.git = "missing" \/ w.place = "no_repo")
  <2> SUFFICES ASSUME k = 2 PROVE Health!Refusal(w) = "not_a_repository" /\ (w.git = "missing" \/ w.place = "no_repo")
    OBVIOUS
  <2>1. r2[1] /\ Health!Refusal(w) = r2[2]
    <3>1. t[2][1] /\ Health!Refusal(w) = t[2][2]
      BY <1>26, <1>27
    <3>2. t[2] = r2
      BY <1>24
    <3> QED BY <3>1, <3>2, Zenon
  <2>2. Health!Refusal(w) = "not_a_repository" /\ (w.git = "missing" \/ w.place = "no_repo")
    BY <2>1, <1>2
  <2> QED BY <2>2
<1>30. k = 3 => Health!Refusal(w) = "lock_unusable" /\ (Health!Bridge(w) \in {"invalid", "unusable", "unmade"})
  <2> SUFFICES ASSUME k = 3 PROVE Health!Refusal(w) = "lock_unusable" /\ (Health!Bridge(w) \in {"invalid", "unusable", "unmade"})
    OBVIOUS
  <2>1. r3[1] /\ Health!Refusal(w) = r3[2]
    <3>1. t[3][1] /\ Health!Refusal(w) = t[3][2]
      BY <1>26, <1>27
    <3>2. t[3] = r3
      BY <1>24
    <3> QED BY <3>1, <3>2, Zenon
  <2>2. Health!Refusal(w) = "lock_unusable" /\ (Health!Bridge(w) \in {"invalid", "unusable", "unmade"})
    BY <2>1, <1>3
  <2> QED BY <2>2
<1>31. k = 4 => Health!Refusal(w) = "lock_held" /\ (Health!Bridge(w) = "held")
  <2> SUFFICES ASSUME k = 4 PROVE Health!Refusal(w) = "lock_held" /\ (Health!Bridge(w) = "held")
    OBVIOUS
  <2>1. r4[1] /\ Health!Refusal(w) = r4[2]
    <3>1. t[4][1] /\ Health!Refusal(w) = t[4][2]
      BY <1>26, <1>27
    <3>2. t[4] = r4
      BY <1>24
    <3> QED BY <3>1, <3>2, Zenon
  <2>2. Health!Refusal(w) = "lock_held" /\ (Health!Bridge(w) = "held")
    BY <2>1, <1>4
  <2> QED BY <2>2
<1>32. k = 5 => Health!Refusal(w) = "no_network" /\ (w.network = "down")
  <2> SUFFICES ASSUME k = 5 PROVE Health!Refusal(w) = "no_network" /\ (w.network = "down")
    OBVIOUS
  <2>1. r5[1] /\ Health!Refusal(w) = r5[2]
    <3>1. t[5][1] /\ Health!Refusal(w) = t[5][2]
      BY <1>26, <1>27
    <3>2. t[5] = r5
      BY <1>24
    <3> QED BY <3>1, <3>2, Zenon
  <2>2. Health!Refusal(w) = "no_network" /\ (w.network = "down")
    BY <2>1, <1>5
  <2> QED BY <2>2
<1>33. k = 6 => Health!Refusal(w) = Health!Sync(w) /\ (Health!Sync(w) # "ok")
  <2> SUFFICES ASSUME k = 6 PROVE Health!Refusal(w) = Health!Sync(w) /\ (Health!Sync(w) # "ok")
    OBVIOUS
  <2>1. r6[1] /\ Health!Refusal(w) = r6[2]
    <3>1. t[6][1] /\ Health!Refusal(w) = t[6][2]
      BY <1>26, <1>27
    <3>2. t[6] = r6
      BY <1>24
    <3> QED BY <3>1, <3>2, Zenon
  <2>2. Health!Refusal(w) = Health!Sync(w) /\ (Health!Sync(w) # "ok")
    BY <2>1, <1>6
  <2> QED BY <2>2
<1>34. k = 7 => Health!Refusal(w) = "config_invalid" /\ (~Health!ConfigLoads(w))
  <2> SUFFICES ASSUME k = 7 PROVE Health!Refusal(w) = "config_invalid" /\ (~Health!ConfigLoads(w))
    OBVIOUS
  <2>1. r7[1] /\ Health!Refusal(w) = r7[2]
    <3>1. t[7][1] /\ Health!Refusal(w) = t[7][2]
      BY <1>26, <1>27
    <3>2. t[7] = r7
      BY <1>24
    <3> QED BY <3>1, <3>2, Zenon
  <2>2. Health!Refusal(w) = "config_invalid" /\ (~Health!ConfigLoads(w))
    BY <2>1, <1>7
  <2> QED BY <2>2
<1>35. k = 8 => Health!Refusal(w) = "disabled" /\ (~w.enabled)
  <2> SUFFICES ASSUME k = 8 PROVE Health!Refusal(w) = "disabled" /\ (~w.enabled)
    OBVIOUS
  <2>1. r8[1] /\ Health!Refusal(w) = r8[2]
    <3>1. t[8][1] /\ Health!Refusal(w) = t[8][2]
      BY <1>26, <1>27
    <3>2. t[8] = r8
      BY <1>24
    <3> QED BY <3>1, <3>2, Zenon
  <2>2. Health!Refusal(w) = "disabled" /\ (~w.enabled)
    BY <2>1, <1>8
  <2> QED BY <2>2
<1>36. k = 9 => Health!Refusal(w) = "prompt_outside" /\ (w.policy = "outside") /\ ~(~Health!ConfigLoads(w)) /\ ~(~w.enabled)
  <2> SUFFICES ASSUME k = 9 PROVE Health!Refusal(w) = "prompt_outside" /\ (w.policy = "outside") /\ ~(~Health!ConfigLoads(w)) /\ ~(~w.enabled)
    OBVIOUS
  <2>1. r9[1] /\ Health!Refusal(w) = r9[2]
    <3>1. t[9][1] /\ Health!Refusal(w) = t[9][2]
      BY <1>26, <1>27
    <3>2. t[9] = r9
      BY <1>24
    <3> QED BY <3>1, <3>2, Zenon
  <2>2. Health!Refusal(w) = "prompt_outside" /\ (w.policy = "outside")
    BY <2>1, <1>9
  <2>3. ~r7[1]
    <3>1. ~t[7][1]
      BY <1>26
    <3>2. t[7] = r7
      BY <1>24
    <3> QED BY <3>1, <3>2, Zenon
  <2>4. ~(~Health!ConfigLoads(w))
    BY <2>3, <1>7
  <2>5. ~r8[1]
    <3>1. ~t[8][1]
      BY <1>26
    <3>2. t[8] = r8
      BY <1>24
    <3> QED BY <3>1, <3>2, Zenon
  <2>6. ~(~w.enabled)
    BY <2>5, <1>8
  <2> QED BY <2>2, <2>4, <2>6
<1>37. k = 10 => Health!Refusal(w) = "config_invalid" /\ (w.config = "unscoped")
  <2> SUFFICES ASSUME k = 10 PROVE Health!Refusal(w) = "config_invalid" /\ (w.config = "unscoped")
    OBVIOUS
  <2>1. r10[1] /\ Health!Refusal(w) = r10[2]
    <3>1. t[10][1] /\ Health!Refusal(w) = t[10][2]
      BY <1>26, <1>27
    <3>2. t[10] = r10
      BY <1>24
    <3> QED BY <3>1, <3>2, Zenon
  <2>2. Health!Refusal(w) = "config_invalid" /\ (w.config = "unscoped")
    BY <2>1, <1>10
  <2> QED BY <2>2
<1>38. k = 11 => Health!Refusal(w) = "bad_timezone" /\ (w.timezone = "bad") /\ ~(~Health!ConfigLoads(w)) /\ ~(~w.enabled)
  <2> SUFFICES ASSUME k = 11 PROVE Health!Refusal(w) = "bad_timezone" /\ (w.timezone = "bad") /\ ~(~Health!ConfigLoads(w)) /\ ~(~w.enabled)
    OBVIOUS
  <2>1. r11[1] /\ Health!Refusal(w) = r11[2]
    <3>1. t[11][1] /\ Health!Refusal(w) = t[11][2]
      BY <1>26, <1>27
    <3>2. t[11] = r11
      BY <1>24
    <3> QED BY <3>1, <3>2, Zenon
  <2>2. Health!Refusal(w) = "bad_timezone" /\ (w.timezone = "bad")
    BY <2>1, <1>11
  <2>3. ~r7[1]
    <3>1. ~t[7][1]
      BY <1>26
    <3>2. t[7] = r7
      BY <1>24
    <3> QED BY <3>1, <3>2, Zenon
  <2>4. ~(~Health!ConfigLoads(w))
    BY <2>3, <1>7
  <2>5. ~r8[1]
    <3>1. ~t[8][1]
      BY <1>26
    <3>2. t[8] = r8
      BY <1>24
    <3> QED BY <3>1, <3>2, Zenon
  <2>6. ~(~w.enabled)
    BY <2>5, <1>8
  <2> QED BY <2>2, <2>4, <2>6
<1>39. k = 12 => Health!Refusal(w) = "watermark_unreadable" /\ (w.mark = "corrupt") /\ ~(~Health!ConfigLoads(w)) /\ ~(~w.enabled)
  <2> SUFFICES ASSUME k = 12 PROVE Health!Refusal(w) = "watermark_unreadable" /\ (w.mark = "corrupt") /\ ~(~Health!ConfigLoads(w)) /\ ~(~w.enabled)
    OBVIOUS
  <2>1. r12[1] /\ Health!Refusal(w) = r12[2]
    <3>1. t[12][1] /\ Health!Refusal(w) = t[12][2]
      BY <1>26, <1>27
    <3>2. t[12] = r12
      BY <1>24
    <3> QED BY <3>1, <3>2, Zenon
  <2>2. Health!Refusal(w) = "watermark_unreadable" /\ (w.mark = "corrupt")
    BY <2>1, <1>12
  <2>3. ~r7[1]
    <3>1. ~t[7][1]
      BY <1>26
    <3>2. t[7] = r7
      BY <1>24
    <3> QED BY <3>1, <3>2, Zenon
  <2>4. ~(~Health!ConfigLoads(w))
    BY <2>3, <1>7
  <2>5. ~r8[1]
    <3>1. ~t[8][1]
      BY <1>26
    <3>2. t[8] = r8
      BY <1>24
    <3> QED BY <3>1, <3>2, Zenon
  <2>6. ~(~w.enabled)
    BY <2>5, <1>8
  <2> QED BY <2>2, <2>4, <2>6
<1>40. k = 13 => Health!Refusal(w) = "watermark_future" /\ (w.mark = "future" /\ Health!SourcesOn(w) # {}) /\ ~(~Health!ConfigLoads(w)) /\ ~(~w.enabled)
  <2> SUFFICES ASSUME k = 13 PROVE Health!Refusal(w) = "watermark_future" /\ (w.mark = "future" /\ Health!SourcesOn(w) # {}) /\ ~(~Health!ConfigLoads(w)) /\ ~(~w.enabled)
    OBVIOUS
  <2>1. r13[1] /\ Health!Refusal(w) = r13[2]
    <3>1. t[13][1] /\ Health!Refusal(w) = t[13][2]
      BY <1>26, <1>27
    <3>2. t[13] = r13
      BY <1>24
    <3> QED BY <3>1, <3>2, Zenon
  <2>2. Health!Refusal(w) = "watermark_future" /\ (w.mark = "future" /\ Health!SourcesOn(w) # {})
    BY <2>1, <1>13
  <2>3. ~r7[1]
    <3>1. ~t[7][1]
      BY <1>26
    <3>2. t[7] = r7
      BY <1>24
    <3> QED BY <3>1, <3>2, Zenon
  <2>4. ~(~Health!ConfigLoads(w))
    BY <2>3, <1>7
  <2>5. ~r8[1]
    <3>1. ~t[8][1]
      BY <1>26
    <3>2. t[8] = r8
      BY <1>24
    <3> QED BY <3>1, <3>2, Zenon
  <2>6. ~(~w.enabled)
    BY <2>5, <1>8
  <2> QED BY <2>2, <2>4, <2>6
<1>41. k = 14 => Health!Refusal(w) = "up_to_date" /\ (w.mark = "level" \/ Health!SourcesOn(w) = {})
  <2> SUFFICES ASSUME k = 14 PROVE Health!Refusal(w) = "up_to_date" /\ (w.mark = "level" \/ Health!SourcesOn(w) = {})
    OBVIOUS
  <2>1. r14[1] /\ Health!Refusal(w) = r14[2]
    <3>1. t[14][1] /\ Health!Refusal(w) = t[14][2]
      BY <1>26, <1>27
    <3>2. t[14] = r14
      BY <1>24
    <3> QED BY <3>1, <3>2, Zenon
  <2>2. Health!Refusal(w) = "up_to_date" /\ (w.mark = "level" \/ Health!SourcesOn(w) = {})
    BY <2>1, <1>14
  <2> QED BY <2>2
<1>42. k = 15 => Health!Refusal(w) = "cli_unusable" /\ (Health!CliProblem(w)) /\ ~(~Health!ConfigLoads(w)) /\ ~(~w.enabled)
  <2> SUFFICES ASSUME k = 15 PROVE Health!Refusal(w) = "cli_unusable" /\ (Health!CliProblem(w)) /\ ~(~Health!ConfigLoads(w)) /\ ~(~w.enabled)
    OBVIOUS
  <2>1. r15[1] /\ Health!Refusal(w) = r15[2]
    <3>1. t[15][1] /\ Health!Refusal(w) = t[15][2]
      BY <1>26, <1>27
    <3>2. t[15] = r15
      BY <1>24
    <3> QED BY <3>1, <3>2, Zenon
  <2>2. Health!Refusal(w) = "cli_unusable" /\ (Health!CliProblem(w))
    BY <2>1, <1>15
  <2>3. ~r7[1]
    <3>1. ~t[7][1]
      BY <1>26
    <3>2. t[7] = r7
      BY <1>24
    <3> QED BY <3>1, <3>2, Zenon
  <2>4. ~(~Health!ConfigLoads(w))
    BY <2>3, <1>7
  <2>5. ~r8[1]
    <3>1. ~t[8][1]
      BY <1>26
    <3>2. t[8] = r8
      BY <1>24
    <3> QED BY <3>1, <3>2, Zenon
  <2>6. ~(~w.enabled)
    BY <2>5, <1>8
  <2> QED BY <2>2, <2>4, <2>6
<1>43. k = 16 => Health!Refusal(w) = "source_unknown" /\ (w.unknownSource) /\ ~(~Health!ConfigLoads(w)) /\ ~(~w.enabled)
  <2> SUFFICES ASSUME k = 16 PROVE Health!Refusal(w) = "source_unknown" /\ (w.unknownSource) /\ ~(~Health!ConfigLoads(w)) /\ ~(~w.enabled)
    OBVIOUS
  <2>1. r16[1] /\ Health!Refusal(w) = r16[2]
    <3>1. t[16][1] /\ Health!Refusal(w) = t[16][2]
      BY <1>26, <1>27
    <3>2. t[16] = r16
      BY <1>24
    <3> QED BY <3>1, <3>2, Zenon
  <2>2. Health!Refusal(w) = "source_unknown" /\ (w.unknownSource)
    BY <2>1, <1>16
  <2>3. ~r7[1]
    <3>1. ~t[7][1]
      BY <1>26
    <3>2. t[7] = r7
      BY <1>24
    <3> QED BY <3>1, <3>2, Zenon
  <2>4. ~(~Health!ConfigLoads(w))
    BY <2>3, <1>7
  <2>5. ~r8[1]
    <3>1. ~t[8][1]
      BY <1>26
    <3>2. t[8] = r8
      BY <1>24
    <3> QED BY <3>1, <3>2, Zenon
  <2>6. ~(~w.enabled)
    BY <2>5, <1>8
  <2> QED BY <2>2, <2>4, <2>6
<1>44. k = 17 => Health!Refusal(w) = "source_misconfigured" /\ (Health!Required(w) \ Health!On(w) # {}) /\ ~(~Health!ConfigLoads(w)) /\ ~(~w.enabled)
  <2> SUFFICES ASSUME k = 17 PROVE Health!Refusal(w) = "source_misconfigured" /\ (Health!Required(w) \ Health!On(w) # {}) /\ ~(~Health!ConfigLoads(w)) /\ ~(~w.enabled)
    OBVIOUS
  <2>1. r17[1] /\ Health!Refusal(w) = r17[2]
    <3>1. t[17][1] /\ Health!Refusal(w) = t[17][2]
      BY <1>26, <1>27
    <3>2. t[17] = r17
      BY <1>24
    <3> QED BY <3>1, <3>2, Zenon
  <2>2. Health!Refusal(w) = "source_misconfigured" /\ (Health!Required(w) \ Health!On(w) # {})
    BY <2>1, <1>17
  <2>3. ~r7[1]
    <3>1. ~t[7][1]
      BY <1>26
    <3>2. t[7] = r7
      BY <1>24
    <3> QED BY <3>1, <3>2, Zenon
  <2>4. ~(~Health!ConfigLoads(w))
    BY <2>3, <1>7
  <2>5. ~r8[1]
    <3>1. ~t[8][1]
      BY <1>26
    <3>2. t[8] = r8
      BY <1>24
    <3> QED BY <3>1, <3>2, Zenon
  <2>6. ~(~w.enabled)
    BY <2>5, <1>8
  <2> QED BY <2>2, <2>4, <2>6
<1>45. k = 18 => Health!Refusal(w) = "source_misconfigured" /\ (w.transcripts = "required" /\ Health!Misconfigured(w)) /\ ~(~Health!ConfigLoads(w)) /\ ~(~w.enabled)
  <2> SUFFICES ASSUME k = 18 PROVE Health!Refusal(w) = "source_misconfigured" /\ (w.transcripts = "required" /\ Health!Misconfigured(w)) /\ ~(~Health!ConfigLoads(w)) /\ ~(~w.enabled)
    OBVIOUS
  <2>1. r18[1] /\ Health!Refusal(w) = r18[2]
    <3>1. t[18][1] /\ Health!Refusal(w) = t[18][2]
      BY <1>26, <1>27
    <3>2. t[18] = r18
      BY <1>24
    <3> QED BY <3>1, <3>2, Zenon
  <2>2. Health!Refusal(w) = "source_misconfigured" /\ (w.transcripts = "required" /\ Health!Misconfigured(w))
    BY <2>1, <1>18
  <2>3. ~r7[1]
    <3>1. ~t[7][1]
      BY <1>26
    <3>2. t[7] = r7
      BY <1>24
    <3> QED BY <3>1, <3>2, Zenon
  <2>4. ~(~Health!ConfigLoads(w))
    BY <2>3, <1>7
  <2>5. ~r8[1]
    <3>1. ~t[8][1]
      BY <1>26
    <3>2. t[8] = r8
      BY <1>24
    <3> QED BY <3>1, <3>2, Zenon
  <2>6. ~(~w.enabled)
    BY <2>5, <1>8
  <2> QED BY <2>2, <2>4, <2>6
<1>46. k = 19 => Health!Refusal(w) = "source_unreadable" /\ (w.transcripts = "required" /\ Health!TranscriptsUnreadable(w)) /\ ~(~Health!ConfigLoads(w)) /\ ~(~w.enabled)
  <2> SUFFICES ASSUME k = 19 PROVE Health!Refusal(w) = "source_unreadable" /\ (w.transcripts = "required" /\ Health!TranscriptsUnreadable(w)) /\ ~(~Health!ConfigLoads(w)) /\ ~(~w.enabled)
    OBVIOUS
  <2>1. r19[1] /\ Health!Refusal(w) = r19[2]
    <3>1. t[19][1] /\ Health!Refusal(w) = t[19][2]
      BY <1>26, <1>27
    <3>2. t[19] = r19
      BY <1>24
    <3> QED BY <3>1, <3>2, Zenon
  <2>2. Health!Refusal(w) = "source_unreadable" /\ (w.transcripts = "required" /\ Health!TranscriptsUnreadable(w))
    BY <2>1, <1>19
  <2>3. ~r7[1]
    <3>1. ~t[7][1]
      BY <1>26
    <3>2. t[7] = r7
      BY <1>24
    <3> QED BY <3>1, <3>2, Zenon
  <2>4. ~(~Health!ConfigLoads(w))
    BY <2>3, <1>7
  <2>5. ~r8[1]
    <3>1. ~t[8][1]
      BY <1>26
    <3>2. t[8] = r8
      BY <1>24
    <3> QED BY <3>1, <3>2, Zenon
  <2>6. ~(~w.enabled)
    BY <2>5, <1>8
  <2> QED BY <2>2, <2>4, <2>6
<1>47. k = 20 => Health!Refusal(w) = "digest_dir_unsafe" /\ (w.transcripts # "no" /\ Health!Present(w) # {} /\ w.digests = "unsafe") /\ ~(~Health!ConfigLoads(w)) /\ ~(~w.enabled)
  <2> SUFFICES ASSUME k = 20 PROVE Health!Refusal(w) = "digest_dir_unsafe" /\ (w.transcripts # "no" /\ Health!Present(w) # {} /\ w.digests = "unsafe") /\ ~(~Health!ConfigLoads(w)) /\ ~(~w.enabled)
    OBVIOUS
  <2>1. r20[1] /\ Health!Refusal(w) = r20[2]
    <3>1. t[20][1] /\ Health!Refusal(w) = t[20][2]
      BY <1>26, <1>27
    <3>2. t[20] = r20
      BY <1>24
    <3> QED BY <3>1, <3>2, Zenon
  <2>2. Health!Refusal(w) = "digest_dir_unsafe" /\ (w.transcripts # "no" /\ Health!Present(w) # {} /\ w.digests = "unsafe")
    BY <2>1, <1>20
  <2>3. ~r7[1]
    <3>1. ~t[7][1]
      BY <1>26
    <3>2. t[7] = r7
      BY <1>24
    <3> QED BY <3>1, <3>2, Zenon
  <2>4. ~(~Health!ConfigLoads(w))
    BY <2>3, <1>7
  <2>5. ~r8[1]
    <3>1. ~t[8][1]
      BY <1>26
    <3>2. t[8] = r8
      BY <1>24
    <3> QED BY <3>1, <3>2, Zenon
  <2>6. ~(~w.enabled)
    BY <2>5, <1>8
  <2> QED BY <2>2, <2>4, <2>6
<1>48. k = 21 => Health!Refusal(w) = "none" /\ (TRUE) /\ ~(~Health!MachineValid(w)) /\ ~(~Health!ConfigLoads(w)) /\ ~(~w.enabled) /\ ~(Health!CliProblem(w))
  <2> SUFFICES ASSUME k = 21 PROVE Health!Refusal(w) = "none" /\ (TRUE) /\ ~(~Health!MachineValid(w)) /\ ~(~Health!ConfigLoads(w)) /\ ~(~w.enabled) /\ ~(Health!CliProblem(w))
    OBVIOUS
  <2>1. r21[1] /\ Health!Refusal(w) = r21[2]
    <3>1. t[21][1] /\ Health!Refusal(w) = t[21][2]
      BY <1>26, <1>27
    <3>2. t[21] = r21
      BY <1>24
    <3> QED BY <3>1, <3>2, Zenon
  <2>2. Health!Refusal(w) = "none" /\ (TRUE)
    BY <2>1, <1>21
  <2>3. ~r1[1]
    <3>1. ~t[1][1]
      BY <1>26
    <3>2. t[1] = r1
      BY <1>24
    <3> QED BY <3>1, <3>2, Zenon
  <2>4. ~(~Health!MachineValid(w))
    BY <2>3, <1>1
  <2>5. ~r7[1]
    <3>1. ~t[7][1]
      BY <1>26
    <3>2. t[7] = r7
      BY <1>24
    <3> QED BY <3>1, <3>2, Zenon
  <2>6. ~(~Health!ConfigLoads(w))
    BY <2>5, <1>7
  <2>7. ~r8[1]
    <3>1. ~t[8][1]
      BY <1>26
    <3>2. t[8] = r8
      BY <1>24
    <3> QED BY <3>1, <3>2, Zenon
  <2>8. ~(~w.enabled)
    BY <2>7, <1>8
  <2>9. ~r15[1]
    <3>1. ~t[15][1]
      BY <1>26
    <3>2. t[15] = r15
      BY <1>24
    <3> QED BY <3>1, <3>2, Zenon
  <2>10. ~(Health!CliProblem(w))
    BY <2>9, <1>15
  <2> QED BY <2>2, <2>4, <2>6, <2>8, <2>10
<1>49. k = 1 \/ k = 2 \/ k = 3 \/ k = 4 \/ k = 5 \/ k = 6 \/ k = 7 \/ k = 8 \/ k = 9 \/ k = 10 \/ k = 11 \/ k = 12 \/ k = 13 \/ k = 14 \/ k = 15 \/ k = 16 \/ k = 17 \/ k = 18 \/ k = 19 \/ k = 20 \/ k = 21
  OBVIOUS
<1> QED BY <1>49, <1>28, <1>29, <1>30, <1>31, <1>32, <1>33, <1>34, <1>35, <1>36, <1>37, <1>38, <1>39, <1>40, <1>41, <1>42, <1>43, <1>44, <1>45, <1>46, <1>47, <1>48

LEMMA SpokenByIs ==
  /\ DOMAIN Health!SpokenBy = {"machine_invalid", "not_a_repository", "lock_unusable", "sync_failed", "config_invalid",
                        "prompt_outside", "bad_timezone", "watermark_unreadable", "watermark_future", "cli_unusable",
                        "source_unknown", "source_misconfigured", "source_unreadable", "digest_dir_unsafe"}
  /\ Health!SpokenBy["machine_invalid"] = {"machine-valid"}
  /\ Health!SpokenBy["not_a_repository"] = {"git-present", "hooks-path"}
  /\ Health!SpokenBy["lock_unusable"] = {"legacy-lock"}
  /\ Health!SpokenBy["sync_failed"] = {"default-branch-known"}
  /\ Health!SpokenBy["config_invalid"] = {"config-valid"}
  /\ Health!SpokenBy["prompt_outside"] = {"privacy-policy"}
  /\ Health!SpokenBy["bad_timezone"] = {"watermark"}
  /\ Health!SpokenBy["watermark_unreadable"] = {"watermark"}
  /\ Health!SpokenBy["watermark_future"] = {"watermark"}
  /\ Health!SpokenBy["cli_unusable"] = {"claude-real"}
  /\ Health!SpokenBy["source_unknown"] = {"watermark"}
  /\ Health!SpokenBy["source_misconfigured"] = {"include-projects", "connectors"}
  /\ Health!SpokenBy["source_unreadable"] = {"include-projects"}
  /\ Health!SpokenBy["digest_dir_unsafe"] = {"digest-dir"}
BY DEF Health!SpokenBy

LEMMA RefusalIsNamed ==
  ASSUME NEW w, Sighted(w), Health!Refusal(w) \in DOMAIN Health!SpokenBy
  PROVE  Health!Speaks(Health!Results(w, FALSE), Health!SpokenBy[Health!Refusal(w)])
<1> DEFINE named == Health!SpokenBy[Health!Refusal(w)]
           said == Health!Speaks(Health!Results(w, FALSE), named)
<1> SUFFICES said
  OBVIOUS
<1>1. CASE Health!Refusal(w) = "machine_invalid" /\ ~Health!MachineValid(w)
  <2>1. Health!Speaks(Health!MachineValidCheck(w), {"machine-valid"}) /\ "machine-valid" \in named
    BY <1>1, MachineIsNamed, SpokenByIs DEF Sighted
  <2> HIDE DEF named
  <2> QED BY <2>1, ReportSpeaks, Zenon
<1>2. CASE Health!Refusal(w) = "not_a_repository" /\ (w.git = "missing" \/ w.place = "no_repo")
  <2>1. Health!Speaks(Health!HooksPath(w), {"hooks-path"})
    <3>1. w.hooksPath \in {"here", "unset", "elsewhere", "unreadable"}
      BY DEF Sighted
    <3>2. \/ w.git = "missing" \/ w.place \in {"no_repo", "below"} \/ w.hooksPath # "here"
          \/ w.hook \in {"missing", "empty", "locked", "edited"}
      BY <1>2
    <3> QED BY <3>1, <3>2, PushIsNamed
  <2>2. "hooks-path" \in named
    BY <1>2, SpokenByIs
  <2> HIDE DEF named
  <2> QED BY <2>1, <2>2, ReportSpeaks, Zenon
<1>3. CASE Health!Refusal(w) = "lock_unusable" /\ Health!Bridge(w) \in {"invalid", "unusable", "unmade"}
  <2>1. Health!Bridge(w) # "unmade"
    BY DEF Health!Bridge, Sighted
  <2>2. Health!Speaks(Health!LegacyLock(w), {"legacy-lock"}) /\ "legacy-lock" \in named
    BY <1>3, <2>1, MachineIsNamed, SpokenByIs DEF Sighted
  <2> HIDE DEF named
  <2> QED BY <2>2, ReportSpeaks, Zenon
<1>4. CASE Health!Refusal(w) = Health!Sync(w) /\ Health!Sync(w) # "ok"
  <2>1. /\ Health!Sync(w) = "sync_failed"
        /\ \/ Health!DefaultBranchOf(w) \in {Health!Nothing, "no name"} \/ w.upstream = "local"
           \/ w.remote /\ ~w.reachable
           \/ w.remote /\ w.published # {} /\ Health!UpstreamOf(w) \notin w.published
    <3>1. Health!Sync(w) \notin {"ok", "sync_postponed", "sync_no_commit", "dirty_tree", "sync_unlinked", "sync_diverged"}
      BY <1>4, SpokenByIs
    <3> QED BY <3>1, SyncSays, Zenon
  <2>2. Health!Speaks(Health!DefaultBranchKnown(w), {"default-branch-known"})
    BY <2>1, BranchIsNamed, Zenon
  <2>3. "default-branch-known" \in named
    BY <1>4, <2>1, SpokenByIs
  <2> HIDE DEF named
  <2> QED BY <2>2, <2>3, ReportSpeaks, Zenon
<1>5. CASE Health!Refusal(w) = "config_invalid" /\ (~Health!ConfigLoads(w) \/ w.config = "unscoped")
  <2>1. Health!Speaks(Health!ConfigValid(w), {"config-valid"}) /\ "config-valid" \in named
    BY <1>5, PushIsNamed, SpokenByIs DEF Sighted
  <2> HIDE DEF named
  <2> QED BY <2>1, ReportSpeaks, Zenon
<1>6. ASSUME Health!ConfigLoads(w), w.enabled,
             \/ Health!Refusal(w) = "prompt_outside" /\ w.policy = "outside"
             \/ Health!Refusal(w) = "bad_timezone" /\ w.timezone = "bad"
             \/ Health!Refusal(w) = "watermark_unreadable" /\ w.mark = "corrupt"
             \/ Health!Refusal(w) = "watermark_future" /\ w.mark = "future"
             \/ Health!Refusal(w) = "cli_unusable" /\ Health!CliProblem(w)
             \/ Health!Refusal(w) = "source_unknown" /\ w.unknownSource
             \/ Health!Refusal(w) = "source_misconfigured" /\ Health!Required(w) \ Health!On(w) # {}
             \/ Health!Refusal(w) = "source_misconfigured" /\ w.transcripts = "required" /\ Health!Misconfigured(w)
             \/ Health!Refusal(w) = "source_unreadable" /\ w.transcripts = "required" /\ Health!TranscriptsUnreadable(w)
             \/ Health!Refusal(w) = "digest_dir_unsafe" /\ w.digests = "unsafe"
      PROVE  said
  <2>1. Health!ConfigRead(w)
    BY <1>6 DEF Health!ConfigLoads, Health!ConfigRead
  <2>2. CASE Health!Refusal(w) = "prompt_outside" /\ w.policy = "outside"
    <3>1. Health!Speaks(Health!PrivacyPolicy(w), {"privacy-policy"}) /\ "privacy-policy" \in named
      BY <2>2, PolicyIsNamed, SpokenByIs
    <3> HIDE DEF named
    <3> QED BY <3>1, ReportSpeaks, Zenon
  <2>3. CASE \/ Health!Refusal(w) = "bad_timezone" /\ w.timezone = "bad"
             \/ Health!Refusal(w) = "watermark_unreadable" /\ w.mark = "corrupt"
             \/ Health!Refusal(w) = "watermark_future" /\ w.mark = "future"
             \/ Health!Refusal(w) = "source_unknown" /\ w.unknownSource
    <3>1. Health!Speaks(Health!WatermarkCheck(w), {"watermark"})
      BY <1>6, <2>1, <2>3, MarkIsNamed
    <3>2. "watermark" \in named
      BY <2>3, SpokenByIs
    <3> HIDE DEF named
    <3> QED BY <3>1, <3>2, ReportSpeaks, Zenon
  <2>4. CASE Health!Refusal(w) = "cli_unusable" /\ Health!CliProblem(w)
    <3>1. w.claude \in {"missing", "batch", "stub", "failed"}
      BY <2>4 DEF Health!CliProblem, Sighted
    <3>2. Health!Speaks(Health!ClaudeReal(w), {"claude-real"}) /\ "claude-real" \in named
      BY <1>6, <2>1, <2>4, <3>1, CliIsNamed, SpokenByIs
    <3> HIDE DEF named
    <3> QED BY <3>2, ReportSpeaks, Zenon
  <2>5. CASE Health!Refusal(w) = "source_misconfigured" /\ Health!Required(w) \ Health!On(w) # {}
    <3>1. Health!Speaks(Health!ConnectorsCheck(w, FALSE), {"connectors"})
      BY <1>6, <2>1, <2>5, OffIsNamed
    <3>2. "connectors" \in named
      BY <2>5, SpokenByIs
    <3> HIDE DEF named
    <3> QED BY <3>1, <3>2, ReportSpeaks, Zenon
  <2>6. CASE \/ Health!Refusal(w) = "source_misconfigured" /\ w.transcripts = "required" /\ Health!Misconfigured(w)
             \/ Health!Refusal(w) = "source_unreadable" /\ w.transcripts = "required" /\ Health!TranscriptsUnreadable(w)
    <3>1. Health!Speaks(Health!IncludeProjects(w), {"include-projects"})
      BY <1>6, <2>1, <2>6, ProjectsAreNamed
    <3>2. "include-projects" \in named
      BY <2>6, SpokenByIs
    <3> HIDE DEF named
    <3> QED BY <3>1, <3>2, ReportSpeaks, Zenon
  <2>7. CASE Health!Refusal(w) = "digest_dir_unsafe" /\ w.digests = "unsafe"
    <3>1. Health!Speaks(Health!DigestDir(w), {"digest-dir"}) /\ "digest-dir" \in named
      BY <1>6, <2>1, <2>7, DigestsAreNamed, SpokenByIs
    <3> HIDE DEF named
    <3> QED BY <3>1, ReportSpeaks, Zenon
  <2> QED BY <1>6, <2>2, <2>3, <2>4, <2>5, <2>6, <2>7, Zenon
<1>7. Health!Refusal(w) \notin {"lock_held", "no_network", "disabled", "up_to_date", "none"}
  BY SpokenByIs
<1> QED BY <1>1, <1>2, <1>3, <1>4, <1>5, <1>6, <1>7, RefusalSays, Zenon

LEMMA GatedWhenOk ==
  ASSUME NEW w, Sighted(w),
         ~Health!Speaks(Health!Results(w, FALSE), {"node-version", "git-present", "hooks-path", "brain-kit-on-path", "config-valid"})
  PROVE  Health!PushOutcome(w) = "judged"
<1> DEFINE five == {"node-version", "git-present", "hooks-path", "brain-kit-on-path", "config-valid"}
<1>1. "node-version" \in five /\ "hooks-path" \in five /\ "brain-kit-on-path" \in five /\ "config-valid" \in five
  OBVIOUS
<1>2. ~Health!Speaks(Health!Results(w, FALSE), five)
  OBVIOUS
<1> HIDE DEF five
<1>3. /\ ~Health!Speaks(Health!NodeVersion(w), {"node-version"}) /\ ~Health!Speaks(Health!HooksPath(w), {"hooks-path"})
      /\ ~Health!Speaks(Health!BrainKitOnPath(w), {"brain-kit-on-path"}) /\ ~Health!Speaks(Health!ConfigValid(w), {"config-valid"})
  BY <1>1, <1>2, ReportSpeaks, Zenon
<1>4. /\ w.nodePath \notin {"missing", "failed", "unrecognised", "old"}
      /\ w.place \notin {"no_repo", "below"} /\ w.hooksPath = "here"
      /\ w.hook \notin {"missing", "empty", "locked", "edited"}
      /\ w.kit \notin {"missing", "failed", "unrecognised"}
      /\ Health!ConfigLoads(w) /\ w.config # "pattern"
  BY <1>3, PushIsNamed DEF Sighted
<1> QED BY <1>4 DEF Health!PushOutcome, Health!HookRuns

LEMMA UnreadFails ==
  ASSUME NEW w, Sighted(w), Health!Refusal(w) = "none", Health!LeftUnread(w) \cap Health!Required(w) # {}
  PROVE  \E r \in Health!Results(w, TRUE) : r[2] = "fail"
<1>1. Health!MachineValid(w) /\ ~Health!CliProblem(w) /\ Health!ConfigLoads(w) /\ w.enabled
  <2>1. Health!Sync(w) # "none"
    BY SyncSays
  <2> QED BY <2>1, RefusalSays
<1>2. Health!ConfigRead(w)
  BY <1>1 DEF Health!ConfigLoads, Health!ConfigRead
<1>3. PICK c \in Health!LeftUnread(w) : c \in Health!Required(w)
  OBVIOUS
<1>4. Health!On(w) \subseteq Health!ListedConnectors(w) /\ Health!ListedConnectors(w) \subseteq Health!Connectors /\ Health!Available(w) \subseteq Health!On(w)
  BY DEF Health!On, Health!ListedConnectors, Health!Available
<1>5. c \in Health!On(w) /\ c \in Health!ListedConnectors(w)
  BY <1>3, <1>4 DEF Health!LeftUnread, Health!Gone, Health!Connectors
<1>6. Health!Severity(w, c) = "fail"
  BY <1>3 DEF Health!Severity
<1>7. Health!SourceLines(w, c, TRUE) \subseteq Health!Results(w, TRUE) /\ Health!WaitingLine(w, TRUE) \subseteq Health!Results(w, TRUE)
      /\ Health!ProbeLines(w) \subseteq Health!Results(w, TRUE)
      /\ (w.rules = "refuse" => <<"connectors", "fail", "blocked">> \in Health!Results(w, TRUE))
      /\ Health!StateDirMode(w) \subseteq Health!Results(w, TRUE)
  <2>1. Health!On(w) \cap Health!Required(w) # {}
    BY <1>3, <1>5
  <2>2. Health!ConnectorsCheck(w, TRUE) \subseteq Health!Results(w, TRUE) /\ Health!StateDirMode(w) \subseteq Health!Results(w, TRUE)
    BY ReportSpeaks
  <2> QED BY <1>1, <1>2, <1>5, <2>1, <2>2, SourceLinesAreSaid
<1>8. CASE w.rules = "refuse"
  BY <1>7, <1>8
<1>9. CASE c \in Health!Denied(w)
  <2>1. <<"connectors", Health!Severity(w, c), "denied">> \in Health!SourceLines(w, c, TRUE)
    BY <1>5, <1>9 DEF Health!SourceLines
  <2> QED BY <1>6, <1>7, <2>1
<1>10. CASE w.access = "writable"
  <2>1. \E r \in Health!StateDirMode(w) : r[2] = "fail"
    BY <1>10, MachineIsNamed DEF Sighted
  <2> QED BY <1>7, <2>1
<1>11. ASSUME w.rules # "refuse", c \notin Health!Denied(w), w.access # "writable"
       PROVE  \E r \in Health!Results(w, TRUE) : r[2] = "fail"
  <2>1. c \in Health!Available(w) /\ c \in Health!Available(w) \cap Health!Required(w) /\ Health!MayRun(w)
    BY <1>1, <1>3, <1>5, <1>11 DEF Health!Available, Health!MayRun
  <2>2. w.claude \in {"real", "unrecognised", "unflagged", "helpless"} /\ w.claude # "missing"
    BY <1>1 DEF Health!CliProblem, Sighted
  <2>3. Health!Launches(w)
    BY <2>1, <2>2 DEF Health!Launches
  <2>4. CASE w.launch = "no_init"
    <3>1. ~Health!ProbeShows(w)
      BY <2>4 DEF Health!ProbeShows
    <3>2. <<"connectors", "fail", "probe_no_init">> \in Health!ProbeLines(w)
      BY <2>1, <2>2, <3>1 DEF Health!ProbeLines
    <3> QED BY <1>7, <3>2
  <2>5. CASE w.launch = "breach"
    <3>1. Health!ProbeShows(w)
      BY <2>3, <2>5 DEF Health!ProbeShows
    <3>2. <<"connectors", "fail", "probe_isolation">> \in Health!ProbeLines(w)
      BY <2>1, <2>2, <2>5, <3>1 DEF Health!ProbeLines
    <3> QED BY <1>7, <3>2
  <2>6. CASE w.launch = "init"
    <3>1. Health!ProbeShows(w)
      BY <2>3, <2>6 DEF Health!ProbeShows
    <3>2. CASE c \in Health!Gone(w)
      <4>1. Health!StateOf(w, c) \in {"needs_auth", "tools_missing"}
        BY <2>1, <3>2 DEF Health!Gone
      <4>2. Health!Known(w, c, TRUE) = Health!StateOf(w, c)
        BY <1>11, <2>1, <3>1 DEF Health!Known
      <4>3. Health!StateLine(w, c, Health!Known(w, c, TRUE)) \in Health!SourceLines(w, c, TRUE)
        BY <1>5, <1>11, <2>1 DEF Health!SourceLines
      <4>4. Health!StateLine(w, c, Health!Known(w, c, TRUE))[2] = "fail"
        BY <1>6, <4>1, <4>2 DEF Health!StateLine
      <4> QED BY <1>7, <4>3, <4>4
    <3>3. CASE c \notin Health!Gone(w)
      <4>1. c = "notes" /\ Health!On(w) = Health!Connectors /\ "calendar" \in Health!Gone(w)
        BY <1>3, <3>3 DEF Health!LeftUnread
      <4>2. Health!Known(w, "calendar", TRUE) \in {"blocked", "needs_auth", "tools_missing"}
        <5>1. "calendar" \in Health!Denied(w) \/ "calendar" \in Health!Available(w)
          BY <1>11, <4>1 DEF Health!Available, Health!Connectors
        <5>2. CASE "calendar" \in Health!Denied(w)
          BY <5>2 DEF Health!Known
        <5>3. CASE "calendar" \notin Health!Denied(w)
          <6>1. "calendar" \in Health!Available(w)
            BY <5>1, <5>3
          <6>2. Health!StateOf(w, "calendar") \in {"needs_auth", "tools_missing"}
            BY <4>1, <6>1 DEF Health!Gone
          <6>3. Health!Known(w, "calendar", TRUE) = Health!StateOf(w, "calendar")
            BY <3>1, <5>3, <6>1 DEF Health!Known
          <6> QED BY <6>2, <6>3
        <5> QED BY <5>2, <5>3
      <4>3. <<"connectors", Health!Severity(w, "notes"), "waiting">> \in Health!WaitingLine(w, TRUE)
        BY <4>1, <4>2 DEF Health!WaitingLine
      <4> QED BY <1>6, <1>7, <4>1, <4>3
    <3> QED BY <3>2, <3>3
  <2> QED BY <2>4, <2>5, <2>6 DEF Sighted
<1> QED BY <1>8, <1>9, <1>10, <1>11

(* The types of the facts, and no value the doctor is blind to.            *)
DoctorInv ==
    /\ base \in Bases
    /\ DOMAIN world = Health!Facts
    /\ \A f \in Health!Facts : world[f] \in Health!Values[f] /\ ~Health!BlindValue(f, world[f])

LEMMA DoctorSees ==
  ASSUME DoctorInv
  PROVE  Sighted(world)
<1>1. "machine" \in Health!Facts
  BY DEF Health!Facts, Health!Values
<1>2. Health!Values["machine"] = {"ok", "missing", "unreadable", "invalid", "elsewhere"}
  BY DEF Health!Values
<1>3. world.machine \in {"ok", "missing", "unreadable", "invalid", "elsewhere"} /\ ~Health!BlindValue("machine", world.machine)
  BY <1>1, <1>2, Zenon DEF DoctorInv
<1>4. "hooksPath" \in Health!Facts
  BY DEF Health!Facts, Health!Values
<1>5. Health!Values["hooksPath"] = {"here", "unset", "elsewhere", "unreadable"}
  BY DEF Health!Values
<1>6. world.hooksPath \in {"here", "unset", "elsewhere", "unreadable"} /\ ~Health!BlindValue("hooksPath", world.hooksPath)
  BY <1>4, <1>5, Zenon DEF DoctorInv
<1>7. "root" \in Health!Facts
  BY DEF Health!Facts, Health!Values
<1>8. Health!Values["root"] = {"there", "gone", "other", "unreadable"}
  BY DEF Health!Values
<1>9. world.root \in {"there", "gone", "other", "unreadable"} /\ ~Health!BlindValue("root", world.root)
  BY <1>7, <1>8, Zenon DEF DoctorInv
<1>10. "own" \in Health!Facts
  BY DEF Health!Facts, Health!Values
<1>11. Health!Values["own"] = {"directory", "gone", "other", "unreachable", "unlisted"}
  BY DEF Health!Values
<1>12. world.own \in {"directory", "gone", "other", "unreachable", "unlisted"} /\ ~Health!BlindValue("own", world.own)
  BY <1>10, <1>11, Zenon DEF DoctorInv
<1>13. "project" \in Health!Facts
  BY DEF Health!Facts, Health!Values
<1>14. Health!Values["project"] = {"directory", "gone", "other", "unreachable", "unlisted"}
  BY DEF Health!Values
<1>15. world.project \in {"directory", "gone", "other", "unreachable", "unlisted"} /\ ~Health!BlindValue("project", world.project)
  BY <1>13, <1>14, Zenon DEF DoctorInv
<1>16. "claude" \in Health!Facts
  BY DEF Health!Facts, Health!Values
<1>17. Health!Values["claude"] = {"real", "missing", "batch", "stub", "failed", "unrecognised", "unflagged", "helpless"}
  BY DEF Health!Values
<1>18. world.claude \in {"real", "missing", "batch", "stub", "failed", "unrecognised", "unflagged", "helpless"} /\ ~Health!BlindValue("claude", world.claude)
  BY <1>16, <1>17, Zenon DEF DoctorInv
<1>19. "launch" \in Health!Facts
  BY DEF Health!Facts, Health!Values
<1>20. Health!Values["launch"] = {"init", "no_init", "breach"}
  BY DEF Health!Values
<1>21. world.launch \in {"init", "no_init", "breach"} /\ ~Health!BlindValue("launch", world.launch)
  BY <1>19, <1>20, Zenon DEF DoctorInv
<1>22. "legacy" \in Health!Facts
  BY DEF Health!Facts, Health!Values
<1>23. Health!Values["legacy"] = {"off", "free", "held", "invalid", "unusable", "unmade"}
  BY DEF Health!Values
<1>24. world.legacy \in {"off", "free", "held", "invalid", "unusable", "unmade"} /\ ~Health!BlindValue("legacy", world.legacy)
  BY <1>22, <1>23, Zenon DEF DoctorInv
<1>25. "claudeBin" \in Health!Facts
  BY DEF Health!Facts, Health!Values
<1>26. Health!Values["claudeBin"] = {"named", "relative"}
  BY DEF Health!Values
<1>27. world.claudeBin \in {"named", "relative"} /\ ~Health!BlindValue("claudeBin", world.claudeBin)
  BY <1>25, <1>26, Zenon DEF DoctorInv
<1> QED BY <1>3, <1>6, <1>9, <1>12, <1>15, <1>18, <1>21, <1>24, <1>27 DEF Sighted, Health!BlindValue

LEMMA DoctorInvNext ==
  ASSUME Health!DoctorAssumption, Blind = {}, DoctorInv, [Health!Next]_(Health!vars)
  PROVE  DoctorInv'
<1>1. DOMAIN base = Health!Facts /\ \A f \in Health!Facts : base[f] \in Health!Values[f] /\ ~Health!BlindValue(f, base[f])
  BY Zenon DEF Health!DoctorAssumption, DoctorInv
<1>2. ASSUME NEW f \in Health!Facts, Health!Spoil(f) PROVE DoctorInv'
  <2>1. PICK v \in Health!Values[f] \ {base[f]} :
          (f \in Health!BlindSpots => (~Health!BlindValue(f, v) \/ f \in Blind)) /\ world' = [world EXCEPT ![f] = v]
    BY <1>2, Zenon DEF Health!Spoil
  <2>2. ~Health!BlindValue(f, v)
    BY <2>1 DEF Health!BlindSpots, Health!BlindValue
  <2>3. base' = base
    BY <1>2 DEF Health!Spoil
  <2>4. DOMAIN world' = Health!Facts
    BY <2>1 DEF DoctorInv
  <2>5. \A g \in Health!Facts : world'[g] \in Health!Values[g] /\ ~Health!BlindValue(g, world'[g])
    <3> TAKE g \in Health!Facts
    <3>1. world'[g] = IF g = f THEN v ELSE world[g]
      BY <2>1 DEF DoctorInv
    <3> QED BY <2>1, <2>2, <3>1, Zenon DEF DoctorInv
  <2> QED BY <2>3, <2>4, <2>5 DEF DoctorInv
<1>3. ASSUME NEW f \in Health!Facts, Health!Repair(f) PROVE DoctorInv'
  <2>1. world' = [world EXCEPT ![f] = base[f]] /\ base' = base
    BY <1>3 DEF Health!Repair
  <2>2. DOMAIN world' = Health!Facts
    BY <2>1 DEF DoctorInv
  <2>3. \A g \in Health!Facts : world'[g] \in Health!Values[g] /\ ~Health!BlindValue(g, world'[g])
    <3> TAKE g \in Health!Facts
    <3>1. world'[g] = IF g = f THEN base[f] ELSE world[g]
      BY <2>1 DEF DoctorInv
    <3> QED BY <1>1, <3>1, Zenon DEF DoctorInv
  <2> QED BY <2>1, <2>2, <2>3 DEF DoctorInv
<1>4. ASSUME UNCHANGED Health!vars PROVE DoctorInv'
  BY <1>4 DEF Health!vars, DoctorInv
<1>5. Health!Wrong \subseteq Health!Facts
  BY <1>1 DEF Health!Wrong
<1>6. Health!Next => (\E f \in Health!Facts : Health!Spoil(f)) \/ (\E f \in Health!Facts : Health!Repair(f))
  BY <1>5, Zenon DEF Health!Next
<1> QED BY <1>2, <1>3, <1>4, <1>6, Zenon

(* The invariant.                                                          *)
THEOREM DoctorInvariant ==
  Health!DoctorAssumption /\ Blind = {} => (Health!Spec => []DoctorInv)
<1> SUFFICES ASSUME Health!DoctorAssumption, Blind = {} PROVE Health!Spec => []DoctorInv
  OBVIOUS
<1>1. Health!Init => DoctorInv
  BY Zenon DEF Health!Init, DoctorInv, Health!DoctorAssumption
<1>2. DoctorInv /\ [Health!Next]_(Health!vars) => DoctorInv'
  BY DoctorInvNext
<1> QED BY <1>1, <1>2, PTL DEF Health!Spec

(* For every combination of the facts, however many are wrong at once: a   *)
(* round is refused for no cause doctor passes over, a push whose checks   *)
(* all say ok meets the gate, and a required source left unread fails the  *)
(* probe.                                                                  *)
THEOREM DoctorAlwaysTells ==
  Health!DoctorAssumption /\ Blind = {} => (Health!Spec => []Health!DoctorTellsTheRound)
<1> SUFFICES ASSUME Health!DoctorAssumption, Blind = {} PROVE Health!Spec => []Health!DoctorTellsTheRound
  OBVIOUS
<1>1. DoctorInv => Health!DoctorTellsTheRound
  <2> SUFFICES ASSUME DoctorInv PROVE Health!DoctorTellsTheRound
    OBVIOUS
  <2>1. Sighted(world)
    BY DoctorSees
  <2>2. Health!TypeOK
    BY Zenon DEF DoctorInv, Health!TypeOK, Health!Facts
  <2>3. Health!EveryRefusalIsNamed
    BY <2>1, RefusalIsNamed, Zenon DEF Health!EveryRefusalIsNamed
  <2>4. Health!OkIsGated
    BY <2>1, GatedWhenOk, Zenon DEF Health!OkIsGated
  <2>5. Health!RequiredUnreadFails
    BY <2>1, UnreadFails, Zenon DEF Health!RequiredUnreadFails
  <2> QED BY <2>2, <2>3, <2>4, <2>5, Zenon DEF Health!DoctorTellsTheRound
<1> QED BY <1>1, DoctorInvariant, PTL

(***************************************************************************)
(* The parts side by side: a behaviour of Texts is one of one part, and    *)
(* that part's own.                                                        *)
(***************************************************************************)

LEMMA LintApart == EachSpec => (part = "lint" /\ Linted!Spec) \/ [](~(part = "lint"))
  <1>1. EachInit /\ part = "lint" => Linted!Init
    BY DEF EachInit
  <1>2. part = "lint" /\ [EachNext]_allVars => (part = "lint")' /\ [Linted!Next]_(Linted!vars)
    BY DEF EachNext, allVars, ofLint, Linted!vars
  <1>3. ~(part = "lint") /\ [EachNext]_allVars => ~(part = "lint")'
    BY DEF EachNext, allVars
  <1> QED
    BY <1>1, <1>2, <1>3, PTL DEF EachSpec, Linted!Spec

LEMMA VerifyApart == EachSpec => (part = "verify" /\ Verified!Spec) \/ [](~(part = "verify"))
  <1>1. EachInit /\ part = "verify" => Verified!Init
    BY DEF EachInit
  <1>2. part = "verify" /\ [EachNext]_allVars => (part = "verify")' /\ [Verified!Next]_(Verified!vars)
    BY DEF EachNext, allVars, ofVerify, Verified!vars
  <1>3. ~(part = "verify") /\ [EachNext]_allVars => ~(part = "verify")'
    BY DEF EachNext, allVars
  <1> QED
    BY <1>1, <1>2, <1>3, PTL DEF EachSpec, Verified!Spec

LEMMA LinksApart == EachSpec => (part = "links" /\ Linked!Spec) \/ [](~(part = "links"))
  <1>1. EachInit /\ part = "links" => Linked!Init
    BY DEF EachInit
  <1>2. part = "links" /\ [EachNext]_allVars => (part = "links")' /\ [Linked!Next]_(Linked!vars)
    BY DEF EachNext, allVars, ofLinks, Linked!vars
  <1>3. ~(part = "links") /\ [EachNext]_allVars => ~(part = "links")'
    BY DEF EachNext, allVars
  <1> QED
    BY <1>1, <1>2, <1>3, PTL DEF EachSpec, Linked!Spec

LEMMA TablesApartFromAll == EachSpec => (part = "tables" /\ Tables!Spec) \/ [](~(part = "tables"))
  <1>1. EachInit /\ part = "tables" => Tables!Init
    BY DEF EachInit
  <1>2. part = "tables" /\ [EachNext]_allVars => (part = "tables")' /\ [Tables!Next]_(Tables!vars)
    BY DEF EachNext, allVars, ofTables, Tables!vars, Tables!given
  <1>3. ~(part = "tables") /\ [EachNext]_allVars => ~(part = "tables")'
    BY DEF EachNext, allVars
  <1> QED
    BY <1>1, <1>2, <1>3, PTL DEF EachSpec, Tables!Spec

LEMMA DoctorApart == EachSpec => (part = "doctor" /\ Health!Spec) \/ [](~(part = "doctor"))
  <1>1. EachInit /\ part = "doctor" => Health!Init
    BY DEF EachInit
  <1>2. part = "doctor" /\ [EachNext]_allVars => (part = "doctor")' /\ [Health!Next]_(Health!vars)
    BY DEF EachNext, allVars, ofDoctor, Health!vars
  <1>3. ~(part = "doctor") /\ [EachNext]_allVars => ~(part = "doctor")'
    BY DEF EachNext, allVars
  <1> QED
    BY <1>1, <1>2, <1>3, PTL DEF EachSpec, Health!Spec

(* Every lint of a change judges it: one that passes read what a push      *)
(* could publish and found no secret there, `auto` judges each new line    *)
(* and none of the old ones, and `clean` is said of the vault as it is;    *)
(* for any notes, lines and rules that refuse them (runLint, lint.mjs).    *)
THEOREM EveryLintJudgesTheChange == Linted!LintAssumption => (EachSpec => []LintJudgesTheChange)
  <1>1. Linted!LintJudgesTheChange => LintJudgesTheChange
    BY DEF LintJudgesTheChange
  <1>2. ~(part = "lint") => LintJudgesTheChange
    BY DEF LintJudgesTheChange
  <1> QED
    BY <1>1, <1>2, LintApart, EveryChangeIsJudged, PTL

(* Whatever the owner writes while the notes of a merge are stamped is     *)
(* there after it, and a run that failed leaves no stamp of its own, for   *)
(* any notes, writes and deaths (runVerify and its undo, verify.mjs).      *)
THEOREM EveryWordIsKept == EachSpec => []VerifyTakesNothing
  <1>1. Verified!VerifyTakesNothing => VerifyTakesNothing
    BY DEF VerifyTakesNothing
  <1>2. ~(part = "verify") => VerifyTakesNothing
    BY DEF VerifyTakesNothing
  <1> QED
    BY <1>1, <1>2, VerifyApart, VerifyTakesNoWord, PTL

(* A note is an orphan only for want of a link a reader could follow, and  *)
(* a confidential one is reached by none, however the link spells it; for  *)
(* any tree of folders in which no folder has an index's name              *)
(* (resolveLinkPath and the rules that follow it, src/rules/house.mjs).    *)
THEOREM EveryReaderFollowsOneLink ==
  Linked!LinksAssumption /\ Linked!NoFolderIsAnIndex => (EachSpec => []LinksAreOneForAllReaders)
  <1>1. Linked!LinksAreOneForAllReaders => LinksAreOneForAllReaders
    BY DEF LinksAreOneForAllReaders
  <1>2. ~(part = "links") => LinksAreOneForAllReaders
    BY DEF LinksAreOneForAllReaders
  <1> QED
    BY <1>1, <1>2, LinksApart, LinksLeadToOnePlace, PTL

(* A row is of the table whose header is nearest, a table a change touched *)
(* is judged whole and no other, and no item of the briefing's table is    *)
(* silent, for any notes (findAllTables, lint.mjs; briefing/pending.mjs).  *)
THEOREM EveryRowAlwaysFindsItsTable == Tables!TablesAssumption => (EachSpec => []EveryRowHasItsTable)
  <1>1. (Tables!TypeOK /\ Tables!EveryRowHasItsTable /\ Tables!TouchedTablesAreJudged /\ Tables!NoItemIsSilent)
        => EveryRowHasItsTable
    BY DEF EveryRowHasItsTable
  <1>2. ~(part = "tables") => EveryRowHasItsTable
    BY DEF EveryRowHasItsTable
  <1> QED
    BY <1>1, <1>2, TablesApartFromAll, EveryRowAlwaysHasItsTable, PTL

(* For every combination of the facts, however many are wrong at once: a   *)
(* round is refused for no cause doctor passes over, a push whose checks   *)
(* all say ok meets the gate, and a required source left unread fails the  *)
(* probe (doctor/checks.mjs).                                              *)
THEOREM EveryRoundIsForetold == Health!DoctorAssumption /\ Blind = {} => (EachSpec => []DoctorTellsTheRound)
  <1>1. Health!DoctorTellsTheRound => DoctorTellsTheRound
    BY DEF DoctorTellsTheRound
  <1>2. ~(part = "doctor") => DoctorTellsTheRound
    BY DEF DoctorTellsTheRound
  <1> QED
    BY <1>1, <1>2, DoctorApart, DoctorAlwaysTells, PTL

(***************************************************************************)
(* LockIdentity: the staleness rule never calls a live process dead, for   *)
(* any machines, namespaces, pids and reboots, as long as no two machines  *)
(* are clones and a machine without ids of its own has one pid namespace.  *)
(***************************************************************************)

USE SpacesAssumption, KnowsAssumption, BootAssumption, NoIdAssumption

(* A writer counted alive runs, in the boot it wrote the lock in.          *)
THEOREM WriterRuns == Spec => []IInv
  <1>1. Init => IInv
    <2> SUFFICES ASSUME Init PROVE IInv
      OBVIOUS
    <2>1. boot \in [Machines -> 0 .. MaxBoot] /\ writtenAt \in 0 .. MaxBoot
      BY DEF Init
    <2> QED
      BY <2>1, Zenon DEF Init, IInv, TypeOK, LivingWriterRuns
  <1>2. IInv /\ [Next]_vars => IInv'
    <2> SUFFICES ASSUME IInv, [Next]_vars PROVE IInv'
      OBVIOUS
    <2> USE DEF IInv, TypeOK, LivingWriterRuns
    <2>1. ASSUME NEW p \in Process, Fork(p) PROVE IInv'
      BY <2>1 DEF Fork
    <2>2. ASSUME NEW p \in Process, Exit(p) PROVE IInv'
      BY <2>2 DEF Exit
    <2>3. ASSUME NEW p \in Process, Place(p) PROVE IInv'
      <3>1. p.machine \in Machines
        BY DEF Process
      <3> QED
        BY <2>3, <3>1 DEF Place
    <2>4. ASSUME NEW m \in Machines, Reboot(m) PROVE IInv'
      <3>1. writer.machine \in Machines
        BY DEF Process
      <3>2. boot' \in [Machines -> 0 .. MaxBoot]
        BY <2>4 DEF Reboot
      <3>3. writerAlive' \in BOOLEAN /\ running' \in SUBSET Process
        BY <2>4, Zenon DEF Reboot
      <3>4. LivingWriterRuns'
        BY <2>4, <3>1 DEF Reboot
      <3> QED
        BY <2>4, <3>2, <3>3, <3>4 DEF Reboot
    <2>5. CASE UNCHANGED vars
      BY <2>5 DEF vars
    <2> QED
      BY <2>1, <2>2, <2>3, <2>4, <2>5 DEF Next
  <1> QED
    BY <1>1, <1>2, PTL DEF Spec

(* A process judged gone is not the one that wrote the lock when that one  *)
(* runs on the judge's machine and in the judge's namespace.               *)
LEMMA SameSpace ==
  ASSUME IInv, writerAlive, NEW me \in Process,
         me.machine = writer.machine, me.ns = writer.ns
  PROVE  ~PidIsGone(writer.pid, me)
  BY DEF IInv, TypeOK, LivingWriterRuns, PidIsGone, Process

(* A lock is judged stale only when the process that wrote it is dead.     *)
THEOREM StaleMeansDead ==
  ASSUME OneNamespaceWithoutId
  PROVE  Spec => []StaleIsDead
  <1>1. IInv => StaleIsDead
    <2> SUFFICES ASSUME IInv, writerAlive,
                        NEW me \in running, JudgedStale(me)
                 PROVE  FALSE
      BY DEF StaleIsDead
    <2>1. me \in Process /\ writer \in Process
      BY DEF IInv, TypeOK
    <2>2. me.machine = writer.machine
      BY <2>1, NoClones DEF JudgedStale, IsStale, Identity, Process
    <2>3. writtenAt = boot[me.machine]
      BY <2>2 DEF IInv, LivingWriterRuns
    <2>4. Identity(writer, writtenAt).bootId = Identity(me, boot[me.machine]).bootId
      BY <2>2, <2>3 DEF Identity
    <2>5. PidIsGone(writer.pid, me)
      BY <2>2, <2>4 DEF JudgedStale, IsStale, Identity
    <2>6. me.ns = writer.ns
      <3>1. CASE IdOf[me.machine] = NoId \/ me.machine \notin KnowsBoot
        BY <2>1, <2>2, <3>1 DEF OneNamespaceWithoutId, Process
      <3>2. CASE IdOf[me.machine] # NoId /\ me.machine \in KnowsBoot
        BY <2>2, <2>4, <3>2 DEF JudgedStale, IsStale, Identity
      <3> QED
        BY <3>1, <3>2
    <2> QED
      BY <2>1, <2>2, <2>5, <2>6, SameSpace
  <1> QED
    BY WriterRuns, <1>1, PTL

(* A lock left by a dead process of this machine is judged stale by any    *)
(* process after a reboot, and before one by any of its namespace that     *)
(* does not meet its pid again (isStale, lock.mjs).                        *)
THEOREM DeadIsReplaced == Spec => []DeadIsReclaimable
  <1>1. IInv => DeadIsReclaimable
    <2> SUFFICES ASSUME IInv, NEW me \in running,
                        me.machine = writer.machine,
                        IdOf[me.machine] # NoId, me.machine \in KnowsBoot,
                        writtenAt # boot[me.machine] \/ (me.ns = writer.ns /\ PidIsGone(writer.pid, me))
                 PROVE  JudgedStale(me)
      BY Zenon DEF DeadIsReclaimable
    <2>1. me.machine \in Machines /\ writtenAt \in 0 .. MaxBoot /\ boot[me.machine] \in 0 .. MaxBoot
      BY DEF IInv, TypeOK, Process
    <2>2. CASE writtenAt # boot[me.machine]
      <3>1. <<me.machine, writtenAt>> # NoId /\ <<me.machine, boot[me.machine]>> # NoId
        BY <2>1
      <3> QED
        BY <2>2, <3>1 DEF JudgedStale, IsStale, Identity
    <2>3. CASE writtenAt = boot[me.machine]
      BY <2>3 DEF JudgedStale, IsStale, Identity
    <2> QED
      BY <2>2, <2>3
  <1> QED
    BY WriterRuns, <1>1, PTL
=============================================================================
