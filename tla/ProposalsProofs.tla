--------------------------- MODULE ProposalsProofs ---------------------------
(***************************************************************************)
(* What propose and sync promise for any paths, push urls and branches,    *)
(* and any number of commits, captures, others' moves and deaths: the      *)
(* inductive invariant IInv, the step properties that follow from it, and, *)
(* without additions, that nothing is reverted or lost.                    *)
(***************************************************************************)
EXTENDS Proposals, TLAPS

USE UrlsAssumption, GhAssumption, BoundsAssumption

(* The steps, by what they change.                                         *)
LEMMA VaultSteps ==
  [Next]_vars => \/ UNCHANGED vault
                 \/ Restore \/ FastForward \/ \E p \in Paths : Capture(p) \/ LocalCommit(p)
  BY DEF Next, ProposeStep, SyncStep, OthersStep, CheckEarlier, Choose, FetchBase, Build, GiveUp, Push, Prove,
         Announce, Pin, TakeGuard, AppendEntry, ReleaseGuard, Replace, Finish, StartSync, Prune, FetchTip,
         Postpone, DropRefs, Crash, Merge, Close, LandPart, LandElsewhere, MoveBranch, DeleteBranch, vars

LEMMA ForgeSteps ==
  [Next]_vars => \/ UNCHANGED forge
                 \/ Announce \/ \E u \in Urls : Push(u)
                 \/ \E p \in Paths : LandElsewhere(p)
                 \/ \E b \in Branches :
                      \/ Merge(b, TRUE) \/ Merge(b, FALSE) \/ Close(b) \/ DeleteBranch(b)
                      \/ \E p \in Paths : LandPart(b, p)
                      \/ \E u \in Urls : MoveBranch(b, u)
  BY DEF Next, ProposeStep, SyncStep, OthersStep, CheckEarlier, Choose, FetchBase, Build, GiveUp, Prove,
         Pin, TakeGuard, AppendEntry, ReleaseGuard, Replace, Finish, StartSync, Restore, Prune, FetchTip,
         Postpone, DropRefs, FastForward, Crash, Capture, LocalCommit, vars

LEMMA BooksSteps ==
  [Next]_vars => \/ UNCHANGED books
                 \/ CheckEarlier \/ Prove \/ Pin \/ TakeGuard \/ AppendEntry \/ ReleaseGuard \/ Replace
                 \/ Finish \/ Prune \/ DropRefs
  BY DEF Next, ProposeStep, SyncStep, OthersStep, Choose, FetchBase, Build, GiveUp, Push, Announce,
         StartSync, Restore, FetchTip, Postpone, FastForward, Crash, Capture, LocalCommit, Merge, Close,
         LandPart, LandElsewhere, MoveBranch, DeleteBranch, vars

LEMMA CommitsSteps == [Next]_vars => Build \/ UNCHANGED commits
  BY DEF Next, ProposeStep, SyncStep, OthersStep, CheckEarlier, Choose, FetchBase, GiveUp, Push, Prove,
         Announce, Pin, TakeGuard, AppendEntry, ReleaseGuard, Replace, Finish, StartSync, Restore, Prune, FetchTip,
         Postpone, DropRefs, FastForward, Crash, Capture, LocalCommit, Merge, Close, LandPart, LandElsewhere,
         MoveBranch, DeleteBranch, vars

LEMMA RunSteps ==
  [Next]_vars => ProposeStep \/ SyncStep \/ Crash \/ UNCHANGED run
  BY DEF Next, OthersStep, Capture, LocalCommit, Merge, Close, LandPart, LandElsewhere,
         MoveBranch, DeleteBranch, vars
-----------------------------------------------------------------------------
(* Types. *)

LEMMA EmptyIsTree == Empty \in Trees
  BY DEF Empty, Trees, Texts

LEMMA IdleIsRun == Idle \in Runs
  BY EmptyIsTree DEF Idle, Runs, Stages, Tips

\* A tree stays one where some paths take text from another.
LEMMA MixedTree ==
  ASSUME NEW t1 \in Trees, NEW t2 \in Trees, NEW S
  PROVE  [p \in Paths |-> IF p \in S THEN t1[p] ELSE t2[p]] \in Trees
  BY DEF Trees

LEMMA StepVaultTyped == TypeOK /\ [Next]_vars => VaultTyped'
<1> SUFFICES ASSUME TypeOK, [Next]_vars PROVE VaultTyped'
  OBVIOUS
<1>1. /\ work \in Trees /\ head \in Trees /\ ahead \in BOOLEAN /\ run.tip.tree \in Trees
      /\ budget.captures \in Nat
  BY DEF TypeOK, VaultTyped, Runs, Tips
<1>2. CASE Restore
  BY <1>1, <1>2, MixedTree DEF Restore, VaultTyped
<1>3. CASE FastForward
  <2>1. CASE UNCHANGED <<head, work>>
    BY <1>1, <1>3, <2>1 DEF FastForward, VaultTyped
  <2>2. CASE ~UNCHANGED <<head, work>>
    BY <1>1, <1>3, <2>2, MixedTree DEF FastForward, VaultTyped
  <2> QED
    BY <2>1, <2>2
<1>4. ASSUME NEW p \in Paths, Capture(p) PROVE VaultTyped'
  BY <1>1, <1>4 DEF Capture, Fresh, VaultTyped, Trees, Texts
<1>5. ASSUME NEW p \in Paths, LocalCommit(p) PROVE VaultTyped'
  BY <1>1, <1>5 DEF LocalCommit, VaultTyped, Trees
<1> QED
  BY <1>1, <1>2, <1>3, <1>4, <1>5, VaultSteps DEF vault, VaultTyped

\* What propose commits is a commit of the model.
LEMMA StepCommitsTyped == TypeOK /\ RunAgrees /\ [Next]_vars => commits' \in Seq(Commits) /\ Len(commits') >= Len(commits)
<1> SUFFICES ASSUME TypeOK, RunAgrees, [Next]_vars
             PROVE  commits' \in Seq(Commits) /\ Len(commits') >= Len(commits)
  OBVIOUS
<1>1. commits \in Seq(Commits) /\ work \in Trees /\ run.tip.tree \in Trees /\ run.old \in Nat
  BY DEF TypeOK, VaultTyped, Runs, Tips
<1>2. CASE Build
  <2> DEFINE onto == IF run.old = 0 THEN run.tip.tree ELSE commits[run.old].tree
             tree == [p \in Paths |-> IF p \in run.chosen THEN work[p] ELSE onto[p]]
  <2>1. run.old # 0 => commits[run.old] \in Commits
    BY <1>1 DEF RunAgrees
  <2>2. onto \in Trees /\ tree \in Trees
    <3>1. onto \in Trees
      BY <1>1, <2>1 DEF Commits
    <3> HIDE DEF onto
    <3> QED
      BY <1>1, <3>1, MixedTree
  <2>3. History(run.old) \in SUBSET Nat
    BY <1>1, <2>1 DEF History, Commits
  <2>4. PICK branch \in IF run.old = 0 THEN FreeBranch ELSE {commits[run.old].branch} :
          commits' = Append(commits, [branch |-> branch, parent |-> run.old, before |-> History(run.old),
                                      onto |-> onto, tree |-> tree])
    BY <1>2 DEF Build
  <2>5. branch \in Branches
    BY <2>1, <2>4 DEF FreeBranch, FreeBranches, Commits
  <2> QED
    BY <1>1, <2>2, <2>3, <2>4, <2>5 DEF Commits
<1> QED
  BY <1>1, <1>2, CommitsSteps

LEMMA StepForgeTyped == TypeOK /\ RunAgrees /\ [Next]_vars => ForgeTyped'
<1> SUFFICES ASSUME TypeOK, RunAgrees, [Next]_vars PROVE ForgeTyped'
  OBVIOUS
<1>1. /\ base.tree \in Trees /\ base.merged \in SUBSET Nat /\ base = [tree |-> base.tree, merged |-> base.merged]
      /\ commits \in Seq(Commits) /\ ForgeTyped
  BY DEF TypeOK, ForgeTyped, Tips
<1>2. commits' \in Seq(Commits) /\ Len(commits') >= Len(commits)
  BY StepCommitsTyped
<1>3. CASE UNCHANGED forge
  BY <1>1, <1>2, <1>3 DEF forge, ForgeTyped
<1>4. CASE Announce
  BY <1>1, <1>2, <1>4 DEF Announce, ForgeTyped
<1>5. ASSUME NEW u \in Urls, Push(u) PROVE ForgeTyped'
  <2>1. run.commit \in 1 .. Len(commits) /\ commits' = commits
    BY <1>1, <1>5 DEF Push, RunAgrees, AfterBuild, At
  <2>2. remote' \in [Branches -> [Urls -> {Other} \cup 0 .. Len(commits)]]
    <3>1. run.commit \in {Other} \cup 0 .. Len(commits) /\ remote \in [Branches -> [Urls -> {Other} \cup 0 .. Len(commits)]]
      BY <1>1, <2>1 DEF ForgeTyped
    <3>2. remote' = remote \/ remote' = [remote EXCEPT ![Branch][u] = run.commit]
      BY <1>5 DEF Push
    <3> QED
      BY <3>1, <3>2
  <2> QED
    BY <1>1, <1>5, <2>1, <2>2 DEF Push, ForgeTyped
<1>6. ASSUME NEW p \in Paths, LandElsewhere(p) PROVE ForgeTyped'
  <2>1. budget.captures \in Nat
    BY DEF TypeOK
  <2>2. base' = [tree |-> [base.tree EXCEPT ![p] = @ \cup {Fresh}], merged |-> base.merged]
    BY <1>1, <1>6 DEF LandElsewhere
  <2>3. [base.tree EXCEPT ![p] = @ \cup {Fresh}] \in Trees
    BY <1>1, <2>1 DEF Trees, Texts, Fresh
  <2> QED
    BY <1>1, <1>2, <1>6, <2>2, <2>3 DEF LandElsewhere, ForgeTyped, Tips
<1>7. ASSUME NEW b \in Branches, NEW squash \in BOOLEAN, Merge(b, squash) PROVE ForgeTyped'
  <2>1. commits[Tip(b)] \in Commits /\ Tip(b) \in Nat
    BY <1>1, <1>7 DEF Merge, Tip, Other, ForgeTyped
  <2>2. History(Tip(b)) \in SUBSET Nat
    BY <2>1 DEF History, Commits
  <2>3. [p \in Paths |-> base.tree[p] \cup commits[Tip(b)].tree[p]] \in Trees
    BY <1>1, <2>1 DEF Trees, Texts, Commits
  <2> QED
    BY <1>1, <1>2, <1>7, <2>2, <2>3 DEF Merge, ForgeTyped, Tips
<1>8. ASSUME NEW b \in Branches, Close(b) \/ DeleteBranch(b) PROVE ForgeTyped'
  <2>1. CASE Close(b)
    BY <1>1, <1>2, <2>1 DEF Close, ForgeTyped
  <2>2. CASE DeleteBranch(b)
    BY <1>1, <1>2, <2>2 DEF DeleteBranch, ForgeTyped
  <2> QED
    BY <1>8, <2>1, <2>2
<1>9. ASSUME NEW b \in Branches, NEW p \in Paths, LandPart(b, p) PROVE ForgeTyped'
  <2>1. commits[Tip(b)] \in Commits
    BY <1>1, <1>9 DEF LandPart, Tip, Other, ForgeTyped
  <2>2. base' = [tree |-> [base.tree EXCEPT ![p] = @ \cup commits[Tip(b)].tree[p]], merged |-> base.merged]
    BY <1>1, <1>9 DEF LandPart
  <2>3. [base.tree EXCEPT ![p] = @ \cup commits[Tip(b)].tree[p]] \in Trees
    BY <1>1, <2>1 DEF Trees, Texts, Commits
  <2> QED
    BY <1>1, <1>2, <1>9, <2>2, <2>3 DEF LandPart, ForgeTyped, Tips
<1>10. ASSUME NEW b \in Branches, NEW u \in Urls, MoveBranch(b, u) PROVE ForgeTyped'
  BY <1>1, <1>2, <1>10 DEF MoveBranch, ForgeTyped
<1> QED
  BY <1>3, <1>4, <1>5, <1>6, <1>7, <1>8, <1>9, <1>10, ForgeSteps
LEMMA StepBooksTyped == TypeOK /\ RunAgrees /\ [Next]_vars => BooksTyped'
<1> SUFFICES ASSUME TypeOK, RunAgrees, [Next]_vars PROVE BooksTyped'
  OBVIOUS
<1>1. BooksTyped /\ commits \in Seq(Commits) /\ run \in Runs
  BY DEF TypeOK
<1>2. commits' \in Seq(Commits) /\ Len(commits') >= Len(commits)
  BY StepCommitsTyped
<1>3. ASSUME run.at \in AfterBuild PROVE run.commit \in 1 .. Len(commits) /\ Branch \in Branches
  <2>1. run.commit \in 1 .. Len(commits)
    BY <1>1, <1>3 DEF RunAgrees
  <2>2. commits[run.commit] \in Commits
    BY <1>1, <2>1
  <2> QED
    BY <2>1, <2>2 DEF Branch, Commits
<1>4. CASE UNCHANGED books
  BY <1>1, <1>2, <1>4 DEF books, BooksTyped
<1>5. CASE CheckEarlier \/ TakeGuard \/ ReleaseGuard \/ Finish
  BY <1>1, <1>2, <1>5 DEF CheckEarlier, TakeGuard, ReleaseGuard, Finish, BooksTyped
<1>6. CASE Prove
  <2>1. Branch \in Branches
    BY <1>3, <1>6 DEF Prove, At, AfterBuild
  <2> QED
    BY <1>1, <1>2, <1>6, <2>1 DEF Prove, Record, BooksTyped
<1>7. CASE Pin
  <2>1. run.commit \in 1 .. Len(commits)
    BY <1>3, <1>7 DEF Pin, At, AfterBuild
  <2> QED
    BY <1>1, <1>2, <1>7, <2>1 DEF Pin, PinNow, BooksTyped
<1>8. CASE AppendEntry
  <2>1. Branch \in Branches
    BY <1>3, <1>8 DEF AppendEntry, At, AfterBuild
  <2>2. Entry \in Entries
    BY <1>1, <2>1 DEF Entry, Entries, Runs
  <2> QED
    BY <1>1, <1>2, <1>8, <2>2 DEF AppendEntry, BooksTyped
<1>9. CASE Replace \/ Prune \/ DropRefs
  BY <1>1, <1>2, <1>9 DEF Replace, Prune, DropRefs, Without, BooksTyped
<1> QED
  BY <1>4, <1>5, <1>6, <1>7, <1>8, <1>9, BooksSteps

\* The run propose starts: on its own, or on an open pull request gh told of.
LEMMA ChoosesOpen ==
  ASSUME TypeOK, Choose
  PROVE  \E chosen \in SUBSET Dirty, open \in SUBSET {b \in Branches : pr[b] = "open"}, old \in Nat :
           /\ old = 0 \/ ("answers" \in Gh /\ \E b \in open : old = refs[b])
           /\ run' = Proposing(chosen, open, old)
<1>1. refs \in [Branches -> Nat] /\ ledger \subseteq Entries
  BY DEF TypeOK, BooksTyped
<1>2. PICK chosen \in (SUBSET Dirty) \ {{}} :
        \E open \in Answered({b \in Carrying(chosen) : pr[b] = "open"}) :
          \E old \in IF open = {} THEN {0} ELSE {refs[b] : b \in open} :
             run' = Proposing(chosen, open, old)
  BY DEF Choose
<1>3. PICK open \in Answered({b \in Carrying(chosen) : pr[b] = "open"}) :
        \E old \in IF open = {} THEN {0} ELSE {refs[b] : b \in open} :
           run' = Proposing(chosen, open, old)
  BY <1>2
<1>4. /\ open \in SUBSET {b \in Branches : pr[b] = "open"}
      /\ open # {} => "answers" \in Gh
  BY <1>1 DEF Answered, Carrying, Latest, Pinned, Entries
<1>5. PICK old \in IF open = {} THEN {0} ELSE {refs[b] : b \in open} :
        run' = Proposing(chosen, open, old)
  BY <1>3
<1>6. old \in Nat /\ (old = 0 \/ ("answers" \in Gh /\ \E b \in open : old = refs[b]))
  BY <1>1, <1>4
<1> QED
  BY <1>4, <1>5, <1>6

\* The three ways a proof of the push ends.
LEMMA Proves ==
  ASSUME Prove
  PROVE  \E quiet \in SUBSET Urls :
           \/ run' = Idle
           \/ /\ Record({Branch})
              /\ \E stage \in {"announce", "pin"} : run' = [run EXCEPT !.at = stage, !.urls = Held(quiet)]
           \/ run.old # 0 /\ run' = [run EXCEPT !.at = "pin", !.urls = Held(quiet), !.opened = TRUE]
  BY DEF Prove

\* A change of stage changes nothing else of the run.
LEMMA GoKeeps ==
  ASSUME run \in Runs, NEW stage, Go(stage)
  PROVE  /\ run'.at = stage /\ run'.chosen = run.chosen /\ run'.paths = run.paths /\ run'.old = run.old
         /\ run'.commit = run.commit /\ run'.urls = run.urls /\ run'.opened = run.opened /\ run'.tip = run.tip
  BY DEF Go, Runs

LEMMA StepRunTyped == TypeOK /\ [Next]_vars => run' \in Runs
<1> SUFFICES ASSUME TypeOK, [Next]_vars PROVE run' \in Runs
  OBVIOUS
<1>1. /\ run \in Runs /\ base \in Tips /\ Idle \in Runs /\ commits \in Seq(Commits)
      /\ refs \in [Branches -> Nat] /\ ledger \subseteq Entries
  BY IdleIsRun DEF TypeOK, ForgeTyped, BooksTyped
<1>2. CASE UNCHANGED run \/ run' = Idle
  BY <1>1, <1>2
<1>3. ASSUME NEW stage \in Stages, Go(stage) PROVE run' \in Runs
  BY <1>1, <1>3 DEF Go, Runs
<1>4. CASE Choose
  <2>1. PICK chosen \in SUBSET Dirty, open \in SUBSET {b \in Branches : pr[b] = "open"}, old \in Nat :
          run' = Proposing(chosen, open, old)
    BY <1>4, ChoosesOpen
  <2>2. UNION {e.paths : e \in {f \in Pinned : f.branch \in open}} \subseteq Paths
    BY <1>1 DEF Pinned, Entries
  <2> QED
    BY <1>1, <2>1, <2>2 DEF Proposing, Runs, Stages, Dirty
<1>5. CASE FetchBase \/ FetchTip
  BY <1>1, <1>5 DEF FetchBase, FetchTip, Runs, Stages
<1>6. CASE Build
  <2>1. run' = [run EXCEPT !.at = "push", !.commit = Len(commits) + 1, !.urls = Urls]
    BY <1>6 DEF Build
  <2>2. Len(commits) + 1 \in Nat
    BY <1>1
  <2> QED
    BY <1>1, <2>1, <2>2 DEF Runs, Stages
<1>7. ASSUME NEW u \in Urls, Push(u) PROVE run' \in Runs
  BY <1>1, <1>7 DEF Push, Runs
<1>8. CASE Prove
  <2>1. PICK quiet \in SUBSET Urls :
          \/ run' = Idle
          \/ \E stage \in {"announce", "pin"} : run' = [run EXCEPT !.at = stage, !.urls = Held(quiet)]
          \/ run' = [run EXCEPT !.at = "pin", !.urls = Held(quiet), !.opened = TRUE]
    BY <1>8, Proves
  <2>2. Held(quiet) \subseteq Urls
    BY DEF Held
  <2> QED
    BY <1>1, <2>1, <2>2 DEF Runs, Stages
<1>9. CASE Announce
  BY <1>1, <1>9 DEF Announce, Runs, Stages
<1>10. CASE StartSync
  BY <1>1, <1>10 DEF StartSync, Matching, Dirty, Runs, Stages
<1>11. CASE Pin \/ TakeGuard \/ AppendEntry \/ ReleaseGuard \/ Replace \/ Restore \/ Prune \/ DropRefs
  BY <1>3, <1>11 DEF Pin, TakeGuard, AppendEntry, ReleaseGuard, Replace, Restore, Prune, DropRefs, Stages
<1>12. CASE CheckEarlier \/ GiveUp \/ Finish \/ Postpone \/ FastForward \/ Crash
  BY <1>2, <1>12 DEF CheckEarlier, GiveUp, Finish, Postpone, FastForward, Crash
<1> QED
  BY <1>2, <1>4, <1>5, <1>6, <1>7, <1>8, <1>9, <1>10, <1>11, <1>12, RunSteps DEF ProposeStep, SyncStep

LEMMA StepTyped == TypeOK /\ RunAgrees /\ [Next]_vars => TypeOK'
<1> SUFFICES ASSUME TypeOK, RunAgrees, [Next]_vars PROVE TypeOK'
  OBVIOUS
<1> DEFINE Budgets == [captures : Nat, others : Nat, local : Nat, crashes : Nat]
<1>1. budget \in Budgets
  BY DEF TypeOK
<1>2. budget' \in Budgets
  <2>1. budget' = budget \/ budget' = [budget EXCEPT !.captures = @ + 1] \/ budget' = [budget EXCEPT !.others = @ + 1]
          \/ budget' = [budget EXCEPT !.local = @ + 1] \/ budget' = [budget EXCEPT !.crashes = @ + 1]
    BY DEF Next, ProposeStep, SyncStep, OthersStep, CheckEarlier, Choose, FetchBase, Build, GiveUp, Push, Prove,
         Announce, Pin, TakeGuard, AppendEntry, ReleaseGuard, Replace, Finish, StartSync, Restore, Prune, FetchTip,
         Postpone, DropRefs, FastForward, Crash, Capture, LocalCommit, Merge, Close, LandPart, LandElsewhere,
         MoveBranch, DeleteBranch, OneMore, OneMoreOther, vars
  <2> QED
    BY <1>1, <2>1
<1> QED
  BY <1>2, StepVaultTyped, StepCommitsTyped, StepForgeTyped, StepBooksTyped, StepRunTyped DEF TypeOK

-----------------------------------------------------------------------------
(* What the invariant says of commits, books and the run. *)

\* The commit a build adds, and none of the others changes.
LEMMA BuildAdds ==
  ASSUME TypeOK, RunAgrees, Build
  PROVE  LET k == Len(commits) + 1
             onto == IF run.old = 0 THEN run.tip.tree ELSE commits[run.old].tree
         IN /\ k \in Nat /\ DOMAIN commits' = DOMAIN commits \cup {k} /\ k \notin DOMAIN commits
            /\ \A i \in DOMAIN commits : commits'[i] = commits[i]
            /\ commits'[k].parent = run.old /\ commits'[k].before = History(run.old) /\ commits'[k].onto = onto
            /\ commits'[k].tree = [p \in Paths |-> IF p \in run.chosen THEN work[p] ELSE onto[p]]
            /\ run.old # 0 => commits'[k].branch = commits[run.old].branch
<1> DEFINE k == Len(commits) + 1
           onto == IF run.old = 0 THEN run.tip.tree ELSE commits[run.old].tree
           tree == [p \in Paths |-> IF p \in run.chosen THEN work[p] ELSE onto[p]]
<1>1. commits \in Seq(Commits)
  BY DEF TypeOK
<1>2. PICK branch \in IF run.old = 0 THEN FreeBranch ELSE {commits[run.old].branch} :
        commits' = Append(commits, [branch |-> branch, parent |-> run.old, before |-> History(run.old),
                                    onto |-> onto, tree |-> tree])
  BY DEF Build
<1> HIDE DEF onto, tree
<1>3. /\ k \in Nat /\ DOMAIN commits' = DOMAIN commits \cup {k} /\ k \notin DOMAIN commits
      /\ \A i \in DOMAIN commits : commits'[i] = commits[i]
      /\ commits'[k] = [branch |-> branch, parent |-> run.old, before |-> History(run.old),
                        onto |-> onto, tree |-> tree]
  BY <1>1, <1>2
<1> QED
  BY <1>2, <1>3 DEF onto, tree

LEMMA CommitsKept ==
  ASSUME TypeOK, RunAgrees, [Next]_vars
  PROVE  /\ DOMAIN commits \subseteq DOMAIN commits'
         /\ \A i \in DOMAIN commits : commits'[i] = commits[i]
  BY BuildAdds, CommitsSteps

\* A pull request once seen is never unseen.
LEMMA SeenForGood ==
  ASSUME TypeOK, [Next]_vars, NEW b \in Branches, pr[b] # "none"
  PROVE  pr'[b] # "none"
<1>1. pr \in [Branches -> {"none", "open", "merged", "closed"}]
  BY DEF TypeOK, ForgeTyped
<1>2. CASE Announce
  BY <1>1, <1>2 DEF Announce
<1>3. ASSUME NEW c \in Branches, NEW squash \in BOOLEAN, Merge(c, squash) \/ Close(c) PROVE pr'[b] # "none"
  BY <1>1, <1>3 DEF Merge, Close
<1>4. Announce \/ pr' = pr \/ \E c \in Branches : Merge(c, TRUE) \/ Merge(c, FALSE) \/ Close(c)
  BY ForgeSteps DEF Push, LandElsewhere, DeleteBranch, LandPart, MoveBranch, forge
<1> QED
  BY <1>2, <1>3, <1>4

LEMMA StepBooksAgree == TypeOK /\ BooksAgree /\ RunAgrees /\ [Next]_vars => BooksAgree'
<1> SUFFICES ASSUME TypeOK, BooksAgree, RunAgrees, [Next]_vars PROVE BooksAgree'
  OBVIOUS
<1>1. /\ commits \in Seq(Commits) /\ refs \in [Branches -> 0 .. Len(commits)]
      /\ \A b \in Branches : refs[b] # 0 => refs[b] \in DOMAIN commits
  BY DEF TypeOK, BooksTyped
<1>2. /\ DOMAIN commits \subseteq DOMAIN commits'
      /\ \A i \in DOMAIN commits : commits'[i] = commits[i]
  BY CommitsKept
<1>3. CASE refs' = refs /\ ledger' \subseteq ledger
  BY <1>1, <1>2, <1>3 DEF BooksAgree
<1>4. CASE Pin
  <2>1. run.commit \in DOMAIN commits /\ commits' = commits /\ ledger' = ledger
    BY <1>4 DEF Pin, RunAgrees, At, AfterBuild
  <2>2. refs' = refs \/ refs' = [refs EXCEPT ![Branch] = run.commit]
    BY <1>4 DEF Pin, PinNow
  <2> QED
    BY <1>1, <2>1, <2>2 DEF BooksAgree, Branch
<1>5. CASE AppendEntry
  <2>1. run.commit \in DOMAIN commits
    BY <1>5 DEF AppendEntry, RunAgrees, At, AfterBuild
  <2> QED
    BY <1>2, <1>5, <2>1 DEF AppendEntry, BooksAgree, Entry, Branch
<1>6. CASE DropRefs
  BY <1>1, <1>6 DEF DropRefs, BooksAgree
<1>7. Pin \/ AppendEntry \/ DropRefs \/ (refs' = refs /\ ledger' \subseteq ledger)
  BY BooksSteps DEF books, CheckEarlier, Prove, TakeGuard, ReleaseGuard, Replace, Finish, Prune, Without
<1> QED
  BY <1>3, <1>4, <1>5, <1>6, <1>7

LEMMA StepRunAgrees == TypeOK /\ BooksAgree /\ RunAgrees /\ [Next]_vars => RunAgrees'
<1> SUFFICES ASSUME TypeOK, BooksAgree, RunAgrees, [Next]_vars PROVE RunAgrees'
  OBVIOUS
<1>1. /\ run \in Runs /\ refs \in [Branches -> 0 .. Len(commits)]
      /\ pr \in [Branches -> {"none", "open", "merged", "closed"}]
      /\ commits \in Seq(Commits) /\ ledger \subseteq Entries /\ pending \subseteq Branches
  BY DEF TypeOK, ForgeTyped, BooksTyped
<1>2. \A b \in Branches : pr[b] # "none" => pr'[b] # "none"
  BY SeenForGood
<1>3. /\ DOMAIN commits \subseteq DOMAIN commits'
      /\ \A i \in DOMAIN commits : commits'[i] = commits[i] /\ commits[i].branch \in Branches
  <2>1. \A i \in DOMAIN commits : commits[i] \in Commits
    BY <1>1
  <2> QED
    BY <2>1, CommitsKept DEF Commits
<1> USE DEF RunAgrees, At, AfterBuild, Branch
<1>4. CASE UNCHANGED <<run, refs, pending, commits>>
  BY <1>1, <1>2, <1>3, <1>4 DEF Entry, IsPinned
<1>5. CASE run' = Idle
  BY <1>5 DEF Idle
<1>6. CASE CheckEarlier
  BY <1>1, <1>2, <1>3, <1>6 DEF CheckEarlier, forge
<1>7. CASE Choose
  <2>1. PICK chosen \in SUBSET Dirty, open \in SUBSET {b \in Branches : pr[b] = "open"}, old \in Nat :
          /\ old = 0 \/ \E b \in open : old = refs[b]
          /\ run' = Proposing(chosen, open, old)
    BY <1>7, ChoosesOpen
  <2>2. run'.at = "fetch" /\ run'.old = old /\ run'.opened = FALSE
    BY <2>1 DEF Idle, Proposing
  <2>4. commits' = commits /\ pr' = pr
    BY <1>7 DEF Choose, forge
  <2>5. run'.old # 0 => run'.old \in DOMAIN commits /\ pr[commits[run'.old].branch] # "none"
    BY <1>1, <2>1, <2>2 DEF BooksAgree
  <2> QED
    BY <2>2, <2>4, <2>5
<1>8. CASE FetchBase \/ StartSync \/ Restore \/ Prune \/ FetchTip \/ DropRefs
  <2>1. pr' = pr /\ commits' = commits
    BY <1>8 DEF FetchBase, StartSync, Restore, Prune, FetchTip, DropRefs, forge
  <2>2. \/ /\ run'.at \in {"build", "restore", "prune", "sync", "drop", "forward"}
           /\ run'.old = run.old /\ run'.opened = run.opened
           /\ run.at \in {"fetch", "restore", "prune", "sync", "drop"}
        \/ run'.at = "restore" /\ run'.old = 0 /\ run'.opened = FALSE
    <3>1. CASE Restore \/ Prune \/ DropRefs
      BY <1>1, <3>1, GoKeeps DEF Restore, Prune, DropRefs
    <3>2. CASE FetchBase \/ FetchTip
      BY <1>1, <3>2 DEF FetchBase, FetchTip, Runs
    <3>3. CASE StartSync
      BY <3>3 DEF StartSync, Idle
    <3> QED
      BY <1>8, <3>1, <3>2, <3>3
  <2> QED
    BY <2>1, <2>2
<1>9. CASE Build
  <2>1. /\ run' = [run EXCEPT !.at = "push", !.commit = Len(commits) + 1, !.urls = Urls]
        /\ Len(commits) + 1 \in Nat /\ pr' = pr
    BY <1>1, <1>9 DEF Build, forge
  <2>2. /\ run'.at = "push" /\ run'.commit = Len(commits) + 1 /\ run'.old = run.old
        /\ run'.opened = run.opened
    BY <1>1, <2>1 DEF Runs
  <2>3. ~run.opened
    BY <1>9 DEF Build
  <2> QED
    BY <1>1, <1>2, <1>3, <1>9, <2>1, <2>2, <2>3, BuildAdds
<1>10. ASSUME NEW u \in Urls, Push(u) PROVE RunAgrees'
  BY <1>1, <1>2, <1>3, <1>10 DEF Push, books, Runs
<1>11. CASE Prove
  <2>1. commits' = commits /\ pr' = pr /\ pending \subseteq pending' /\ refs' = refs /\ At("push")
    BY <1>11 DEF Prove, Record, forge
  <2>2. \/ run' = Idle
        \/ run'.at = "announce" /\ run'.old = run.old /\ run'.commit = run.commit /\ run'.opened = run.opened
             /\ Branch \in pending'
        \/ run'.at = "pin" /\ run'.old = run.old /\ run'.commit = run.commit
             /\ (run'.opened = run.opened \/ run.old # 0)
    <3>1. PICK quiet \in SUBSET Urls :
            \/ run' = Idle
            \/ /\ Record({Branch})
               /\ \E stage \in {"announce", "pin"} : run' = [run EXCEPT !.at = stage, !.urls = Held(quiet)]
            \/ run.old # 0 /\ run' = [run EXCEPT !.at = "pin", !.urls = Held(quiet), !.opened = TRUE]
      BY <1>11, Proves
    <3> QED
      BY <1>1, <3>1 DEF Record, Runs
  <2> QED
    BY <2>1, <2>2 DEF Idle
<1>12. CASE Announce
  BY <1>1, <1>2, <1>3, <1>12 DEF Announce, Runs, books
<1>13. CASE Pin
  <2>1. commits' = commits /\ pr' = pr /\ At("pin")
    BY <1>13 DEF Pin, forge
  <2>2. /\ run'.at \in {"guard", "finish"} /\ run'.old = run.old /\ run'.commit = run.commit
        /\ run'.opened = run.opened
    BY <1>1, <1>13, GoKeeps DEF Pin
  <2>3. run'.at = "guard" => refs' = [refs EXCEPT ![Branch] = run.commit]
    BY <1>1, <1>13, GoKeeps DEF Pin, PinNow
  <2>4. Branch \in Branches
    BY <1>3, <2>1
  <2> QED
    BY <1>1, <2>1, <2>2, <2>3, <2>4 DEF Entry, IsPinned
<1>14. CASE TakeGuard \/ AppendEntry \/ ReleaseGuard \/ Replace
  <2>1. commits' = commits /\ pr' = pr /\ refs' = refs
    BY <1>14 DEF TakeGuard, AppendEntry, ReleaseGuard, Replace, forge
  <2>2. /\ run'.at \in {"append", "release", "replace", "finish"} /\ run'.old = run.old
        /\ run'.commit = run.commit /\ run'.opened = run.opened
        /\ run'.at = "append" => run.at = "guard"
        /\ run.at \in {"guard", "append", "release", "replace"}
    BY <1>1, <1>14, GoKeeps DEF TakeGuard, AppendEntry, ReleaseGuard, Replace
  <2> QED
    BY <2>1, <2>2 DEF Entry, IsPinned
<1>15. GiveUp \/ Finish \/ Postpone \/ FastForward \/ Crash => run' = Idle
  BY DEF GiveUp, Finish, Postpone, FastForward, Crash
<1>16. OthersStep \/ UNCHANGED vars => UNCHANGED <<run, refs, pending, commits>>
  BY DEF OthersStep, Capture, LocalCommit, Merge, Close, LandPart, LandElsewhere, MoveBranch, DeleteBranch,
         vars, books
<1> QED
  BY <1>4, <1>5, <1>6, <1>7, <1>8, <1>9, <1>10, <1>11, <1>12, <1>13, <1>14, <1>15, <1>16
     DEF Next, ProposeStep, SyncStep

-----------------------------------------------------------------------------
(* What only grows, and what sync may take away. *)

\* The default branch of the remote only grows.
LEMMA BaseGrows ==
  ASSUME TypeOK, [Next]_vars
  PROVE  base.merged \subseteq base'.merged /\ \A p \in Paths : base.tree[p] \subseteq base'.tree[p]
<1>1. /\ base.tree \in Trees /\ base = [tree |-> base.tree, merged |-> base.merged]
  BY DEF TypeOK, ForgeTyped, Tips
<1>2. ASSUME NEW p \in Paths, LandElsewhere(p)
      PROVE  base.merged \subseteq base'.merged /\ \A q \in Paths : base.tree[q] \subseteq base'.tree[q]
  <2>1. base' = [tree |-> [base.tree EXCEPT ![p] = @ \cup {Fresh}], merged |-> base.merged]
    BY <1>1, <1>2 DEF LandElsewhere
  <2> QED
    BY <1>1, <2>1 DEF Trees
<1>3. ASSUME NEW b \in Branches, NEW p \in Paths, LandPart(b, p)
      PROVE  base.merged \subseteq base'.merged /\ \A q \in Paths : base.tree[q] \subseteq base'.tree[q]
  <2>1. base' = [tree |-> [base.tree EXCEPT ![p] = @ \cup commits[Tip(b)].tree[p]], merged |-> base.merged]
    BY <1>1, <1>3 DEF LandPart
  <2> QED
    BY <1>1, <2>1 DEF Trees
<1>4. ASSUME NEW b \in Branches, NEW squash \in BOOLEAN, Merge(b, squash)
      PROVE  base.merged \subseteq base'.merged /\ \A q \in Paths : base.tree[q] \subseteq base'.tree[q]
  BY <1>4 DEF Merge
<1>5. \/ base' = base \/ \E p \in Paths : LandElsewhere(p)
      \/ \E b \in Branches : Merge(b, TRUE) \/ Merge(b, FALSE) \/ \E p \in Paths : LandPart(b, p)
  BY ForgeSteps DEF Announce, Push, Close, DeleteBranch, MoveBranch, forge
<1> QED
  BY <1>2, <1>3, <1>4, <1>5

\* Where a run's tip comes from, and which step brings a run to its build.
LEMMA TipSteps ==
  ASSUME run \in Runs, TypeOK, [Next]_vars
  PROVE  run'.tip \in {run.tip, Idle.tip, base}
<1>1. CASE Choose
  BY <1>1, ChoosesOpen DEF Proposing, Idle
<1>2. CASE FetchBase \/ FetchTip \/ Build \/ Announce \/ StartSync
  BY <1>2 DEF FetchBase, FetchTip, Build, Announce, StartSync, Idle, Runs
<1>3. CASE Prove
  BY <1>3, Proves DEF Runs
<1>4. ASSUME NEW u \in Urls, Push(u) PROVE run'.tip = run.tip
  BY <1>4 DEF Push, Runs
<1>5. CASE Pin \/ TakeGuard \/ AppendEntry \/ ReleaseGuard \/ Replace \/ Restore \/ Prune \/ DropRefs
  BY <1>5, GoKeeps DEF Pin, TakeGuard, AppendEntry, ReleaseGuard, Replace, Restore, Prune, DropRefs
<1>6. CASE CheckEarlier \/ GiveUp \/ Finish \/ Postpone \/ FastForward \/ Crash
  BY <1>6 DEF CheckEarlier, GiveUp, Finish, Postpone, FastForward, Crash
<1> QED
  BY <1>1, <1>2, <1>3, <1>4, <1>5, <1>6, RunSteps DEF ProposeStep, SyncStep

LEMMA OldSteps ==
  ASSUME run \in Runs, TypeOK, [Next]_vars
  PROVE  run'.old \in {0, run.old} \/ Choose
<1>1. Idle.old = 0
  BY DEF Idle
<1>2. CASE FetchBase \/ FetchTip \/ Build \/ Announce \/ StartSync
  BY <1>2, <1>1 DEF FetchBase, FetchTip, Build, Announce, StartSync, Idle, Runs
<1>3. CASE Prove
  BY <1>1, <1>3, Proves DEF Runs
<1>4. ASSUME NEW u \in Urls, Push(u) PROVE run'.old = run.old
  BY <1>4 DEF Push, Runs
<1>5. CASE Pin \/ TakeGuard \/ AppendEntry \/ ReleaseGuard \/ Replace \/ Restore \/ Prune \/ DropRefs
  BY <1>5, GoKeeps DEF Pin, TakeGuard, AppendEntry, ReleaseGuard, Replace, Restore, Prune, DropRefs
<1>6. CASE CheckEarlier \/ GiveUp \/ Finish \/ Postpone \/ FastForward \/ Crash
  BY <1>1, <1>6 DEF CheckEarlier, GiveUp, Finish, Postpone, FastForward, Crash
<1> QED
  BY <1>2, <1>3, <1>4, <1>5, <1>6, RunSteps DEF ProposeStep, SyncStep

LEMMA BuildStarts ==
  ASSUME run \in Runs, TypeOK, [Next]_vars, run'.at \in {"build", "restore"}
  PROVE  UNCHANGED run \/ (run'.at = "build" /\ FetchBase) \/ (run'.at = "restore" /\ StartSync)
<1>1. CASE Choose
  BY <1>1, ChoosesOpen DEF Proposing, Idle
<1>2. CASE FetchBase \/ FetchTip \/ Build \/ Announce \/ StartSync
  BY <1>2 DEF FetchBase, FetchTip, Build, Announce, StartSync, Idle, Runs
<1>3. CASE Prove
  <2>1. run'.at \in {"idle", "announce", "pin"}
    <3>1. PICK quiet \in SUBSET Urls :
            \/ run' = Idle
            \/ \E stage \in {"announce", "pin"} : run' = [run EXCEPT !.at = stage, !.urls = Held(quiet)]
            \/ run' = [run EXCEPT !.at = "pin", !.urls = Held(quiet), !.opened = TRUE]
      BY <1>3, Proves
    <3>2. Idle.at = "idle"
      BY DEF Idle
    <3> QED
      BY <3>1, <3>2 DEF Runs
  <2> QED
    BY <2>1
<1>4. ASSUME NEW u \in Urls, Push(u) PROVE run'.at = "push"
  BY <1>4 DEF Push, Runs, At
<1>5. CASE Pin \/ TakeGuard \/ AppendEntry \/ ReleaseGuard \/ Replace \/ Restore \/ Prune \/ DropRefs
  BY <1>5, GoKeeps DEF Pin, TakeGuard, AppendEntry, ReleaseGuard, Replace, Restore, Prune, DropRefs
<1>6. CASE CheckEarlier \/ GiveUp \/ Finish \/ Postpone \/ FastForward \/ Crash
  BY <1>6 DEF CheckEarlier, GiveUp, Finish, Postpone, FastForward, Crash, Idle
<1> QED
  BY <1>1, <1>2, <1>3, <1>4, <1>5, <1>6, RunSteps DEF ProposeStep, SyncStep

LEMMA StepOnlyGrows == TypeOK /\ RunAgrees /\ OnlyGrows /\ [Next]_vars => OnlyGrows'
<1> SUFFICES ASSUME TypeOK, RunAgrees, OnlyGrows, [Next]_vars PROVE OnlyGrows'
  OBVIOUS
<1>1. /\ work \in Trees /\ head \in Trees /\ ahead \in BOOLEAN /\ run \in Runs /\ run.tip \in Tips
      /\ base.tree \in Trees
  BY DEF TypeOK, VaultTyped, ForgeTyped, Runs, Tips
<1>2. base.merged \subseteq base'.merged /\ \A p \in Paths : base.tree[p] \subseteq base'.tree[p]
  BY BaseGrows
<1> DEFINE TipThere(tip) == tip.merged \subseteq base'.merged /\ \A p \in Paths : tip.tree[p] \subseteq base'.tree[p]
<1>3. TipThere(run'.tip)
  <2>1. TipThere(run.tip) /\ TipThere(Idle.tip) /\ TipThere(base)
    BY <1>2 DEF OnlyGrows, Idle, Empty
  <2> HIDE DEF TipThere
  <2>2. run'.tip \in {run.tip, Idle.tip, base}
    BY <1>1, TipSteps
  <2> QED
    BY <2>1, <2>2
<1>4. \A p \in Paths : head'[p] \subseteq work'[p] /\ (~ahead' => head'[p] \subseteq base'.tree[p])
  <2>1. \A p \in Paths : head[p] \subseteq work[p] /\ (~ahead => head[p] \subseteq base'.tree[p])
    BY <1>2 DEF OnlyGrows
  <2>2. CASE UNCHANGED vault
    BY <2>1, <2>2 DEF vault
  <2>3. CASE Restore
    BY <1>1, <2>1, <2>3 DEF Restore, Trees
  <2>4. CASE FastForward
    BY <1>1, <1>2, <2>1, <2>4 DEF FastForward, OnlyGrows, Trees
  <2>5. ASSUME NEW p \in Paths, Capture(p) \/ LocalCommit(p)
        PROVE  \A q \in Paths : head'[q] \subseteq work'[q] /\ (~ahead' => head'[q] \subseteq base'.tree[q])
    BY <1>1, <2>1, <2>5 DEF Capture, LocalCommit, Trees
  <2> QED
    BY <2>2, <2>3, <2>4, <2>5, VaultSteps
<1>5. ASSUME run'.at = "build", NEW p \in Paths, p \in run'.chosen PROVE run'.tip.tree[p] \subseteq work'[p]
  <2>1. CASE FetchBase
    BY <1>1, <1>5, <2>1 DEF FetchBase, MadeOn, OnlyGrows, Runs, vault
  <2>2. CASE UNCHANGED run
    <3>1. work[p] \subseteq work'[p]
      <4>1. ~Restore /\ ~FastForward
        BY <1>5, <2>2 DEF Restore, FastForward, At
      <4>2. ASSUME NEW q \in Paths, Capture(q) \/ LocalCommit(q) PROVE work[p] \subseteq work'[p]
        BY <1>1, <4>2 DEF Capture, LocalCommit, Trees
      <4> QED
        BY <4>1, <4>2, VaultSteps DEF vault
    <3> QED
      BY <1>5, <2>2, <3>1 DEF OnlyGrows, At
  <2>3. run'.at = "build" => FetchBase \/ UNCHANGED run
    BY <1>1, BuildStarts
  <2> QED
    BY <1>5, <2>1, <2>2, <2>3
<1> QED
  BY <1>3, <1>4, <1>5 DEF OnlyGrows, At

LEMMA StepRestoresWhatIsKept ==
  TypeOK /\ BooksAgree /\ RunAgrees /\ RestoresWhatIsKept /\ [Next]_vars => RestoresWhatIsKept'
<1> SUFFICES ASSUME TypeOK, BooksAgree, RunAgrees, RestoresWhatIsKept, [Next]_vars, run'.at = "restore", ~Hasty,
                    NEW p \in run'.chosen
             PROVE  \E b \in Branches : refs'[b] # 0 /\ commits'[refs'[b]].tree[p] = work'[p]
  BY DEF RestoresWhatIsKept, At
<1>1. /\ run \in Runs /\ refs \in [Branches -> 0 .. Len(commits)] /\ commits \in Seq(Commits)
      /\ ledger \subseteq Entries
  BY DEF TypeOK, BooksTyped
<1>2. \A i \in DOMAIN commits : commits'[i] = commits[i]
  BY CommitsKept
<1>3. CASE StartSync
  <2>1. p \in Matching
    BY <1>3 DEF StartSync, Idle
  <2>2. PICK e \in ledger : refs[e.branch] = e.commit /\ commits[e.commit].tree[p] = work[p]
    BY <2>1 DEF Matching, Latest, Pinned, IsPinned
  <2>3. e.branch \in Branches /\ e.commit # 0 /\ commits' = commits /\ refs' = refs /\ work' = work
    BY <1>1, <1>3, <2>2 DEF StartSync, books, vault, Entries, BooksAgree
  <2> QED
    BY <2>2, <2>3
<1>4. CASE UNCHANGED run /\ At("restore")
  <2>1. UNCHANGED <<refs, commits>> /\ work'[p] = work[p]
    <3>1. UNCHANGED <<refs, commits>>
      BY <1>4, BooksSteps, CommitsSteps DEF At, books, CheckEarlier, Prove, Pin, TakeGuard, AppendEntry, ReleaseGuard,
         Replace, Finish, Prune, DropRefs, Build
    <3>2. ~Restore /\ ~FastForward
      BY <1>1, <1>4, GoKeeps DEF Restore, FastForward, At
    <3>3. ASSUME NEW q \in Paths, Capture(q) \/ LocalCommit(q) PROVE work' = work
      BY <1>4, <3>3 DEF Capture, LocalCommit, At
    <3> QED
      BY <3>1, <3>2, <3>3, VaultSteps DEF vault
  <2> QED
    BY <1>4, <2>1 DEF RestoresWhatIsKept
<1> QED
  BY <1>1, <1>3, <1>4, BuildStarts DEF At

\* Where gh answers nothing, a run adds to no commit.
LEMMA StepEachOnTheBase ==
  TypeOK /\ RunAgrees /\ OnlyGrows /\ EachOnTheBase /\ [Next]_vars => EachOnTheBase'
<1> SUFFICES ASSUME TypeOK, RunAgrees, OnlyGrows, EachOnTheBase, [Next]_vars, "answers" \notin Gh
             PROVE  EachOnTheBase'
  BY DEF EachOnTheBase
<1>1. /\ run \in Runs /\ commits \in Seq(Commits) /\ work \in Trees /\ base.tree \in Trees
      /\ run.tip.tree \in Trees
  BY DEF TypeOK, VaultTyped, ForgeTyped, Runs, Tips
<1>2. base.merged \subseteq base'.merged /\ \A p \in Paths : base.tree[p] \subseteq base'.tree[p]
  BY BaseGrows
<1>3. /\ run.old = 0 /\ base.merged \subseteq DOMAIN commits
      /\ \A k \in DOMAIN commits :
           /\ commits[k].parent = 0 /\ commits[k].before = {}
           /\ \A p \in Paths :
                /\ commits[k].onto[p] \subseteq base.tree[p] /\ commits[k].onto[p] \subseteq commits[k].tree[p]
                /\ k \in base.merged => commits[k].tree[p] \subseteq base.tree[p]
  BY DEF EachOnTheBase
<1>4. run'.old = 0
  <2>1. CASE Choose
    BY <2>1, ChoosesOpen DEF Proposing, Idle
  <2>2. run' = Idle => run'.old = 0
    BY DEF Idle
  <2>3. run'.old \in {0, run.old} \/ Choose
    BY <1>1, <2>2, OldSteps
  <2> QED
    BY <1>3, <2>1, <2>3
<1>5. CASE Build
  <2>1. base' = base
    BY <1>5 DEF Build, forge
  <2>2. \A p \in Paths : run.tip.tree[p] \subseteq base.tree[p] /\ (p \in run.chosen => run.tip.tree[p] \subseteq work[p])
    BY <1>5 DEF OnlyGrows, Build
  <2> DEFINE k == Len(commits) + 1
  <2>3. /\ DOMAIN commits' = DOMAIN commits \cup {k} /\ k \notin DOMAIN commits
        /\ \A i \in DOMAIN commits : commits'[i] = commits[i]
        /\ commits'[k].parent = 0 /\ commits'[k].before = {} /\ commits'[k].onto = run.tip.tree
        /\ commits'[k].tree = [p \in Paths |-> IF p \in run.chosen THEN work[p] ELSE run.tip.tree[p]]
    BY <1>3, <1>5, BuildAdds DEF History
  <2> HIDE DEF k
  <2>4. /\ commits'[k].parent = 0 /\ commits'[k].before = {} /\ k \notin base.merged
        /\ \A p \in Paths : /\ commits'[k].onto[p] \subseteq base.tree[p]
                            /\ commits'[k].onto[p] \subseteq commits'[k].tree[p]
    BY <1>3, <2>2, <2>3
  <2> QED
    BY <1>3, <1>4, <2>1, <2>3, <2>4 DEF EachOnTheBase
<1>6. CASE UNCHANGED commits
  <2>1. CASE base'.merged = base.merged
    BY <1>2, <1>3, <1>4, <1>6, <2>1 DEF EachOnTheBase
  <2>2. ASSUME NEW b \in Branches, NEW squash \in BOOLEAN, Merge(b, squash) PROVE EachOnTheBase'
    <3>1. Tip(b) \in DOMAIN commits
      BY <1>1, <2>2 DEF Merge, Tip, Other, TypeOK, ForgeTyped
    <3>2. /\ base'.merged \subseteq base.merged \cup {Tip(b)}
          /\ \A p \in Paths : base'.tree[p] = base.tree[p] \cup commits[Tip(b)].tree[p]
      BY <1>3, <2>2, <3>1 DEF Merge, History
    <3> QED
      BY <1>2, <1>3, <1>4, <1>6, <3>1, <3>2 DEF EachOnTheBase
  <2>3. base'.merged = base.merged \/ \E b \in Branches : Merge(b, TRUE) \/ Merge(b, FALSE)
    <3>1. base = [tree |-> base.tree, merged |-> base.merged]
      BY DEF TypeOK, ForgeTyped, Tips
    <3> QED
      BY <3>1, ForgeSteps DEF Announce, Push, Close, DeleteBranch, MoveBranch, LandElsewhere, LandPart, forge
  <2> QED
    BY <2>1, <2>2, <2>3
<1> QED
  BY <1>5, <1>6, CommitsSteps

-----------------------------------------------------------------------------
(* The inductive invariant. *)

\* The initial states satisfy the invariant.
LEMMA InitIInv == Init => IInv
<1> SUFFICES ASSUME Init PROVE IInv
  OBVIOUS
<1>1. TypeOK
  <2>1. VaultTyped /\ run \in Runs
    BY EmptyIsTree, IdleIsRun DEF Init, VaultTyped
  <2>2. ForgeTyped /\ BooksTyped /\ commits \in Seq(Commits)
    <3>1. base \in Tips /\ commits = <<>> /\ Len(commits) = 0 /\ commits \in Seq(Commits)
      BY EmptyIsTree DEF Init, Tips
    <3>2. remote \in [Branches -> [Urls -> {Other} \cup 0 .. Len(commits)]] /\ refs \in [Branches -> 0 .. Len(commits)]
      BY <3>1 DEF Init
    <3> QED
      BY <3>1, <3>2 DEF Init, ForgeTyped, BooksTyped
  <2>3. budget \in [captures : Nat, others : Nat, local : Nat, crashes : Nat]
    BY DEF Init
  <2> QED
    BY <2>1, <2>2, <2>3 DEF TypeOK
<1>2. BooksAgree /\ RunAgrees
  BY DEF Init, BooksAgree, RunAgrees, Idle, At, AfterBuild
<1>3. OnlyGrows /\ RestoresWhatIsKept
  BY DEF Init, OnlyGrows, RestoresWhatIsKept, Idle, Empty, At
<1>4. EachOnTheBase
  BY DEF Init, EachOnTheBase, Idle
<1> QED
  BY <1>1, <1>2, <1>3, <1>4 DEF IInv

LEMMA StepIInv == IInv /\ [Next]_vars => IInv'
  BY StepTyped, StepBooksAgree, StepRunAgrees, StepOnlyGrows, StepRestoresWhatIsKept, StepEachOnTheBase DEF IInv

\* The types, the books, the run and what only grows agree in every reachable
\* state.
THEOREM BooksInvariant == Spec => []IInv
  BY InitIInv, StepIInv, PTL DEF Spec

-----------------------------------------------------------------------------
(* What a step never does, additions and deaths included. *)

\* A push never replaces what someone else put on a branch (publish's lease).
THEOREM PushOnlyOnItsParent == Spec => OnlyOnItsParent
<1>1. ASSUME IInv, [Next]_vars, NEW b \in Branches, NEW u \in Urls,
             remote'[b][u] # remote[b][u], remote'[b][u] \in DOMAIN commits
      PROVE  remote[b][u] = commits[remote'[b][u]].parent
  <2>1. remote \in [Branches -> [Urls -> {Other} \cup 0 .. Len(commits)]]
    BY <1>1 DEF IInv, TypeOK, ForgeTyped
  <2>2. DOMAIN commits = 1 .. Len(commits) /\ Len(commits) \in Nat
    BY <1>1 DEF IInv, TypeOK
  <2>3. ASSUME NEW v \in Urls, Push(v) PROVE remote[b][u] = commits[remote'[b][u]].parent
    <3>1. remote' = [remote EXCEPT ![Branch][v] = run.commit] /\ remote[Branch][v] = run.old
      BY <1>1, <2>3 DEF Push, Lease
    <3>2. b = Branch /\ u = v /\ remote'[b][u] = run.commit
      BY <1>1, <2>1, <3>1
    <3>3. commits[run.commit].parent = run.old
      BY <1>1, <2>3 DEF IInv, RunAgrees, Push, At, AfterBuild
    <3> QED
      BY <3>1, <3>2, <3>3
  <2>4. ASSUME NEW c \in Branches, DeleteBranch(c) \/ \E v \in Urls : MoveBranch(c, v) PROVE FALSE
    <3>1. CASE DeleteBranch(c)
      BY <1>1, <2>1, <2>2, <3>1 DEF DeleteBranch
    <3>2. ASSUME NEW v \in Urls, MoveBranch(c, v) PROVE FALSE
      BY <1>1, <2>1, <2>2, <3>2 DEF MoveBranch, Other
    <3> QED
      BY <2>4, <3>1, <3>2
  <2>5. remote' = remote \/ (\E v \in Urls : Push(v))
          \/ \E c \in Branches : DeleteBranch(c) \/ \E v \in Urls : MoveBranch(c, v)
    BY <1>1, ForgeSteps DEF Announce, LandElsewhere, Merge, Close, LandPart, forge
  <2> QED
    BY <1>1, <2>3, <2>4, <2>5
<1> DEFINE D == \A b \in Branches, u \in Urls :
                  remote'[b][u] # remote[b][u] /\ remote'[b][u] \in DOMAIN commits =>
                    remote[b][u] = commits[remote'[b][u]].parent
<1>2. IInv /\ [Next]_vars => [D]_vars
  BY <1>1
<1> QED
  BY <1>2, BooksInvariant, PTL DEF OnlyOnItsParent, Spec

\* A pull request is created with its record in place, and the record goes only
\* once a pull request was seen.
THEOREM KilledRunsAreNamed == Spec => NoneForgotten
<1> DEFINE D == \A b \in Branches :
                  /\ pr[b] = "none" /\ pr'[b] # "none" => b \in pending
                  /\ b \in pending /\ b \notin pending' => pr[b] # "none"
<1>1. ASSUME IInv, [Next]_vars, NEW b \in Branches, pr[b] = "none", pr'[b] # "none" PROVE b \in pending
  <2>1. pr \in [Branches -> {"none", "open", "merged", "closed"}]
    BY <1>1 DEF IInv, TypeOK, ForgeTyped
  <2>2. CASE Announce
    <3>1. b = Branch
      BY <1>1, <2>1, <2>2 DEF Announce
    <3> QED
      BY <1>1, <2>2, <3>1 DEF Announce, IInv, RunAgrees
  <2>3. ASSUME NEW c \in Branches, Merge(c, TRUE) \/ Merge(c, FALSE) \/ Close(c) PROVE FALSE
    BY <1>1, <2>1, <2>3 DEF Merge, Close
  <2>4. pr' = pr \/ Announce \/ \E c \in Branches : Merge(c, TRUE) \/ Merge(c, FALSE) \/ Close(c)
    BY <1>1, ForgeSteps DEF Push, LandElsewhere, DeleteBranch, LandPart, MoveBranch, forge
  <2> QED
    BY <1>1, <2>2, <2>3, <2>4
<1>2. ASSUME IInv, [Next]_vars, NEW b \in Branches, b \in pending, b \notin pending' PROVE pr[b] # "none"
  <2>1. CASE CheckEarlier
    BY <1>2, <2>1 DEF CheckEarlier
  <2>2. CASE Finish
    BY <1>2, <2>2 DEF Finish, IInv, RunAgrees
  <2>3. CheckEarlier \/ Finish \/ pending \subseteq pending'
    BY <1>2, BooksSteps DEF Prove, Record, Pin, TakeGuard, AppendEntry, ReleaseGuard, Replace, Prune, DropRefs, books
  <2> QED
    BY <1>2, <2>1, <2>2, <2>3
<1>3. IInv /\ [Next]_vars => [D]_vars
  BY <1>1, <1>2
<1> QED
  BY <1>3, BooksInvariant, PTL DEF NoneForgotten, Spec

\* The ref that keeps a proposal's bytes is there before the entry that lets
\* sync take them from the working tree.
THEOREM RefBeforeEntry == Spec => EntriesArePinned
<1> DEFINE D == \A e \in ledger' \ ledger : IsPinned(e)
<1>1. ASSUME IInv, [Next]_vars, NEW e \in ledger' \ ledger PROVE IsPinned(e)
  <2>1. CASE AppendEntry
    BY <1>1, <2>1 DEF AppendEntry, At, IInv, RunAgrees
  <2>2. AppendEntry \/ ledger' \subseteq ledger
    BY <1>1, BooksSteps DEF CheckEarlier, Prove, Pin, TakeGuard, ReleaseGuard, Replace, Prune, DropRefs, Finish,
       Without, books
  <2> QED
    BY <1>1, <2>1, <2>2
<1>2. IInv /\ [Next]_vars => [D]_vars
  BY <1>1
<1> QED
  BY <1>2, BooksInvariant, PTL DEF EntriesArePinned, Spec

-----------------------------------------------------------------------------
(* Without additions to a pull request, nothing is reverted or lost. *)

\* No commit takes away a line of the base it was made on.
THEOREM NothingIsReverted ==
  ASSUME "answers" \notin Gh
  PROVE  Spec => []NothingReverted
<1>1. IInv => NothingReverted
  BY DEF IInv, EachOnTheBase, NothingReverted
<1> QED
  BY <1>1, BooksInvariant, PTL

\* All a merged commit holds is on the default branch, whichever way sync tells.
LEMMA MergedIsThere ==
  ASSUME "answers" \notin Gh, IInv, NEW k \in DOMAIN commits, MergedInto(k, run.tip), NEW p \in Paths
  PROVE  commits[k].tree[p] \subseteq base.tree[p]
<1>1. /\ run.tip.merged \subseteq base.merged /\ run.tip.tree[p] \subseteq base.tree[p]
      /\ commits[k].onto[p] \subseteq base.tree[p]
      /\ k \in base.merged => commits[k].tree[p] \subseteq base.tree[p]
  BY DEF IInv, OnlyGrows, EachOnTheBase
<1>2. CASE commits[k].tree[p] = commits[k].onto[p]
  BY <1>1, <1>2
<1>3. CASE commits[k].tree[p] # commits[k].onto[p]
  BY <1>1, <1>3 DEF MergedInto
<1> QED
  BY <1>2, <1>3

\* sync drops the ref of a proposal only once all it added is on the default
\* branch.
THEOREM RefsOutliveTheirMerge ==
  ASSUME "answers" \notin Gh
  PROVE  Spec => DropsOnlyLanded
<1> DEFINE D == \A b \in Branches : refs[b] # 0 /\ refs'[b] = 0 =>
                  \A k \in History(refs[b]), p \in Paths :
                    commits[k].tree[p] \ commits[k].onto[p] \subseteq base.tree[p]
<1>1. ASSUME IInv, [Next]_vars, NEW b \in Branches, refs[b] # 0, refs'[b] = 0,
             NEW k \in History(refs[b]), NEW p \in Paths
      PROVE  commits[k].tree[p] \subseteq base.tree[p]
  <2>1. refs \in [Branches -> 0 .. Len(commits)] /\ commits \in Seq(Commits)
    BY <1>1 DEF IInv, TypeOK, BooksTyped
  <2>2. refs[b] \in DOMAIN commits
    BY <1>1, <2>1
  <2>3. k = refs[b]
    BY <1>1, <2>2 DEF History, IInv, EachOnTheBase
  <2>4. CASE DropRefs
    <3>1. MergedInto(k, run.tip)
      BY <1>1, <2>3, <2>4 DEF DropRefs
    <3> QED
      BY <1>1, <2>2, <2>3, <3>1, MergedIsThere
  <2>5. CASE Pin
    <3>1. run.commit \in DOMAIN commits /\ run.commit # 0
      BY <1>1, <2>1, <2>5 DEF Pin, At, AfterBuild, IInv, RunAgrees
    <3> QED
      BY <1>1, <2>1, <2>5, <3>1 DEF Pin, PinNow
  <2>6. DropRefs \/ Pin \/ refs' = refs
    BY <1>1, BooksSteps DEF CheckEarlier, Prove, TakeGuard, AppendEntry, ReleaseGuard, Replace, Prune, Finish, books
  <2> QED
    BY <1>1, <2>4, <2>5, <2>6
<1>2. IInv /\ [Next]_vars => [D]_vars
  BY <1>1
<1> QED
  BY <1>2, BooksInvariant, PTL DEF DropsOnlyLanded, Spec

\* Where a line is kept: in the working tree, on the default branch, or in the
\* commit a proposed ref keeps (HEAD lies within the working tree).
Kept(c) ==
  \E p \in Paths : \/ c \in work[p] \/ c \in base.tree[p]
                   \/ \E b \in Branches : refs[b] # 0 /\ c \in commits[refs[b]].tree[p]

LEMMA KeptIsReachable ==
  ASSUME "answers" \notin Gh, IInv
  PROVE  NoCaptureLost <=> \A c \in 1 .. budget.captures : Kept(c)
<1>1. refs \in [Branches -> 0 .. Len(commits)] /\ commits \in Seq(Commits)
  BY DEF IInv, TypeOK, BooksTyped
<1>2. \A b \in Branches : History(refs[b]) = IF refs[b] = 0 THEN {} ELSE {refs[b]}
  <2>1. \A k \in DOMAIN commits : commits[k].before = {}
    BY DEF IInv, EachOnTheBase
  <2>2. \A b \in Branches : refs[b] # 0 => refs[b] \in DOMAIN commits
    BY <1>1
  <2> QED
    BY <2>1, <2>2 DEF History
<1>3. ASSUME NEW c
      PROVE  (\/ c \in Reachable(work) \cup Reachable(head) \cup Reachable(base.tree)
              \/ \E b \in Branches : \E k \in History(refs[b]) : c \in Reachable(commits[k].tree)) <=> Kept(c)
  <2>1. c \in Reachable(head) => c \in Reachable(work)
    BY DEF Reachable, IInv, OnlyGrows
  <2>2. (\E b \in Branches : \E k \in History(refs[b]) : c \in Reachable(commits[k].tree))
          <=> \E b \in Branches : refs[b] # 0 /\ c \in Reachable(commits[refs[b]].tree)
    BY <1>2
  <2> QED
    BY <2>1, <2>2 DEF Kept, Reachable
<1> QED
  BY <1>3 DEF NoCaptureLost

LEMMA KeptStays ==
  ASSUME "answers" \notin Gh, ~Hasty, IInv, [Next]_vars, NEW c, Kept(c)
  PROVE  Kept(c)'
<1>1. /\ refs \in [Branches -> 0 .. Len(commits)] /\ commits \in Seq(Commits)
      /\ work \in Trees /\ head \in Trees /\ run \in Runs
  BY DEF IInv, TypeOK, BooksTyped, VaultTyped
<1>2. /\ \A q \in Paths : base.tree[q] \subseteq base'.tree[q]
      /\ \A i \in DOMAIN commits : commits'[i] = commits[i]
  BY BaseGrows, CommitsKept DEF IInv
<1>3. ASSUME NEW p \in Paths, c \in base.tree[p] PROVE Kept(c)'
  BY <1>2, <1>3 DEF Kept
<1>4. ASSUME NEW p \in Paths, NEW b \in Branches, refs[b] # 0, c \in commits[refs[b]].tree[p] PROVE Kept(c)'
  <2>1. refs[b] \in DOMAIN commits
    BY <1>1, <1>4
  <2>2. CASE refs'[b] = refs[b]
    BY <1>2, <1>4, <2>1, <2>2 DEF Kept
  <2>3. CASE DropRefs
    <3>1. CASE MergedInto(refs[b], run.tip)
      BY <1>3, <1>4, <2>1, <3>1, MergedIsThere
    <3>2. CASE ~MergedInto(refs[b], run.tip)
      BY <2>2, <2>3, <3>2 DEF DropRefs
    <3> QED
      BY <3>1, <3>2
  <2>4. CASE Pin
    <3>1. run.old = 0
      BY DEF IInv, EachOnTheBase
    <3> QED
      BY <1>1, <1>4, <2>2, <2>4, <3>1 DEF Pin, PinNow
  <2>5. DropRefs \/ Pin \/ refs' = refs
    BY BooksSteps DEF CheckEarlier, Prove, TakeGuard, AppendEntry, ReleaseGuard, Replace, Prune, Finish, books
  <2> QED
    BY <2>2, <2>3, <2>4, <2>5
<1>5. ASSUME NEW p \in Paths, c \in work[p] PROVE Kept(c)'
  <2>1. CASE c \in work'[p]
    BY <2>1 DEF Kept
  <2>2. CASE Restore
    <3>1. CASE p \in run.chosen
      <4>1. PICK b \in Branches : refs[b] # 0 /\ commits[refs[b]].tree[p] = work[p]
        BY <2>2, <3>1 DEF Restore, IInv, RestoresWhatIsKept
      <4> QED
        BY <1>4, <1>5, <4>1
    <3>2. CASE p \notin run.chosen
      BY <1>5, <2>1, <2>2, <3>2 DEF Restore
    <3> QED
      BY <3>1, <3>2
  <2>3. CASE FastForward
    <3>1. CASE c \notin work'[p]
      <4>1. ~ahead /\ p \notin Dirty
        BY <1>5, <2>3, <3>1 DEF FastForward
      <4>2. c \in base.tree[p]
        BY <1>5, <4>1 DEF Dirty, IInv, OnlyGrows
      <4> QED
        BY <1>3, <4>2
    <3> QED
      BY <2>1, <3>1
  <2>4. ASSUME NEW q \in Paths, Capture(q) \/ LocalCommit(q) PROVE c \in work'[p]
    BY <1>1, <1>5, <2>4 DEF Capture, LocalCommit, Trees
  <2>5. UNCHANGED vault => c \in work'[p]
    BY <1>5 DEF vault
  <2> QED
    BY <2>1, <2>2, <2>3, <2>4, <2>5, VaultSteps
<1> QED
  BY <1>3, <1>4, <1>5 DEF Kept

\* As long as the person does not write in a file while sync brings it back,
\* every line ever written is in the working tree, at HEAD, on the default
\* branch, or in a commit a proposed ref keeps.
THEOREM NothingIsLost ==
  ASSUME "answers" \notin Gh, ~Hasty
  PROVE  Spec => []NoCaptureLost
<1> DEFINE AllKept == \A c \in 1 .. budget.captures : Kept(c)
<1>1. Init => AllKept
  BY DEF Init
<1>2. IInv /\ AllKept /\ [Next]_vars => AllKept'
  <2> SUFFICES ASSUME IInv, AllKept, [Next]_vars, NEW c \in 1 .. budget'.captures PROVE Kept(c)'
    BY DEF Kept
  <2>1. /\ budget.captures \in Nat /\ work \in Trees /\ base.tree \in Trees
        /\ budget \in [captures : Nat, others : Nat, local : Nat, crashes : Nat]
    BY DEF IInv, TypeOK, VaultTyped, ForgeTyped, Tips
  <2>2. CASE c \in 1 .. budget.captures
    BY <2>2, KeptStays
  <2>3. ASSUME NEW p \in Paths, Capture(p) PROVE Kept(c)'
    <3>1. c \in 1 .. budget.captures \/ c \in work'[p]
      BY <2>1, <2>3 DEF Capture, OneMore, Fresh, Trees
    <3> QED
      BY <2>2, <3>1 DEF Kept
  <2>4. ASSUME NEW p \in Paths, LandElsewhere(p) PROVE Kept(c)'
    <3>1. c \in 1 .. budget.captures \/ c = Fresh
      BY <2>1, <2>4 DEF LandElsewhere, OneMore, Fresh
    <3>2. base'.tree = [base.tree EXCEPT ![p] = @ \cup {Fresh}]
      BY <2>4, <2>1 DEF LandElsewhere, IInv, TypeOK, ForgeTyped, Tips
    <3> QED
      BY <2>1, <2>2, <3>1, <3>2 DEF Kept, Trees
  <2>5. budget'.captures = budget.captures \/ \E p \in Paths : Capture(p) \/ LandElsewhere(p)
    BY <2>1 DEF Next, ProposeStep, SyncStep, OthersStep, CheckEarlier, Choose, FetchBase, Build, GiveUp, Push, Prove,
         Announce, Pin, TakeGuard, AppendEntry, ReleaseGuard, Replace, Finish, StartSync, Restore, Prune, FetchTip,
         Postpone, DropRefs, FastForward, Crash, LocalCommit, Merge, Close, LandPart,
         MoveBranch, DeleteBranch, OneMoreOther, vars
  <2> QED
    BY <2>2, <2>3, <2>4, <2>5
<1>3. IInv /\ AllKept => NoCaptureLost
  BY KeptIsReachable
<1> HIDE DEF AllKept
<1> QED
  BY <1>1, <1>2, <1>3, BooksInvariant, PTL DEF Spec
=============================================================================
