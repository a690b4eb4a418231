----------------------------- MODULE Proposals -----------------------------
(***************************************************************************)
(* How work leaves the vault and how the vault catches up with it: propose *)
(* outside a round (src/commands/propose.mjs), sync                        *)
(* (src/commands/sync.mjs), and what the two share, the ledger of proposed *)
(* paths with a local ref per branch (src/guards/proposed.mjs).  The vault *)
(* lock lets one of them run at a time, here variable run; the person who  *)
(* writes, the owner on the forge and others with a push right take no     *)
(* lock and step in between any two steps.                                 *)
(*                                                                         *)
(* What a file holds is the set of captures, lines of text, written into   *)
(* it: a tree is a set of captures per path, a commit a tree on top of     *)
(* another, and a merge joins what both sides added.                       *)
(***************************************************************************)
EXTENDS Integers, Sequences

CONSTANTS Paths,
          Urls,         \* the push urls of the remote
          Forge,        \* the one gh asks about
          MaxBranches,  \* bound: branches propose may name
          MaxCommits,   \* bound: commits propose makes
          MaxCaptures,  \* bound: captures written
          MaxOthers,    \* bound: what others do on the remote
          MaxLocal,     \* bound: commits the person makes by hand
          MaxCrashes,   \* bound: runs that die
          Gh,           \* what gh may do when asked for an open pull request
          Hasty         \* whether the person writes while sync brings files back

Branches == 1 .. MaxBranches
Other == -1             \* a commit someone else put on a branch
Empty == [p \in Paths |-> {}]

ASSUME UrlsAssumption == Forge \in Urls
ASSUME GhAssumption == Gh \subseteq {"answers", "silent"}
ASSUME BoundsAssumption ==
  /\ MaxBranches \in Nat /\ MaxCommits \in Nat /\ MaxCaptures \in Nat
  /\ MaxOthers \in Nat /\ MaxLocal \in Nat /\ MaxCrashes \in Nat /\ Hasty \in BOOLEAN

VARIABLES
  work,     \* the working tree
  head,     \* what HEAD, the default branch here, holds
  ahead,    \* whether it has a commit the remote does not
  base,     \* the default branch of the remote: its tree, our commits in it
  commits,  \* the commits propose made
  remote,   \* what each url holds under each branch: a commit, Other, or 0
  pr,       \* each branch's pull request
  refs,     \* refs/brain-kit/proposed/*: the commit each keeps, or 0
  ledger,   \* brain-kit-proposed.json
  pending,  \* the branches with a record in brain-kit-proposals
  guard,    \* whether the ledger's guard file is there
  run,      \* the command that holds the vault lock
  budget    \* bounds used

vault == <<work, head, ahead>>
forge == <<base, remote, pr>>
books == <<refs, ledger, pending, guard>>
vars == <<vault, forge, commits, books, run, budget>>

Idle == [at |-> "idle", chosen |-> {}, paths |-> {}, old |-> 0, commit |-> 0,
         urls |-> {}, opened |-> FALSE, tip |-> [tree |-> Empty, merged |-> {}]]

Init ==
  /\ work = Empty /\ head = Empty /\ ahead = FALSE
  /\ base = [tree |-> Empty, merged |-> {}]
  /\ commits = <<>>
  /\ remote = [b \in Branches |-> [u \in Urls |-> 0]]
  /\ pr = [b \in Branches |-> "none"]
  /\ refs = [b \in Branches |-> 0]
  /\ ledger = {} /\ pending = {} /\ guard = FALSE
  /\ run = Idle
  /\ budget = [captures |-> 0, others |-> 0, local |-> 0, crashes |-> 0]

Dirty == {p \in Paths : work[p] # head[p]}
At(stage) == run.at = stage
Go(stage) == run' = [run EXCEPT !.at = stage]

-----------------------------------------------------------------------------
(* The comparison every command makes. *)

\* Only an entry whose ref still points at its commit counts as proposed.
IsPinned(e) == refs[e.branch] = e.commit
Pinned == {e \in ledger : IsPinned(e)}

\* The last entry to name the path, if any does: commits are numbered in the
\* order their entries are appended.
Latest(p) == {e \in Pinned : p \in e.paths /\ \A f \in Pinned : p \in f.paths => f.commit <= e.commit}

\* Mutant: any path an entry names counts as proposed.
MatchingByName == {p \in Dirty : Latest(p) # {}}

\* The dirty paths whose bytes are still exactly what the latest proposal of
\* them pushed.
Matching == {p \in Dirty : \E e \in Latest(p) : commits[e.commit].tree[p] = work[p]}

\* The ledger without some of its entries, and unchanged where its guard is held.
Without(drop) == IF guard THEN ledger ELSE ledger \ drop

-----------------------------------------------------------------------------
(* propose, up to its push. *)

\* checkEarlierProposals: gh confirms some of the recorded branches.
CheckEarlier ==
  /\ At("idle")
  /\ \E confirmed \in (SUBSET {b \in pending : pr[b] # "none"}) \ {{}} : pending' = pending \ confirmed
  /\ UNCHANGED <<vault, forge, commits, refs, ledger, guard, run, budget>>

\* The branches, their entries pinned, the chosen paths are already in.
Carrying(chosen) == {e.branch : e \in UNION {Latest(p) : p \in chosen}}
Answered(open) == (IF "answers" \in Gh THEN {open} ELSE {}) \cup (IF "silent" \in Gh THEN {{}} ELSE {})

\* The run of these paths, on the pull request and the commit they are added to.
Proposing(chosen, open, old) ==
  [Idle EXCEPT !.at = "fetch", !.chosen = chosen, !.old = old,
     !.paths = chosen \cup UNION {e.paths : e \in {f \in Pinned : f.branch \in open}}]

\* Some dirty paths, none of them proposed already; an open pull request they
\* are in is added to, two are refused.
Choose ==
  /\ At("idle")
  /\ \E chosen \in (SUBSET Dirty) \ {{}} :
       /\ chosen \cap Matching = {}
       /\ \E open \in Answered({b \in Carrying(chosen) : pr[b] = "open"}) :
            /\ \A b, c \in open : b = c
            /\ \E old \in IF open = {} THEN {0} ELSE {refs[b] : b \in open} :
                 run' = Proposing(chosen, open, old)
  /\ UNCHANGED <<vault, forge, commits, books, budget>>

\* sameAtHeadAndTip: the change was made on what the base holds.
MadeOn(tip) == \A p \in run.chosen : head[p] = tip[p]

\* The base fetched and proved, and an open branch where this vault left it.
FetchBase ==
  /\ At("fetch")
  /\ MadeOn(base.tree)
  /\ run.old # 0 => \A u \in Urls : remote[commits[run.old].branch][u] = run.old
  /\ run' = [run EXCEPT !.at = "build", !.tip = base]
  /\ UNCHANGED <<vault, forge, commits, books, budget>>

\* freeBranch: names carry the time, so one is never given twice; the first
\* nobody holds on any url.
FreeBranches ==
  {b \in Branches : (\A u \in Urls : remote[b][u] = 0) /\ \A k \in DOMAIN commits : commits[k].branch # b}
FreeBranch == {b \in FreeBranches : \A c \in FreeBranches : b <= c}

\* A commit and those it was added to.
History(k) == IF k = 0 THEN {} ELSE {k} \cup commits[k].before

\* buildTree, gate and commitTree: the tip plus exactly the chosen paths.
Build ==
  /\ At("build") /\ Len(commits) < MaxCommits
  /\ LET onto == IF run.old = 0 THEN run.tip.tree ELSE commits[run.old].tree
         tree == [p \in Paths |-> IF p \in run.chosen THEN work[p] ELSE onto[p]]
     IN /\ \A p \in run.chosen : tree[p] # onto[p]
        /\ \E branch \in IF run.old = 0 THEN FreeBranch ELSE {commits[run.old].branch} :
             commits' = Append(commits, [branch |-> branch, parent |-> run.old, before |-> History(run.old),
                                         onto |-> onto, tree |-> tree])
  /\ run' = [run EXCEPT !.at = "push", !.commit = Len(commits) + 1, !.urls = Urls]
  /\ UNCHANGED <<vault, forge, books, budget>>

\* A refusal, a gate that fails or a failure before anything is published.
GiveUp ==
  /\ run.at \in {"fetch", "build"}
  /\ run' = Idle
  /\ UNCHANGED <<vault, forge, commits, books, budget>>

Branch == commits[run.commit].branch

-----------------------------------------------------------------------------
(* propose, from its push to its records. *)

\* Mutant: a push with no lease.
LeaseForced(u) == TRUE

\* The lease: the branch absent, or at the commit the ledger recorded.
Lease(u) == remote[Branch][u] = run.old

\* One url after another; a push may fail for any reason.
Push(u) ==
  /\ At("push") /\ u \in run.urls
  /\ \/ Lease(u) /\ remote' = [remote EXCEPT ![Branch][u] = run.commit]
     \/ UNCHANGED remote
  /\ run' = [run EXCEPT !.urls = @ \ {u}]
  /\ UNCHANGED <<vault, base, pr, commits, books, budget>>

Held(quiet) == {u \in Urls \ quiet : remote[Branch][u] = run.commit}

\* Mutant: the record is written once gh has confirmed nothing.
RecordLate(branches) == UNCHANGED pending

Record(branches) == pending' = pending \cup branches

\* A new proposal is recorded only where a url was seen to hold it.
Proved(held, quiet) == held # {}

\* Each url is asked what it holds, and some may not answer.  An addition is
\* recorded unless every url denies it.
Prove ==
  /\ At("push") /\ run.urls = {}
  /\ \E quiet \in SUBSET Urls :
       LET held == Held(quiet)
       IN \/ /\ held = {} /\ quiet = {}
             /\ run' = Idle /\ UNCHANGED pending
          \/ /\ held # {} \/ quiet # {}
             /\ run.old = 0
             /\ Record({Branch})
             /\ run' = IF ~Proved(held, quiet) THEN Idle
                       ELSE [run EXCEPT !.at = IF held = Urls THEN "announce" ELSE "pin", !.urls = held]
          \/ /\ held # {} \/ quiet # {}
             /\ run.old # 0
             /\ run' = [run EXCEPT !.at = "pin", !.urls = held, !.opened = TRUE]
             /\ UNCHANGED pending
  /\ UNCHANGED <<vault, forge, commits, refs, ledger, guard, budget>>

\* gh pr create, then gh pr view: it may fail, or open and not confirm.
Announce ==
  /\ At("announce")
  /\ \E created, confirmed \in BOOLEAN :
       /\ confirmed => created
       /\ pr' = IF created THEN [pr EXCEPT ![Branch] = "open"] ELSE pr
       /\ run' = [run EXCEPT !.at = "pin", !.opened = confirmed]
  /\ UNCHANGED <<vault, base, remote, commits, books, budget>>

\* Mutant: the entry goes out before the ref that keeps its bytes.
PinLater == UNCHANGED refs

\* pinEntry or moveEntryPin: the ref from what it held to the new commit.
PinNow == refs' = [refs EXCEPT ![Branch] = run.commit]

Pin ==
  /\ At("pin")
  /\ \/ refs[Branch] = run.old /\ PinNow /\ Go("guard")
     \/ Go("finish") /\ UNCHANGED refs
  /\ UNCHANGED <<vault, forge, commits, ledger, pending, guard, budget>>

\* takeRecordGuard: created exclusively, or EBUSY once the wait is over.
TakeGuard ==
  /\ At("guard")
  /\ IF guard THEN Go("finish") /\ UNCHANGED guard ELSE Go("append") /\ guard' = TRUE
  /\ UNCHANGED <<vault, forge, commits, refs, ledger, pending, budget>>

Entry == [branch |-> Branch, commit |-> run.commit, opened |-> run.opened, paths |-> run.paths]

AppendEntry ==
  /\ At("append")
  /\ ledger' = ledger \cup {Entry}
  /\ Go("release")
  /\ UNCHANGED <<vault, forge, commits, refs, pending, guard, budget>>

ReleaseGuard ==
  /\ At("release")
  /\ guard' = FALSE
  /\ Go(IF run.old = 0 THEN "finish" ELSE "replace")
  /\ UNCHANGED <<vault, forge, commits, refs, ledger, pending, budget>>

\* recordUpdate's prune: the entry of the commit this one was added to.
Replace ==
  /\ At("replace")
  /\ ledger' = Without({e \in ledger : e.branch = Branch /\ e.commit = run.old})
  /\ Go("finish")
  /\ UNCHANGED <<vault, forge, commits, refs, pending, guard, budget>>

\* The body and the record of a confirmed pull request are removed last.
Finish ==
  /\ At("finish")
  /\ pending' = IF run.opened THEN pending \ {Branch} ELSE pending
  /\ run' = Idle
  /\ UNCHANGED <<vault, forge, commits, refs, ledger, guard, budget>>

-----------------------------------------------------------------------------
(* sync. *)

\* restoreProposed looks before it restores.
StartSync ==
  /\ At("idle")
  /\ run' = [Idle EXCEPT !.at = "restore", !.chosen = Matching]
  /\ UNCHANGED <<vault, forge, commits, books, budget>>

\* restoreMatching: what it saw match is brought back to HEAD.
Restore ==
  /\ At("restore")
  /\ work' = [p \in Paths |-> IF p \in run.chosen THEN head[p] ELSE work[p]]
  /\ Go("prune")
  /\ UNCHANGED <<head, ahead, forge, commits, books, budget>>

Spent(e) == ~IsPinned(e) \/ e.paths \cap Dirty = {}

Prune ==
  /\ At("prune")
  /\ ledger' = Without({e \in ledger : Spent(e)})
  /\ Go("sync")
  /\ UNCHANGED <<vault, forge, commits, refs, pending, guard, budget>>

\* A clean tree, then the fetch.
FetchTip ==
  /\ At("sync") /\ Dirty = {}
  /\ run' = [run EXCEPT !.at = "drop", !.tip = base]
  /\ UNCHANGED <<vault, forge, commits, books, budget>>

\* A dirty tree postpones, and a fetch may fail.
Postpone ==
  /\ At("sync")
  /\ run' = Idle
  /\ UNCHANGED <<vault, forge, commits, books, budget>>

\* Mutant: a ref goes as soon as one of its paths is on the tip.
MergedAnyPath(k, tip) ==
  k \in tip.merged \/ \E p \in Paths : commits[k].tree[p] # commits[k].onto[p] /\ commits[k].tree[p] = tip.tree[p]

\* mergedInto: an ancestor of the tip, or every path the commit changed
\* against its parent is the same there.
MergedInto(k, tip) ==
  k \in tip.merged \/ \A p \in Paths : commits[k].tree[p] # commits[k].onto[p] => commits[k].tree[p] = tip.tree[p]

DropRefs ==
  /\ At("drop")
  /\ refs' = [b \in Branches |-> IF refs[b] # 0 /\ MergedInto(refs[b], run.tip) THEN 0 ELSE refs[b]]
  /\ Go("forward")
  /\ UNCHANGED <<vault, forge, commits, ledger, pending, guard, budget>>

\* git merge --ff-only: never over a local commit, nor over a file changed since.
FastForward ==
  /\ At("forward")
  /\ IF ~ahead /\ \A p \in Dirty : head[p] = run.tip.tree[p]
     THEN /\ head' = run.tip.tree
          /\ work' = [p \in Paths |-> IF p \in Dirty THEN work[p] ELSE run.tip.tree[p]]
     ELSE UNCHANGED <<head, work>>
  /\ run' = Idle
  /\ UNCHANGED <<ahead, forge, commits, books, budget>>

\* Killed anywhere: the lock is reclaimed, the guard it held stays.
Crash ==
  /\ ~At("idle") /\ budget.crashes < MaxCrashes
  /\ run' = Idle
  /\ budget' = [budget EXCEPT !.crashes = @ + 1]
  /\ UNCHANGED <<vault, forge, commits, books>>

-----------------------------------------------------------------------------
(* Everyone who takes no lock. *)

Fresh == budget.captures + 1
OneMore == budget.captures < MaxCaptures /\ budget' = [budget EXCEPT !.captures = @ + 1]

\* The person, or the model in the person's session, writes a line.
Capture(p) ==
  /\ run.at \in {"restore", "prune"} => Hasty
  /\ OneMore
  /\ work' = [work EXCEPT ![p] = @ \cup {Fresh}]
  /\ UNCHANGED <<head, ahead, forge, commits, books, run>>

\* The person commits a file by hand and does not publish it.
LocalCommit(p) ==
  /\ budget.local < MaxLocal /\ p \in Dirty
  /\ head' = [head EXCEPT ![p] = work[p]] /\ ahead' = TRUE
  /\ budget' = [budget EXCEPT !.local = @ + 1]
  /\ UNCHANGED <<work, forge, commits, books, run>>

Tip(b) == remote[b][Forge]

\* The owner merges what the branch holds, as a merge commit or squashed.
Merge(b, squash) ==
  /\ pr[b] = "open" /\ Tip(b) \notin {0, Other}
  /\ pr' = [pr EXCEPT ![b] = "merged"]
  /\ base' = [tree   |-> [p \in Paths |-> base.tree[p] \cup commits[Tip(b)].tree[p]],
              merged |-> IF squash THEN base.merged ELSE base.merged \cup History(Tip(b))]
  /\ UNCHANGED <<vault, remote, commits, books, run, budget>>

Close(b) ==
  /\ pr[b] = "open"
  /\ pr' = [pr EXCEPT ![b] = "closed"]
  /\ UNCHANGED <<vault, base, remote, commits, books, run, budget>>

OneMoreOther == budget.others < MaxOthers /\ budget' = [budget EXCEPT !.others = @ + 1]

\* One file of a branch reaches the default branch on its own.
LandPart(b, p) ==
  /\ Tip(b) \notin {0, Other} /\ OneMoreOther
  /\ base' = [base EXCEPT !.tree[p] = @ \cup commits[Tip(b)].tree[p]]
  /\ UNCHANGED <<vault, remote, pr, commits, books, run>>

\* Another machine's line reaches the default branch.
LandElsewhere(p) ==
  /\ OneMore
  /\ base' = [base EXCEPT !.tree[p] = @ \cup {Fresh}]
  /\ UNCHANGED <<vault, remote, pr, commits, books, run>>

\* Someone pushes to a branch, an unused name included, or deletes a done one.
MoveBranch(b, u) ==
  /\ OneMoreOther /\ remote[b][u] # Other
  /\ remote' = [remote EXCEPT ![b][u] = Other]
  /\ UNCHANGED <<vault, base, pr, commits, books, run>>

DeleteBranch(b) ==
  /\ pr[b] \in {"merged", "closed"} /\ \E u \in Urls : remote[b][u] # 0
  /\ remote' = [remote EXCEPT ![b] = [u \in Urls |-> 0]]
  /\ UNCHANGED <<vault, base, pr, commits, books, run, budget>>

-----------------------------------------------------------------------------
ProposeStep ==
  \/ CheckEarlier \/ Choose \/ FetchBase \/ Build \/ GiveUp \/ (\E u \in Urls : Push(u)) \/ Prove
  \/ Announce \/ Pin \/ TakeGuard \/ AppendEntry \/ ReleaseGuard \/ Replace \/ Finish

SyncStep ==
  StartSync \/ Restore \/ Prune \/ FetchTip \/ Postpone \/ DropRefs \/ FastForward

OthersStep ==
  \/ \E p \in Paths : Capture(p) \/ LocalCommit(p) \/ LandElsewhere(p)
  \/ \E b \in Branches :
       \/ Merge(b, TRUE) \/ Merge(b, FALSE) \/ Close(b) \/ DeleteBranch(b)
       \/ \E p \in Paths : LandPart(b, p)
       \/ \E u \in Urls : MoveBranch(b, u)

Next == ProposeStep \/ SyncStep \/ Crash \/ OthersStep

Spec == Init /\ [][Next]_vars

-----------------------------------------------------------------------------
(* Properties. *)

Stages == {"idle", "fetch", "build", "push", "announce", "pin", "guard", "append", "release",
           "replace", "finish", "restore", "prune", "sync", "drop", "forward"}
Texts == SUBSET Nat
Trees == [Paths -> Texts]
Tips == [tree : Trees, merged : SUBSET Nat]
Commits == [branch : Branches, parent : Nat, before : SUBSET Nat, onto : Trees, tree : Trees]
Entries == [branch : Branches, commit : Nat, opened : BOOLEAN, paths : SUBSET Paths]
Runs == [at : Stages, chosen : SUBSET Paths, paths : SUBSET Paths, old : Nat, commit : Nat,
         urls : SUBSET Urls, opened : BOOLEAN, tip : Tips]

VaultTyped == work \in Trees /\ head \in Trees /\ ahead \in BOOLEAN
ForgeTyped ==
  /\ base \in Tips /\ pr \in [Branches -> {"none", "open", "merged", "closed"}]
  /\ remote \in [Branches -> [Urls -> {Other} \cup 0 .. Len(commits)]]
BooksTyped ==
  /\ refs \in [Branches -> 0 .. Len(commits)] /\ ledger \subseteq Entries
  /\ pending \subseteq Branches /\ guard \in BOOLEAN

TypeOK ==
  /\ VaultTyped /\ commits \in Seq(Commits) /\ ForgeTyped /\ BooksTyped
  /\ run \in Runs /\ budget \in [captures : Nat, others : Nat, local : Nat, crashes : Nat]

\* The books agree with the commits they name.
BooksAgree ==
  /\ \A b \in Branches : refs[b] # 0 => commits[refs[b]].branch = b
  /\ \A e \in ledger : e.commit \in DOMAIN commits /\ commits[e.commit].branch = e.branch

AfterBuild == {"push", "announce", "pin", "guard", "append", "release", "replace", "finish"}

\* A running propose builds on the commit its branch holds, has its record in
\* place before gh is called, and its ref before its entry.
RunAgrees ==
  /\ run.old # 0 => run.old \in DOMAIN commits /\ pr[commits[run.old].branch] # "none"
  /\ run.at \in AfterBuild =>
       /\ run.commit \in DOMAIN commits /\ commits[run.commit].parent = run.old
       /\ run.old # 0 => Branch = commits[run.old].branch
  /\ At("announce") => Branch \in pending
  /\ run.opened => run.at \in AfterBuild /\ pr[Branch] # "none"
  /\ run.at \in {"guard", "append"} => IsPinned(Entry)

\* Whoever writes only adds, so HEAD lies within the working tree; HEAD without
\* a local commit, and the tip a run fetched, lie within the default branch; and
\* what propose is about to build lies on what it was made on.
OnlyGrows ==
  /\ run.tip.merged \subseteq base.merged
  /\ \A p \in Paths :
       /\ head[p] \subseteq work[p] /\ run.tip.tree[p] \subseteq base.tree[p]
       /\ ~ahead => head[p] \subseteq base.tree[p]
       /\ At("build") /\ p \in run.chosen => run.tip.tree[p] \subseteq work[p]

\* What sync is about to restore is what a ref keeps, if nobody writes meanwhile.
RestoresWhatIsKept ==
  At("restore") /\ ~Hasty =>
    \A p \in run.chosen : \E b \in Branches : refs[b] # 0 /\ commits[refs[b]].tree[p] = work[p]

\* Without additions every commit is on the default branch, adds to it, and
\* leaves its whole tree there once it is merged.
EachOnTheBase ==
  "answers" \notin Gh =>
    /\ run.old = 0 /\ base.merged \subseteq DOMAIN commits
    /\ \A k \in DOMAIN commits :
         /\ commits[k].parent = 0 /\ commits[k].before = {}
         /\ \A p \in Paths :
              /\ commits[k].onto[p] \subseteq base.tree[p] /\ commits[k].onto[p] \subseteq commits[k].tree[p]
              /\ k \in base.merged => commits[k].tree[p] \subseteq base.tree[p]

IInv == TypeOK /\ BooksAgree /\ RunAgrees /\ OnlyGrows /\ RestoresWhatIsKept /\ EachOnTheBase

Reachable(tree) == UNION {tree[p] : p \in Paths}

\* Every line written is still somewhere on this machine or on the default
\* branch: in the working tree, at HEAD, in a commit a proposed ref keeps.
NoCaptureLost ==
  \A c \in 1 .. budget.captures :
    \/ c \in Reachable(work) \cup Reachable(head) \cup Reachable(base.tree)
    \/ \E b \in Branches : \E k \in History(refs[b]) : c \in Reachable(commits[k].tree)

\* No commit of ours takes away a line of what it was built on, the default
\* branch or the branch it is added to, although the person only ever added.
NothingReverted ==
  \A k \in DOMAIN commits : \A p \in Paths : commits[k].onto[p] \subseteq commits[k].tree[p]

\* A push only ever puts a commit where its parent was: it never replaces what
\* someone else put on a branch, and never a branch of the same name.
OnlyOnItsParent ==
  [][\A b \in Branches, u \in Urls :
       remote'[b][u] # remote[b][u] /\ remote'[b][u] \in DOMAIN commits =>
         remote[b][u] = commits[remote'[b][u]].parent]_vars

\* A pull request is created with its record in place, and the record goes only
\* once gh has seen a pull request: a run killed in between is reported.
NoneForgotten ==
  [][\A b \in Branches :
       /\ pr[b] = "none" /\ pr'[b] # "none" => b \in pending
       /\ b \in pending /\ b \notin pending' => pr[b] # "none"]_vars

\* No entry is written without the ref that keeps its bytes (recordLedger and
\* recordUpdate pin first).
EntriesArePinned ==
  [][\A e \in ledger' \ ledger : IsPinned(e)]_vars

\* A ref is removed only once everything its commits added is on the default
\* branch.
DropsOnlyLanded ==
  [][\A b \in Branches : refs[b] # 0 /\ refs'[b] = 0 =>
       \A k \in History(refs[b]), p \in Paths :
         commits[k].tree[p] \ commits[k].onto[p] \subseteq base.tree[p]]_vars
=============================================================================
