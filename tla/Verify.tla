------------------------------- MODULE Verify -------------------------------
(***************************************************************************)
(* `brain-kit verify --pr`: the owner's confirmation of a merged pull      *)
(* request, written in every note it changed and committed, while the      *)
(* owner goes on writing in the same checkout.  A note's content is the    *)
(* text somebody wrote last and how many verifications it carries; the     *)
(* working tree and the tip of the default branch hold one content each.   *)
(***************************************************************************)
EXTENDS Naturals, FiniteSets

CONSTANTS Notes,
          MaxWrites,  \* bound: what the owner writes, commits and pulls
          MaxRuns     \* bound: runs of verify

VARIABLES tree, head, commits, branch, latest, pr, here, run, writes, runs

vars == <<tree, head, commits, branch, latest, pr, here, run, writes, runs>>
repository == <<head, commits, branch, pr, here>>

Idle == [at |-> "idle", plan |-> {}, original |-> <<>>, written |-> {}, start |-> 0, parent |-> 0,
         over |-> <<>>, exit |-> 0]

Dirty == {n \in Notes : tree[n] # head[n]}

\* The writer changes the one key: a verification more, the words as they were.
Stamped(content) == [content EXCEPT !.stamps = content.stamps + 1]

\* gh lists a pull request as merged, and not merely closed.
Merged == pr.state = "MERGED"

\* Fetched, the remote's default branch holds the merge, and so does this one.
MergeIsHere == here

Init ==
    /\ head = [n \in Notes |-> [text |-> 0, stamps |-> 0]]
    /\ tree = head
    /\ latest = [n \in Notes |-> 0]
    /\ commits = 0
    /\ branch = "default"
    /\ pr \in [state : {"OPEN", "MERGED"}, files : SUBSET Notes \ {{}}]
    /\ here = FALSE
    /\ run = Idle
    /\ writes = 0
    /\ runs = 0

-----------------------------------------------------------------------------
(* The run, under the vault's lock: one at a time.                         *)

\* Nothing is written before a step that ends here.
Fail == run' = [run EXCEPT !.at = "idle", !.exit = 1]

\* The half-done operation, the dirty tree, the branch and the identity.
Begin ==
    /\ run.at = "idle"
    /\ runs < MaxRuns
    /\ runs' = runs + 1
    /\ run' = IF Dirty # {} THEN [Idle EXCEPT !.exit = 75]
              ELSE IF branch # "default" THEN [Idle EXCEPT !.exit = 1]
              ELSE [Idle EXCEPT !.at = "asked"]
    /\ UNCHANGED <<tree, repository, latest, writes>>

\* gh's answer, the fetch and its proof: the merge is in the local default
\* branch, or nothing is stamped.  A listed file that is no note any more is
\* skipped by name; unreadable is for the gh, the fetch and the notes that fail.
Prove ==
    /\ run.at = "asked"
    /\ \/ /\ Merged
          /\ MergeIsHere
          /\ run' = [run EXCEPT !.at = "proved", !.plan = pr.files]
       \/ Fail
    /\ UNCHANGED <<tree, repository, latest, writes, runs>>

\* Every note is stamped in memory, or none is written.
Stamp ==
    /\ run.at = "proved"
    /\ \/ run' = [run EXCEPT !.at = "writing", !.original = [n \in run.plan |-> tree[n]], !.start = commits]
       \/ Fail
    /\ UNCHANGED <<tree, repository, latest, writes, runs>>

\* Mutant: a note is put back whatever it holds now.
RestoredBlindly ==
    [n \in Notes |-> IF n \in run.written THEN run.original[n] ELSE tree[n]]

\* A note that still holds the stamped bytes is put back as it was read.
Restored ==
    [n \in Notes |-> IF n \in run.written /\ tree[n] = Stamped(run.original[n])
                     THEN run.original[n] ELSE tree[n]]

\* Mutant: only a refused write puts the notes back, not a refused commit.
GiveUpHalf ==
    /\ tree' = IF run.at = "writing" /\ run.written # run.plan THEN Restored ELSE tree
    /\ Fail

GiveUp ==
    /\ tree' = Restored
    /\ Fail

\* A note is replaced if it still holds the bytes read.
Replaced(n) ==
    /\ tree[n] = run.original[n]
    /\ tree' = [tree EXCEPT ![n] = Stamped(run.original[n])]

Write(n) ==
    /\ run.at = "writing"
    /\ n \in run.plan \ run.written
    /\ \/ /\ Replaced(n)
          /\ run' = [run EXCEPT !.written = run.written \cup {n}]
       \/ GiveUp
    /\ UNCHANGED <<repository, latest, writes, runs>>

\* git takes the paths from the working tree as it finds them.
Commit ==
    /\ run.at = "writing"
    /\ run.written = run.plan
    /\ \/ /\ head' = [n \in Notes |-> IF n \in run.plan THEN tree[n] ELSE head[n]]
          /\ commits' = commits + 1
          /\ run' = [run EXCEPT !.at = "committed", !.parent = commits, !.over = head]
          /\ UNCHANGED tree
       \/ GiveUp /\ UNCHANGED <<head, commits>>
    /\ UNCHANGED <<branch, pr, here, latest, writes, runs>>

\* The commit is proved: one new commit on the default branch, over the one
\* the run began at, with a clean tree after it.
Proven ==
    /\ commits = run.parent + 1
    /\ run.parent = run.start
    /\ branch = "default"
    /\ Dirty = {}

End ==
    /\ run.at = "committed"
    /\ run' = [run EXCEPT !.at = "idle", !.exit = IF Proven THEN 0 ELSE 1]
    /\ UNCHANGED <<tree, repository, latest, writes, runs>>

\* The lock of a run that died is taken over; what it wrote stays.
Die ==
    /\ run.at # "idle"
    /\ run' = [run EXCEPT !.at = "idle", !.exit = 137]
    /\ UNCHANGED <<tree, repository, latest, writes, runs>>

-----------------------------------------------------------------------------
(* The owner, who takes no lock.                                           *)

Busy == writes < MaxWrites /\ writes' = writes + 1

Edit(n) ==
    /\ Busy
    /\ tree' = [tree EXCEPT ![n].text = writes + 1]
    /\ latest' = [latest EXCEPT ![n] = writes + 1]
    /\ UNCHANGED <<repository, run, runs>>

CommitAll ==
    /\ Busy
    /\ Dirty # {}
    /\ head' = tree
    /\ commits' = commits + 1
    /\ UNCHANGED <<tree, branch, pr, here, latest, run, runs>>

Merge ==
    /\ Busy
    /\ \/ pr.state = "OPEN" /\ pr' = [pr EXCEPT !.state = "MERGED"] /\ UNCHANGED <<here, branch>>
       \/ pr.state = "MERGED" /\ ~here /\ here' = TRUE /\ UNCHANGED <<pr, branch>>
       \/ branch' = (IF branch = "default" THEN "other" ELSE "default") /\ UNCHANGED <<pr, here>>
    /\ UNCHANGED <<tree, head, commits, latest, run, runs>>

Next ==
    \/ Begin \/ Prove \/ Stamp \/ Commit \/ End \/ Die
    \/ \E n \in Notes : Write(n)
    \/ \E n \in Notes : Edit(n)
    \/ CommitAll \/ Merge

Spec == Init /\ [][Next]_vars

-----------------------------------------------------------------------------

\* Whatever verify does, or fails to do, the words of a note are the last
\* the owner wrote in it: neither a stamp nor the undo of one takes back an
\* edit made meanwhile.
WordsAreKept == \A n \in Notes : tree[n].text = latest[n]

\* A run that says it failed before its commit leaves no stamp of its own in
\* the tree, but in a note the owner wrote in since (which it names).
FailedLeavesNoStamp ==
    (run.at = "idle" /\ run.exit = 1 /\ commits = run.start)
    => \A n \in run.written :
        tree[n].stamps > run.original[n].stamps => tree[n].text # run.original[n].text

\* What verify takes from the owner: no word, and no place for a stamp.
VerifyTakesNothing == WordsAreKept /\ FailedLeavesNoStamp

\* What a run that succeeds commits is its stamps: nothing nobody merged
\* goes in with the verification.
OnlyStampsAreCommitted ==
    [][(run.at = "committed" /\ run'.exit = 0 /\ run'.at = "idle")
       => \A n \in run.plan : head[n].text = run.over[n].text]_vars
=============================================================================
