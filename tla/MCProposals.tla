---------------------------- MODULE MCProposals ----------------------------
(***************************************************************************)
(* Two instances: two paths and two branches on one push url, with a gh    *)
(* that says nothing; and one path and one branch on two push urls, with   *)
(* pull requests that are added to, a commit by hand and a run that dies.  *)
(* The variables of the one a behaviour is not of keep still.              *)
(***************************************************************************)
EXTENDS Proposals

CONSTANTS Parts, Log, Note, Mirror

VARIABLES part, work2, head2, ahead2, base2, commits2, remote2, pr2, refs2, ledger2, pending2, guard2, run2, budget2

ofDying == <<work2, head2, ahead2, base2, commits2, remote2, pr2, refs2, ledger2, pending2, guard2, run2, budget2>>

Dying == INSTANCE Proposals WITH
  Paths <- {Log}, Urls <- Urls \cup {Mirror}, MaxBranches <- 1, MaxCommits <- 3, MaxCaptures <- 2, MaxOthers <- 1,
  MaxLocal <- 1, MaxCrashes <- 1, Gh <- {"answers", "silent"},
  work <- work2, head <- head2, ahead <- ahead2, base <- base2, commits <- commits2, remote <- remote2, pr <- pr2,
  refs <- refs2, ledger <- ledger2, pending <- pending2, guard <- guard2, run <- run2, budget <- budget2

EachInit == part \in Parts /\ Init /\ Dying!Init

EachNext ==
  \/ part = "living" /\ Next /\ UNCHANGED <<part, ofDying>>
  \/ part = "dying" /\ Dying!Next /\ UNCHANGED <<part, vars>>

EachSpec == EachInit /\ [][EachNext]_<<part, vars, ofDying>>

\* Wherever a run dies, and whichever of two urls is silent, a push only puts
\* a commit where its parent was, a pull request is not created without its
\* record, and an entry not without the ref that keeps its bytes.
DyingLeavesARecord ==
  [][/\ \A b \in DOMAIN remote2 : \A u \in DOMAIN remote2[b] :
          remote2'[b][u] # remote2[b][u] /\ remote2'[b][u] \in DOMAIN commits2 =>
            remote2[b][u] = commits2[remote2'[b][u]].parent
     /\ \A b \in DOMAIN pr2 : pr2[b] = "none" /\ pr2'[b] # "none" => b \in pending2
     /\ \A e \in ledger2' \ ledger2 : Dying!IsPinned(e)]_ofDying
=============================================================================
