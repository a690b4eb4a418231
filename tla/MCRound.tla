------------------------------ MODULE MCRound ------------------------------
(***************************************************************************)
(* Two instances: one round over two notes, whose model writes twice; and  *)
(* the nightly round beside one of the person's, with two proposes of one  *)
(* model at once.  The variables of the one a behaviour is not of keep     *)
(* still; only the first is asked to end.                                  *)
(***************************************************************************)
EXTENDS Round

CONSTANTS Parts, Nightly, Manual, First, Second

VARIABLES part, lock2, at2, end2, interrupted2, model2, child2, record2, spoiled2, guard2, kept2,
          taken2, matching2, tree2, pushed2, incidents2, seen2, budget2, written2

ofBeside == <<lock2, at2, end2, interrupted2, model2, child2, record2, spoiled2, guard2, kept2,
              taken2, matching2, tree2, pushed2, incidents2, seen2, budget2, written2>>

Beside == INSTANCE Round WITH
  Rounds <- {Nightly, Manual}, Children <- {First, Second}, Paths <- {"note"}, MaxTexts <- 1, MaxPushes <- 2, MaxDeaths <- 1, Timed <- FALSE,
  lock <- lock2, at <- at2, end <- end2, interrupted <- interrupted2, model <- model2, child <- child2,
  record <- record2, spoiled <- spoiled2, guard <- guard2, kept <- kept2, taken <- taken2, matching <- matching2,
  tree <- tree2, pushed <- pushed2, incidents <- incidents2, seen <- seen2, budget <- budget2, written <- written2

EachInit == part \in Parts /\ Init /\ Beside!Init

EachNext ==
  \/ part = "alone" /\ Next /\ UNCHANGED <<part, ofBeside>>
  \/ part = "beside" /\ Beside!Next /\ UNCHANGED <<part, vars>>

EachSpec == EachInit /\ [][EachNext]_<<part, vars, ofBeside>> /\ Fairness

\* Beside another round, and with two proposes at once, no entry of a record is
\* lost unread, and the prune of incidents.jsonl loses no line of a round that
\* held the lock.
NothingIsLostBeside ==
  [][part = "beside" =>
     /\ \A r \in {Nightly, Manual} : \A i \in DOMAIN record2[r] :
          \/ \E j \in DOMAIN record2'[r] : record2'[r][j] = record2[r][i]
          \/ \E j \in DOMAIN taken2[r] : taken2[r][j] = record2[r][i]
          \/ spoiled2'[r] \/ end2[r].reason = "internal_error"
     /\ \A line \in incidents2 \ incidents2' : line = Old \/ ~line.locked]_ofBeside
=============================================================================
