----------------------------- MODULE SweptDays -----------------------------
(***************************************************************************)
(* The marks of module Watermark with the history that they are to sum up: *)
(* which days of each source were really read, and from which day on they  *)
(* have to be.  A mark says of every day before it that it was; nothing in *)
(* the code keeps the days themselves.                                     *)
(***************************************************************************)
EXTENDS Watermark

VARIABLES
  swept,  \* the days read of each source, by a round whose evidence proved it, or answered for by the owner
  since   \* the first day its marks speak of, or Unset while it has none

history == <<swept, since>>

HistoryInit ==
  /\ Init
  /\ swept = [s \in Active |-> {}]
  /\ since = [s \in Active |-> IF mark[s] = Unset THEN Unset ELSE mark[s] + 1]

\* The days a round reads: those of its window, over on the day it took for
\* today, of a source its evidence proves read.
ReadNow(s) ==
  IF stage # "advancing" /\ stage' = "advancing" /\ s \in proven' THEN {d \in Days(win'[s]) : d < now} ELSE {}

\* The owner answers for the days a command passes; those it reopens are to be
\* read again.
OwnersWord(s) ==
  {d \in swept[s] : d <= mark'[s]} \cup IF mark[s] = Unset THEN {} ELSE mark[s] + 1 .. mark'[s]

ByOwner(s) == stage = "none" /\ mark'[s] # mark[s]

SinceNext(s) ==
  IF mark'[s] = mark[s] THEN since[s]
  ELSE IF since[s] = Unset THEN IF ByOwner(s) THEN mark'[s] + 1 ELSE win[s].first
  ELSE Smaller(since[s], mark'[s] + 1)

HistoryNext ==
  /\ Next
  /\ swept' = [s \in Active |-> IF ByOwner(s) THEN OwnersWord(s) ELSE swept[s] \cup ReadNow(s)]
  /\ since' = [s \in Active |-> SinceNext(s)]

HistorySpec == HistoryInit /\ [][HistoryNext]_<<vars, history>>
HistoryFairSpec == HistorySpec /\ Fairness

\* No day is ever closed unread, nor left out of what a round says remains:
\* every day from the first one a source's marks speak of to its mark was read
\* by a round that proved it, or answered for by the owner, and read again if
\* he reopened it since.
NoDayClosedUnread ==
  /\ \A s \in Active : mark[s] # Unset => since[s] .. mark[s] \subseteq swept[s]
  /\ RemainingIsRight

\* What keeps it: what a round is still to close was read.
HistoryTypes ==
  /\ swept \in [Active -> SUBSET Int] /\ since \in [Active -> Marks]
  /\ \A s \in Active : since[s] = Unset <=> mark[s] = Unset

ClosesFromSwept ==
  stage = "advancing" => \A s \in todo : Days(win[s]) \subseteq swept[s]

NoGap == \A s \in Active : mark[s] # Unset => since[s] <= mark[s] + 1

HistoryInv == HistoryTypes /\ NoGap /\ ClosesFromSwept /\ NoDayClosedUnread
=============================================================================
