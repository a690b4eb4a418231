-------------------------- MODULE WatermarkProofs --------------------------
(***************************************************************************)
(* What the marks promise for every set of sources, every window length    *)
(* and every interleaving of rounds, midnights, clocks and the owner: the  *)
(* inductive invariant IInv, the step properties that follow from it, and, *)
(* with the history of the days, that a mark tells the truth.              *)
(***************************************************************************)
EXTENDS SweptDays, TLAPS

WindowSet == [first : Int, last : Int]

\* The oldest open days end before today and begin right after the mark.
LEMMA OwnWindow ==
  ASSUME NEW m \in Marks, NEW t \in Int
  PROVE  /\ WindowFor(m, t) \in WindowSet
         /\ WindowFor(m, t).last < t
         /\ m = Unset \/ WindowFor(m, t).first = m + 1
  BY MaxDaysAssumption, UnsetAssumption DEF WindowFor, WindowSet, Effective, Smaller, Marks

\* The calendar's listing begins no later than either window and, where the
\* notes' days are kept to it, ends no earlier.
LEMMA ListingSpans ==
  ASSUME NEW c \in WindowSet, NEW n \in WindowSet, NEW t \in Int,
         c.last < t, n.last < t, HasDays(n)
  PROVE  /\ Listing(c, n) \in WindowSet
         /\ Listing(c, n).last < t
         /\ Listing(c, n).first <= n.first
         /\ Listing(c, n).first <= c.first \/ c.last < c.first
  BY MaxDaysAssumption DEF WindowSet, Listing, HasDays, Smaller, Larger

\* The windows of a round that starts: each ends before today and follows on
\* from its source's mark, and the calendar's spans the notes'.
LEMMA StartWindows ==
  ASSUME NEW marks \in [Active -> Marks], NEW t \in Int,
         \A s \in Active : ~IsFuture(marks[s], t)
  PROVE  LET w == SourceDays(marks, t)
         IN /\ w \in [Active -> WindowSet]
            /\ \A s \in Active : w[s].last < t /\ (marks[s] = Unset \/ w[s].first <= marks[s] + 1)
            /\ (Calendar \in Active /\ Notes \in Active /\ HasDays(w[Notes])) =>
                 w[Calendar].first <= w[Notes].first /\ w[Notes].last <= w[Calendar].last
<1> DEFINE own == [s \in Active |-> WindowFor(marks[s], t)]
           listing == Listing(own[Calendar], own[Notes])
           cut == [own EXCEPT ![Calendar] = listing, ![Notes] = CutAt(own[Notes], listing.last)]
           w == SourceDays(marks, t)
<1>1. DOMAIN marks = Active /\ DOMAIN own = Active
  OBVIOUS
<1>2. w = IF Relists(own) THEN cut ELSE own
  BY <1>1 DEF SourceDays
<1>3. /\ own \in [Active -> WindowSet]
      /\ \A s \in Active : own[s].last < t /\ (marks[s] = Unset \/ own[s].first = marks[s] + 1)
  BY OwnWindow
<1> HIDE DEF w
<1>4. CASE ~Relists(own)
  <2>1. w = own
    BY <1>2, <1>4
  <2>2. \A s \in Active : own[s].last < t /\ (marks[s] = Unset \/ own[s].first <= marks[s] + 1)
    BY <1>3, UnsetAssumption DEF Marks, WindowSet
  <2>3. Calendar \in Active /\ Notes \in Active => ~HasDays(own[Notes])
    BY <1>1, <1>4 DEF Relists
  <2> QED
    BY <2>1, <2>2, <2>3, <1>3 DEF w
<1>5. CASE Relists(own)
  <2>1. Calendar \in Active /\ Notes \in Active /\ HasDays(own[Notes])
    BY <1>1, <1>5 DEF Relists
  <2>2. own[Calendar] \in WindowSet /\ own[Notes] \in WindowSet
    BY <2>1, <1>3
  <2>3. /\ listing \in WindowSet /\ listing.last < t
        /\ listing.first <= own[Notes].first
        /\ listing.first <= own[Calendar].first \/ own[Calendar].last < own[Calendar].first
    BY <2>1, <2>2, <1>3, ListingSpans
  <2> HIDE DEF listing
  <2>4. w = cut
    BY <1>2, <1>5
  <2>5. w[Calendar] = listing
    BY <2>4, <2>1, <1>3, DoorAssumption
  <2>6. w[Notes] = CutAt(own[Notes], listing.last)
    BY <2>4, <2>1, <1>3, DoorAssumption
  <2>7. /\ w[Notes] \in WindowSet /\ w[Notes].first = own[Notes].first
        /\ w[Notes].last <= listing.last /\ w[Notes].last <= own[Notes].last
    BY <2>6, <2>2, <2>3 DEF WindowSet, CutAt, Smaller
  <2>8. \A s \in Active : s # Calendar /\ s # Notes => w[s] = own[s]
    BY <2>4, <1>3
  <2>9. w \in [Active -> WindowSet]
    <3>1. CutAt(own[Notes], listing.last) \in WindowSet
      BY <2>6, <2>7
    <3> QED
      BY <3>1, <2>3, <2>4, <1>3
  <2>10. ASSUME NEW s \in Active
         PROVE  w[s].last < t /\ (marks[s] = Unset \/ w[s].first <= marks[s] + 1)
    <3>1. CASE s # Calendar
      BY <3>1, <2>2, <2>7, <2>8, <1>3, UnsetAssumption DEF Marks, WindowSet
    <3>2. CASE s = Calendar
      <4>1. w[s].last < t
        BY <3>2, <2>3, <2>5
      <4>2. ASSUME marks[s] # Unset
            PROVE  w[s].first <= marks[s] + 1
        <5>1. own[s].first = marks[s] + 1 /\ marks[s] \in Int
          BY <4>2, <1>3 DEF Marks
        <5>2. own[s].last < own[s].first => own[s].first >= t
          <6>1. own[s] = WindowFor(marks[s], t)
            OBVIOUS
          <6>2. own[s].last = Smaller(t - 1, marks[s] + MaxDays)
            BY <6>1, <4>2 DEF WindowFor, Effective
          <6> QED
            BY <6>2, <5>1, MaxDaysAssumption DEF Smaller
        <5>3. own[Notes].first <= own[Notes].last
          BY <2>1 DEF HasDays
        <5> QED
          BY <5>1, <5>2, <5>3, <3>2, <2>2, <2>3, <2>5, <2>1, <1>3 DEF WindowSet
      <4> QED
        BY <4>1, <4>2
    <3> QED
      BY <3>1, <3>2
  <2>11. w[Calendar].first <= w[Notes].first /\ w[Notes].last <= w[Calendar].last
    BY <2>3, <2>5, <2>7
  <2> QED
    BY <2>9, <2>10, <2>11 DEF w
<1> QED
  BY <1>4, <1>5

-----------------------------------------------------------------------------
LEMMA InitInv == Init => IInv
<1> SUFFICES ASSUME Init PROVE IInv
  OBVIOUS
<1> USE DEF Init
<1>1. TypeOK
  <2>1. mark \in [Active -> Marks]
    BY BoundsAssumption DEF Marks
  <2> QED
    BY <2>1, BoundsAssumption DEF TypeOK, NoOwner, Stages, Codes, Answers, Kinds, Commands
<1>2. OneWriter
  BY DEF OneWriter
<1>3. EndedDays
  BY BoundsAssumption DEF EndedDays
<1>4. OldLooks
  BY BoundsAssumption DEF OldLooks, NoOwner
<1>5. RoundWindows /\ RoundProven /\ RoundClean
  BY DEF RoundWindows, RoundProven, RoundClean
<1> QED
  BY <1>1, <1>2, <1>3, <1>4, <1>5 DEF IInv

\* The end of a round: nothing is left of it but its answer.
LEMMA EndInv ==
  ASSUME IInv, NEW r \in Answers, NoRound(r), UNCHANGED <<today, mark, owner, budget>>
  PROVE  IInv'
<1> USE DEF NoRound, IInv
<1>1. TypeOK'
  BY BoundsAssumption DEF TypeOK, Stages, Codes, Kinds
<1>2. OneWriter' /\ EndedDays' /\ OldLooks'
  BY DEF OneWriter, EndedDays, OldLooks, TypeOK
<1>3. RoundWindows' /\ RoundProven' /\ RoundClean'
  BY DEF RoundWindows, RoundProven, RoundClean
<1> QED
  BY <1>1, <1>2, <1>3

\* A step that touches nothing of the round, nor a mark while one runs.
LEMMA OutsideInv ==
  ASSUME RoundWindows, RoundProven, RoundClean, UNCHANGED roundVars,
         stage = "none" \/ mark' = mark
  PROVE  RoundWindows' /\ RoundProven' /\ RoundClean'
<1> USE DEF roundVars
<1>1. RoundWindows'
  BY DEF RoundWindows, FollowsOn, Offered, HasDays
<1>2. RoundProven'
  BY DEF RoundProven, Offered, HasDays, DoorOpen, DoorReached
<1>3. RoundClean'
  BY DEF RoundClean, Offered, HasDays, Closed
<1> QED
  BY <1>1, <1>2, <1>3

LEMMA StartInv == IInv /\ Start => IInv'
<1> SUFFICES ASSUME IInv, Start PROVE IInv'
  OBVIOUS
<1> USE DEF IInv, Start
<1>1. mark \in [Active -> Marks] /\ today \in Int /\ \A s \in Active : ~IsFuture(mark[s], today)
  BY DEF TypeOK, AnyFuture
<1>2. SourceDays(mark, today) \in [Active -> WindowSet]
  BY <1>1, StartWindows
<1>3. win' = SourceDays(mark, today)
  BY <1>2 DEF AllDays
<1>4. remaining' \in [Active -> Int]
  <2> DEFINE own == [s \in Active |-> WindowFor(mark[s], today)]
             clipped == RemainingOwn(mark, today)
             listing == Listing(own[Calendar], own[Notes])
             first == Effective(mark[Calendar], today) + 1
             notes == clipped[Notes] + Count(Larger(own[Notes].first, listing.last + 1), own[Notes].last)
             cal == Count(Larger(first, listing.last + 1), today - 1)
  <2>1. DOMAIN mark = Active /\ own \in [Active -> WindowSet]
    BY <1>1, OwnWindow
  <2>2. clipped \in [Active -> Int]
    <3>1. \A s \in Active : WindowFor(mark[s], today).last \in Int
      BY <1>1, OwnWindow DEF WindowSet
    <3>2. \A s \in Active : Count(WindowFor(mark[s], today).last + 1, today - 1) \in Int
      BY <3>1, <1>1 DEF Count
    <3> QED
      BY <3>2, <2>1 DEF RemainingOwn
  <2> HIDE DEF clipped
  <2>3. CASE ~Relists(own)
    BY <2>1, <2>2, <2>3 DEF Remaining, clipped
  <2>4. CASE Relists(own)
    <3>1. Calendar \in Active /\ Notes \in Active /\ HasDays(own[Notes])
      BY <2>1, <2>4 DEF Relists
    <3>2. own[Calendar] \in WindowSet /\ own[Notes] \in WindowSet
      BY <3>1, <2>1
    <3>3. listing.last \in Int
      BY <3>2, MaxDaysAssumption DEF WindowSet, Listing, Smaller, Larger, HasDays
    <3>4. first \in Int
      BY <1>1, <3>1 DEF Effective, Marks
    <3> HIDE DEF listing, first, own
    <3>5. notes \in Int
      BY <3>2, <3>3, <2>2, <3>1 DEF WindowSet, Count, Larger
    <3>6. cal \in Int
      BY <3>3, <3>4, <1>1 DEF Count, Larger
    <3> HIDE DEF notes, cal
    <3>7. remaining' = [clipped EXCEPT ![Notes] = notes, ![Calendar] = cal]
      BY <2>1, <2>4 DEF Remaining, clipped, listing, first, own, notes, cal
    <3> QED
      BY <3>5, <3>6, <3>7, <2>2
  <2> QED
    BY <2>3, <2>4
<1>5. TypeOK'
  <2>1. win' \in [Active -> [first : Int, last : Int]]
    BY <1>2, <1>3 DEF WindowSet
  <2> QED
    BY <2>1, <1>4 DEF TypeOK, Stages, Answers, Codes
<1>6. OneWriter'
  BY DEF OneWriter, LockFree
<1>7. EndedDays' /\ OldLooks'
  BY DEF EndedDays, OldLooks, TypeOK
<1>8. RoundWindows'
  <2>1. \A s \in Active : win'[s].last < now' /\ FollowsOn(s)'
    BY <1>1, <1>3, StartWindows DEF FollowsOn
  <2>2. DoorUsed /\ Notes \in Offered' =>
          win'[Calendar].first <= win'[Notes].first /\ win'[Notes].last <= win'[Calendar].last
    BY <1>1, <1>3, StartWindows DEF DoorUsed, Offered
  <2> QED
    BY <2>1, <2>2 DEF RoundWindows, DoorUsed
<1>9. RoundProven' /\ RoundClean'
  BY DEF RoundProven, RoundClean
<1> QED
  BY <1>5, <1>6, <1>7, <1>8, <1>9

\* A cap takes at least one day: a window with days keeps its first one.
LEMMA CapKeepsFirst ==
  ASSUME NEW w \in WindowSet, NEW n \in 1 .. MaxDays
  PROVE  /\ CapDays(w, n) \in WindowSet
         /\ CapDays(w, n).first = w.first /\ CapDays(w, n).last <= w.last
         /\ HasDays(CapDays(w, n)) <=> HasDays(w)
  BY MaxDaysAssumption DEF WindowSet, CapDays, CutAt, Smaller, HasDays

LEMMA CollectInv == IInv /\ Collect => IInv'
<1> SUFFICES ASSUME IInv, Collect PROVE IInv'
  OBVIOUS
<1> USE DEF IInv
<1>1. PICK kinds \in [Offered \cap Local -> Kinds], taken \in [Offered \cap Local -> 1 .. MaxDays] :
        /\ \A s \in Required \cap DOMAIN kinds : kinds[s] \notin {"unreadable", "misconfigured"}
        /\ plan' = [s \in Active |-> IF s \in DOMAIN kinds THEN kinds[s] ELSE plan[s]]
        /\ win' = [s \in Active |-> IF s \in DOMAIN kinds THEN CapDays(win[s], taken[s]) ELSE win[s]]
        /\ IF EmptyWindow(Offered, kinds)
           THEN /\ stage' = "advancing" /\ code' = "OK"
                /\ proven' = Vacuous(Offered, kinds) /\ todo' = proven'
           ELSE stage' = "launching" /\ UNCHANGED <<code, proven, todo>>
  BY DEF Collect
<1>2. stage = "planning" /\ UNCHANGED <<today, mark, now, remaining, away, answer, owner, budget>>
  BY DEF Collect
<1>3. Offered \subseteq Active /\ DOMAIN kinds = Offered \cap Local
  BY DEF Offered
<1>4. win \in [Active -> WindowSet]
  BY DEF TypeOK, WindowSet
<1>5. \A s \in Active : /\ win'[s] \in WindowSet /\ win'[s].first = win[s].first
                        /\ win'[s].last <= win[s].last
                        /\ HasDays(win'[s]) <=> HasDays(win[s])
  <2> TAKE s \in Active
  <2>1. CASE s \in DOMAIN kinds
    <3>1. win'[s] = CapDays(win[s], taken[s]) /\ taken[s] \in 1 .. MaxDays /\ win[s] \in WindowSet
      BY <2>1, <1>1, <1>3, <1>4
    <3> QED
      BY <3>1, CapKeepsFirst
  <2>2. CASE s \notin DOMAIN kinds
    BY <2>2, <1>1, <1>4 DEF WindowSet
  <2> QED
    BY <2>1, <2>2
<1>6. Offered' = Offered
  BY <1>5 DEF Offered
<1>7. \A s \in Active : s \notin Local => win'[s] = win[s]
  BY <1>1, <1>3
<1>8. Vacuous(Offered, kinds) \subseteq Offered \cap Local
  BY DEF Vacuous
<1>9. TypeOK'
  <2>1. win' \in [Active -> [first : Int, last : Int]]
    BY <1>1, <1>5 DEF WindowSet
  <2>2. plan' \in [Active -> Kinds]
    BY <1>1 DEF TypeOK
  <2>3. stage' \in Stages /\ code' \in Codes /\ proven' \subseteq Active /\ todo' \subseteq Active
    <3>1. CASE EmptyWindow(Offered, kinds)
      BY <3>1, <1>1, <1>3, <1>8 DEF Stages, Codes
    <3>2. CASE ~EmptyWindow(Offered, kinds)
      BY <3>2, <1>1 DEF TypeOK, Stages
    <3> QED
      BY <3>1, <3>2
  <2> QED
    BY <1>2, <2>1, <2>2, <2>3 DEF TypeOK
<1>10. OneWriter' /\ EndedDays' /\ OldLooks'
  BY <1>1, <1>2 DEF OneWriter, EndedDays, OldLooks
<1>11. RoundWindows'
  <2>1. \A s \in Active : win[s].last < now /\ FollowsOn(s)
    BY <1>2 DEF RoundWindows
  <2>2. \A s \in Active : win'[s].last < now' /\ FollowsOn(s)'
    BY <2>1, <1>2, <1>4, <1>5 DEF FollowsOn, WindowSet, TypeOK
  <2>3. ASSUME DoorUsed, Notes \in Offered'
        PROVE  win'[Calendar].first <= win'[Notes].first /\ win'[Notes].last <= win'[Calendar].last
    <3>1. Notes \in Offered /\ win'[Notes] = win[Notes] /\ win'[Calendar] = win[Calendar]
      BY <2>3, <1>3, <1>6, <1>7, SourcesAssumption DEF DoorUsed
    <3> QED
      BY <3>1, <2>3, <1>2 DEF RoundWindows
  <2> QED
    BY <2>2, <2>3 DEF RoundWindows, DoorUsed
<1>12. RoundProven' /\ RoundClean'
  <2>1. CASE EmptyWindow(Offered, kinds)
    <3>1. todo' = proven' /\ proven' \subseteq Offered' /\ Notes \notin todo'
      BY <2>1, <1>1, <1>6, <1>8, SourcesAssumption
    <3>2. \A s \in Required \cap Offered' : s \in todo'
      BY <2>1, <1>1, <1>3, <1>6 DEF EmptyWindow, Vacuous
    <3> QED
      BY <3>1, <3>2 DEF RoundProven, RoundClean
  <2>2. CASE ~EmptyWindow(Offered, kinds)
    BY <2>2, <1>1 DEF RoundProven, RoundClean
  <2> QED
    BY <2>1, <2>2
<1> QED
  BY <1>9, <1>10, <1>11, <1>12

\* A step that keeps the windows, the marks and the instant of the round.
LEMMA SameWindows ==
  ASSUME RoundWindows, UNCHANGED <<mark, now, win>>, stage # "none"
  PROVE  RoundWindows' /\ Offered' = Offered
  BY DEF RoundWindows, FollowsOn, Offered, HasDays

LEMMA LaunchInv == IInv /\ Launch => IInv'
<1> SUFFICES ASSUME IInv, Launch PROVE IInv'
  OBVIOUS
<1> USE DEF IInv
<1>1. PICK blocked \in SUBSET (Offered \ Local) :
        LET gone == blocked \cup {s \in {Notes} : Waits(blocked)}
        IN /\ away' = gone
           /\ IF ~EmptyWindow(Offered \ gone, plan)
              THEN stage' = "reading" /\ UNCHANGED <<code, proven, todo>>
              ELSE /\ stage' = "advancing" /\ proven' = Vacuous(Offered \ gone, plan)
                   /\ IF Required \cap Offered \subseteq proven'
                      THEN todo' = proven' /\ code' = "OK"
                      ELSE todo' = {} /\ code' = "SOURCE_UNREAD"
  BY DEF Launch
<1>2. stage = "launching" /\ UNCHANGED <<today, mark, now, win, remaining, plan, answer, owner, budget>>
  BY DEF Launch
<1>3. RoundWindows' /\ Offered' = Offered
  BY <1>2, SameWindows
<1>4. away' \subseteq Active /\ Offered \subseteq Active
  BY <1>1 DEF Waits, Offered
<1>5. \/ stage' = "reading" /\ UNCHANGED <<code, proven, todo>>
      \/ /\ stage' = "advancing" /\ proven' \subseteq Offered \cap Local
         /\ \/ Required \cap Offered \subseteq proven' /\ todo' = proven' /\ code' = "OK"
            \/ todo' = {} /\ code' = "SOURCE_UNREAD"
  BY <1>1 DEF Vacuous
<1>6. TypeOK'
  BY <1>2, <1>4, <1>5 DEF TypeOK, Stages, Codes
<1>7. OneWriter' /\ EndedDays' /\ OldLooks'
  BY <1>2, <1>5 DEF OneWriter, EndedDays, OldLooks
<1>8. RoundProven' /\ RoundClean'
  BY <1>3, <1>5, SourcesAssumption DEF RoundProven, RoundClean
<1> QED
  BY <1>3, <1>6, <1>7, <1>8

LEMMA ReadInv == IInv /\ SomeModelReads => IInv'
<1> SUFFICES ASSUME IInv, NEW evidence \in Evidence, NEW fault \in {"none", "not_opened", "failed"},
                    NEW said \in [evidence -> Said], NEW blank \in SUBSET (evidence \ Local),
                    ModelReads(evidence, said, blank, fault)
             PROVE  IInv'
  BY DEF SomeModelReads
<1> DEFINE moves == Movable(evidence, said, blank)
<1> USE DEF IInv
<1>1. /\ stage = "reading" /\ stage' = "advancing" /\ proven' = evidence
      /\ todo' = IF Advances(fault, evidence) THEN moves ELSE {}
      /\ code' = ExitCode(fault, evidence, moves)
      /\ UNCHANGED <<today, mark, now, win, remaining, plan, away, answer, owner, budget>>
  BY DEF ModelReads
<1>2. RoundWindows' /\ Offered' = Offered
  BY <1>1, SameWindows
<1>3. evidence \subseteq Offered /\ Offered \subseteq Active
  BY DEF Evidence, MayProve, Readable, Offered
<1>4. moves \subseteq evidence /\ (Notes \in moves /\ DoorUsed => DoorOpen(evidence))
  BY DEF Movable
<1> HIDE DEF moves
<1>5. code' \in Codes /\ (code' = "OK" => Required \cap Offered \subseteq todo')
  BY <1>1 DEF ExitCode, Codes, Advances
<1>6. TypeOK'
  BY <1>1, <1>3, <1>4, <1>5 DEF TypeOK, Stages
<1>7. OneWriter' /\ EndedDays' /\ OldLooks'
  BY <1>1 DEF OneWriter, EndedDays, OldLooks
<1>8. RoundProven'
  <2>1. todo' \subseteq moves
    BY <1>1
  <2>2. DoorOpen(evidence) => DoorOpen(proven)'
    BY <1>1 DEF DoorOpen, DoorReached
  <2> QED
    BY <2>1, <2>2, <1>1, <1>2, <1>3, <1>4 DEF RoundProven, DoorUsed
<1>9. RoundClean'
  BY <1>2, <1>5 DEF RoundClean
<1> QED
  BY <1>2, <1>6, <1>7, <1>8, <1>9

\* Where a source still to close is closed through: its window's last day,
\* within its window, before the day the round started on.
LEMMA ThroughInWindow ==
  ASSUME IInv, stage = "advancing", NEW s \in todo
  PROVE  /\ s \in Active /\ Through(s) \in Int
         /\ win[s].first <= Through(s) /\ Through(s) = win[s].last /\ Through(s) < now
<1> USE DEF IInv
<1>1. s \in Offered /\ s \in Active /\ win[s].first <= win[s].last /\ win[s].last < now
  BY DEF RoundProven, RoundWindows, Offered, HasDays
<1>2. win[s] \in WindowSet
  BY <1>1 DEF TypeOK, WindowSet
<1>3. CASE s = Notes /\ DoorUsed
  <2>1. win[Notes].last <= win[Calendar].last /\ win[Calendar] \in WindowSet
    BY <1>1, <1>3 DEF RoundWindows, TypeOK, WindowSet, DoorUsed
  <2>2. Through(s) = win[s].last
    BY <2>1, <1>2, <1>3 DEF Through, DoorReached, Smaller, WindowSet
  <2> QED
    BY <2>2, <1>1, <1>2 DEF WindowSet
<1>4. CASE ~(s = Notes /\ DoorUsed)
  BY <1>1, <1>2, <1>4 DEF Through, WindowSet
<1> QED
  BY <1>3, <1>4

LEMMA AdvanceInv == ASSUME NEW s \in Active PROVE IInv /\ AdvanceMark(s) => IInv'
<1> SUFFICES ASSUME IInv, AdvanceMark(s) PROVE IInv'
  OBVIOUS
<1> USE DEF IInv
<1>1. /\ stage = "advancing" /\ s \in todo /\ todo' = todo \ {s}
      /\ mark' = [mark EXCEPT ![s] = IF MayAdvance(s) THEN Through(s) ELSE @]
      /\ UNCHANGED <<today, stage, now, win, remaining, plan, away, proven, code, answer, owner, budget>>
  BY DEF AdvanceMark
<1>2. /\ Through(s) \in Int /\ win[s].first <= Through(s)
      /\ Through(s) = win[s].last /\ Through(s) < now
  BY <1>1, ThroughInWindow
<1>3. mark \in [Active -> Marks] /\ now \in Int /\ today \in Int /\ win[s].first \in Int
  BY DEF TypeOK
<1>4. mark'[s] = IF MayAdvance(s) THEN Through(s) ELSE mark[s]
  BY <1>1, <1>3
<1>5. \A r \in Active : r # s => mark'[r] = mark[r]
  BY <1>1, <1>3
<1>6. mark'[s] \in Int /\ mark'[s] >= Through(s)
  BY <1>2, <1>3, <1>4 DEF MayAdvance, Marks
<1>7. mark'[s] = Through(s) \/ mark'[s] = mark[s]
  BY <1>4
<1>8. TypeOK'
  <2>1. mark' \in [Active -> Marks]
    BY <1>1, <1>2, <1>3 DEF Marks
  <2> QED
    BY <1>1, <2>1 DEF TypeOK
<1>9. OneWriter' /\ OldLooks'
  BY <1>1 DEF OneWriter, OldLooks
<1>10. EndedDays'
  BY <1>1, <1>2, <1>3, <1>5, <1>7 DEF EndedDays, OldLooks
<1>11. Offered' = Offered
  BY <1>1 DEF Offered, HasDays
<1>12. RoundWindows'
  <2>1. FollowsOn(s)'
    BY <1>1, <1>2, <1>3, <1>6 DEF FollowsOn
  <2>2. \A r \in Active : win'[r].last < now' /\ FollowsOn(r)'
    BY <2>1, <1>1, <1>5 DEF RoundWindows, FollowsOn
  <2> QED
    BY <2>2, <1>1, <1>11 DEF RoundWindows, DoorUsed
<1>13. RoundProven'
  BY <1>1, <1>11 DEF RoundProven, DoorOpen, DoorReached, DoorUsed
<1>14. RoundClean'
  <2>1. Closed(s)'
    BY <1>1, <1>2, <1>6, UnsetAssumption DEF Closed
  <2>2. \A r \in Active : r # s /\ Closed(r) => Closed(r)'
    BY <1>1, <1>5 DEF Closed
  <2>3. Offered \subseteq Active
    BY DEF Offered
  <2> QED
    BY <2>1, <2>2, <2>3, <1>1, <1>11 DEF RoundClean
<1> QED
  BY <1>8, <1>9, <1>10, <1>12, <1>13, <1>14

LEMMA ClockInv == IInv /\ (DayPasses \/ ClockSetBack) => IInv'
<1> SUFFICES ASSUME IInv, DayPasses \/ ClockSetBack PROVE IInv'
  OBVIOUS
<1> USE DEF IInv
<1>1. /\ today' \in Int /\ UNCHANGED <<mark, roundVars, owner>>
      /\ budget' \in [owner : Nat, clock : Nat] /\ (budget'.clock = 0 => budget' = budget /\ today' >= today)
  BY BoundsAssumption DEF DayPasses, ClockSetBack, TypeOK
<1>2. TypeOK'
  BY <1>1 DEF TypeOK, roundVars
<1>3. OneWriter'
  BY <1>1 DEF OneWriter, roundVars
<1>4. EndedDays'
  BY <1>1 DEF EndedDays, TypeOK, Marks
<1>5. OldLooks'
  BY <1>1, BoundsAssumption DEF OldLooks, roundVars, TypeOK
<1>6. RoundWindows' /\ RoundProven' /\ RoundClean'
  BY <1>1, OutsideInv
<1> QED
  BY <1>2, <1>3, <1>4, <1>5, <1>6

LEMMA OwnerInv == IInv /\ OwnerStep => IInv'
<1> SUFFICES ASSUME IInv, OwnerStep PROVE IInv'
  OBVIOUS
<1> USE DEF IInv
<1>1. CASE OwnerAsks
  <2>1. PICK command \in Commands, targets \in (SUBSET Active) \ {{}}, d \in FirstDay - 1 .. today - 1 :
          owner' = [stage |-> "asks", command |-> command, day |-> d,
                    yesterday |-> today - 1, todo |-> targets]
    BY <1>1 DEF OwnerAsks
  <2>2. /\ budget' \in [owner : Nat, clock : Nat] /\ budget'.clock = budget.clock
        /\ UNCHANGED <<today, mark, roundVars>> /\ d \in Int /\ d < today /\ today \in Int
    BY <1>1, BoundsAssumption DEF OwnerAsks, TypeOK
  <2>3. TypeOK'
    BY <2>1, <2>2 DEF TypeOK, roundVars
  <2>4. OneWriter' /\ EndedDays' /\ OldLooks'
    BY <2>1, <2>2 DEF OneWriter, EndedDays, OldLooks, roundVars
  <2> QED
    BY <2>2, <2>3, <2>4, OutsideInv
<1>2. CASE OwnerLocks
  <2>1. stage = "none" /\ UNCHANGED <<today, mark, roundVars, budget>> /\ owner.stage = "asks"
        /\ owner' = [owner EXCEPT !.stage = "writes"]
    BY <1>2 DEF OwnerLocks, LockFree
  <2>2. TypeOK'
    BY <2>1 DEF TypeOK, roundVars
  <2>3. OneWriter' /\ EndedDays' /\ OldLooks'
    BY <2>1 DEF OneWriter, EndedDays, OldLooks, roundVars, TypeOK
  <2> QED
    BY <2>1, <2>2, <2>3, OutsideInv
<1>3. CASE OwnerEnds
  <2>1. UNCHANGED <<today, mark, roundVars, budget>> /\ owner' = NoOwner
    BY <1>3 DEF OwnerEnds
  <2>2. TypeOK'
    BY <2>1 DEF TypeOK, roundVars, NoOwner, Commands
  <2>3. OneWriter' /\ EndedDays' /\ OldLooks'
    BY <2>1 DEF OneWriter, EndedDays, OldLooks, roundVars, NoOwner
  <2> QED
    BY <2>1, <2>2, <2>3, OutsideInv
<1>4. ASSUME NEW s \in Active, OwnerWrites(s) PROVE IInv'
  <2>1. /\ owner.stage = "writes" /\ stage = "none"
        /\ mark' = [mark EXCEPT ![s] = OwnerTarget(s)]
        /\ owner' = [owner EXCEPT !.todo = @ \ {s}]
        /\ UNCHANGED <<today, roundVars, budget>>
    BY <1>4 DEF OwnerWrites, OneWriter
  <2>2. mark \in [Active -> Marks] /\ owner.day \in Int /\ owner.yesterday \in Int
        /\ today \in Int /\ owner.command \in Commands
    BY DEF TypeOK
  <2>3. OwnerTarget(s) \in {owner.day, owner.yesterday, owner.day - 1, mark[s]}
    BY <2>2 DEF OwnerTarget, Commands
  <2>4. OwnerTarget(s) \in Marks
    BY <2>2, <2>3 DEF Marks
  <2>5. mark'[s] = OwnerTarget(s) /\ \A r \in Active : r # s => mark'[r] = mark[r]
    BY <2>1, <2>2
  <2>6. TypeOK'
    <3>1. owner' \in [stage : {"idle", "asks", "writes"}, command : Commands, day : Int,
                      yesterday : Int, todo : SUBSET Active]
      BY <2>1 DEF TypeOK
    <3> QED
      BY <3>1, <2>1, <2>2, <2>4 DEF TypeOK, roundVars
  <2>7. OneWriter' /\ OldLooks'
    BY <2>1 DEF OneWriter, OldLooks, roundVars
  <2>8. EndedDays'
    <3> SUFFICES ASSUME budget.clock = 0, NEW r \in Active, mark'[r] # Unset
                 PROVE  mark'[r] < today
      BY <2>1 DEF EndedDays
    <3>1. owner.day < today /\ owner.yesterday < today
      BY <2>1 DEF OldLooks
    <3>2. mark[r] # Unset => mark[r] < today
      BY DEF EndedDays
    <3> QED
      BY <3>1, <3>2, <2>2, <2>3, <2>5
  <2> QED
    BY <2>1, <2>6, <2>7, <2>8, OutsideInv
<1> QED
  BY <1>1, <1>2, <1>3, <1>4 DEF OwnerStep

LEMMA StepInv == IInv /\ [Next]_vars => IInv'
<1> SUFFICES ASSUME IInv, [Next]_vars PROVE IInv'
  OBVIOUS
<1>1. CASE DayPasses \/ ClockSetBack
  BY <1>1, ClockInv
<1>2. CASE RefuseFuture \/ UpToDate
  <2>1. UNCHANGED <<today, mark, stage, now, win, remaining, plan, away, proven, todo, code, owner, budget>>
        /\ answer' \in Answers
    BY <1>2 DEF RefuseFuture, UpToDate, Answers
  <2>2. RoundWindows' /\ RoundProven' /\ RoundClean'
    BY <2>1 DEF IInv, RoundWindows, RoundProven, RoundClean, FollowsOn, Closed, Offered, HasDays,
                DoorOpen, DoorReached
  <2> QED
    BY <2>1, <2>2 DEF IInv, TypeOK, OneWriter, EndedDays, OldLooks
<1>3. CASE Start
  BY <1>3, StartInv
<1>4. CASE Collect
  BY <1>4, CollectInv
<1>5. CASE Launch
  BY <1>5, LaunchInv
<1>6. CASE SomeModelReads
  BY <1>6, ReadInv
<1>7. CASE \E s \in Active : AdvanceMark(s)
  BY <1>7, AdvanceInv
<1>8. CASE Finish \/ Stop
  <2>1. code \in Answers /\ "stopped" \in Answers
    BY DEF IInv, TypeOK, Answers
  <2> QED
    BY <1>8, <2>1, EndInv DEF Finish, Stop
<1>9. CASE OwnerStep
  BY <1>9, OwnerInv
<1>10. CASE UNCHANGED vars
  <2>1. RoundWindows' /\ RoundProven' /\ RoundClean'
    BY <1>10, OutsideInv DEF IInv, vars
  <2> QED
    BY <1>10, <2>1 DEF vars, roundVars, IInv, TypeOK, OneWriter, EndedDays, OldLooks
<1> QED
  BY <1>1, <1>2, <1>3, <1>4, <1>5, <1>6, <1>7, <1>8, <1>9, <1>10
     DEF Next, RoundStep, RoundGoesOn

\* The inductive invariant of the marks: what every other theorem rests on.
THEOREM MarksInvariant == Spec => []IInv
  BY InitInv, StepInv, PTL DEF Spec

-----------------------------------------------------------------------------
\* Unless a wrong clock is set back, no mark names a day that has not ended
\* (windowFor and dayProblem), however midnight falls.
THEOREM OnlyEndedDays == Spec => []EndedDays
  BY MarksInvariant, PTL DEF IInv

\* While a round runs, a mark moves only by its AdvanceMark.
LEMMA RoundMarks ==
  ASSUME IInv, [Next]_vars, stage # "none", NEW s \in Active, mark'[s] # mark[s]
  PROVE  stage = "advancing" /\ s \in todo /\ MayAdvance(s) /\ mark'[s] = Through(s)
<1>1. PICK r \in Active : AdvanceMark(r)
  <2>1. ~OwnerStep \/ UNCHANGED mark
    BY DEF IInv, OneWriter, OwnerStep, OwnerAsks, OwnerLocks, OwnerEnds, OwnerWrites
  <2> QED
    BY <2>1 DEF Next, RoundStep, RoundGoesOn, DayPasses, ClockSetBack, RefuseFuture, UpToDate,
                Start, Collect, Launch, SomeModelReads, ModelReads, Finish, Stop, vars
<1>2. mark \in [Active -> Marks]
  BY DEF IInv, TypeOK
<1>3. r = s
  BY <1>1, <1>2 DEF AdvanceMark
<1> QED
  BY <1>1, <1>2, <1>3 DEF AdvanceMark

\* A round closes only days of its own window that its evidence proves read, the
\* notes' days only with the calendar's listing of them (advanceWatermark and
\* secondDoor).
THEOREM NoDayUnread == Spec => ClosesOnlyWhatItRead
<1>1. ASSUME IInv, [Next]_vars, stage # "none", NEW s \in Active, mark'[s] # mark[s],
             NEW d \in NewlyClosed(s)
      PROVE  /\ d \in Days(win[s]) /\ s \in proven
             /\ s = Notes /\ DoorUsed => Calendar \in proven /\ d \in Days(win[Calendar])
  <2>1. stage = "advancing" /\ s \in todo /\ MayAdvance(s) /\ mark'[s] = Through(s)
    BY <1>1, RoundMarks
  <2>2. Through(s) \in Int /\ Through(s) = win[s].last
    BY <1>1, <2>1, ThroughInWindow
  <2>3. win[s].first \in Int /\ mark[s] \in Marks
    BY <1>1 DEF IInv, TypeOK
  <2>4. mark[s] = Unset \/ win[s].first <= mark[s] + 1
    BY <1>1 DEF IInv, RoundWindows, FollowsOn
  <2>5. d \in Int /\ win[s].first <= d /\ d <= Through(s)
    BY <1>1, <2>1, <2>2, <2>3, <2>4 DEF NewlyClosed, Marks
  <2>6. d \in Days(win[s]) /\ s \in proven
    BY <1>1, <2>1, <2>2, <2>3, <2>5 DEF Days, IInv, RoundProven
  <2>7. ASSUME s = Notes, DoorUsed
        PROVE  Calendar \in proven /\ d \in Days(win[Calendar])
    <3>1. DoorOpen(proven)
      BY <1>1, <2>1, <2>7 DEF IInv, RoundProven
    <3>2. /\ win[Calendar].first \in Int /\ win[Calendar].last \in Int
          /\ win[Notes].first \in Int /\ win[Notes].last \in Int
      BY <1>1, <2>7 DEF IInv, TypeOK, DoorUsed
    <3>3. d <= win[Calendar].last
      BY <2>5, <2>7, <3>2 DEF Through, DoorReached, Smaller
    <3> QED
      BY <3>1, <3>2, <3>3, <2>5, <2>7 DEF DoorOpen, Days
  <2> QED
    BY <2>6, <2>7
<1>2. IInv /\ [Next]_vars =>
        [stage # "none" =>
           \A s \in Active : mark'[s] # mark[s] =>
             \A d \in NewlyClosed(s) :
               /\ d \in Days(win[s]) /\ s \in proven
               /\ (s = Notes /\ DoorUsed => Calendar \in proven /\ d \in Days(win[Calendar]))]_vars
  BY <1>1
<1> QED
  BY <1>2, MarksInvariant, PTL DEF Spec, ClosesOnlyWhatItRead

\* A round never moves a mark back (advanceWatermark, not_later).
THEOREM MarksMoveForward == Spec => RoundsMoveForward
<1>1. ASSUME IInv, [Next]_vars, stage # "none", NEW s \in Active, mark'[s] # mark[s]
      PROVE  mark'[s] # Unset /\ (mark[s] # Unset => mark'[s] > mark[s])
  <2>1. stage = "advancing" /\ s \in todo /\ MayAdvance(s) /\ mark'[s] = Through(s)
    BY <1>1, RoundMarks
  <2>2. Through(s) \in Int /\ mark[s] \in Marks
    BY <1>1, <2>1, ThroughInWindow DEF IInv, TypeOK
  <2> QED
    BY <2>1, <2>2, UnsetAssumption DEF MayAdvance, Marks
<1>2. IInv /\ [Next]_vars =>
        [stage # "none" =>
           \A s \in Active : mark'[s] # mark[s] =>
             mark'[s] # Unset /\ (mark[s] # Unset => mark'[s] > mark[s])]_vars
  BY <1>1
<1> QED
  BY <1>2, MarksInvariant, PTL DEF Spec, RoundsMoveForward

\* Exit 0 leaves no day of the round's window open in a required source it
\* offered (curate's exit ladder and its stuck sources).
THEOREM ExitZeroIsClean == Spec => CleanExitClosed
<1>1. ASSUME IInv, [Next]_vars, stage # "none", stage' = "none", answer' = "OK"
      PROVE  \A s \in Required \cap Offered : Closed(s)
  <2>1. ~OwnerStep /\ stage' # stage
    BY <1>1 DEF IInv, OneWriter, OwnerStep, OwnerAsks, OwnerLocks, OwnerEnds, OwnerWrites, roundVars
  <2>2. Finish
    BY <1>1, <2>1 DEF Next, RoundStep, RoundGoesOn, DayPasses, ClockSetBack, RefuseFuture, UpToDate,
                      LockFree, Start, Collect, Launch, SomeModelReads, ModelReads, AdvanceMark, Stop,
                      NoRound, vars, roundVars
  <2> QED
    BY <1>1, <2>2 DEF Finish, NoRound, IInv, RoundClean
<1>2. IInv /\ [Next]_vars =>
        [stage # "none" /\ stage' = "none" /\ answer' = "OK" =>
           \A s \in Required \cap Offered : Closed(s)]_vars
  BY <1>1
<1> QED
  BY <1>2, MarksInvariant, PTL DEF Spec, CleanExitClosed

\* Reopening opens that day and every later one and closes none, whatever a
\* round moved since the command was given (reopenCommand, commands/watermark.mjs).
THEOREM ReopenOnlyOpens == Spec => ReopenNeverCloses
<1>1. ASSUME IInv, [Next]_vars, budget.clock = 0, owner.stage = "writes", owner.command = "reopen",
             NEW s \in Active, mark'[s] # mark[s]
      PROVE  mark'[s] < owner.day /\ mark'[s] <= Effective(mark[s], today)
  <2>1. stage = "none"
    BY <1>1 DEF IInv, OneWriter
  <2>2. PICK r \in Active : OwnerWrites(r)
    BY <1>1, <2>1 DEF Next, RoundStep, RoundGoesOn, OwnerStep, DayPasses, ClockSetBack, RefuseFuture, UpToDate,
                      Start, Collect, Launch, SomeModelReads, ModelReads, AdvanceMark, Finish, Stop,
                      OwnerAsks, OwnerLocks, OwnerEnds, vars
  <2>3. mark \in [Active -> Marks] /\ owner.day \in Int /\ owner.yesterday < today
        /\ owner.yesterday \in Int /\ today \in Int
    BY <1>1 DEF IInv, TypeOK, OldLooks
  <2>4. mark'[s] = OwnerTarget(s)
    BY <1>1, <2>2, <2>3 DEF OwnerWrites
  <2>5. mark'[s] = owner.day - 1 /\ owner.day <= Effective(mark[s], owner.yesterday + 1)
    BY <1>1, <2>4 DEF OwnerTarget
  <2>6. /\ Effective(mark[s], owner.yesterday + 1) \in Int /\ Effective(mark[s], today) \in Int
        /\ Effective(mark[s], owner.yesterday + 1) <= Effective(mark[s], today)
    BY <1>1, <2>3 DEF Effective, Marks
  <2> QED
    BY <2>3, <2>5, <2>6
<1> DEFINE Opens == budget.clock = 0 /\ owner.stage = "writes" /\ owner.command = "reopen" =>
             \A s \in Active : mark'[s] # mark[s] =>
               mark'[s] < owner.day /\ mark'[s] <= Effective(mark[s], today)
<1>2. IInv /\ [Next]_vars => [Opens]_vars
  BY <1>1
<1> QED
  BY MarksInvariant, <1>2, PTL DEF Spec, ReopenNeverCloses

-----------------------------------------------------------------------------
(* What a round says remains. *)

\* A window that is not behind the clock leaves off where the clock says, and
\* never before the mark.
LEMMA OwnWindowEnds ==
  ASSUME NEW m \in Marks, NEW t \in Int, ~IsFuture(m, t)
  PROVE  /\ Effective(m, t) \in Int /\ Effective(m, t) <= t - 1
         /\ WindowFor(m, t).first = Effective(m, t) + 1
         /\ WindowFor(m, t).last >= Effective(m, t)
  BY MaxDaysAssumption, UnsetAssumption DEF WindowFor, Effective, Smaller, Marks, IsFuture

\* Days cut from a window's end join the days after it.
LEMMA CountJoins ==
  ASSUME NEW first \in Int, NEW last \in Int, NEW cut \in Int, NEW t \in Int, first <= last, last < t
  PROVE  Count(last + 1, t - 1) + Count(Larger(first, cut + 1), last)
           = Count(Larger(first, Smaller(last, cut) + 1), t - 1)
  BY DEF Count, Larger, Smaller

\* computeWindow counts the days each source leaves: those after its mark and
\* after its window's last day, whether the calendar is listed for the notes.
LEMMA RemainingCounts ==
  ASSUME NEW marks \in [Active -> Marks], NEW t \in Int,
         \A s \in Active : ~IsFuture(marks[s], t), NEW s \in Active
  PROVE  Remaining(marks, t)[s] =
           Count(Larger(Effective(marks[s], t) + 1, SourceDays(marks, t)[s].last + 1), t - 1)
<1> DEFINE own == [r \in Active |-> WindowFor(marks[r], t)]
           listing == Listing(own[Calendar], own[Notes])
           clipped == RemainingOwn(marks, t)
           first == Effective(marks[Calendar], t) + 1
           notes == clipped[Notes] + Count(Larger(own[Notes].first, listing.last + 1), own[Notes].last)
           cal == Count(Larger(first, listing.last + 1), t - 1)
<1>1. DOMAIN marks = Active /\ DOMAIN own = Active
  OBVIOUS
<1>2. \A r \in Active : own[r] = WindowFor(marks[r], t)
  OBVIOUS
<1>3. \A r \in Active : /\ own[r] \in WindowSet /\ own[r].last < t
                        /\ Effective(marks[r], t) \in Int /\ Effective(marks[r], t) <= t - 1
                        /\ own[r].first = Effective(marks[r], t) + 1
                        /\ own[r].last >= Effective(marks[r], t)
  BY <1>2, OwnWindow, OwnWindowEnds
<1>4. \A r \in Active : clipped[r] = Count(own[r].last + 1, t - 1)
  BY <1>1, <1>2 DEF RemainingOwn
<1>5. DOMAIN clipped = Active
  BY <1>1 DEF RemainingOwn
<1>6. Remaining(marks, t) =
        IF ~Relists(own) THEN clipped ELSE [clipped EXCEPT ![Notes] = notes, ![Calendar] = cal]
  BY <1>1 DEF Remaining
<1>7. SourceDays(marks, t) =
        IF ~Relists(own) THEN own
        ELSE [own EXCEPT ![Calendar] = listing, ![Notes] = CutAt(own[Notes], listing.last)]
  BY <1>1 DEF SourceDays
<1> HIDE DEF own, clipped, listing
<1>8. Count(own[s].last + 1, t - 1) = Count(Larger(Effective(marks[s], t) + 1, own[s].last + 1), t - 1)
  BY <1>3 DEF WindowSet, Larger
<1>9. CASE ~Relists(own)
  BY <1>4, <1>6, <1>7, <1>8, <1>9
<1>10. CASE Relists(own)
  <2>1. Calendar \in Active /\ Notes \in Active /\ HasDays(own[Notes])
    BY <1>1, <1>10 DEF Relists
  <2>2. listing \in WindowSet /\ listing.last < t /\ listing.first <= own[Notes].first
    BY <2>1, <1>3, ListingSpans DEF listing
  <2>3. CASE s = Calendar
    BY <2>1, <2>3, <1>1, <1>5, <1>6, <1>7, <1>10, DoorAssumption
  <2>4. CASE s = Notes
    <3>1. Remaining(marks, t)[s] = notes /\ SourceDays(marks, t)[s] = CutAt(own[Notes], listing.last)
      BY <2>1, <2>4, <1>1, <1>5, <1>6, <1>7, <1>10, DoorAssumption
    <3>2. CutAt(own[Notes], listing.last).last = Smaller(own[Notes].last, listing.last)
      BY DEF CutAt
    <3>3. notes = Count(own[Notes].last + 1, t - 1)
                    + Count(Larger(own[Notes].first, listing.last + 1), own[Notes].last)
      BY <2>1, <1>4
    <3>4. /\ own[Notes].first \in Int /\ own[Notes].last \in Int /\ listing.last \in Int
          /\ own[Notes].last < t /\ own[Notes].first <= own[Notes].last
          /\ own[Notes].first = Effective(marks[Notes], t) + 1
      BY <2>1, <2>2, <1>3 DEF WindowSet, HasDays
    <3>5. notes = Count(Larger(own[Notes].first, Smaller(own[Notes].last, listing.last) + 1), t - 1)
      BY <3>3, <3>4, CountJoins
    <3> QED
      BY <3>1, <3>2, <3>4, <3>5, <2>4
  <2>5. CASE s # Calendar /\ s # Notes
    BY <2>5, <1>1, <1>4, <1>5, <1>6, <1>7, <1>8, <1>10
  <2> QED
    BY <2>3, <2>4, <2>5
<1> QED
  BY <1>9, <1>10

\* While a round plans, nobody moves a mark nor its window.
LEMMA RemainingHolds == IInv /\ RemainingIsRight /\ [Next]_vars => RemainingIsRight'
<1> SUFFICES ASSUME IInv, RemainingIsRight, [Next]_vars, stage' = "planning", NEW s \in Active
             PROVE  (remaining[s] = Count(Larger(Effective(mark[s], now) + 1, win[s].last + 1), now - 1))'
  BY DEF RemainingIsRight
<1>1. CASE Start
  <2>1. mark \in [Active -> Marks] /\ today \in Int /\ \A r \in Active : ~IsFuture(mark[r], today)
    BY <1>1 DEF IInv, TypeOK, Start, AnyFuture
  <2>2. remaining' = Remaining(mark, today) /\ now' = today /\ mark' = mark
        /\ win'[s] = SourceDays(mark, today)[s]
    BY <1>1 DEF Start, AllDays
  <2> QED
    BY <2>1, <2>2, RemainingCounts
<1>2. CASE ~Start
  <2>1. stage = "planning" /\ UNCHANGED <<now, win, remaining>>
    BY <1>2 DEF Next, RoundStep, RoundGoesOn, OwnerStep, DayPasses, ClockSetBack, RefuseFuture, UpToDate,
                Collect, Launch, SomeModelReads, ModelReads, AdvanceMark, Finish, Stop, NoRound,
                OwnerAsks, OwnerLocks, OwnerEnds, OwnerWrites, vars, roundVars
  <2>2. mark'[s] = mark[s]
    BY <2>1, RoundMarks
  <2> QED
    BY <2>1, <2>2 DEF RemainingIsRight
<1> QED
  BY <1>1, <1>2

-----------------------------------------------------------------------------
(* What a mark passes. *)

\* A mark moves to a day, by the owner or by a round that has that day's source
\* to close.
LEMMA MarkMoves ==
  ASSUME IInv, [Next]_vars, NEW s \in Active, mark'[s] # mark[s]
  PROVE  /\ mark'[s] \in Int
         /\ stage # "none" => /\ stage = "advancing" /\ s \in todo /\ mark'[s] = win[s].last
                              /\ win[s].first <= win[s].last
                              /\ mark[s] # Unset => mark[s] < mark'[s] /\ win[s].first <= mark[s] + 1
<1>1. CASE stage # "none"
  <2>1. stage = "advancing" /\ s \in todo /\ MayAdvance(s) /\ mark'[s] = Through(s)
    BY <1>1, RoundMarks
  <2>2. Through(s) \in Int /\ win[s].first <= Through(s) /\ Through(s) = win[s].last
    BY <2>1, ThroughInWindow
  <2>3. mark[s] = Unset \/ win[s].first <= mark[s] + 1
    BY <1>1 DEF IInv, RoundWindows, FollowsOn
  <2> QED
    BY <2>1, <2>2, <2>3 DEF MayAdvance
<1>2. CASE stage = "none"
  <2>1. PICK r \in Active : OwnerWrites(r)
    BY <1>2 DEF Next, RoundStep, RoundGoesOn, OwnerStep, DayPasses, ClockSetBack, RefuseFuture, UpToDate, Start,
                Collect, Launch, SomeModelReads, ModelReads, AdvanceMark, Finish, Stop,
                OwnerAsks, OwnerLocks, OwnerEnds, vars
  <2>2. mark \in [Active -> Marks] /\ owner.day \in Int /\ owner.yesterday \in Int
    BY DEF IInv, TypeOK
  <2>3. mark'[s] = OwnerTarget(s)
    BY <2>1, <2>2 DEF OwnerWrites
  <2>4. OwnerTarget(s) \in Int \cup {mark[s]}
    BY <2>2 DEF OwnerTarget
  <2> QED
    BY <1>2, <2>3, <2>4
<1> QED
  BY <1>1, <1>2

\* A round comes to its marks from its own stages, and once there its windows
\* and its instant stay.
LEMMA ComesToMarks ==
  ASSUME IInv, [Next]_vars, stage' = "advancing"
  PROVE  /\ stage # "none" /\ now' = now
         /\ stage = "advancing" => win' = win /\ todo' \subseteq todo
  BY DEF Next, RoundStep, RoundGoesOn, OwnerStep, DayPasses, ClockSetBack, RefuseFuture, UpToDate, Start,
         Collect, Launch, SomeModelReads, ModelReads, AdvanceMark, Finish, Stop, NoRound,
         OwnerAsks, OwnerLocks, OwnerEnds, OwnerWrites, vars, roundVars

-----------------------------------------------------------------------------
(* The history. *)

LEMMA HistoryBegins == HistoryInit => HistoryInv
<1> SUFFICES ASSUME HistoryInit PROVE HistoryInv
  OBVIOUS
<1>1. mark \in [Active -> Marks]
  BY InitInv DEF HistoryInit, IInv, TypeOK
<1>2. \A s \in Active : since[s] = IF mark[s] = Unset THEN Unset ELSE mark[s] + 1
  BY DEF HistoryInit
<1>3. HistoryTypes
  BY <1>1, <1>2, UnsetAssumption DEF HistoryInit, HistoryTypes, Marks
<1>4. NoGap /\ \A s \in Active : mark[s] # Unset => since[s] .. mark[s] \subseteq swept[s]
  BY <1>1, <1>2 DEF NoGap, Marks
<1> QED
  BY <1>3, <1>4 DEF HistoryInit, Init, HistoryInv, ClosesFromSwept, NoDayClosedUnread, RemainingIsRight

LEMMA HistoryGoesOn == IInv /\ IInv' /\ HistoryInv /\ [HistoryNext]_<<vars, history>> => HistoryInv'
<1> SUFFICES ASSUME IInv, IInv', HistoryInv, [HistoryNext]_<<vars, history>> PROVE HistoryInv'
  OBVIOUS
<1> USE DEF HistoryInv
<1>1. [Next]_vars
  BY DEF HistoryNext
<1>2. /\ mark \in [Active -> Marks] /\ mark' \in [Active -> Marks]
      /\ \A s \in Active : win[s].first \in Int /\ win[s].last \in Int
  BY DEF IInv, TypeOK
<1>3. CASE UNCHANGED <<vars, history>>
  BY <1>3, RemainingHolds, <1>1
     DEF vars, roundVars, history, HistoryTypes, NoGap, ClosesFromSwept, NoDayClosedUnread, Days
<1>4. CASE HistoryNext
  <2>1. /\ swept' = [s \in Active |-> IF ByOwner(s) THEN OwnersWord(s) ELSE swept[s] \cup ReadNow(s)]
        /\ since' = [s \in Active |-> SinceNext(s)]
    BY <1>4 DEF HistoryNext
  <2>2. \A s \in Active : since'[s] = SinceNext(s)
    BY <2>1
  <2>3. \A s \in Active : ~ByOwner(s) => swept'[s] = swept[s] \cup ReadNow(s)
    BY <2>1
  <2>4. \A s \in Active : ByOwner(s) => swept'[s] = OwnersWord(s)
    BY <2>1
  <2>5. \A s \in Active : /\ mark[s] \in Marks /\ mark'[s] \in Marks
                          /\ since[s] \in Marks /\ swept[s] \subseteq Int
                          /\ since[s] = Unset <=> mark[s] = Unset
    BY <1>2 DEF HistoryTypes
  <2>6. HistoryTypes'
    <3>1. ASSUME NEW s \in Active PROVE OwnersWord(s) \subseteq Int /\ ReadNow(s) \subseteq Int
      BY <2>5 DEF OwnersWord, ReadNow, Days
    <3>2. swept' \in [Active -> SUBSET Int]
      BY <2>1, <2>5, <3>1
    <3>3. ASSUME NEW s \in Active PROVE SinceNext(s) \in Marks /\ (SinceNext(s) = Unset <=> mark'[s] = Unset)
      <4>1. CASE mark'[s] = mark[s]
        BY <4>1, <2>5 DEF SinceNext
      <4>2. CASE mark'[s] # mark[s]
        <5>1. mark'[s] \in Int
          BY <4>2, <1>1, MarkMoves
        <5>2. win[s].first \in Int
          BY <1>2
        <5>3. SinceNext(s) \in Int
          BY <4>2, <5>1, <5>2, <2>5 DEF SinceNext, Smaller, Marks
        <5> QED
          BY <5>1, <5>3, UnsetAssumption DEF Marks
      <4> QED
        BY <4>1, <4>2
    <3> QED
      BY <2>1, <3>2, <3>3 DEF HistoryTypes
  <2>7. ASSUME NEW s \in Active, mark'[s] # Unset
        PROVE  since'[s] <= mark'[s] + 1 /\ since'[s] .. mark'[s] \subseteq swept'[s]
    <3>1. mark'[s] \in Int
      BY <2>5, <2>7 DEF Marks
    <3>2. mark[s] # Unset => /\ mark[s] \in Int /\ since[s] \in Int
                             /\ since[s] <= mark[s] + 1 /\ since[s] .. mark[s] \subseteq swept[s]
      BY <2>5 DEF NoGap, NoDayClosedUnread, Marks
    <3>3. CASE mark'[s] = mark[s]
      BY <3>2, <3>3, <2>2, <2>3, <2>7 DEF SinceNext, ByOwner
    <3>4. CASE mark'[s] # mark[s] /\ stage = "none"
      <4>1. ByOwner(s) /\ swept'[s] = OwnersWord(s)
        BY <3>4, <2>4 DEF ByOwner
      <4>2. CASE mark[s] = Unset
        BY <4>1, <4>2, <3>1, <3>4, <2>2, <2>5 DEF SinceNext
      <4>3. CASE mark[s] # Unset
        <5>1. since'[s] = Smaller(since[s], mark'[s] + 1)
          BY <4>3, <3>4, <2>2, <2>5 DEF SinceNext
        <5>2. since'[s] <= mark'[s] + 1
          BY <5>1, <4>3, <3>1, <3>2 DEF Smaller
        <5>3. ASSUME NEW d \in since'[s] .. mark'[s] PROVE d \in OwnersWord(s)
          <6>1. d \in Int /\ d <= mark'[s] /\ since[s] <= d
            BY <5>1, <4>3, <3>1, <3>2 DEF Smaller
          <6>2. d \in swept[s] \/ d \in mark[s] + 1 .. mark'[s]
            BY <6>1, <4>3, <3>1, <3>2
          <6> QED
            BY <6>1, <6>2, <4>3 DEF OwnersWord
        <5> QED
          BY <4>1, <5>2, <5>3
      <4> QED
        BY <4>2, <4>3
    <3>5. CASE mark'[s] # mark[s] /\ stage # "none"
      <4>1. /\ stage = "advancing" /\ s \in todo /\ mark'[s] = win[s].last /\ win[s].first <= win[s].last
            /\ mark[s] # Unset => mark[s] < mark'[s] /\ win[s].first <= mark[s] + 1
        BY <3>5, <1>1, MarkMoves
      <4>2. win[s].first .. win[s].last \subseteq swept[s]
        BY <4>1 DEF ClosesFromSwept, Days
      <4>3. swept[s] \subseteq swept'[s]
        BY <3>5, <2>3 DEF ByOwner
      <4>4. CASE mark[s] = Unset
        <5>1. since'[s] = win[s].first
          BY <4>4, <3>5, <2>2, <2>5 DEF SinceNext, ByOwner
        <5> QED
          BY <5>1, <4>1, <4>2, <4>3, <1>2
      <4>5. CASE mark[s] # Unset
        <5>1. since'[s] = Smaller(since[s], mark'[s] + 1)
          BY <4>5, <3>5, <2>2, <2>5 DEF SinceNext
        <5>2. since'[s] = since[s]
          BY <5>1, <4>1, <4>5, <3>1, <3>2 DEF Smaller
        <5>3. ASSUME NEW d \in since[s] .. mark'[s] PROVE d \in swept[s]
          BY <4>1, <4>2, <4>5, <3>1, <3>2, <1>2
        <5> QED
          BY <5>2, <5>3, <4>1, <4>3, <4>5, <3>1, <3>2
      <4> QED
        BY <4>4, <4>5
    <3> QED
      BY <3>3, <3>4, <3>5
  <2>8. ClosesFromSwept'
    <3> SUFFICES ASSUME stage' = "advancing", NEW s \in todo' PROVE Days(win'[s]) \subseteq swept'[s]
      BY DEF ClosesFromSwept, Days
    <3>1. /\ stage # "none" /\ now' = now
          /\ stage = "advancing" => win' = win /\ todo' \subseteq todo
      BY <1>1, ComesToMarks
    <3>2. s \in Active /\ s \in proven' /\ win'[s].last < now' /\ win'[s].last \in Int /\ now' \in Int
          /\ win'[s].first \in Int
      BY DEF IInv, TypeOK, RoundProven, RoundWindows
    <3>3. swept'[s] = swept[s] \cup ReadNow(s)
      BY <3>1, <3>2, <2>3 DEF ByOwner
    <3>4. CASE stage = "advancing"
      BY <3>1, <3>3, <3>4 DEF ClosesFromSwept, Days
    <3>5. CASE stage # "advancing"
      BY <3>1, <3>2, <3>3, <3>5 DEF ReadNow, Days
    <3> QED
      BY <3>4, <3>5
  <2>9. RemainingIsRight'
    BY <1>1, RemainingHolds DEF NoDayClosedUnread
  <2> QED
    BY <2>6, <2>7, <2>8, <2>9 DEF NoGap, NoDayClosedUnread
<1> QED
  BY <1>3, <1>4

\* The history says nothing of what may happen.
LEMMA HistoryKeepsSpec == HistorySpec => Spec
<1>1. HistoryInit => Init
  BY DEF HistoryInit
<1>2. [HistoryNext]_<<vars, history>> => [Next]_vars
  BY DEF HistoryNext
<1> QED
  BY <1>1, <1>2, PTL DEF HistorySpec, Spec

\* Every day a mark has passed was read by a round that proved it, or answered
\* for by the owner, and what a round says remains is what it leaves
\* (advanceWatermark, computeWindow, watermark reopen).
THEOREM EveryDayWasRead == HistorySpec => []NoDayClosedUnread
<1>1. HistorySpec => []IInv
  BY HistoryKeepsSpec, MarksInvariant
<1>2. HistoryInv => NoDayClosedUnread
  BY DEF HistoryInv
<1> QED
  BY HistoryBegins, HistoryGoesOn, <1>1, <1>2, PTL DEF HistorySpec
=============================================================================
