----------------------------- MODULE Watermark -----------------------------
(***************************************************************************)
(* The high water marks, one per source, and everything that moves them:   *)
(* the scheduled round (src/commands/curate.mjs) and the owner's hand      *)
(* (src/commands/watermark.mjs).  A round fixes its instant when it        *)
(* starts, computes each source's days, plans its local sources, leaves    *)
(* out what it cannot reach, lets the model read, and closes days one      *)
(* source at a time; midnight, the owner and a crash come whenever they    *)
(* please.  The vault lock (module VaultLock) lets one of them write at a  *)
(* time: here it is held exactly from Start to the step that sets stage    *)
(* back to "none", and by the owner while he writes.                       *)
(*                                                                         *)
(* What the model abstracts: what a source holds is one of a few kinds of  *)
(* plan, what the model did is the set of sources its stream proves read   *)
(* and what its last line says of each.                                    *)
(***************************************************************************)
EXTENDS Integers

CONSTANTS MaxDays,      \* DEFAULT_MAX_DAYS, seven in the code
          Calendar,     \* the source of SECOND_DOOR.through
          Notes,        \* the source of SECOND_DOOR.source
          Unset,        \* the mark of a source that has none yet
          Local,        \* the sources that list their own files
          Active,       \* the listed sources that are configured
          Required,     \* the required ones among them
          Stuck,        \* the sources no round can read, for the fairness only
          FirstMarks,   \* the marks a source may begin with
          FirstDay,     \* the clock's day at the beginning
          MaxDay,       \* bound: the last day of the clock
          MaxOwner,     \* bound: the owner's commands
          MaxClock      \* bound: how often a wrong clock is set back

Sources == Local \cup {Calendar, Notes}

ASSUME MaxDaysAssumption == MaxDays \in Nat \ {0}
ASSUME UnsetAssumption == Unset \notin Int
ASSUME DoorAssumption == Calendar # Notes
ASSUME SourcesAssumption ==
  /\ Active \subseteq Sources /\ Required \subseteq Active /\ Stuck \subseteq Active
  /\ Calendar \notin Local /\ Notes \notin Local
ASSUME BoundsAssumption ==
  /\ FirstDay \in Int /\ MaxDay \in Int /\ MaxOwner \in Nat /\ MaxClock \in Nat
  /\ FirstMarks \subseteq {Unset} \cup {d \in Int : d < FirstDay}

-----------------------------------------------------------------------------
(* The days a round reads of each source (windowFor, computeWindow).  A    *)
(* day is an integer, the number of a calendar day in the vault's zone; a  *)
(* source's days are always consecutive, so a window is its first and its  *)
(* last day, and one whose last day comes before its first has no day.     *)

Smaller(a, b) == IF a < b THEN a ELSE b
Larger(a, b) == IF a < b THEN b ELSE a

Days(w) == w.first .. w.last
HasDays(w) == w.first <= w.last

\* An unset mark reads only yesterday: as a mark on the day before it.
Effective(m, today) == IF m = Unset THEN today - 2 ELSE m

\* The days after the mark that have ended.
OpenDays(m, today) == Effective(m, today) + 1 .. today - 1

IsFuture(m, today) == m # Unset /\ m > today - 1

\* Mutant: the window keeps the newest days.
WindowForNewest(m, today) ==
  [first |-> Larger(Effective(m, today) + 1, today - MaxDays), last |-> today - 1]

\* The oldest MaxDays of the open days.
WindowFor(m, today) ==
  [first |-> Effective(m, today) + 1,
   last  |-> Smaller(today - 1, Effective(m, today) + MaxDays)]

\* The one listing of the calendar for both: from the first of either to the
\* last of either, the oldest MaxDays of them.
Listing(cal, notes) ==
  LET first == IF HasDays(cal) THEN Smaller(cal.first, notes.first) ELSE notes.first
      end   == IF HasDays(cal) THEN Larger(cal.last, notes.last) ELSE notes.last
  IN [first |-> first, last |-> Smaller(end, first + MaxDays - 1)]

CutAt(w, last) == [first |-> w.first, last |-> Smaller(w.last, last)]

\* The calendar also covers every day the notes have open.
Relists(own) == {Calendar, Notes} \subseteq DOMAIN own /\ HasDays(own[Notes])

SourceDays(marks, today) ==
  LET own     == [s \in DOMAIN marks |-> WindowFor(marks[s], today)]
      listing == Listing(own[Calendar], own[Notes])
  IN IF ~Relists(own) THEN own
     ELSE [own EXCEPT ![Calendar] = listing, ![Notes] = CutAt(own[Notes], listing.last)]

Count(first, last) == IF first <= last THEN last - first + 1 ELSE 0

\* What each source's own window leaves, before the listing for two of them.
RemainingOwn(marks, today) ==
  [s \in DOMAIN marks |-> Count(WindowFor(marks[s], today).last + 1, today - 1)]

\* The newer open days each source leaves for a later round, counted the way
\* computeWindow counts them: the listing's cut is added to the notes' own, and
\* the calendar's are those after both its mark and the listing.
Remaining(marks, today) ==
  LET own     == [s \in DOMAIN marks |-> WindowFor(marks[s], today)]
      listing == Listing(own[Calendar], own[Notes])
      clipped == RemainingOwn(marks, today)
      first   == Effective(marks[Calendar], today) + 1
  IN IF ~Relists(own) THEN clipped
     ELSE [clipped EXCEPT
             ![Notes]    = @ + Count(Larger(own[Notes].first, listing.last + 1), own[Notes].last),
             ![Calendar] = Count(Larger(first, listing.last + 1), today - 1)]

-----------------------------------------------------------------------------
(* The state. *)

Kinds == {"files", "none", "unreadable", "misconfigured"}
\* "failed" stands for every other word, and for no word at all.
Said == {"ok", "empty", "failed"}
Codes == {"OK", "DEGRADED", "FAILURE", "SOURCE_UNREAD", "none"}
Commands == {"set", "reopen", "assume-covered", "import"}

VARIABLES
  today,     \* the day the machine's clock shows in the vault's zone
  mark,      \* watermark.json: the last day swept, per source
  stage,     \* where the round is: "none" when no round holds the lock
  now,       \* the day the running round took for today when it started
  win,       \* the running round's days, per source
  remaining, \* the newer open days it says are left, per source
  plan,      \* what each local source's plan holds
  away,      \* the offered sources the round goes on without
  proven,    \* the sources the evidence proves read in this round
  todo,      \* the sources whose mark the round is still to move
  code,      \* the exit the round is to end with
  answer,    \* the reason code of the last round that ended
  owner,     \* the owner's command
  budget     \* bounds used: the owner's commands, the clock's corrections

roundVars == <<stage, now, win, remaining, plan, away, proven, todo, code, answer>>
vars == <<today, mark, roundVars, owner, budget>>

NoOwner == [stage |-> "idle", command |-> "set", day |-> 0, yesterday |-> 0, todo |-> {}]

Offered == {s \in Active : HasDays(win[s])}
Readable == Offered \ away
LockFree == stage = "none" /\ owner.stage # "writes"

NoRound(reason) ==
  /\ stage' = "none" /\ now' = FirstDay /\ code' = "none" /\ answer' = reason
  /\ win' = [s \in Active |-> [first |-> 0, last |-> -1]]
  /\ remaining' = [s \in Active |-> 0]
  /\ plan' = [s \in Active |-> "files"]
  /\ away' = {} /\ proven' = {} /\ todo' = {}

Init ==
  /\ today = FirstDay
  /\ mark \in [Active -> FirstMarks]
  /\ stage = "none" /\ now = FirstDay /\ code = "none" /\ answer = "none"
  /\ win = [s \in Active |-> [first |-> 0, last |-> -1]]
  /\ remaining = [s \in Active |-> 0]
  /\ plan = [s \in Active |-> "files"]
  /\ away = {} /\ proven = {} /\ todo = {}
  /\ owner = NoOwner
  /\ budget = [owner |-> 0, clock |-> 0]

-----------------------------------------------------------------------------
(* The clock. *)

DayPasses ==
  /\ today < MaxDay
  /\ today' = today + 1
  /\ UNCHANGED <<mark, roundVars, owner, budget>>

\* A clock that ran ahead is corrected, or a snapshot of the machine restored.
ClockSetBack ==
  /\ budget.clock < MaxClock
  /\ \E d \in FirstDay .. today - 1 : today' = d
  /\ budget' = [budget EXCEPT !.clock = @ + 1]
  /\ UNCHANGED <<mark, roundVars, owner>>

-----------------------------------------------------------------------------
(* The round, from its window to the plans of its local sources. *)

AnyFuture == \E s \in Active : IsFuture(mark[s], today)

RefuseFuture ==
  /\ LockFree /\ AnyFuture
  /\ answer' = "watermark_future"
  /\ UNCHANGED <<today, mark, stage, now, win, remaining, plan, away, proven, todo, code, owner, budget>>

AllDays == [s \in Active |-> SourceDays(mark, today)[s]]

UpToDate ==
  /\ LockFree /\ ~AnyFuture
  /\ \A s \in Active : ~HasDays(AllDays[s])
  /\ answer' = "up_to_date"
  /\ UNCHANGED <<today, mark, stage, now, win, remaining, plan, away, proven, todo, code, owner, budget>>

Start ==
  /\ LockFree /\ ~AnyFuture
  /\ \E s \in Active : HasDays(AllDays[s])
  /\ stage' = "planning" /\ now' = today
  /\ win' = AllDays
  /\ remaining' = Remaining(mark, today)
  /\ answer' = "none"
  /\ UNCHANGED <<today, mark, plan, away, proven, todo, code, owner, budget>>

\* No file to curate: of the plans that list files, all list none, and none
\* holds a file nobody could open.
EmptyWindow(sources, kinds) ==
  \A s \in sources : s \in Local /\ kinds[s] \in {"none", "misconfigured"}

\* The whole days a plan's cap or its digests take, the first taken[s] of
\* them; the rest of that source's days wait for its next round.
CapDays(w, taken) == CutAt(w, w.first + taken - 1)

\* The vacuous advance: of the given sources, those that listed nothing and
\* whose evidence says so.
Vacuous(sources, kinds) == {s \in sources : s \in Local /\ kinds[s] = "none"}

\* The plans, taken[s] whole days each.  A required source that is
\* misconfigured or holds a file nobody can read, and a first day over the
\* cap, end the round instead: Stop.
Collect ==
  /\ stage = "planning"
  /\ \E kinds \in [Offered \cap Local -> Kinds], taken \in [Offered \cap Local -> 1 .. MaxDays] :
       /\ \A s \in Required \cap DOMAIN kinds : kinds[s] \notin {"unreadable", "misconfigured"}
       /\ \A s \in DOMAIN kinds : kinds[s] # "files" => taken[s] = MaxDays
       /\ plan' = [s \in Active |-> IF s \in DOMAIN kinds THEN kinds[s] ELSE plan[s]]
       /\ win' = [s \in Active |-> IF s \in DOMAIN kinds THEN CapDays(win[s], taken[s]) ELSE win[s]]
       /\ IF EmptyWindow(Offered, kinds)
          THEN /\ stage' = "advancing" /\ code' = "OK"
               /\ proven' = Vacuous(Offered, kinds) /\ todo' = proven'
          ELSE /\ stage' = "launching"
               /\ UNCHANGED <<code, proven, todo>>
  /\ UNCHANGED <<today, mark, now, remaining, away, answer, owner, budget>>

-----------------------------------------------------------------------------
(* The round, from its launch to its exit. *)

\* The meeting notes leave the round when the calendar they need is configured
\* and will not be read.
Waits(blocked) ==
  /\ Notes \in Offered \ blocked
  /\ Calendar \in Active /\ Calendar \notin Offered \ blocked

\* What the person's rules block, and what the first launch shows missing;
\* with nothing left for a model to read, none runs.
Launch ==
  /\ stage = "launching"
  /\ \E blocked \in SUBSET (Offered \ Local) :
       LET gone == blocked \cup {s \in {Notes} : Waits(blocked)}
       IN /\ away' = gone
          /\ IF ~EmptyWindow(Offered \ gone, plan)
             THEN /\ stage' = "reading" /\ UNCHANGED <<code, proven, todo>>
             ELSE /\ stage' = "advancing"
                  /\ proven' = Vacuous(Offered \ gone, plan)
                  /\ IF Required \cap Offered \subseteq proven'
                     THEN todo' = proven' /\ code' = "OK"
                     ELSE todo' = {} /\ code' = "SOURCE_UNREAD"
  /\ UNCHANGED <<today, mark, now, win, remaining, plan, answer, owner, budget>>

\* What the stream may prove read.  A source left out was given no tool; a file
\* nobody can open is never read; nothing listed is read at once.
MayProve == {s \in Readable \ Stuck : s \in Local => plan[s] \in {"files", "none"}}
Evidence == {e \in SUBSET MayProve : \A s \in MayProve \cap Local : plan[s] = "none" => s \in e}

\* What the model's last line must say: "empty" closes a local source that
\* listed nothing, and a connector's whose listing, proven made, held nothing.
Reported(s, said, blank) ==
  \/ said[s] = "ok"
  \/ said[s] = "empty" /\ IF s \in Local THEN plan[s] = "none" ELSE s \in blank

\* secondDoor: the last of the notes' days, in order, the calendar's listing
\* reached, once that listing is proven.
DoorUsed == Calendar \in Active
DoorReached == Smaller(win[Notes].last, win[Calendar].last)

\* Mutant: the notes' days close over a listing nobody proved.
DoorOpenUnread(evidence) ==
  win[Calendar].first <= win[Notes].first /\ win[Notes].first <= DoorReached

DoorOpen(evidence) ==
  /\ Calendar \in evidence
  /\ win[Calendar].first <= win[Notes].first /\ win[Notes].first <= DoorReached

Through(s) == IF s = Notes /\ DoorUsed THEN DoorReached ELSE win[s].last

Movable(evidence, said, blank) ==
  {s \in evidence : Reported(s, said, blank) /\ (s = Notes /\ DoorUsed => DoorOpen(evidence))}

\* The exit once the marks that can move are known, first match: a required
\* source that stays open is never exit 0.
ExitCode(fault, evidence, moves) ==
  IF fault = "failed" THEN "FAILURE"
  ELSE IF ~(Required \cap Offered \subseteq evidence) THEN "SOURCE_UNREAD"
  ELSE IF fault = "not_opened" THEN "DEGRADED"
  ELSE IF ~(Required \cap Offered \subseteq moves) THEN "SOURCE_UNREAD" ELSE "OK"

\* Marks move only on the exits 0 and 3, told before the ladder's last rung.
Advances(fault, evidence) == fault # "failed" /\ Required \cap Offered \subseteq evidence

ModelReads(evidence, said, blank, fault) ==
  LET moves == Movable(evidence, said, blank)
  IN /\ stage = "reading" /\ stage' = "advancing"
     /\ proven' = evidence
     /\ todo' = IF Advances(fault, evidence) THEN moves ELSE {}
     /\ code' = ExitCode(fault, evidence, moves)
     /\ UNCHANGED <<today, mark, now, win, remaining, plan, away, answer, owner, budget>>

\* Mutant: yesterday is taken for a day that has not ended.
MayAdvanceLate(s) == Through(s) < now - 1 /\ (mark[s] = Unset \/ mark[s] < Through(s))

\* advanceWatermark: never backwards, never onto a day that has not ended.
MayAdvance(s) ==
  /\ Through(s) <= now - 1
  /\ mark[s] = Unset \/ mark[s] < Through(s)

AdvanceMark(s) ==
  /\ stage = "advancing" /\ s \in todo
  /\ mark' = [mark EXCEPT ![s] = IF MayAdvance(s) THEN Through(s) ELSE @]
  /\ todo' = todo \ {s}
  /\ UNCHANGED <<today, stage, now, win, remaining, plan, away, proven, code, answer, owner, budget>>

Finish ==
  /\ stage = "advancing" /\ todo = {}
  /\ NoRound(code)
  /\ UNCHANGED <<today, mark, owner, budget>>

\* A round that fails before its marks, is interrupted, or is killed outright
\* anywhere, between two marks included.
Stop ==
  /\ stage # "none"
  /\ NoRound("stopped")
  /\ UNCHANGED <<today, mark, owner, budget>>

-----------------------------------------------------------------------------
(* The owner's hand.  A command reads the clock and checks its day before it *)
(* asks for the lock; one source after another is then read and written      *)
(* under it.                                                                 *)

OwnerAsks ==
  /\ owner.stage = "idle" /\ budget.owner < MaxOwner
  /\ \E command \in Commands, targets \in (SUBSET Active) \ {{}}, d \in FirstDay - 1 .. today - 1 :
       /\ command # "import" => \E s \in Active : targets = {s}
       /\ command = "assume-covered" => d = today - 1
       /\ owner' = [stage |-> "asks", command |-> command, day |-> d,
                    yesterday |-> today - 1, todo |-> targets]
  /\ budget' = [budget EXCEPT !.owner = @ + 1]
  /\ UNCHANGED <<today, mark, roundVars>>

OwnerLocks ==
  /\ owner.stage = "asks" /\ LockFree
  /\ owner' = [owner EXCEPT !.stage = "writes"]
  /\ UNCHANGED <<today, mark, roundVars, budget>>

\* Refused by the lock, done, or killed.
OwnerEnds ==
  /\ \/ owner.stage = "asks" /\ ~LockFree
     \/ owner.stage = "writes"
  /\ owner' = NoOwner
  /\ UNCHANGED <<today, mark, roundVars, budget>>

\* Mutant: assume-covered covers the day it runs on.
OwnerTargetToday(s) ==
  CASE owner.command \in {"set", "import"} -> owner.day
    [] owner.command = "assume-covered"    -> owner.yesterday + 1
    [] OTHER                               -> Smaller(owner.day - 1, Effective(mark[s], today))

\* Mutant: reopen forgets to look at the mark under the lock.
OwnerTargetUnchecked(s) ==
  CASE owner.command \in {"set", "import"}   -> owner.day
    [] owner.command = "assume-covered"      -> owner.yesterday
    [] OTHER                                 -> owner.day - 1

\* The mark a command writes; reopening a day that is already open writes none.
OwnerTarget(s) ==
  CASE owner.command \in {"set", "import"}   -> owner.day
    [] owner.command = "assume-covered"      -> owner.yesterday
    [] owner.command = "reopen" /\ owner.day <= Effective(mark[s], owner.yesterday + 1) -> owner.day - 1
    [] OTHER                                 -> mark[s]

OwnerWrites(s) ==
  /\ owner.stage = "writes" /\ s \in owner.todo
  /\ mark' = [mark EXCEPT ![s] = OwnerTarget(s)]
  /\ owner' = [owner EXCEPT !.todo = @ \ {s}]
  /\ UNCHANGED <<today, roundVars, budget>>

-----------------------------------------------------------------------------
SomeModelReads ==
  \E evidence \in Evidence, fault \in {"none", "not_opened", "failed"} :
    \E said \in [evidence -> Said] :
      \E blank \in SUBSET {s \in evidence \ Local : said[s] = "empty"} : ModelReads(evidence, said, blank, fault)

RoundGoesOn ==
  \/ Collect \/ Launch \/ SomeModelReads
  \/ (\E s \in Active : AdvanceMark(s)) \/ Finish \/ Stop

RoundStep == RefuseFuture \/ UpToDate \/ Start \/ RoundGoesOn

OwnerStep == OwnerAsks \/ OwnerLocks \/ OwnerEnds \/ \E s \in Active : OwnerWrites(s)

Next == DayPasses \/ ClockSetBack \/ RoundStep \/ OwnerStep

Spec == Init /\ [][Next]_vars

(***************************************************************************)
(* Fairness: time passes; the timer starts round after round, and each     *)
(* runs to its end or is stopped; and, again and again, a round finds its  *)
(* local sources readable, its connectors there and a model that reads     *)
(* whatever is not Stuck and says so.  The owner's commands are bounded.   *)
(***************************************************************************)
AllFiles == \A s \in Offered \cap Local : plan[s] = "files"
GoodCollect == Collect /\ AllFiles'
GoodLaunch == AllFiles /\ Launch /\ away' = {}
GoodRead ==
  /\ AllFiles /\ away = {}
  /\ ModelReads(MayProve, [s \in MayProve |-> "ok"], {}, "none")

Fairness ==
  /\ WF_vars(DayPasses) /\ WF_vars(UpToDate) /\ SF_vars(Start) /\ WF_vars(RoundGoesOn)
  /\ SF_vars(GoodCollect) /\ SF_vars(GoodLaunch) /\ SF_vars(GoodRead)
  /\ \A s \in Active : SF_vars(AdvanceMark(s))
  /\ WF_vars(OwnerEnds)

FairSpec == Spec /\ Fairness

-----------------------------------------------------------------------------
(* Properties. *)

Stages == {"none", "planning", "launching", "reading", "advancing"}
Answers == Codes \cup {"watermark_future", "up_to_date", "stopped"}
Marks == Int \cup {Unset}

TypeOK ==
  /\ today \in Int /\ now \in Int
  /\ mark \in [Active -> Marks]
  /\ stage \in Stages /\ code \in Codes /\ answer \in Answers
  /\ win \in [Active -> [first : Int, last : Int]]
  /\ remaining \in [Active -> Int]
  /\ plan \in [Active -> Kinds]
  /\ away \subseteq Active /\ proven \subseteq Active /\ todo \subseteq Active
  /\ owner \in [stage : {"idle", "asks", "writes"}, command : Commands, day : Int,
                yesterday : Int, todo : SUBSET Active]
  /\ budget \in [owner : Nat, clock : Nat]

\* The round and the owner never hold the vault lock together.
OneWriter == stage # "none" => owner.stage # "writes"

\* Unless a clock that ran ahead is set back, no mark names a day that has not
\* ended, whatever midnight passes between a command's or a round's first look
\* at the clock and its write (windowFor's error state is the clock's fault).
EndedDays ==
  budget.clock = 0 => \A s \in Active : mark[s] # Unset => mark[s] < today

\* What keeps EndedDays: neither writer took a day later than the clock's.
OldLooks ==
  budget.clock = 0 =>
    /\ FirstDay <= today /\ now <= today
    /\ owner.stage # "idle" => owner.day < today /\ owner.yesterday < today

\* What a round closes of a source follows on from its mark.
FollowsOn(s) == mark[s] = Unset \/ win[s].first <= mark[s] + 1

\* While a round runs its windows follow on from the marks, end before the day
\* it started on, and the calendar's spans every day the notes are offered.
RoundWindows ==
  stage # "none" =>
    /\ \A s \in Active : win[s].last < now /\ FollowsOn(s)
    /\ DoorUsed /\ Notes \in Offered =>
         win[Calendar].first <= win[Notes].first /\ win[Notes].last <= win[Calendar].last

\* Only offered sources proven read are left to close, the notes through an
\* open second door.
RoundProven ==
  stage = "advancing" =>
    /\ todo \subseteq proven /\ proven \subseteq Offered
    /\ Notes \in todo /\ DoorUsed => DoorOpen(proven)

\* A source with nothing left open of its window.
Closed(s) == mark[s] # Unset /\ mark[s] >= win[s].last

\* A round about to answer 0 has closed, or is still to close, every required
\* source it offered.
RoundClean ==
  stage = "advancing" /\ code = "OK" =>
    \A s \in Required \cap Offered : s \in todo \/ Closed(s)

IInv == /\ TypeOK /\ OneWriter /\ EndedDays /\ OldLooks
        /\ RoundWindows /\ RoundProven /\ RoundClean

\* The days a step of the round closes for a source: those after its mark, and
\* from its first day on while it had none.
NewlyClosed(s) ==
  IF mark[s] = Unset THEN win[s].first .. mark'[s] ELSE mark[s] + 1 .. mark'[s]

\* A round closes only days of its own window that its evidence proves read,
\* and a day of the meeting notes only with the calendar's listing of that very
\* day proven in the same round (docs/incidents.md, 20/08/2026).
ClosesOnlyWhatItRead ==
  [][stage # "none" =>
       \A s \in Active : mark'[s] # mark[s] =>
         \A d \in NewlyClosed(s) :
           /\ d \in Days(win[s]) /\ s \in proven
           /\ (s = Notes /\ DoorUsed => Calendar \in proven /\ d \in Days(win[Calendar]))]_vars

\* A round never moves a mark back, the calendar's listing of days it already
\* closed included.
RoundsMoveForward ==
  [][stage # "none" =>
       \A s \in Active : mark'[s] # mark[s] =>
         mark'[s] # Unset /\ (mark[s] # Unset => mark'[s] > mark[s])]_vars

\* A round that answers 0 left no day of its window open in a required source
\* it offered, whichever of the three ways to exit 0 it took.
CleanExitClosed ==
  [][stage # "none" /\ stage' = "none" /\ answer' = "OK" =>
       \A s \in Required \cap Offered : Closed(s)]_vars

\* The days a round says remain are exactly the open days it does not offer,
\* the calendar's one listing for two sources included.
RemainingIsRight ==
  stage = "planning" =>
    \A s \in Active :
      remaining[s] = Count(Larger(Effective(mark[s], now) + 1, win[s].last + 1), now - 1)

\* Reopening a day leaves that day and every later one open and closes none,
\* whatever a round moved between the command's first look and its write.
ReopenNeverCloses ==
  [][budget.clock = 0 /\ owner.stage = "writes" /\ owner.command = "reopen" =>
       \A s \in Active : mark'[s] # mark[s] =>
         mark'[s] < owner.day /\ mark'[s] <= Effective(mark[s], today)]_vars

\* Every source a round can read catches up, oldest days first, however far
\* behind it was, and stays caught up once time stands still.
CatchUp == \A s \in Active \ Stuck : <>[](mark[s] = today - 1)
=============================================================================
