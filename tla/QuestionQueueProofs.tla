------------------------- MODULE QuestionQueueProofs --------------------------
(***************************************************************************)
(* The question queue, for any writers, texts, days and limits: each       *)
(* command that answers took effect whole on what the one before it left,  *)
(* wherever others run or die, and a queue the commands keep asks each     *)
(* question once.                                                          *)
(***************************************************************************)
EXTENDS QuestionQueue, FiniteSetTheorems, TLAPS

USE RulesAssumption, QueueAssumption

-----------------------------------------------------------------------------
(* What each write does to a queue that is well kept.                      *)

(* A write that closes a question or records that it was asked: what it    *)
(* changes was open, and stays a question with its text and its day.       *)
Touches(before, after) ==
    /\ DOMAIN after = DOMAIN before
    /\ \A i \in DOMAIN before :
          \/ after[i] = before[i]
          \/ /\ IsOpen(before[i]) /\ IsQuestion(after[i])
             /\ after[i].text = before[i].text /\ after[i].created = before[i].created

LEMMA TouchedIsKept ==
  ASSUME NEW before, NEW after, Apart(before), OneOpen(before), Touches(before, after)
  PROVE  Apart(after) /\ OneOpen(after)
  <1>1. \A i \in DOMAIN after :
           IsQuestion(after[i]) => /\ IsQuestion(before[i])
                                   /\ after[i].text = before[i].text /\ after[i].created = before[i].created
    BY DEF Touches, IsOpen
  <1>2. Apart(after)
    <2> SUFFICES ASSUME NEW i \in DOMAIN after, NEW j \in DOMAIN after, i < j,
                        IsQuestion(after[i]), IsQuestion(after[j]), after[i].text = after[j].text
                 PROVE  /\ after[i].status # "open"
                        /\ after[i].status = "answered" /\ DedupDays # Never
                              => after[j].created - after[i].closed > DedupDays
      BY DEF Apart
    <2>1. i \in DOMAIN before /\ j \in DOMAIN before
      BY DEF Touches
    <2>2. IsQuestion(before[i]) /\ IsQuestion(before[j]) /\ before[i].text = before[j].text
          /\ after[j].created = before[j].created
      BY <1>1
    <2>3. before[i].status # "open" /\ (before[i].status = "answered" /\ DedupDays # Never
             => before[j].created - before[i].closed > DedupDays)
      BY <2>1, <2>2 DEF Apart
    <2>4. after[i] = before[i]
      BY <2>1, <2>3 DEF Touches, IsOpen
    <2> QED
      BY <2>2, <2>3, <2>4
  <1>3. OneOpen(after)
    <2>1. \A i \in DOMAIN after : IsOpen(after[i]) => IsOpen(before[i]) /\ after[i].text = before[i].text
      BY <1>1 DEF Touches, IsOpen
    <2> QED
      BY <2>1 DEF OneOpen, Touches
  <1> QED
    BY <1>2, <1>3

LEMMA SameLengthIsSeq ==
  ASSUME NEW S, NEW before \in Seq(S), NEW after,
         after = [i \in DOMAIN before |-> after[i]], \A i \in DOMAIN before : after[i] \in S
  PROVE  after \in Seq(S)
  <1>1. DOMAIN before = 1..Len(before) /\ Len(before) \in Nat
    OBVIOUS
  <1>2. after \in [1..Len(before) -> S]
    BY <1>1, Zenon
  <1> QED
    BY <1>1, <1>2

LEMMA CloseTouches ==
  ASSUME NEW before, Typed(before), NEW id \in Ids, NEW status \in {"answered", "archived"}, NEW day \in Days
  PROVE  Typed(Close(before, id, status, day)) /\ Touches(before, Close(before, id, status, day))
  <1> DEFINE after == Close(before, id, status, day)
  <1>1. DOMAIN after = DOMAIN before /\ DOMAIN before = 1..Len(before) /\ Len(before) \in Nat
    BY DEF Close, Typed
  <1>2. ASSUME NEW i \in DOMAIN before
        PROVE  /\ after[i] \in Entries
               /\ IsQuestion(after[i]) /\ after[i].status = "answered" => after[i].closed \in Days
               /\ \/ after[i] = before[i]
                  \/ /\ IsOpen(before[i]) /\ IsQuestion(after[i])
                     /\ after[i].text = before[i].text /\ after[i].created = before[i].created
    <2>1. before[i] \in Entries
      BY DEF Typed
    <2>2. CASE OpenAs(before, id) = {i}
      <3>1. IsOpen(before[i])
        BY <2>2 DEF OpenAs
      <3>2. after[i] = [before[i] EXCEPT !.status = status, !.closed = day]
        BY <2>2 DEF Close
      <3> QED
        BY <2>1, <3>1, <3>2 DEF Entries, Corrupt, IsOpen, IsQuestion
    <2>3. CASE OpenAs(before, id) # {i}
      <3>1. after[i] = before[i]
        BY <2>3 DEF Close
      <3> QED
        BY <2>1, <3>1 DEF Typed
    <2> QED
      BY <2>2, <2>3
  <1>3. after \in Seq(Entries)
    <2>1. after = [i \in DOMAIN before |-> after[i]]
      BY DEF Close
    <2> QED
      BY <1>2, <2>1, SameLengthIsSeq DEF Typed
  <1> QED
    BY <1>1, <1>2, <1>3 DEF Typed, Touches

LEMMA MarkTouches ==
  ASSUME NEW before, Typed(before), NEW ids \in SUBSET Ids, NEW day \in Days
  PROVE  Typed(Mark(before, ids, day)) /\ Touches(before, Mark(before, ids, day))
  <1> DEFINE after == Mark(before, ids, day)
  <1>1. DOMAIN after = DOMAIN before
    BY DEF Mark
  <1>2. ASSUME NEW i \in DOMAIN before
        PROVE  /\ after[i] \in Entries
               /\ IsQuestion(after[i]) /\ after[i].status = "answered" => after[i].closed \in Days
               /\ \/ after[i] = before[i]
                  \/ /\ IsOpen(before[i]) /\ IsQuestion(after[i])
                     /\ after[i].text = before[i].text /\ after[i].created = before[i].created
    <2>1. before[i] \in Entries
      BY DEF Typed
    <2>2. CASE after[i] = before[i]
      BY <2>1, <2>2 DEF Typed
    <2>3. CASE after[i] # before[i]
      <3>1. /\ \E id \in ids : OpenAs(before, id) = {i}
            /\ after[i] = [before[i] EXCEPT !.asked = Append(@, day)]
        BY <2>3 DEF Mark
      <3>2. IsOpen(before[i])
        BY <3>1 DEF OpenAs
      <3>3. before[i].asked \in Seq(Days)
        BY <2>1, <3>2 DEF Entries, Corrupt, IsOpen, IsQuestion
      <3>4. Append(before[i].asked, day) \in Seq(Days)
        BY <3>3
      <3> QED
        BY <2>1, <3>1, <3>2, <3>4 DEF Entries, Corrupt, IsOpen, IsQuestion
    <2> QED
      BY <2>2, <2>3
  <1>3. after \in Seq(Entries)
    <2>1. after = [i \in DOMAIN before |-> after[i]]
      BY DEF Mark
    <2> QED
      BY <1>2, <2>1, SameLengthIsSeq DEF Typed
  <1> QED
    BY <1>1, <1>2, <1>3 DEF Typed, Touches

LEMMA SweepTouches ==
  ASSUME NEW before, Typed(before), NEW day \in Days
  PROVE  Typed(Sweep(before, day)) /\ Touches(before, Sweep(before, day))
  <1> DEFINE after == Sweep(before, day)
  <1>1. DOMAIN after = DOMAIN before
    BY DEF Sweep
  <1>2. ASSUME NEW i \in DOMAIN before
        PROVE  /\ after[i] \in Entries
               /\ IsQuestion(after[i]) /\ after[i].status = "answered" => after[i].closed \in Days
               /\ \/ after[i] = before[i]
                  \/ /\ IsOpen(before[i]) /\ IsQuestion(after[i])
                     /\ after[i].text = before[i].text /\ after[i].created = before[i].created
    <2>1. before[i] \in Entries
      BY DEF Typed
    <2>2. CASE DueForArchive(before[i], day)
      <3>1. IsOpen(before[i])
        BY <2>2 DEF DueForArchive
      <3>2. after[i] = [before[i] EXCEPT !.status = "archived", !.closed = day]
        BY <2>2 DEF Sweep
      <3> QED
        BY <2>1, <3>1, <3>2 DEF Entries, Corrupt, IsOpen, IsQuestion
    <2>3. CASE ~DueForArchive(before[i], day)
      <3>1. after[i] = before[i]
        BY <2>3 DEF Sweep
      <3> QED
        BY <2>1, <3>1 DEF Typed
    <2> QED
      BY <2>2, <2>3
  <1>3. after \in Seq(Entries)
    <2>1. after = [i \in DOMAIN before |-> after[i]]
      BY DEF Sweep
    <2> QED
      BY <1>2, <2>1, SameLengthIsSeq DEF Typed
  <1> QED
    BY <1>1, <1>2, <1>3 DEF Typed, Touches

LEMMA AddKeeps ==
  ASSUME NEW before, WellKept(before), NEW text \in Texts, NEW day \in Days,
         OpenAlike(before, text) = {}, AnsweredLately(before, text, day) = {}, OpenAs(before, IdOf[text]) = {}
  PROVE  WellKept(Append(before, Question(text, day)))
  <1> DEFINE after == Append(before, Question(text, day))
             last == Len(before) + 1
  <1> USE DEF WellKept
  <1>1. before \in Seq(Entries) /\ Question(text, day) \in Entries
    BY DEF Typed, Question, Entries
  <1>2. /\ after \in Seq(Entries) /\ last \in Nat
        /\ DOMAIN after = DOMAIN before \cup {last} /\ DOMAIN before = 1..Len(before) /\ Len(before) \in Nat
        /\ after[last] = Question(text, day) /\ \A i \in DOMAIN before : after[i] = before[i]
    BY <1>1
  <1> HIDE DEF after, last
  <1>3. Typed(after)
    BY <1>2 DEF Typed, Question
  <1>4. ASSUME NEW i \in DOMAIN before, IsQuestion(before[i]), before[i].text = text
        PROVE  /\ before[i].status # "open"
               /\ before[i].status = "answered" /\ DedupDays # Never => day - before[i].closed > DedupDays
    <2>1. before[i].status # "open"
      BY <1>4 DEF OpenAlike, IsOpen
    <2>2. ASSUME before[i].status = "answered", DedupDays # Never PROVE day - before[i].closed > DedupDays
      <3>1. ~(day - before[i].closed <= DedupDays)
        BY <1>4, <2>2 DEF AnsweredLately
      <3>2. before[i].closed \in Nat /\ day \in Nat /\ DedupDays \in Nat
        BY <1>4, <2>2 DEF Typed
      <3> QED
        BY <3>1, <3>2
    <2> QED
      BY <2>1, <2>2
  <1>5. Apart(after)
    <2> SUFFICES ASSUME NEW i \in DOMAIN after, NEW j \in DOMAIN after, i < j,
                        IsQuestion(after[i]), IsQuestion(after[j]), after[i].text = after[j].text
                 PROVE  /\ after[i].status # "open"
                        /\ after[i].status = "answered" /\ DedupDays # Never
                              => after[j].created - after[i].closed > DedupDays
      BY DEF Apart
    <2>1. i \in DOMAIN before
      BY <1>2 DEF last
    <2>2. CASE j = last
      BY <1>2, <1>4, <2>1, <2>2 DEF Question
    <2>3. CASE j \in DOMAIN before
      BY <1>2, <2>1, <2>3 DEF Apart
    <2> QED
      BY <1>2, <2>2, <2>3
  <1>6. OneOpen(after)
    <2>1. \A i \in DOMAIN before : ~(IsOpen(after[i]) /\ IdOf[after[i].text] = IdOf[text])
      BY <1>2 DEF OpenAs
    <2>2. after[last].text = text
      BY <1>2 DEF Question
    <2> QED
      BY <1>2, <2>1, <2>2 DEF OneOpen
  <1> QED
    BY <1>3, <1>5, <1>6 DEF after

LEMMA WrittenIsKept ==
  ASSUME NEW before, WellKept(before), NEW what \in Ops
  PROVE  WellKept(Written(before, what))
  <1>1. CASE what.name = "add"
    <2>1. what.text \in Texts /\ what.day \in Days
      BY <1>1 DEF Ops
    <2>2. CASE AddOutcome(before, what) = "added"
      <3>1. /\ OpenAlike(before, what.text) = {} /\ AnsweredLately(before, what.text, what.day) = {}
            /\ OpenAs(before, IdOf[what.text]) = {}
        BY <2>2 DEF AddOutcome
      <3> QED
        BY <1>1, <2>1, <2>2, <3>1, AddKeeps DEF Written
    <2> QED
      BY <1>1, <2>2 DEF Written
  <1>2. CASE what.name \in {"answer", "archive"}
    <2>1. what.id \in Ids /\ what.day \in Days
      BY <1>2 DEF Ops
    <2>2. \E status \in {"answered", "archived"} : Written(before, what) = Close(before, what.id, status, what.day)
      BY <1>2 DEF Written
    <2>3. PICK status \in {"answered", "archived"} : Written(before, what) = Close(before, what.id, status, what.day)
      BY <2>2
    <2>4. Typed(Written(before, what)) /\ Touches(before, Written(before, what))
      BY <2>1, <2>3, CloseTouches DEF WellKept
    <2> QED
      BY <2>4, TouchedIsKept DEF WellKept
  <1>3. CASE what.name = "mark"
    <2>1. what.ids \in SUBSET Ids /\ what.day \in Days
      BY <1>3 DEF Ops
    <2> QED
      BY <1>3, <2>1, MarkTouches, TouchedIsKept DEF WellKept, Written
  <1>4. CASE what.name = "sweep"
    <2>1. what.day \in Days
      BY <1>4 DEF Ops
    <2> QED
      BY <1>4, <2>1, SweepTouches, TouchedIsKept DEF WellKept, Written
  <1> QED
    BY <1>1, <1>2, <1>3, <1>4 DEF Ops
-----------------------------------------------------------------------------
(* The commands.                                                           *)

(* A queue that starts well kept: no question twice in it.                 *)
StartsWell == \A start \in First : WellKept(start)

LEMMA InitHolds == StartsWell /\ Init => IInv
  <1> SUFFICES ASSUME StartsWell, Init PROVE IInv
    OBVIOUS
  <1>1. TypeOK
    <2>1. op \in [Writers -> Ops \cup {NoOp}]
      BY Zenon DEF Init
    <2>2. at \in [Writers -> Places]
      BY DEF Init, Places
    <2>3. today \in Days
      BY QueueAssumption DEF Init
    <2> QED
      BY <2>1, <2>2, <2>3 DEF Init, TypeOK
  <1>2. WellKept(queue)
    BY DEF StartsWell, Init
  <1> QED
    BY <1>1, <1>2 DEF Init, IInv, OneHasTheFile, AnswersOnce

LEMMA BriefingTyped ==
  ASSUME TypeOK, NEW shown \in SUBSET Ids
  PROVE  [name |-> "mark", ids |-> shown, day |-> today] \in Ops
  BY DEF TypeOK, Ops

LEMMA NextHolds == IInv /\ [Next]_vars => IInv'
  <1> SUFFICES ASSUME IInv, [Next]_vars PROVE IInv'
    OBVIOUS
  <1> USE DEF IInv
  <1>1. CASE Midnight
    BY <1>1 DEF Midnight, TypeOK, OneHasTheFile, AnswersOnce
  <1>2. ASSUME NEW w \in Writers, NEW what \in Ops, Start(w, what) PROVE IInv'
    BY <1>2 DEF Start, TypeOK, OneHasTheFile, AnswersOnce, Places
  <1>3. ASSUME NEW w \in Writers, NEW shown \in SUBSET Ids, Briefing(w, shown) PROVE IInv'
    <2>1. CASE shown = {}
      BY <1>3, <2>1 DEF Briefing, TypeOK, OneHasTheFile, AnswersOnce, Places
    <2>2. CASE shown # {}
      BY <1>2, <1>3, <2>2, BriefingTyped DEF Briefing
    <2> QED
      BY <2>1, <2>2
  <1>4. ASSUME NEW w \in Writers, LockQueue(w) PROVE IInv'
    <2>1. \A v \in Writers \ {w} : at[v] \notin {"write", "unlock"}
      BY <1>4 DEF LockQueue, HolderDied, OneHasTheFile
    <2> QED
      BY <1>4, <2>1 DEF LockQueue, TypeOK, OneHasTheFile, AnswersOnce, Places
  <1>5. ASSUME NEW w \in Writers, Refused(w) PROVE IInv'
    BY <1>5 DEF Refused, TypeOK, OneHasTheFile, AnswersOnce, Places
  <1>6. ASSUME NEW w \in Writers, Write(w) PROVE IInv'
    <2>1. WellKept(queue')
      BY <1>6, WrittenIsKept DEF Write, OneHasTheFile
    <2>2. \A v \in Writers \ {w} : at[v] # "write"
      BY <1>6 DEF Write, OneHasTheFile
    <2> QED
      BY <1>6, <2>1, <2>2 DEF Write, TypeOK, OneHasTheFile, AnswersOnce, Places
  <1>7. ASSUME NEW w \in Writers, Unlock(w) PROVE IInv'
    BY <1>7 DEF Unlock, TypeOK, OneHasTheFile, AnswersOnce, Places
  <1>8. ASSUME NEW w \in Writers, Die(w) PROVE IInv'
    BY <1>8 DEF Die, TypeOK, OneHasTheFile, AnswersOnce, Places
  <1>9. CASE UNCHANGED vars
    BY <1>9 DEF vars, TypeOK, OneHasTheFile, AnswersOnce
  <1> QED
    BY <1>1, <1>2, <1>3, <1>4, <1>5, <1>6, <1>7, <1>8, <1>9 DEF Next, Command, Step

(* One writer at a time has the file, what it read is what it writes over, *)
(* and the queue is well kept (questions.mjs, lockQueue and writeEntries). *)
THEOREM QueueInvariant == ASSUME StartsWell PROVE Spec => []IInv
  BY InitHolds, NextHolds, PTL DEF Spec

(* Every open question can be answered, and one answered is not put again  *)
(* within the days the vault sets (addQuestion, openEntry).                *)
THEOREM EachQuestionOnce == ASSUME StartsWell PROVE Spec => []QuestionsAreAskedOnce
  <1>1. IInv => EveryOpenIsAnswerable
    <2> SUFFICES ASSUME IInv, NEW id \in Ids PROVE Cardinality(OpenAs(queue, id)) <= 1
      BY DEF EveryOpenIsAnswerable
    <2>1. \A i, j \in OpenAs(queue, id) : i = j
      BY DEF IInv, WellKept, OneOpen, OpenAs
    <2>2. CASE OpenAs(queue, id) = {}
      BY <2>2, FS_EmptySet
    <2>3. CASE OpenAs(queue, id) # {}
      <3>1. PICK i : i \in OpenAs(queue, id)
        BY <2>3
      <3>2. OpenAs(queue, id) = {i}
        BY <2>1, <3>1
      <3>3. Cardinality({i}) = 1
        BY FS_Singleton
      <3> QED
        BY <3>2, <3>3
    <2> QED
      BY <2>2, <2>3
  <1>2. IInv => AnsweredNotAskedAgain
    BY DEF IInv, WellKept, Apart, AnsweredNotAskedAgain
  <1> QED
    BY QueueInvariant, <1>1, <1>2, PTL DEF QuestionsAreAskedOnce

-----------------------------------------------------------------------------
(* The abstract queue.                                                     *)

LEMMA SameAnswer ==
  ASSUME NEW what
  PROVE  /\ Abstract!AddOutcome(queue, what) = AddOutcome(queue, what)
         /\ Abstract!CloseOutcome(queue, what.id) = CloseOutcome(queue, what.id)
  BY Zenon DEF AddOutcome, OpenAlike, AnsweredLately, OpenAs, IsOpen, IsQuestion, CloseOutcome, Named,
     Abstract!AddOutcome, Abstract!OpenAlike, Abstract!AnsweredLately, Abstract!OpenAs, Abstract!IsOpen,
     Abstract!IsQuestion, Abstract!CloseOutcome, Abstract!Named

LEMMA SameWrites ==
  ASSUME NEW what, NEW status
  PROVE  /\ Abstract!Question(what.text, what.day) = Question(what.text, what.day)
         /\ Abstract!Close(queue, what.id, status, what.day) = Close(queue, what.id, status, what.day)
         /\ Abstract!Mark(queue, what.ids, what.day) = Mark(queue, what.ids, what.day)
         /\ Abstract!Sweep(queue, what.day) = Sweep(queue, what.day)
  BY Zenon DEF Question, Close, Mark, Sweep, DueForArchive, OpenAs, IsOpen, IsQuestion,
     Abstract!Question, Abstract!Close, Abstract!Mark, Abstract!Sweep, Abstract!DueForArchive, Abstract!OpenAs,
     Abstract!IsOpen, Abstract!IsQuestion

LEMMA SameRules ==
  ASSUME NEW what \in Ops
  PROVE  /\ what \in Abstract!Ops
         /\ Abstract!Written(queue, what) = Written(queue, what)
         /\ Abstract!Outcome(queue, what) = Outcome(queue, what)
  BY SameAnswer, SameWrites DEF Ops, Abstract!Ops, Written, Abstract!Written, Outcome, Abstract!Outcome

(* A write is the abstract queue's command, done at once, and every other  *)
(* step leaves the file and the answers as they are.                       *)
THEOREM ImplementsAbstract == ASSUME StartsWell PROVE Spec => ImplementsAbstractQueue
  <1>1. Init => Abstract!Init
    <2> SUFFICES ASSUME Init PROVE Abstract!Init
      OBVIOUS
    <2>1. queue \in Seq({Corrupt} \cup {Question(text, day) : text \in Texts, day \in Days})
      BY DEF Init
    <2> QED
      BY <2>1 DEF Init, Abstract!Init, Corrupt, Question, Abstract!Corrupt, Abstract!Question
  <1>2. IInv /\ [Next]_vars => [Abstract!Next]_<<queue, reply>>
    <2> SUFFICES ASSUME IInv, [Next]_vars, ~UNCHANGED <<queue, reply>> PROVE Abstract!Next
      OBVIOUS
    <2>1. PICK w \in Writers : Write(w)
      BY DEF Next, Midnight, Command, Briefing, Start, Step, LockQueue, Refused, Unlock, Die, vars
    <2>2. op[w] \in Ops /\ seen[w] = queue /\ reply[w] = NoReply
      BY <2>1 DEF Write, IInv, OneHasTheFile, AnswersOnce
    <2>3. Abstract!Do(w, op[w])
      BY <2>1, <2>2, SameRules DEF Write, Abstract!Do
    <2> QED
      BY <2>2, <2>3, SameRules DEF Abstract!Next
  <1> QED
    BY QueueInvariant, <1>1, <1>2, PTL DEF Spec, Abstract!Spec, ImplementsAbstractQueue
===============================================================================
