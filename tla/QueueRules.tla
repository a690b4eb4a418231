----------------------------- MODULE QueueRules -----------------------------
(***************************************************************************)
(* What each write does to the briefing's question queue, a file of one    *)
(* question per line (src/briefing/questions.mjs).  A text is known here   *)
(* by its normalised form; two forms may share an id, for an id is eight   *)
(* digits of a hash.  A day is a number.                                   *)
(***************************************************************************)
EXTENDS Integers, Sequences, FiniteSets

CONSTANTS
    Texts,          \* normalised texts
    Ids,
    IdOf,           \* questionId
    Never,          \* `null` for a limit
    DedupDays,      \* briefing.questions_dedup_days
    EscalateAfter,  \* briefing.question_escalate_after
    MaxAge,         \* briefing.question_max_age_days
    MaxQuestions,   \* briefing.max_questions
    Days            \* the days of the instance

ASSUME RulesAssumption ==
    /\ IdOf \in [Texts -> Ids]
    /\ Days \subseteq Nat
    /\ Never \notin Nat
    /\ {DedupDays, MaxAge, MaxQuestions} \subseteq Nat \cup {Never}
    /\ EscalateAfter \in (Nat \ {0}) \cup {Never}

(* A line that cannot be read is kept in its place, byte for byte.         *)
Corrupt == [kind |-> "corrupt"]

Question(text, day) ==
    [kind |-> "question", text |-> text, created |-> day, asked |-> <<>>,
     status |-> "open", closed |-> Never]

IsQuestion(entry) == entry.kind = "question"
IsOpen(entry) == IsQuestion(entry) /\ entry.status = "open"

OpenAlike(queue, text) == {i \in DOMAIN queue : IsOpen(queue[i]) /\ queue[i].text = text}
OpenAs(queue, id) == {i \in DOMAIN queue : IsOpen(queue[i]) /\ IdOf[queue[i].text] = id}
Named(queue, id)  == {i \in DOMAIN queue : IsQuestion(queue[i]) /\ IdOf[queue[i].text] = id}

AnsweredLately(queue, text, day) ==
    {i \in DOMAIN queue :
        /\ IsQuestion(queue[i]) /\ queue[i].text = text /\ queue[i].status = "answered"
        /\ DedupDays # Never /\ day - queue[i].closed <= DedupDays}

Escalated(entry) ==
    IsOpen(entry) /\ EscalateAfter # Never /\ Len(entry.asked) >= EscalateAfter

DueForArchive(entry, day) ==
    IsOpen(entry) /\ MaxAge # Never /\ day - entry.created > MaxAge

(* Mutant: only an open question is a duplicate.                           *)
AddOutcomeOpenOnly(queue, op) ==
    IF OpenAlike(queue, op.text) # {} THEN "open"
    ELSE IF OpenAs(queue, IdOf[op.text]) # {} THEN "collision"
    ELSE "added"

(* Mutant: only the text is compared, never the id.                        *)
AddOutcomeByText(queue, op) ==
    IF OpenAlike(queue, op.text) # {} THEN "open"
    ELSE IF AnsweredLately(queue, op.text, op.day) # {} THEN "answered"
    ELSE "added"

(* addQuestion: a duplicate of an open question or of one answered lately  *)
(* is not queued again, nor a text whose id an open question of another    *)
(* text has: nobody could then answer either by its id.                    *)
AddOutcome(queue, op) ==
    IF OpenAlike(queue, op.text) # {} THEN "open"
    ELSE IF AnsweredLately(queue, op.text, op.day) # {} THEN "answered"
    ELSE IF OpenAs(queue, IdOf[op.text]) # {} THEN "collision"
    ELSE "added"

(* openEntry: the one open question an id names.                           *)
CloseOutcome(queue, id) ==
    IF Named(queue, id) = {} THEN "unknown"
    ELSE IF OpenAs(queue, id) = {} THEN "not_open"
    ELSE IF \E i \in DOMAIN queue : OpenAs(queue, id) = {i} THEN "closed" ELSE "ambiguous"

Close(queue, id, status, day) ==
    [i \in DOMAIN queue |->
        IF OpenAs(queue, id) = {i}
        THEN [queue[i] EXCEPT !.status = status, !.closed = day] ELSE queue[i]]

(* markAsked: a question still open, and once per day.                     *)
Mark(queue, ids, day) ==
    [i \in DOMAIN queue |->
        IF /\ \E id \in ids : OpenAs(queue, id) = {i}
           /\ \A k \in DOMAIN queue[i].asked : queue[i].asked[k] # day
        THEN [queue[i] EXCEPT !.asked = Append(@, day)] ELSE queue[i]]

(* sweepQueue: everything due, in one write.                               *)
Sweep(queue, day) ==
    [i \in DOMAIN queue |->
        IF DueForArchive(queue[i], day)
        THEN [queue[i] EXCEPT !.status = "archived", !.closed = day] ELSE queue[i]]

(* selectQuestions: the escalated ones first, then the other open ones,    *)
(* each in the queue's order, as many as the limit lets through.           *)
Placed(queue) ==
    LET numbers == [i \in DOMAIN queue |-> i]
        first   == SelectSeq(numbers, LAMBDA i : Escalated(queue[i]))
        others  == SelectSeq(numbers, LAMBDA i : IsOpen(queue[i]) /\ ~Escalated(queue[i]))
        ordered == first \o others
        room    == IF MaxQuestions = Never \/ MaxQuestions > Len(ordered)
                   THEN Len(ordered) ELSE MaxQuestions
    IN  {IdOf[queue[ordered[k]].text] : k \in 1 .. room}

(* The writes.  `mark` is the briefing's record of what it placed.         *)
Ops ==
    [name : {"add"}, text : Texts, day : Days]
    \cup [name : {"answer", "archive"}, id : Ids, day : Days]
    \cup [name : {"mark"}, ids : SUBSET Ids, day : Days]
    \cup [name : {"sweep"}, day : Days]

(* A file as the commands alone leave it, which one edited by hand need    *)
(* not be: a text is queued again only when no open question has it nor    *)
(* one answered lately, and no two open questions share an id.             *)
Entries ==
    {Corrupt} \cup [kind : {"question"}, text : Texts, created : Days, asked : Seq(Days),
                   status : {"open", "answered", "archived"}, closed : Days \cup {Never}]

Typed(queue) ==
    /\ queue \in Seq(Entries)
    /\ \A i \in DOMAIN queue : IsQuestion(queue[i]) /\ queue[i].status = "answered" => queue[i].closed \in Days

Apart(queue) ==
    \A i, j \in DOMAIN queue :
        i < j /\ IsQuestion(queue[i]) /\ IsQuestion(queue[j]) /\ queue[i].text = queue[j].text =>
            /\ queue[i].status # "open"
            /\ queue[i].status = "answered" /\ DedupDays # Never => queue[j].created - queue[i].closed > DedupDays

OneOpen(queue) ==
    \A i, j \in DOMAIN queue :
        IsOpen(queue[i]) /\ IsOpen(queue[j]) /\ IdOf[queue[i].text] = IdOf[queue[j].text] => i = j

WellKept(queue) == Typed(queue) /\ Apart(queue) /\ OneOpen(queue)

(* What a write leaves in the file.                                        *)
Written(queue, op) ==
    IF op.name = "add"
    THEN IF AddOutcome(queue, op) = "added" THEN Append(queue, Question(op.text, op.day)) ELSE queue
    ELSE IF op.name = "answer" THEN Close(queue, op.id, "answered", op.day)
    ELSE IF op.name = "archive" THEN Close(queue, op.id, "archived", op.day)
    ELSE IF op.name = "mark" THEN Mark(queue, op.ids, op.day)
    ELSE Sweep(queue, op.day)

(* What its command answers.                                               *)
Outcome(queue, op) ==
    IF op.name = "add" THEN AddOutcome(queue, op)
    ELSE IF op.name \in {"answer", "archive"} THEN CloseOutcome(queue, op.id)
    ELSE "done"
=============================================================================
