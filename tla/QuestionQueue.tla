--------------------------- MODULE QuestionQueue ----------------------------
(***************************************************************************)
(* The commands that write the question queue, and the briefing that shows *)
(* it and records what it showed.  Inside a round every one of them has    *)
(* joined the round's vault lock, so only the queue's own lock keeps them  *)
(* apart: taken before the file is read, let go after the rename, and left *)
(* behind by a process that dies.  VaultLock.tla has the lock's own steps. *)
(***************************************************************************)
EXTENDS QueueRules

CONSTANTS
    Writers,   \* one per run of a command
    NoReply,
    Nobody,    \* no holder of the queue lock
    First,     \* the queues to start from
    MaxLines   \* bound: lines of the file when an `add` starts

ASSUME QueueAssumption ==
    /\ Nobody \notin Writers
    /\ 0 \in Days
    /\ First \subseteq Seq({Corrupt} \cup {Question(text, day) : text \in Texts, day \in Days})
    /\ MaxLines \in Nat

VARIABLES
    queue,    \* the file
    today,    \* the day in the vault's time zone
    holder,   \* the queue lock: the writer it names, or Nobody
    marker,   \* a writer replacing a dead lock died and left its marker
    at,       \* where each writer is
    op,       \* what it was asked to do
    seen,     \* the file as it read it
    reply     \* what it answered

vars == <<queue, today, holder, marker, at, op, seen, reply>>

Places == {"idle", "lock", "write", "unlock", "over", "dead"}
NoOp   == [name |-> "none"]

TypeOK ==
    /\ today \in Days
    /\ holder \in Writers \cup {Nobody}
    /\ marker \in BOOLEAN
    /\ at \in [Writers -> Places]
    /\ op \in [Writers -> Ops \cup {NoOp}]

Init ==
    /\ queue \in First
    /\ today = 0
    /\ holder = Nobody /\ marker = FALSE
    /\ at = [w \in Writers |-> "idle"]
    /\ op = [w \in Writers |-> NoOp]
    /\ seen = [w \in Writers |-> <<>>]
    /\ reply = [w \in Writers |-> NoReply]

Midnight ==
    /\ today + 1 \in Days
    /\ today' = today + 1
    /\ UNCHANGED <<queue, holder, marker, at, op, seen, reply>>

Start(w, what) ==
    /\ at[w] = "idle"
    /\ at' = [at EXCEPT ![w] = "lock"]
    /\ op' = [op EXCEPT ![w] = what]
    /\ UNCHANGED <<queue, today, holder, marker, seen, reply>>

(* A `questions` command: its day is the one it started on.                *)
Command(w) ==
    \E what \in Ops :
        /\ what.day = today /\ what.name # "mark"
        /\ what.name = "sweep" => MaxAge # Never
        /\ what.name = "add" => Len(queue) < MaxLines
        /\ Start(w, what)

(* The briefing: it reads the queue with no lock, renders its text, and    *)
(* records as asked the questions that text shows; a prompt of the vault's *)
(* own may leave the questions out.                                        *)
Briefing(w, shown) ==
    /\ shown \in {{}, Placed(queue)}
    /\ IF shown = {}
       THEN /\ at[w] = "idle"
            /\ at' = [at EXCEPT ![w] = "over"]
            /\ UNCHANGED <<queue, today, holder, marker, op, seen, reply>>
       ELSE Start(w, [name |-> "mark", ids |-> shown, day |-> today])

HolderDied == holder # Nobody /\ at[holder] = "dead"

(* Mutant: the vault lock is trusted to keep writers apart.                *)
LockQueueJoined(w) ==
    /\ at[w] = "lock"
    /\ holder' = w
    /\ seen' = [seen EXCEPT ![w] = queue]
    /\ at' = [at EXCEPT ![w] = "write"]
    /\ UNCHANGED <<queue, today, marker, op, reply>>

(* lockQueue: a live holder is waited for, a dead one replaced unless a    *)
(* run doing so died midway.  The file is read under the lock.             *)
LockQueue(w) ==
    /\ at[w] = "lock"
    /\ holder = Nobody \/ (HolderDied /\ ~marker)
    /\ holder' = w
    /\ seen' = [seen EXCEPT ![w] = queue]
    /\ at' = [at EXCEPT ![w] = "write"]
    /\ UNCHANGED <<queue, today, marker, op, reply>>

(* Mutant: a reclaim that died is waited on like a live holder.            *)
RefusedNever(w) == FALSE /\ UNCHANGED vars

(* QUEUE_LOCK_RECLAIM_DIED: nothing was written.                           *)
Refused(w) ==
    /\ at[w] = "lock"
    /\ marker /\ HolderDied
    /\ at' = [at EXCEPT ![w] = "over"]
    /\ UNCHANGED <<queue, today, holder, marker, op, seen, reply>>

(* writeEntries: a private file renamed over the queue.                    *)
Write(w) ==
    /\ at[w] = "write"
    /\ queue' = Written(seen[w], op[w])
    /\ reply' = [reply EXCEPT ![w] = Outcome(seen[w], op[w])]
    /\ at' = [at EXCEPT ![w] = "unlock"]
    /\ seen' = [seen EXCEPT ![w] = <<>>]
    /\ UNCHANGED <<today, holder, marker, op>>

Unlock(w) ==
    /\ at[w] = "unlock"
    /\ holder' = IF holder = w THEN Nobody ELSE holder
    /\ at' = [at EXCEPT ![w] = "over"]
    /\ UNCHANGED <<queue, today, marker, op, seen, reply>>

(* A death.  One that replaces a dead lock may leave the marker behind.    *)
Die(w) ==
    /\ at[w] \in {"lock", "write", "unlock"}
    /\ at' = [at EXCEPT ![w] = "dead"]
    /\ seen' = [seen EXCEPT ![w] = <<>>]
    /\ marker' \in IF at[w] = "lock" /\ HolderDied THEN {marker, TRUE} ELSE {marker}
    /\ UNCHANGED <<queue, today, holder, op, reply>>

(* A writer's own steps, once it was started.                              *)
Step(w) == LockQueue(w) \/ Refused(w) \/ Write(w) \/ Unlock(w)

Next ==
    \/ Midnight
    \/ \E w \in Writers :
          Command(w) \/ Step(w) \/ Die(w) \/ \E shown \in SUBSET Ids : Briefing(w, shown)

Spec == Init /\ [][Next]_vars

(* The waiting has no limit but ends: the holder does one read, change and *)
(* rename, each command writes once, and every process that runs is        *)
(* scheduled.                                                              *)
FairSpec == Spec /\ \A w \in Writers : WF_vars(Step(w))

(***************************************************************************)
(* The strengthening of the properties.                                    *)
(***************************************************************************)

(* One writer at a time has the file, and what it read is still the file.  *)
OneHasTheFile ==
    \A w \in Writers :
        /\ at[w] \in {"write", "unlock"} => holder = w
        /\ at[w] = "write" => seen[w] = queue
        /\ at[w] \in {"lock", "write"} => op[w] \in Ops

(* A writer answers when it writes, and once.                              *)
AnswersOnce ==
    /\ DOMAIN reply = Writers /\ DOMAIN seen = Writers
    /\ \A w \in Writers : at[w] \in {"idle", "lock", "write"} => reply[w] = NoReply

IInv == TypeOK /\ OneHasTheFile /\ AnswersOnce /\ WellKept(queue)

(***************************************************************************)
(* Properties.                                                             *)
(***************************************************************************)

Abstract == INSTANCE AbstractQueue

(* Every write is one of the abstract queue: a command that answered took  *)
(* effect, on what the one before it left, wherever others run or die.     *)
ImplementsAbstractQueue == Abstract!Spec

(* Every open question can be answered: no two share a text, or an id.     *)
EveryOpenIsAnswerable == \A id \in Ids : Cardinality(OpenAs(queue, id)) <= 1

(* A question the person answered is not put to them again within the days *)
(* the vault sets, even by a command that began before the answer.         *)
AnsweredNotAskedAgain ==
    \A i, j \in DOMAIN queue :
        (/\ i < j /\ IsQuestion(queue[i]) /\ IsQuestion(queue[j])
         /\ queue[i].text = queue[j].text /\ queue[i].status = "answered" /\ DedupDays # Never)
            => queue[j].created - queue[i].closed > DedupDays

(* Every open question can be answered, and one that was answered is not   *)
(* put again within the days the vault sets.                               *)
QuestionsAreAskedOnce == EveryOpenIsAnswerable /\ AnsweredNotAskedAgain

(* No command waits for ever, on a holder at work or on one that died.     *)
CommandsEnd == \A w \in Writers : at[w] = "lock" ~> at[w] \in {"over", "dead"}
=============================================================================
