------------------------------ MODULE Schedule ------------------------------
(***************************************************************************)
(* `schedule install | uninstall | status` of one vault's curator: the     *)
(* entry's files, the crontab they share with the person, and what each    *)
(* scheduler holds of them, which changes only by the commands a step      *)
(* runs.  A step may fail, a command may be killed between two, the user   *)
(* bus comes and goes, and the person edits the configuration and the      *)
(* crontab.  src/commands/schedule.mjs.                                    *)
(***************************************************************************)
EXTENDS Naturals, Sequences

CONSTANTS
    Systems,    \* the operating systems of the run
    Failing,    \* the programs that may fail for reasons of their own
    None,
    Unended,    \* the person may remove a block's END line
    MaxPerson,  \* bound: what the person does
    MaxRuns,    \* bound: commands started
    MaxFaults   \* bound: failed steps, kills and bus changes

(* As the community modules define them: the proofs about Setup load all   *)
(* that an instance of this module extends, in every obligation.           *)
ToSet(s) == {s[i] : i \in DOMAIN s}
Min(S)   == CHOOSE x \in S : \A y \in S : x <= y
RemoveAt(s, i) == SubSeq(s, 1, i - 1) \o SubSeq(s, i + 1, Len(s))

Platforms == {"systemd", "launchd", "cron", "taskscheduler"}
FilesOf(p) ==
    CASE p = "systemd" -> <<"service", "timer">>
      [] p = "launchd" -> <<"plist">>
      [] p = "taskscheduler" -> <<"cmd", "xml">>
      [] OTHER -> <<>>
Files == {"service", "timer", "plist", "cmd", "xml"}
Texts == 1 .. MaxPerson + 1     \* what install renders of a configuration
Refused == 0                    \* a configuration install refuses

ScheduleAssumption ==
    /\ Systems \subseteq {"linux", "darwin", "win32"}
    /\ Failing \subseteq {"systemctl", "bootout", "bootstrap", "schtasks", "powershell", "crontab"}
    /\ None \notin Texts \cup {Refused}

VARIABLES
    os, bus,
    want,      \* what the configuration renders to
    files,     \* the text of each of the entry's files
    held,      \* what the schedulers hold
    crontab,   \* its lines
    cmd,       \* the command that runs
    person, runs, faults

vars == <<os, bus, want, files, held, crontab, cmd, person, runs, faults>>

Line(what, n) == [what |-> what, n |-> n]
Block(v)      == <<Line("begin", 0), Line("entry", v), Line("end", 0)>>
Theirs(lines) == SelectSeq(lines, LAMBDA l : l.what = "person")

TypeOK ==
    /\ os \in Systems /\ bus \in BOOLEAN
    /\ want \in Texts \cup {Refused}
    /\ files \in [Files -> Texts \cup {None}]
    /\ held.service \in Texts \cup {None} /\ held.timer \in Texts \cup {None}
    /\ held.armed \in Texts \cup {None} /\ held.job \in Texts \cup {None}
    /\ held.task \in Texts \cup {None} /\ held.enabled \in BOOLEAN /\ held.taskOn \in BOOLEAN
    /\ crontab \in Seq([what : {"person", "begin", "entry", "end"}, n : Nat])

Idle == [does |-> None, platform |-> None, detected |-> FALSE, text |-> Refused, step |-> 0,
         read |-> <<>>, stopped |-> TRUE, answer |-> None]

Init ==
    /\ os \in Systems /\ bus = (os = "linux")
    /\ want = 1 /\ files = [f \in Files |-> None]
    /\ held = [service |-> None, timer |-> None, armed |-> None, enabled |-> FALSE,
               job |-> None, task |-> None, taskOn |-> FALSE]
    /\ crontab = <<>>
    /\ cmd = Idle
    /\ person = 0 /\ runs = 0 /\ faults = 0

(***************************************************************************)
(* What a scheduler fires for this vault.                                  *)
(***************************************************************************)
Both(a, b)   == IF a = None \/ b = None THEN {} ELSE {a, b}
Fires(p) ==
    CASE p = "systemd" -> Both(held.armed, held.service)
      [] p = "launchd" -> {held.job} \ {None}
      [] p = "taskscheduler" -> IF held.taskOn THEN Both(held.task, files["cmd"]) ELSE {}
      [] p = "cron" -> {l.n : l \in {m \in ToSet(crontab) : m.what = "entry"}}

(***************************************************************************)
(* The person's crontab split around the block.                            *)
(***************************************************************************)
At(lines, what, from) == {i \in from .. Len(lines) : lines[i].what = what}
Begin == IF At(crontab, "begin", 1) = {} THEN 0 ELSE Min(At(crontab, "begin", 1))
End   == IF At(crontab, "end", Begin + 1) = {} THEN 0 ELSE Min(At(crontab, "end", Begin + 1))
Refuses == Begin # 0 /\ (End = 0 \/ At(crontab, "begin", End + 1) # {})
OwnBlock == IF Begin = 0 THEN <<>> ELSE SubSeq(crontab, Begin, End)
OthersBefore == IF Begin = 0 THEN crontab ELSE SubSeq(crontab, 1, Begin - 1)      \* mutant: not what follows the block
Others == IF Begin = 0 THEN crontab
          ELSE SubSeq(crontab, 1, Begin - 1) \o SubSeq(crontab, End + 1, Len(crontab))

ElsewhereUnits(p) ==      \* mutant: the crontab is not looked at
    \E q \in Platforms \ {p, "cron", "taskscheduler"} : \E f \in ToSet(FilesOf(q)) : files[f] # None
Elsewhere(p) ==
    \/ \E q \in Platforms \ {p, "cron", "taskscheduler"} : \E f \in ToSet(FilesOf(q)) : files[f] # None
    \/ p # "cron" /\ At(crontab, "begin", 1) # {}

(***************************************************************************)
(* A command starts on the platform named or detected.                     *)
(***************************************************************************)
PlatformsOf == IF os = "win32" THEN {"taskscheduler"} ELSE Platforms \ {"taskscheduler"}
Detect ==
    IF os = "win32" THEN "taskscheduler"
    ELSE IF bus THEN "systemd" ELSE IF os = "darwin" THEN "launchd" ELSE "cron"

Start(does, p, detected) ==
    /\ cmd.does = None /\ runs < MaxRuns /\ runs' = runs + 1
    /\ p \in PlatformsOf /\ (detected => p = Detect)
    /\ want = Refused => does = "uninstall"
    /\ cmd' = [Idle EXCEPT !.does = does, !.platform = p, !.detected = detected, !.text = want, !.step = 1]
    /\ UNCHANGED <<os, bus, want, files, held, crontab, person, faults>>

Plan ==
    IF cmd.does = "status" THEN <<"compare">>
    ELSE IF cmd.does = "install" THEN
        CASE cmd.platform = "systemd" -> <<"write service", "write timer", "reload", "enable", "restart">>
          [] cmd.platform = "launchd" -> <<"write plist", "bootout", "bootstrap">>
          [] cmd.platform = "taskscheduler" -> <<"write cmd", "write xml", "create">>
          [] cmd.platform = "cron" -> <<"read", "write block">>
    ELSE
        CASE cmd.platform = "systemd" -> <<"look", "disable", "remove service", "remove timer", "reload">>
          [] cmd.platform = "launchd" -> <<"look", "bootout", "remove plist">>
          [] cmd.platform = "taskscheduler" -> <<"look", "delete", "remove cmd", "remove xml">>
          [] cmd.platform = "cron" -> <<"read", "write others">>

Step(s)     == cmd.does # None /\ cmd.answer = None /\ cmd.step \in DOMAIN Plan /\ Plan[cmd.step] = s
Onward       == cmd' = [cmd EXCEPT !.step = @ + 1]
Answer(a)   == cmd' = [cmd EXCEPT !.answer = a]
rest        == <<os, bus, want, person, runs>>

WriteOf(f)  == CASE f = "service" -> "write service" [] f = "timer" -> "write timer" [] f = "plist" -> "write plist"
                 [] f = "cmd" -> "write cmd" [] f = "xml" -> "write xml"
RemoveOf(f) == CASE f = "service" -> "remove service" [] f = "timer" -> "remove timer" [] f = "plist" -> "remove plist"
                 [] f = "cmd" -> "remove cmd" [] f = "xml" -> "remove xml"

Write(f) ==
    /\ Step(WriteOf(f))
    /\ files' = [files EXCEPT ![f] = cmd.text] /\ Onward
    /\ UNCHANGED <<held, crontab, faults, rest>>
Unlink(f) ==
    /\ Step(RemoveOf(f))
    /\ files' = [files EXCEPT ![f] = None] /\ Onward
    /\ UNCHANGED <<held, crontab, faults, rest>>

(***************************************************************************)
(* One program a step runs: what it does to what the scheduler holds, and  *)
(* when it answers that it did not.                                        *)
(***************************************************************************)
Program(s) == IF s \in {"reload", "enable", "restart", "disable"} THEN "systemctl"
              ELSE IF s \in {"create", "delete"} THEN "schtasks" ELSE s
Commands == {"reload", "enable", "restart", "disable", "bootout", "bootstrap", "create", "delete"}

Reloaded == [held EXCEPT !.service = files["service"], !.timer = files["timer"]]
Works(s) ==
    CASE s = "reload" -> bus
      [] s = "enable" -> bus /\ files["timer"] # None
      [] s = "restart" -> bus /\ held.timer # None
      [] s = "disable" -> bus /\ files["timer"] # None
      [] s = "bootout" -> held.job # None
      [] s = "bootstrap" -> os = "darwin" /\ held.job = None /\ files["plist"] # None
      [] s = "create" -> files["xml"] # None
      [] s = "delete" -> held.task # None
RestartedUnlessOn ==      \* mutant: an active timer is left as it is
    IF held.armed = None THEN [held EXCEPT !.armed = held.timer] ELSE held
Restarted == [held EXCEPT !.armed = held.timer]
Effect(s) ==
    CASE s = "reload" -> Reloaded
      [] s = "enable" -> IF held.enabled THEN held ELSE [Reloaded EXCEPT !.enabled = TRUE]
      [] s = "restart" -> Restarted
      [] s = "disable" -> [held EXCEPT !.enabled = FALSE, !.armed = None]
      [] s = "bootout" -> [held EXCEPT !.job = None]
      [] s = "bootstrap" -> [held EXCEPT !.job = files["plist"]]
      [] s = "create" -> [held EXCEPT !.task = files["xml"], !.taskOn = TRUE]
      [] s = "delete" -> [held EXCEPT !.task = None, !.taskOn = FALSE]

Run(s) ==
    /\ Step(s) /\ Works(s)
    /\ held' = Effect(s) /\ Onward
    /\ UNCHANGED <<files, crontab, faults, rest>>
RunFails(s) ==
    /\ Step(s)
    /\ \/ ~Works(s) /\ UNCHANGED faults
       \/ Program(s) \in Failing /\ faults < MaxFaults /\ faults' = faults + 1
    /\ \/ s = "bootout" /\ Onward
       \/ s # "bootout" /\ cmd.does = "install" /\ Answer("failed")
       \/ s # "bootout" /\ cmd.does = "uninstall" /\ cmd' = [cmd EXCEPT !.step = @ + 1, !.stopped = FALSE]
    /\ UNCHANGED <<files, held, crontab, rest>>

(***************************************************************************)
(* What uninstall finds.                                                   *)
(***************************************************************************)
Query ==      \* queryTask, when the question can be asked
    IF held.task = None THEN "absent" ELSE "present"
Asked(q) ==
    \/ q = Query /\ UNCHANGED faults
    \/ q = "unreadable" /\ "powershell" \in Failing /\ faults < MaxFaults /\ faults' = faults + 1

Nothing == IF cmd.detected /\ Elsewhere(cmd.platform) THEN "elsewhere" ELSE "nothing"
Present == \E f \in ToSet(FilesOf(cmd.platform)) : files[f] # None
Look ==
    /\ Step("look")
    /\ \E q \in {"absent", "present", "unreadable"} :
          /\ IF cmd.platform = "taskscheduler" THEN Asked(q) ELSE q = "absent" /\ UNCHANGED faults
          /\ IF ~Present /\ q = "absent" THEN Answer(Nothing)
             ELSE cmd' = [cmd EXCEPT !.step = IF cmd.platform = "taskscheduler" /\ q = "absent" THEN @ + 2 ELSE @ + 1]
    /\ UNCHANGED <<files, held, crontab, rest>>

Read ==
    /\ Step("read")
    /\ UNCHANGED <<files, held, crontab, rest>>
    /\ \/ /\ UNCHANGED faults
          /\ IF Refuses THEN Answer("failed")
             ELSE IF cmd.does = "uninstall" /\ OwnBlock = <<>> THEN Answer(Nothing)
             ELSE cmd' = [cmd EXCEPT !.step = @ + 1, !.read = Others]
       \/ "crontab" \in Failing /\ faults < MaxFaults /\ faults' = faults + 1 /\ Answer("failed")

NewCrontab == IF cmd.does = "install" THEN cmd.read \o Block(cmd.text) ELSE cmd.read
WriteCrontab ==
    /\ Step("write block") \/ Step("write others")
    /\ \/ crontab' = NewCrontab /\ Onward /\ UNCHANGED faults
       \/ "crontab" \in Failing /\ faults < MaxFaults /\ faults' = faults + 1 /\ Answer("failed") /\ UNCHANGED crontab
    /\ UNCHANGED <<files, held, rest>>

Finish ==
    /\ cmd.does # None /\ cmd.answer = None /\ cmd.step > Len(Plan)
    /\ Answer(IF cmd.does = "install" THEN "installed" ELSE IF cmd.stopped THEN "uninstalled" ELSE "unconfirmed")
    /\ UNCHANGED <<files, held, crontab, faults, rest>>

(***************************************************************************)
(* installedState: the files against what install would write now, then    *)
(* what the scheduler says.                                                *)
(***************************************************************************)
NoFile  == \A f \in ToSet(FilesOf(cmd.platform)) : files[f] = None
Current == \A f \in ToSet(FilesOf(cmd.platform)) : files[f] = cmd.text
TaskStateOfFiles(q) ==      \* mutant: the task registered is not compared
    IF q = "unreadable" THEN "inactive"
    ELSE IF NoFile /\ q = "absent" THEN "absent"
    ELSE IF ~Current THEN "outdated"
    ELSE IF q = "absent" \/ ~held.taskOn THEN "inactive" ELSE "active"
TaskState(q) ==
    IF q = "unreadable" THEN "inactive"
    ELSE IF NoFile /\ q = "absent" THEN "absent"
    ELSE IF ~Current THEN "outdated"
    ELSE IF q = "absent" THEN "inactive"
    ELSE IF held.task # cmd.text THEN "outdated"
    ELSE IF ~held.taskOn THEN "inactive" ELSE "active"
UnitState ==
    LET on == IF cmd.platform = "systemd" THEN bus /\ held.enabled /\ held.armed # None ELSE held.job # None
    IN  IF NoFile THEN "absent" ELSE IF ~Current THEN "outdated" ELSE IF on THEN "active" ELSE "inactive"
CronState ==
    IF Refuses THEN "failed"
    ELSE IF OwnBlock = <<>> THEN "absent" ELSE IF OwnBlock = Block(cmd.text) THEN "active" ELSE "outdated"

Compare ==
    /\ Step("compare")
    /\ IF cmd.platform = "taskscheduler" THEN \E q \in {"absent", "present", "unreadable"} : Asked(q) /\ Answer(TaskState(q))
       ELSE Answer(IF cmd.platform = "cron" THEN CronState ELSE UnitState) /\ UNCHANGED faults
    /\ UNCHANGED <<files, held, crontab, rest>>

Exit ==
    /\ cmd.answer # None /\ cmd' = Idle
    /\ UNCHANGED <<files, held, crontab, faults, rest>>
Kill ==
    /\ cmd.does # None /\ cmd.answer = None /\ faults < MaxFaults /\ faults' = faults + 1
    /\ cmd' = Idle
    /\ UNCHANGED <<files, held, crontab, rest>>

(***************************************************************************)
(* The person, and the machine around them.                                *)
(***************************************************************************)
ByPerson == person < MaxPerson /\ person' = person + 1
Configure ==
    /\ ByPerson /\ want' \in {person' + 1, Refused}
    /\ UNCHANGED <<os, bus, files, held, crontab, cmd, runs, faults>>
EditCrontab ==
    /\ ByPerson /\ os # "win32" /\ cmd.does = None
    /\ \/ crontab' = Append(crontab, Line("person", person'))
       \/ \E v \in {l.n : l \in {m \in ToSet(crontab) : m.what = "entry"}} : crontab' = crontab \o Block(v)
       \/ Unended /\ \E i \in At(crontab, "end", 1) : crontab' = RemoveAt(crontab, i)
    /\ UNCHANGED <<os, bus, want, files, held, cmd, runs, faults>>
TurnOff ==      \* by hand, in the scheduler's own way
    /\ ByPerson /\ cmd.does = None
    /\ held' \in {[held EXCEPT !.enabled = FALSE, !.armed = None], [held EXCEPT !.job = None],
                  [held EXCEPT !.taskOn = FALSE], [held EXCEPT !.task = None, !.taskOn = FALSE]}
    /\ held' # held
    /\ UNCHANGED <<os, bus, want, files, crontab, cmd, runs, faults>>
LogIn ==        \* the managers of the session start from the files
    /\ ByPerson /\ cmd.does = None
    /\ held' = [Reloaded EXCEPT !.armed = IF held.enabled THEN files["timer"] ELSE None, !.job = files["plist"]]
    /\ held' # held
    /\ UNCHANGED <<os, bus, want, files, crontab, cmd, runs, faults>>
BusChanges ==
    /\ os = "linux" /\ faults < MaxFaults /\ faults' = faults + 1 /\ bus' = ~bus
    /\ UNCHANGED <<os, want, files, held, crontab, cmd, person, runs>>

Next ==
    \/ \E does \in {"install", "uninstall", "status"}, p \in Platforms, d \in BOOLEAN : Start(does, p, d)
    \/ \E f \in Files : Write(f) \/ Unlink(f)
    \/ \E s \in Commands : Run(s) \/ RunFails(s)
    \/ Look \/ Read \/ WriteCrontab \/ Finish \/ Compare \/ Exit \/ Kill
    \/ Configure \/ EditCrontab \/ TurnOff \/ LogIn \/ BusChanges

Spec == Init /\ [][Next]_vars

-----------------------------------------------------------------------------
Answers(a) == cmd'.answer = a /\ cmd.answer # a

(* An install that answers that it is done, whatever older entry, failed   *)
(* step, killed command or logout came before, leaves the scheduler firing *)
(* what the configuration said as it began, and nothing older.             *)
InstalledFires == Answers("installed") => Fires(cmd.platform)' = {cmd.text}

(* An uninstall that answers that the entry is gone leaves nothing of this *)
(* vault firing on that platform; one that answers that there was nothing  *)
(* to remove, its platform detected, leaves no file and no block of an     *)
(* entry on any platform.                                                  *)
GoneIsGone ==
    /\ Answers("uninstalled") => Fires(cmd.platform)' = {}
    /\ Answers("nothing") /\ cmd.detected =>
          (\A f \in Files : files'[f] = None) /\ At(crontab', "begin", 1) = {}

(* Every line of the crontab that is not the vault's block is there, in    *)
(* its order, after what a command writes over it, whatever the person     *)
(* pasted beside the block.                                                *)
TheirLinesStay ==
    crontab' # crontab /\ person' = person => Theirs(crontab') = Theirs(crontab)

(* `status` answers active only when what the scheduler fires is what the  *)
(* configuration says: with cron and the Task Scheduler, it asks what they *)
(* hold.                                                                   *)
HeldIsShown ==
    Answers("active") /\ cmd.platform \in {"cron", "taskscheduler"} => Fires(cmd.platform) = {cmd.text}

(* The same of every platform, as the command's header says: exit 0 only   *)
(* when the entry is installed, current and enabled.                       *)
StatusIsTrue == Answers("active") => Fires(cmd.platform) = {cmd.text}
=============================================================================
