----------------------------- MODULE InitLedger -----------------------------
(***************************************************************************)
(* How `init`, `init --adopt` and installGate write: a plan of exclusive   *)
(* creations, a ledger of what was made, and its undo in reverse, while    *)
(* other processes make files in the same places, any call may fail and a  *)
(* signal may arrive.  src/commands/init.mjs, src/init/skeleton.mjs,       *)
(* src/init/machine.mjs, src/init/adopt.mjs, src/init/gate.mjs.            *)
(***************************************************************************)
EXTENDS Naturals, Sequences

CONSTANTS
    Places,     \* the paths a run may write, and those within them
    Chain,      \* for each path, the paths from the outermost down to it
    Vault, State, Machine, Git, Hook, Manifest,
    Plans,      \* for each command, its steps in order: [does, path]
    None,
    HalfMade,   \* a mkdir of two levels may fail after the first
    MaxOthers,  \* bound: what other processes make
    MaxFaults   \* bound: calls that fail

(* As the community modules define them: the proofs about Setup load all   *)
(* that an instance of this module extends, in every obligation.           *)
ToSet(s) == {s[i] : i \in DOMAIN s}
Front(s) == SubSeq(s, 1, Len(s) - 1)
Last(s)  == s[Len(s)]

Does == {"private", "new", "own", "fill", "wire", "record"}

Above(p) == {Chain[p][i] : i \in 1 .. Len(Chain[p]) - 1}

(* A plan of the kit's: only the gate points git at the hook, and records  *)
(* it last; only .git is made alone, and what fills it is made after it.   *)
PlanIsTheKits(c) ==
    \A i \in DOMAIN Plans[c] : LET now == Plans[c][i] IN
        /\ now.does = "private" => now.path = State
        /\ now.does \in {"private", "new"} => Git \notin Above(now.path) \cup {now.path}
        /\ now.does = "own" => now.path = Git
        /\ now.does = "fill" => /\ Git \in Above(now.path) /\ Above(now.path) \subseteq Above(Git) \cup {Git}
                               /\ \E j \in 1 .. i - 1 : Plans[c][j].does = "own"
        /\ now.does \in {"wire", "record"} => c = "gate"
        /\ now.does = "record" => i = Len(Plans[c])

LedgerAssumption ==
    /\ None \notin Places /\ None \notin {"ours", "elsewhere"} /\ None \notin [by : {"run", "other", "start"}, dir : BOOLEAN]
    /\ {Vault, State, Git, Manifest} \subseteq Places
    /\ Chain \in [Places -> Seq(Places)]
    /\ \A p \in Places : /\ Chain[p] # <<>> /\ Last(Chain[p]) = p
                         /\ \A i \in DOMAIN Chain[p] : Chain[Chain[p][i]] = SubSeq(Chain[p], 1, i)
    /\ DOMAIN Plans \subseteq {"init", "adopt", "gate"}
    /\ \A c \in DOMAIN Plans : Plans[c] \in Seq([does : Does, path : Places]) /\ PlanIsTheKits(c)

VARIABLES
    fs,        \* what is at each path and who made it
    loose,     \* the state directory's mode is not the private one
    hooksPath, \* None, "ours", or "elsewhere"
    listed,    \* the manifest records the hook
    command, step,
    ledger,    \* what this command made, in order
    wiredHere, signal, failed,
    left,      \* what could not be undone
    phase,     \* "idle", "write", "undo", "done", "undone"
    others, faults,
    before     \* history: loose and hooksPath as the command found them

vars == <<fs, loose, hooksPath, listed, command, step, ledger, wiredHere, signal, failed, left, phase, others, faults, before>>
disk == <<fs, loose, hooksPath, listed>>
kept == <<command, signal, others, before>>

File(by)  == [by |-> by, dir |-> FALSE]
Dir(by)   == [by |-> by, dir |-> TRUE]
There(p)  == fs[p] # None
Parents(p) == Above(p)
Reached(p) == \A q \in Parents(p) : There(q) => fs[q].dir
InDir(p)   == {q \in Places : p \in Parents(q) /\ There(q)}

TypeOK ==
    /\ fs \in [Places -> {None} \cup [by : {"run", "other", "start"}, dir : BOOLEAN]]
    /\ loose \in BOOLEAN /\ listed \in BOOLEAN /\ wiredHere \in BOOLEAN
    /\ hooksPath \in {None, "ours", "elsewhere"}
    /\ ledger \in Seq([kind : {"file", "dir", "tree", "mode"}, path : Places])
    /\ left \subseteq Places
    /\ phase \in {"idle", "write", "undo", "done", "undone"}

Init ==
    /\ \E old \in SUBSET {Vault, State, Manifest} :
          LET dirs == (UNION {Parents(p) : p \in old}) \cup (old \ {Manifest})
          IN  /\ fs = [p \in Places |-> IF p \in dirs THEN Dir("start")
                                        ELSE IF p \in old THEN File("start") ELSE None]
              /\ loose \in BOOLEAN /\ (loose => State \in old)
    /\ hooksPath \in {None, "ours", "elsewhere"}
    /\ listed = FALSE /\ command = None /\ step = 1 /\ ledger = <<>>
    /\ wiredHere = FALSE /\ signal = FALSE /\ failed = FALSE /\ left = {}
    /\ phase = "idle" /\ others = 0 /\ faults = 0
    /\ before = [loose |-> loose, hooksPath |-> hooksPath]

(* Another process makes a file or a directory where there is nothing.     *)
Other(p) ==
    /\ others < MaxOthers /\ others' = others + 1
    /\ phase \notin {"done", "undone"}
    /\ ~There(p) /\ \A q \in Parents(p) : There(q) /\ fs[q].dir
    /\ \E made \in {File("other"), Dir("other")} : fs' = [fs EXCEPT ![p] = made]
    /\ UNCHANGED <<loose, hooksPath, listed, command, step, ledger, wiredHere, signal, failed, left, phase, faults, before>>

(***************************************************************************)
(* The checks, the second pass of them just before the first write.        *)
(***************************************************************************)

(* inspectTarget, inspectAdoptTarget and inspectGate: a vault is made      *)
(* where there is nothing, adopted where it has no manifest, and gets the  *)
(* gate where it has one and nothing of the person's is in the way.        *)
Allowed(c) ==
    CASE c = "init"  -> ~There(Machine) /\ Reached(Vault) /\ (There(Vault) => fs[Vault].dir /\ InDir(Vault) = {})
      [] c = "adopt" -> ~There(Machine) /\ There(Vault) /\ fs[Vault].dir /\ ~There(Manifest)
      [] c = "gate"  -> There(Manifest) /\ ~fs[Manifest].dir /\ ~There(Hook) /\ hooksPath # "elsewhere"

(* The gate runs by itself, or once an adoption is written.                *)
Begin(c) ==
    /\ phase = "idle" \/ (phase = "done" /\ command = "adopt" /\ c = "gate")
    /\ Allowed(c)
    /\ command' = c /\ phase' = "write" /\ step' = 1 /\ ledger' = <<>>
    /\ before' = [loose |-> loose, hooksPath |-> hooksPath]
    /\ fs' = [p \in Places |-> IF There(p) /\ fs[p].by = "run" THEN [fs[p] EXCEPT !.by = "start"] ELSE fs[p]]
    /\ UNCHANGED <<loose, hooksPath, listed, wiredHere, signal, failed, left, others, faults>>

(***************************************************************************)
(* The writes.                                                             *)
(***************************************************************************)

At(does, p) ==
    /\ phase = "write" /\ ~failed /\ step <= Len(Plans[command])
    /\ Plans[command][step] = [does |-> does, path |-> p]

(* The directories mkdir makes: from the first that is missing down to the *)
(* last of a chain.                                                        *)
Found(chain) ==
    CHOOSE n \in 0 .. Len(chain) : (\A i \in 1 .. n : There(chain[i])) /\ (n < Len(chain) => ~There(chain[n + 1]))
Missing(chain) == [i \in 1 .. Len(chain) - Found(chain) |-> chain[Found(chain) + i]]
WithDirs(chain) == [q \in Places |-> IF q \in ToSet(Missing(chain)) THEN Dir("run") ELSE fs[q]]
Made(chain) == [i \in 1 .. Len(Missing(chain)) |-> [kind |-> "dir", path |-> Missing(chain)[i]]]

Wrote == step' = step + 1 /\ UNCHANGED <<wiredHere, failed, left, phase, faults>> /\ UNCHANGED kept

(* The state directory: its old mode is recorded before it is tightened.   *)
Private(p) ==
    /\ At("private", p)
    /\ Reached(p) /\ (There(p) => fs[p].dir)
    /\ fs' = WithDirs(Chain[p])
    /\ loose' = FALSE
    /\ ledger' = ledger \o Made(Chain[p]) \o (IF loose THEN <<[kind |-> "mode", path |-> p]>> ELSE <<>>)
    /\ Wrote /\ UNCHANGED <<hooksPath, listed>>

(* writeNew: exclusive.                                                    *)
WriteNew(p) ==
    /\ At("new", p)
    /\ Reached(p) /\ ~There(p)
    /\ fs' = [WithDirs(Front(Chain[p])) EXCEPT ![p] = File("run")]
    /\ ledger' = ledger \o Made(Front(Chain[p])) \o <<[kind |-> "file", path |-> p]>>
    /\ Wrote /\ UNCHANGED <<loose, hooksPath, listed>>

(* Mutant: a file is recorded once all of it is written.                   *)
CutShortUnrecorded(p) ==
    /\ At("new", p) /\ faults < MaxFaults
    /\ Reached(p) /\ ~There(p)
    /\ fs' = [WithDirs(Front(Chain[p])) EXCEPT ![p] = File("run")]
    /\ ledger' = ledger \o Made(Front(Chain[p]))
    /\ failed' = TRUE /\ faults' = faults + 1
    /\ UNCHANGED <<loose, hooksPath, listed, step, wiredHere, left, phase>> /\ UNCHANGED kept

(* The disk is full after the open: the file is there and recorded.        *)
CutShort(p) ==
    /\ At("new", p) /\ faults < MaxFaults
    /\ Reached(p) /\ ~There(p)
    /\ fs' = [WithDirs(Front(Chain[p])) EXCEPT ![p] = File("run")]
    /\ ledger' = ledger \o Made(Front(Chain[p])) \o <<[kind |-> "file", path |-> p]>>
    /\ failed' = TRUE /\ faults' = faults + 1
    /\ UNCHANGED <<loose, hooksPath, listed, step, wiredHere, left, phase>> /\ UNCHANGED kept

(* .git, made alone: a repository another made is never taken for ours.    *)
OwnTree(p) ==
    /\ At("own", p)
    /\ ~There(p) /\ \A q \in Parents(p) : There(q) /\ fs[q].dir
    /\ fs' = [fs EXCEPT ![p] = Dir("run")]
    /\ ledger' = ledger \o <<[kind |-> "tree", path |-> p]>>
    /\ Wrote /\ UNCHANGED <<loose, hooksPath, listed>>

(* git init and git config fill it, and are not in the ledger.             *)
Fill(p) ==
    /\ At("fill", p)
    /\ fs' = [fs EXCEPT ![p] = IF There(p) THEN @ ELSE File("run")]
    /\ Wrote /\ UNCHANGED <<ledger, loose, hooksPath, listed>>

(* installGate points git at the hook only where nothing did.              *)
Wire(p) ==
    /\ At("wire", p)
    /\ hooksPath' = "ours" /\ wiredHere' = (before.hooksPath = None)
    /\ step' = step + 1
    /\ UNCHANGED <<fs, loose, listed, ledger, failed, left, phase, faults>> /\ UNCHANGED kept

Record(p) ==
    /\ At("record", p)
    /\ There(p) /\ ~fs[p].dir
    /\ listed' = TRUE
    /\ Wrote /\ UNCHANGED <<fs, ledger, loose, hooksPath>>

(* A step finds something in its way, or its call fails.                   *)
Fail ==
    /\ phase = "write" /\ ~failed /\ step <= Len(Plans[command])
    /\ LET now == Plans[command][step]
           inTheWay == \/ ~Reached(now.path)
                       \/ now.does \in {"new", "own"} /\ There(now.path)
                       \/ now.does = "own" /\ \E q \in Parents(now.path) : ~There(q)
                       \/ now.does = "private" /\ There(now.path) /\ ~fs[now.path].dir
       IN  \/ inTheWay /\ UNCHANGED faults
           \/ faults < MaxFaults /\ faults' = faults + 1
    /\ failed' = TRUE
    /\ UNCHANGED <<fs, loose, hooksPath, listed, step, ledger, wiredHere, left, phase>> /\ UNCHANGED kept

(* A mkdir of several levels that fails made the first, and threw before   *)
(* makeDirs recorded anything.                                             *)
HalfDirs(p) ==
    /\ HalfMade
    /\ At("private", p) \/ At("new", p)
    /\ faults < MaxFaults /\ faults' = faults + 1
    /\ Reached(p) /\ Len(Missing(Chain[p])) > 1
    /\ fs' = [fs EXCEPT ![Head(Missing(Chain[p]))] = Dir("run")]
    /\ failed' = TRUE
    /\ UNCHANGED <<loose, hooksPath, listed, step, ledger, wiredHere, left, phase>> /\ UNCHANGED kept

(* SIGINT or SIGTERM, held until the writes stop; the gate holds none.     *)
Signal ==
    /\ phase = "write" /\ command # "gate" /\ ~signal
    /\ signal' = TRUE
    /\ UNCHANGED <<fs, loose, hooksPath, listed, command, step, ledger, wiredHere, failed, left, phase, others, faults, before>>

(* What this run set in git is unset, then the ledger undone.              *)
Stop ==
    /\ phase = "write"
    /\ failed \/ step > Len(Plans[command])
    /\ IF failed \/ signal
       THEN /\ phase' = "undo"
            /\ hooksPath' = IF wiredHere THEN None ELSE hooksPath
       ELSE phase' = "done" /\ UNCHANGED hooksPath
    /\ UNCHANGED <<fs, loose, listed, step, ledger, wiredHere, failed, left, faults>> /\ UNCHANGED kept

(***************************************************************************)
(* rollback                                                                *)
(***************************************************************************)

(* Mutant: a directory is removed with all that is in it.                  *)
RemovedWithAll(e) ==
    CASE e.kind \in {"tree", "dir"} -> [q \in Places |-> IF e.path \in Parents(q) \cup {q} THEN None ELSE fs[q]]
      [] e.kind = "mode" -> fs
      [] OTHER           -> [fs EXCEPT ![e.path] = None]

(* What undoing an entry leaves: a file unlinked, a directory removed only *)
(* when empty, the one tree with all that is in it.                        *)
Removed(e) ==
    CASE e.kind = "tree" -> [q \in Places |-> IF e.path \in Parents(q) \cup {q} THEN None ELSE fs[q]]
      [] e.kind = "mode" -> fs
      [] e.kind = "dir" /\ InDir(e.path) # {} -> fs
      [] OTHER           -> [fs EXCEPT ![e.path] = None]

UndoOne ==
    /\ phase = "undo" /\ ledger # <<>>
    /\ LET e == Last(ledger)
       IN  \/ /\ fs' = Removed(e)
              /\ loose' = (loose \/ e.kind = "mode")
              /\ left' = IF e.kind # "mode" /\ fs'[e.path] # None THEN left \cup {e.path} ELSE left
              /\ UNCHANGED faults
           \/ /\ faults < MaxFaults /\ faults' = faults + 1
              /\ left' = left \cup {e.path}
              /\ UNCHANGED <<fs, loose>>
    /\ ledger' = Front(ledger)
    /\ UNCHANGED <<hooksPath, listed, step, wiredHere, failed, phase>> /\ UNCHANGED kept

Undone ==
    /\ phase = "undo" /\ ledger = <<>>
    /\ phase' = "undone"
    /\ UNCHANGED <<fs, loose, hooksPath, listed, step, ledger, wiredHere, failed, left, faults>> /\ UNCHANGED kept

Next ==
    \/ \E c \in DOMAIN Plans : Begin(c)
    \/ \E p \in Places :
          \/ Other(p) \/ Private(p) \/ WriteNew(p) \/ CutShort(p) \/ OwnTree(p) \/ Fill(p)
          \/ Wire(p) \/ Record(p) \/ HalfDirs(p)
    \/ Fail \/ Signal \/ Stop \/ UndoOne \/ Undone

Spec == Init /\ [][Next]_vars

(***************************************************************************)
(* Properties.                                                             *)
(***************************************************************************)

(* Nothing that was there, or that another process made in the gap, is     *)
(* written over or removed, except inside the .git this run made.          *)
OthersAreKept ==
    (phase \in {"write", "undo"}) =>
       (\A p \in Places :
          (There(p) /\ fs[p].by # "run" /\ ~(Git \in Parents(p) /\ fs[Git].by = "run")) => fs'[p] = fs[p])

(* After the undo all that is left of the run is what it names, and what   *)
(* holds those: the mode and git's configuration are as they were.         *)
UndoIsExact ==
    phase = "undone" =>
        /\ \A p \in Places : (There(p) /\ fs[p].by = "run") => \E q \in left : q = p \/ q \in Parents(p) \/ p \in Parents(q)
        /\ (loose # before.loose) => State \in left
        /\ hooksPath = before.hooksPath
        /\ ~listed

(* What init, an adoption or the gate leaves once it is undone.            *)
NothingIsLeftWrong == TypeOK /\ UndoIsExact
=============================================================================
