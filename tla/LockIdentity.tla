---------------------------- MODULE LockIdentity ----------------------------
(***************************************************************************)
(* When a lock's holder counts as provably dead (isStale, currentIdentity  *)
(* and pidIsGone of src/guards/lock.mjs), against what really happened     *)
(* to the process that wrote it: processes start and die, pids are reused, *)
(* machines reboot, containers have pids of their own, and a file system   *)
(* may be shared by machines.                                              *)
(*                                                                         *)
(* VaultLock.tla takes the answer as the relation Judges and relies on it  *)
(* never calling a live process dead; StaleIsDead is that promise.         *)
(***************************************************************************)
EXTENDS Naturals

CONSTANTS
    Machines,       \* the machines that reach the repository
    Namespaces,     \* the pid namespaces
    Pids,           \* the process ids
    NoId,           \* an identity the platform does not have (null)
    HostOf,         \* the host name of each machine
    IdOf,           \* its machine id, or NoId
    NamespacesOf,   \* the pid namespaces that exist on it
    KnowsBoot,      \* the machines that have a boot id and a namespace link
    MaxBoot         \* how many times a machine reboots (a bound for TLC)

ASSUME SpacesAssumption == NamespacesOf \in [Machines -> SUBSET Namespaces]
ASSUME KnowsAssumption == KnowsBoot \subseteq Machines
ASSUME BootAssumption == MaxBoot \in Nat
ASSUME NoIdAssumption == NoId \notin Namespaces /\ NoId \notin Machines \X (0 .. MaxBoot)

(* The header's declared limit: no two machines share both the host name   *)
(* and the machine id (a pair cloned from one image would).                *)
ASSUME NoClones ==
    \A m, n \in Machines : HostOf[m] = HostOf[n] /\ IdOf[m] = IdOf[n] => m = n

(* Where there is no machine id, or no namespace link, the rule comes down *)
(* to the pid, which names one process only when the machine has one       *)
(* namespace.                                                              *)
OneNamespaceWithoutId ==
    \A m \in Machines : IdOf[m] = NoId \/ m \notin KnowsBoot =>
        \A a, b \in NamespacesOf[m] : a = b

VARIABLES
    boot,          \* the boots each machine has been through
    running,       \* the live processes
    writer,        \* the process the lock's text was written by
    writtenAt,     \* the boot it was written in
    writerAlive,   \* whether that very process still runs
    placed         \* whether there is a lock

vars == <<boot, running, writer, writtenAt, writerAlive, placed>>

Process == {p \in [machine : Machines, ns : Namespaces, pid : Pids] :
                p.ns \in NamespacesOf[p.machine]}

TypeOK ==
    /\ boot \in [Machines -> 0 .. MaxBoot]
    /\ running \in SUBSET Process
    /\ writer \in Process
    /\ writtenAt \in 0 .. MaxBoot
    /\ writerAlive \in BOOLEAN
    /\ placed \in BOOLEAN

Init ==
    /\ boot = [m \in Machines |-> 0]
    /\ running = {}
    /\ writer \in Process
    /\ writtenAt = 0
    /\ writerAlive = FALSE
    /\ placed = FALSE

(* currentIdentity, of a process of machine m in boot b.                   *)
Identity(p, b) ==
    [host         |-> HostOf[p.machine],
     machineId    |-> IdOf[p.machine],
     bootId       |-> IF p.machine \in KnowsBoot THEN <<p.machine, b>> ELSE NoId,
     pidNamespace |-> IF p.machine \in KnowsBoot THEN p.ns ELSE NoId]

(* ESRCH: no process with that pid where the judge stands.                 *)
PidIsGone(pid, me) ==
    [machine |-> me.machine, ns |-> me.ns, pid |-> pid] \notin running

(* Mutant: the pid namespaces are not compared (the first version).        *)
IsStaleNoNamespace(holder, pid, id, me) ==
    /\ holder.host = id.host
    /\ IF holder.machineId = NoId \/ id.machineId = NoId
       THEN holder.machineId = id.machineId /\ PidIsGone(pid, me)
       ELSE /\ holder.machineId = id.machineId
            /\ IF holder.bootId # id.bootId
               THEN holder.bootId # NoId /\ id.bootId # NoId
               ELSE PidIsGone(pid, me)

(* Mutant: another boot is one more identity that cannot be compared.      *)
IsStaleSameBootOnly(holder, pid, id, me) ==
    /\ holder.host = id.host
    /\ holder.machineId = id.machineId
    /\ holder.bootId = id.bootId
    /\ holder.pidNamespace = id.pidNamespace
    /\ PidIsGone(pid, me)

(* isStale, of the holder `holder` naming `pid`, judged by the process     *)
(* `me` whose identity is `id`.                                            *)
IsStale(holder, pid, id, me) ==
    /\ holder.host = id.host
    /\ IF holder.machineId = NoId \/ id.machineId = NoId
       THEN holder.machineId = id.machineId /\ PidIsGone(pid, me)
       ELSE /\ holder.machineId = id.machineId
            /\ IF holder.bootId # id.bootId
               THEN holder.bootId # NoId /\ id.bootId # NoId
               ELSE holder.pidNamespace = id.pidNamespace /\ PidIsGone(pid, me)

JudgedStale(me) ==
    IsStale(Identity(writer, writtenAt), writer.pid, Identity(me, boot[me.machine]), me)

Fork(p) ==
    /\ p \notin running
    /\ running' = running \cup {p}
    /\ UNCHANGED <<boot, writer, writtenAt, writerAlive, placed>>

Exit(p) ==
    /\ p \in running
    /\ running' = running \ {p}
    /\ writerAlive' = (writerAlive /\ writer # p)
    /\ UNCHANGED <<boot, writer, writtenAt, placed>>

(* A lock is placed: no lock is there, or the one there was judged stale   *)
(* and is replaced.                                                        *)
Place(p) ==
    /\ p \in running
    /\ ~placed \/ JudgedStale(p)
    /\ placed' = TRUE
    /\ writer' = p
    /\ writtenAt' = boot[p.machine]
    /\ writerAlive' = TRUE
    /\ UNCHANGED <<boot, running>>

(* A reboot, or a power loss: every process of the machine is gone.        *)
Reboot(m) ==
    /\ boot[m] < MaxBoot
    /\ boot' = [boot EXCEPT ![m] = @ + 1]
    /\ running' = {p \in running : p.machine # m}
    /\ writerAlive' = (writerAlive /\ writer.machine # m)
    /\ UNCHANGED <<writer, writtenAt, placed>>

Next ==
    \/ \E p \in Process : Fork(p) \/ Exit(p) \/ Place(p)
    \/ \E m \in Machines : Reboot(m)

Spec == Init /\ [][Next]_vars

-----------------------------------------------------------------------------
(* A lock is judged stale only when the process that wrote it is dead,     *)
(* whoever judges: every doubt resolves to "held".                         *)
StaleIsDead == placed => \A me \in running : JudgedStale(me) => ~writerAlive

(* A lock left by a dead process of this machine does not stay for ever:   *)
(* after a reboot any process of the machine may replace it, and before    *)
(* one any process of its namespace, unless its pid names a new process.   *)
DeadIsReclaimable ==
    placed /\ ~writerAlive =>
        \A me \in running :
            /\ me.machine = writer.machine
            /\ IdOf[me.machine] # NoId /\ me.machine \in KnowsBoot
            /\ writtenAt # boot[me.machine] \/ (me.ns = writer.ns /\ PidIsGone(writer.pid, me))
            => JudgedStale(me)

(* What StaleIsDead rests on: a writer that lives runs, in the boot it     *)
(* wrote in.                                                               *)
LivingWriterRuns ==
    writerAlive => writer \in running /\ writtenAt = boot[writer.machine]

IInv == TypeOK /\ LivingWriterRuns
=============================================================================
