---------------------------- MODULE RuntimeLease ----------------------------
(* The lease file of a checkout, .projector/runtime.lock: a process that     *)
(* watches the checkout takes it, status and doctor only look at it.  Every  *)
(* access to the file is a step of its own, as nothing locks it: a process   *)
(* that finds the lease of a dead one removes the file by its name, whoever  *)
(* has written it by then.                                                   *)
EXTENDS Naturals

CONSTANTS
    Runtimes,    \* processes that take the lease, once each
    Lookers      \* processes that only look at it

ASSUME RuntimesDiffer == Runtimes \cap Lookers = {}
ASSUME NobodyIsNone == "nobody" \notin Runtimes

Processes == Runtimes \cup Lookers
NoLease == [owner |-> "nobody", written |-> FALSE]
Lease(p) == [owner |-> p, written |-> TRUE]
Torn(p) == [Lease(p) EXCEPT !.written = FALSE]

VARIABLES
    lock,   \* the file: who created it, and whether its lines are in it yet
    pc,     \* where each process is
    read,   \* the owner each process has read in the file
    overtaken   \* history variable: whose file was removed for another's

vars == <<lock, pc, read, overtaken>>

Idle == "idle"
Gone == "gone"
Running(p) == pc[p] # Gone
Acquiring == {"create", "write", "exists", "read", "check", "remove"}
Examining == {"check", "remove"}
Holding == {"held", "release"}

Init ==
    /\ lock = NoLease
    /\ pc = [p \in Processes |-> Idle]
    /\ read \in [Processes -> {"nobody"}]
    /\ overtaken = {}

Goes(p, here, there) == pc[p] = here /\ pc' = [pc EXCEPT ![p] = there]

\* What a process does that has found nobody holding the lease.
FreeToTake(p) == "create"
Free(p) == IF p \in Runtimes THEN "create" ELSE "done"

-----------------------------------------------------------------------------
Start(p) ==
    /\ Goes(p, Idle, IF p \in Runtimes THEN "create" ELSE "exists")
    /\ UNCHANGED <<lock, read, overtaken>>

\* A bug: the file is created even if there is one.
CreateAnew(p) ==
    /\ Goes(p, "create", "write")
    /\ lock' = Torn(p)
    /\ UNCHANGED <<read, overtaken>>

Create(p) ==
    /\ lock = NoLease
    /\ Goes(p, "create", "write")
    /\ lock' = Torn(p)
    /\ UNCHANGED <<read, overtaken>>

\* A bug: the file in the way is not looked at.
CreateRetried(p) ==
    /\ lock # NoLease
    /\ Goes(p, "create", "create")
    /\ UNCHANGED <<lock, read, overtaken>>

CreateRefused(p) ==
    /\ lock # NoLease
    /\ Goes(p, "create", "exists")
    /\ UNCHANGED <<lock, read, overtaken>>

\* The lines go into the file that was created, even if it has lost its name.
Write(p) ==
    /\ Goes(p, "write", "held")
    /\ lock' = IF lock = Torn(p) THEN Lease(p) ELSE lock
    /\ UNCHANGED <<read, overtaken>>

\* The disk refuses the lines: acquire fails, and its file stays as it is.
WriteFails(p) ==
    /\ Goes(p, "write", "refused")
    /\ UNCHANGED <<lock, read, overtaken>>

Exists(p) ==
    /\ Goes(p, "exists", IF lock = NoLease THEN Free(p) ELSE "read")
    /\ UNCHANGED <<lock, read, overtaken>>

\* A file gone in between is an error; one without its lines is nobody's.
Read(p) ==
    /\ Goes(p, "read", IF lock = NoLease THEN "refused"
                       ELSE IF lock.written THEN "check" ELSE Free(p))
    /\ read' = [read EXCEPT ![p] = lock.owner]
    /\ UNCHANGED <<lock, overtaken>>

\* Bugs: the owner is not asked after; any owner is in the way.
CheckNothing(p) == Goes(p, "check", "remove") /\ UNCHANGED <<lock, read, overtaken>>
CheckRefuses(p) == Goes(p, "check", "refused") /\ UNCHANGED <<lock, read, overtaken>>

Check(p) ==
    /\ Goes(p, "check", IF Running(read[p]) THEN "refused" ELSE "remove")
    /\ UNCHANGED <<lock, read, overtaken>>

\* The file is removed by its name, for the one that had owner in it.
RemoveNamed(owner) ==
    /\ lock' = NoLease
    /\ overtaken' = overtaken \cup ({lock.owner} \ {owner, "nobody"})

Remove(p) ==
    /\ Goes(p, "remove", Free(p))
    /\ RemoveNamed(read[p])
    /\ UNCHANGED read

\* A bug: the dropped guard leaves the file.
DropForgets(p) == Goes(p, "held", "done") /\ UNCHANGED <<lock, read, overtaken>>

\* The guard is dropped: it reads the file and removes it if it is its own.
Drop(p) ==
    /\ Goes(p, "held", IF lock = Lease(p) THEN "release" ELSE "done")
    /\ UNCHANGED <<lock, read, overtaken>>

Release(p) ==
    /\ Goes(p, "release", "done")
    /\ RemoveNamed(p)
    /\ UNCHANGED read

\* A process ends, by itself or killed: nothing runs that would drop the guard.
Exit(p) ==
    /\ pc[p] \notin {Idle, Gone}
    /\ pc' = [pc EXCEPT ![p] = Gone]
    /\ UNCHANGED <<lock, read, overtaken>>

Steps(p) ==
    \/ Create(p) \/ CreateRefused(p) \/ Write(p)
    \/ Exists(p) \/ Read(p) \/ Check(p) \/ Remove(p)
    \/ Release(p)

Next == \E p \in Processes : Start(p) \/ Steps(p) \/ WriteFails(p) \/ Drop(p) \/ Exit(p)

\* A started process goes on; it drops a lease it holds when it pleases.
Fairness == \A p \in Processes : WF_vars(Steps(p))

Spec == Init /\ [][Next]_vars /\ Fairness

-----------------------------------------------------------------------------
TypeOK ==
    /\ lock \in {NoLease} \cup {Lease(p) : p \in Runtimes} \cup {Torn(p) : p \in Runtimes}
    /\ pc \in [Processes -> {Idle, "refused", "done", Gone} \cup Acquiring \cup Holding]
    /\ read \in [Processes -> Runtimes \cup {"nobody"}]
    /\ overtaken \subseteq Runtimes

(* acquire ("checkout runtime already active", lease.rs:64): a checkout is   *)
(* watched by one process at a time.  The code does not keep it: a lease     *)
(* that is examined is removed by its name, and may be another's by then.    *)
MutualExclusion == \A p, q \in Runtimes :
    pc[p] \in Holding /\ pc[q] \in Holding => p = q

(* What it keeps of that.  Whatever is killed, left behind and raced for: a  *)
(* process that has created the file loses it to no other that creates one,  *)
(* and to none that has read its name in it, but only to one that removes it *)
(* in the place of an older file.  So of two holders one was overtaken.      *)
LivingLeaseStays == \A p \in Runtimes \ overtaken :
    /\ pc[p] = "write" => lock = Torn(p)
    /\ pc[p] \in Holding => lock = Lease(p)

(* As long as no process that has come to take the lease has ended, one at a *)
(* time holds it: a file is only removed for an owner that has ended, and    *)
(* neither an empty file nor one given back meanwhile is mistaken for such.  *)
ExcludesWhileAllRun == (\A p \in Runtimes : Running(p)) => MutualExclusion

(* status and doctor report, and later attempts are refused for, a process   *)
(* that holds the lease or has ended, never one that lives on without it:    *)
(* its name would lock the checkout for as long as it runs.                  *)
NoPhantomHolder == lock.written /\ Running(lock.owner) => pc[lock.owner] \in Holding

\* An empty file without a writer, which reads as no lease and is not removed.
Abandoned == lock # NoLease /\ ~lock.written /\ pc[lock.owner] # "write"

(* acquire returns, though it loops, finding a file, then none, then a file: *)
(* unless somebody ended, or was refused by the disk, between creating and   *)
(* writing the file, and it stays.                                           *)
AcquireReturns ==
    <>[]Abandoned \/ \A p \in Runtimes : pc[p] = "create" ~> pc[p] \notin Acquiring

(* A lease nobody holds any more is not in the way: what a killed process    *)
(* left is gone once somebody has tried to take it and is still there.       *)
StaleLeaseGoes == \A p, q \in Runtimes :
    p # q => ((lock = Lease(q) /\ ~Running(q) /\ pc[p] = "create")
                ~> (lock # Lease(q) \/ ~Running(p)))
=============================================================================
