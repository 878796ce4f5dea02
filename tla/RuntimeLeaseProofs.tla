------------------------- MODULE RuntimeLeaseProofs -------------------------
(* What the lease keeps, for any number of processes that take it and look   *)
(* at it, killed at any point and interleaved in any way.                    *)
EXTENDS RuntimeLease, TLAPS

LookersLook == \A p \in Lookers : pc[p] \notin {"create", "write"} \cup Holding

\* Who is about to remove a file has read the name of one that has ended.
ReadersKnow == \A p \in Processes : pc[p] \in Examining => read[p] \in Runtimes
RemovedIsDead == \A p \in Processes : pc[p] = "remove" => ~Running(read[p])

\* So while all run the file is removed by its owner alone.
UndisturbedWhileAllRun == (\A p \in Runtimes : Running(p)) => overtaken = {}

IInv ==
    /\ TypeOK
    /\ LookersLook
    /\ ReadersKnow
    /\ RemovedIsDead
    /\ LivingLeaseStays
    /\ UndisturbedWhileAllRun
    /\ NoPhantomHolder

(* A file tells who created it, and whether it is written. *)
LEMMA LeasesDiffer ==
    ASSUME NEW p \in Runtimes, NEW q \in Runtimes
    PROVE  /\ Torn(p) # NoLease /\ Lease(p) # NoLease
           /\ Torn(p) # Lease(q) /\ Torn(p).owner = p /\ Lease(p).owner = p
           /\ ~Torn(p).written /\ Lease(p).written
           /\ (Lease(p) = Lease(q) => p = q)
           /\ (Torn(p) = Torn(q) => p = q)
  <1>1. /\ Torn(p).owner = p /\ Lease(p).owner = p /\ Torn(q).owner = q /\ Lease(q).owner = q
        /\ Torn(p).written = FALSE /\ Lease(p).written = TRUE /\ Lease(q).written = TRUE
        /\ NoLease.owner = "nobody"
    BY DEF Torn, Lease, NoLease
  <1> QED BY <1>1, NobodyIsNone

(* The file that is there was created by a process that takes the lease. *)
LEMMA FilesOwner ==
    ASSUME TypeOK
    PROVE  /\ lock.owner \in Runtimes \cup {"nobody"} /\ lock.written \in BOOLEAN
           /\ NoLease.owner = "nobody" /\ ~NoLease.written
           /\ lock # NoLease => lock.owner \in Runtimes /\ lock \in {Torn(lock.owner), Lease(lock.owner)}
           /\ lock.written => lock = Lease(lock.owner) /\ lock.owner \in Runtimes
  <1>1. NoLease.owner = "nobody" /\ NoLease.written = FALSE
    BY DEF NoLease
  <1>2. CASE lock = NoLease
    BY <1>1, <1>2
  <1>3. CASE \E p \in Runtimes : lock = Lease(p)
    <2>1. PICK p \in Runtimes : lock = Lease(p)
      BY <1>3
    <2>2. Lease(p).owner = p /\ Lease(p).written = TRUE
      BY DEF Lease
    <2> QED BY <1>1, <2>1, <2>2
  <1>4. CASE \E p \in Runtimes : lock = Torn(p)
    <2>1. PICK p \in Runtimes : lock = Torn(p)
      BY <1>4
    <2>2. Torn(p).owner = p /\ Torn(p).written = FALSE
      BY DEF Torn, Lease
    <2> QED BY <1>1, <2>1, <2>2
  <1> QED BY <1>2, <1>3, <1>4 DEF TypeOK

(* Nobody has come to take the lease to begin with. *)
LEMMA StartHolds == Init => IInv
  <1> SUFFICES ASSUME Init PROVE IInv
    OBVIOUS
  <1> QED BY RuntimesDiffer DEF Init, IInv, TypeOK, LookersLook, ReadersKnow, RemovedIsDead,
        LivingLeaseStays, UndisturbedWhileAllRun, NoPhantomHolder, NoLease, Processes, Idle, Gone,
        Holding, Examining, Acquiring

(* A step that leaves file and history alone, moves one process and gives it *)
(* no file it had not, keeps the invariant.                                  *)
LEMMA MoveHolds ==
    ASSUME IInv, NEW p \in Processes, NEW here, NEW there, Goes(p, here, there), UNCHANGED <<lock, overtaken>>,
           there \in {"refused", "done", Gone} \cup (Acquiring \ {"write"}) \cup {"release"},
           here # Gone,
           there = "create" => p \in Runtimes,
           there = "release" => here = "held",
           here \in Holding => there \in {"release", Gone} \/ lock # Lease(p),
           read' \in [Processes -> Runtimes \cup {"nobody"}],
           \A q \in Processes : q # p => read'[q] = read[q],
           there \in Examining => read'[p] \in Runtimes,
           there = "remove" => pc[read'[p]] = Gone
    PROVE  IInv'
  <1> USE DEF IInv
  <1>1. pc' = [pc EXCEPT ![p] = there] /\ pc[p] = here
    BY DEF Goes
  <1>2. pc'[p] = there /\ \A q \in Processes : q # p => pc'[q] = pc[q]
    BY <1>1 DEF TypeOK
  <1>3. \A q \in Processes : ~Running(q) => ~Running(q)'
    BY <1>1, <1>2 DEF Running
  <1>4. TypeOK'
    BY <1>1 DEF TypeOK, Idle, Gone, Acquiring, Holding
  <1>5. LookersLook'
    BY <1>1, <1>2, RuntimesDiffer DEF LookersLook, Gone, Acquiring, Holding, Processes
  <1>6. ReadersKnow' /\ RemovedIsDead'
    <2>1. \A q \in Processes : pc[q] = Gone => pc'[q] = Gone
      BY <1>1, <1>2
    <2>2. \A q \in Processes : /\ pc'[q] \in Examining => read'[q] \in Runtimes
                               /\ pc'[q] = "remove" => pc'[read'[q]] = Gone
      <3> SUFFICES ASSUME NEW q \in Processes
                   PROVE  /\ pc'[q] \in Examining => read'[q] \in Runtimes
                          /\ pc'[q] = "remove" => pc'[read'[q]] = Gone
        OBVIOUS
      <3>1. pc'[q] \in Examining => read'[q] \in Runtimes
        BY <1>2 DEF ReadersKnow
      <3>2. pc'[q] = "remove" => pc[read'[q]] = Gone
        BY <1>2 DEF RemovedIsDead, Running
      <3>3. pc'[q] = "remove" => read'[q] \in Processes
        BY <3>1 DEF Examining, Processes
      <3> QED BY <2>1, <3>1, <3>2, <3>3
    <2> QED BY <2>2 DEF ReadersKnow, RemovedIsDead, Running
  <1>7. LivingLeaseStays'
    BY <1>1, <1>2 DEF LivingLeaseStays, Gone, Acquiring, Holding, Processes
  <1>8. UndisturbedWhileAllRun'
    BY <1>3 DEF UndisturbedWhileAllRun, Processes
  <1>9. NoPhantomHolder'
    BY <1>1, <1>2, FilesOwner DEF NoPhantomHolder, Running, Gone, Acquiring, Holding, Processes
  <1> QED BY <1>4, <1>5, <1>6, <1>7, <1>8, <1>9

(* Removing the file by its name keeps the invariant, if it is another's     *)
(* only when somebody has ended.                                             *)
LEMMA RemovalHolds ==
    ASSUME IInv, NEW p \in Processes, NEW here, NEW there, Goes(p, here, there), NEW owner, RemoveNamed(owner),
           UNCHANGED read,
           there \in {"create", "done"}, there = "create" => p \in Runtimes, here # Gone,
           owner \in Runtimes => \A q \in Runtimes \ {p} : q = owner => ~Running(q),
           owner = p => here \in Holding,
           here \notin {"write"} /\ (here \in Holding => owner = p),
           (\A q \in Runtimes : Running(q)) => lock.owner \in {owner, "nobody"}
    PROVE  IInv'
  <1> USE DEF IInv
  <1>1. pc' = [pc EXCEPT ![p] = there] /\ pc[p] = here
    BY DEF Goes
  <1>2. pc'[p] = there /\ \A q \in Processes : q # p => pc'[q] = pc[q]
    BY <1>1 DEF TypeOK
  <1>3. \A q \in Processes : ~Running(q) <=> ~Running(q)'
    BY <1>1, <1>2 DEF Running, Gone
  <1>4. lock' = NoLease /\ overtaken' = overtaken \cup ({lock.owner} \ {owner, "nobody"})
    BY DEF RemoveNamed
  <1>5. TypeOK'
    BY <1>1, <1>4, FilesOwner DEF TypeOK, Acquiring
  <1>6. LookersLook'
    BY <1>1, <1>2, RuntimesDiffer DEF LookersLook, Holding, Processes
  <1>7. ReadersKnow' /\ RemovedIsDead'
    BY <1>2, <1>3 DEF ReadersKnow, RemovedIsDead, Examining, Running, Processes
  <1>8. LivingLeaseStays'
    <2> SUFFICES ASSUME NEW q \in Runtimes, q \notin overtaken', pc'[q] = "write" \/ pc'[q] \in Holding
                 PROVE  FALSE
      BY DEF LivingLeaseStays
    <2>1. q # p /\ pc'[q] = pc[q] /\ q \notin overtaken
      BY <1>2, <1>4 DEF Holding, Processes
    <2>2. lock \in {Torn(q), Lease(q)}
      BY <2>1 DEF LivingLeaseStays
    <2>3. lock.owner = q
      BY <2>2, LeasesDiffer
    <2>4. Running(q)
      BY <2>1 DEF Running, Gone, Holding
    <2> QED BY <1>4, <2>1, <2>3, <2>4, NobodyIsNone
  <1>9. UndisturbedWhileAllRun'
    BY <1>3, <1>4 DEF UndisturbedWhileAllRun, Processes
  <1>10. NoPhantomHolder'
    BY <1>4, FilesOwner DEF NoPhantomHolder
  <1> QED BY <1>5, <1>6, <1>7, <1>8, <1>9, <1>10

(* Every step of every process keeps the invariant. *)
LEMMA StepHolds == IInv /\ [Next]_vars => IInv'
  <1> SUFFICES ASSUME IInv, [Next]_vars PROVE IInv'
    OBVIOUS
  <1>1. CASE UNCHANGED vars
    BY <1>1 DEF vars, IInv, TypeOK, LookersLook, ReadersKnow, RemovedIsDead, LivingLeaseStays,
        UndisturbedWhileAllRun, NoPhantomHolder, Running
  <1>2. ASSUME NEW p \in Processes, Start(p) \/ Steps(p) \/ WriteFails(p) \/ Drop(p) \/ Exit(p)
        PROVE  IInv'
    <2>0. /\ read \in [Processes -> Runtimes \cup {"nobody"}]
          /\ pc[p] \in {Idle, "refused", "done", Gone} \cup Acquiring \cup Holding
          /\ p \in Lookers => pc[p] \notin {"create", "write"} \cup Holding
          /\ p \in Runtimes \/ p \in Lookers
      BY DEF IInv, TypeOK, LookersLook, Processes
    <2>1. CASE Start(p)
      <3> DEFINE there == IF p \in Runtimes THEN "create" ELSE "exists"
      <3>1. /\ Goes(p, Idle, there) /\ UNCHANGED <<lock, overtaken>> /\ read' = read
            /\ there \in {"create", "exists"} /\ (there = "create" => p \in Runtimes)
            /\ Idle \notin Holding /\ Idle # Gone
        BY <2>1 DEF Start, Idle, Gone, Holding
      <3> HIDE DEF there
      <3> QED BY <2>0, <3>1, MoveHolds DEF Acquiring, Examining
    <2>2. CASE Create(p)
      <3>1. pc[p] = "create" /\ p \in Runtimes /\ lock = NoLease /\ lock' = Torn(p)
        BY <2>0, <2>2 DEF Create, Goes
      <3>2. pc' = [pc EXCEPT ![p] = "write"] /\ UNCHANGED <<read, overtaken>>
        BY <2>2 DEF Create, Goes
      <3>3. pc'[p] = "write" /\ \A q \in Processes : q # p => pc'[q] = pc[q]
        BY <3>2 DEF IInv, TypeOK
      <3>4. \A q \in Processes : pc'[q] = Gone <=> pc[q] = Gone
        BY <3>1, <3>3 DEF Gone
      <3>5. TypeOK'
        BY <3>1, <3>2 DEF IInv, TypeOK, Acquiring
      <3>6. LookersLook'
        BY <3>1, <3>3, RuntimesDiffer DEF IInv, LookersLook, Processes
      <3>7. ReadersKnow'
        BY <3>2, <3>3 DEF IInv, ReadersKnow, Examining
      <3>8. RemovedIsDead'
        BY <3>2, <3>3, <3>4, <3>7 DEF IInv, RemovedIsDead, ReadersKnow, Examining, Running, Processes
      <3>9. LivingLeaseStays'
        BY <3>1, <3>2, <3>3, LeasesDiffer DEF IInv, LivingLeaseStays, Holding, Processes
      <3>10. UndisturbedWhileAllRun'
        BY <3>2, <3>4 DEF IInv, UndisturbedWhileAllRun, Running, Processes
      <3>11. NoPhantomHolder'
        BY <3>1, LeasesDiffer DEF NoPhantomHolder
      <3> QED BY <3>5, <3>6, <3>7, <3>8, <3>9, <3>10, <3>11 DEF IInv
    <2>3. CASE CreateRefused(p)
      <3>1. Goes(p, "create", "exists") /\ UNCHANGED <<lock, overtaken>> /\ read' = read
        BY <2>3 DEF CreateRefused
      <3> QED BY <2>0, <3>1, MoveHolds DEF Acquiring, Examining, Holding, Gone
    <2>4. CASE Write(p)
      <3>1. pc[p] = "write" /\ p \in Runtimes /\ lock' = IF lock = Torn(p) THEN Lease(p) ELSE lock
        BY <2>0, <2>4 DEF Write, Goes
      <3>2. pc' = [pc EXCEPT ![p] = "held"] /\ UNCHANGED <<read, overtaken>>
        BY <2>4 DEF Write, Goes
      <3>3. pc'[p] = "held" /\ \A q \in Processes : q # p => pc'[q] = pc[q]
        BY <3>2 DEF IInv, TypeOK
      <3>4. \A q \in Processes : pc'[q] = Gone <=> pc[q] = Gone
        BY <3>1, <3>3 DEF Gone
      <3>5. TypeOK'
        BY <3>1, <3>2 DEF IInv, TypeOK, Holding
      <3>6. LookersLook'
        BY <3>1, <3>3, RuntimesDiffer DEF IInv, LookersLook, Processes
      <3>7. ReadersKnow'
        BY <3>2, <3>3 DEF IInv, ReadersKnow, Examining
      <3>8. RemovedIsDead'
        BY <3>2, <3>3, <3>4, <3>7 DEF IInv, RemovedIsDead, ReadersKnow, Examining, Running, Processes
      <3>9. LivingLeaseStays'
        BY <3>1, <3>2, <3>3, LeasesDiffer DEF IInv, LivingLeaseStays, Holding, Processes
      <3>10. UndisturbedWhileAllRun'
        BY <3>2, <3>4 DEF IInv, UndisturbedWhileAllRun, Running, Processes
      <3>11. NoPhantomHolder'
        <4>1. CASE lock = Torn(p)
          BY <3>1, <3>3, <4>1, LeasesDiffer DEF NoPhantomHolder, Holding
        <4>2. CASE lock # Torn(p)
          BY <3>1, <3>3, <3>4, <4>2, FilesOwner DEF IInv, NoPhantomHolder, Running, Holding, Processes
        <4> QED BY <4>1, <4>2
      <3> QED BY <3>5, <3>6, <3>7, <3>8, <3>9, <3>10, <3>11 DEF IInv
    <2>5. CASE WriteFails(p)
      <3>1. Goes(p, "write", "refused") /\ UNCHANGED <<lock, overtaken>> /\ read' = read
        BY <2>5 DEF WriteFails
      <3> QED BY <2>0, <3>1, MoveHolds DEF Acquiring, Examining, Holding, Gone
    <2>6. CASE Exists(p)
      <3> DEFINE there == IF lock = NoLease THEN Free(p) ELSE "read"
      <3>1. Goes(p, "exists", there) /\ UNCHANGED <<lock, overtaken>> /\ read' = read
        BY <2>6 DEF Exists
      <3>2. there \in {"create", "done", "read"} /\ (there = "create" => p \in Runtimes)
        BY DEF Free
      <3> HIDE DEF there
      <3> QED BY <2>0, <3>1, <3>2, MoveHolds DEF Acquiring, Examining, Holding, Gone
    <2>7. CASE Read(p)
      <3> DEFINE there == IF lock = NoLease THEN "refused"
                          ELSE IF lock.written THEN "check" ELSE Free(p)
      <3>1. Goes(p, "read", there) /\ UNCHANGED <<lock, overtaken>>
        BY <2>7 DEF Read
      <3>2. there \in {"refused", "check", "create", "done"} /\ (there = "create" => p \in Runtimes)
        BY DEF Free
      <3>3. there = "check" => lock.owner \in Runtimes
        BY FilesOwner DEF IInv, Free
      <3>4. read' = [read EXCEPT ![p] = lock.owner] /\ lock.owner \in Runtimes \cup {"nobody"}
        BY <2>7, FilesOwner DEF IInv, Read
      <3>5. /\ read' \in [Processes -> Runtimes \cup {"nobody"}] /\ read'[p] = lock.owner
            /\ \A q \in Processes : q # p => read'[q] = read[q]
        BY <2>0, <3>4
      <3> HIDE DEF there
      <3> QED BY <2>0, <3>1, <3>2, <3>3, <3>5, MoveHolds DEF Acquiring, Examining, Holding, Gone
    <2>8. CASE Check(p)
      <3> DEFINE there == IF Running(read[p]) THEN "refused" ELSE "remove"
      <3>1. Goes(p, "check", there) /\ UNCHANGED <<lock, overtaken>> /\ read' = read
        BY <2>8 DEF Check
      <3>2. there \in {"refused", "remove"} /\ (there = "remove" => pc[read[p]] = Gone)
        BY DEF Running
      <3>3. read[p] \in Runtimes
        BY <3>1 DEF IInv, ReadersKnow, Goes, Examining
      <3> HIDE DEF there
      <3> QED BY <2>0, <3>1, <3>2, <3>3, MoveHolds DEF Acquiring, Examining, Holding, Gone
    <2>9. CASE Remove(p)
      <3>1. Goes(p, "remove", Free(p)) /\ RemoveNamed(read[p]) /\ read' = read
        BY <2>9 DEF Remove
      <3>2. Free(p) \in {"create", "done"} /\ (Free(p) = "create" => p \in Runtimes)
        BY DEF Free
      <3>3. pc[p] = "remove" /\ read[p] \in Runtimes /\ pc[read[p]] = Gone
        BY <3>1 DEF IInv, ReadersKnow, RemovedIsDead, Running, Goes, Examining
      <3>4. read[p] # p /\ ~Running(read[p])
        BY <3>3 DEF Gone, Running
      <3>5. \A q \in Runtimes \ {p} : q = read[p] => ~Running(q)
        BY <3>4
      <3>6. (\A q \in Runtimes : Running(q)) => lock.owner \in {read[p], "nobody"}
        BY <3>3, <3>4
      <3> QED BY <3>1, <3>2, <3>4, <3>5, <3>6, RemovalHolds DEF Gone, Holding
    <2>10. CASE Release(p)
      <3>1. Goes(p, "release", "done") /\ RemoveNamed(p) /\ read' = read
        BY <2>10 DEF Release
      <3>2. pc[p] = "release" /\ p \in Runtimes
        BY <2>0, <3>1 DEF Goes, Holding
      <3>3. (\A q \in Runtimes : Running(q)) => lock = Lease(p)
        BY <3>2 DEF IInv, UndisturbedWhileAllRun, LivingLeaseStays, Holding
      <3>4. (\A q \in Runtimes : Running(q)) => lock.owner \in {p, "nobody"}
        BY <3>2, <3>3, LeasesDiffer
      <3> QED BY <3>1, <3>2, <3>4, RemovalHolds DEF Gone, Holding
    <2>11. CASE Drop(p)
      <3> DEFINE there == IF lock = Lease(p) THEN "release" ELSE "done"
      <3>1. Goes(p, "held", there) /\ UNCHANGED <<lock, overtaken>> /\ read' = read
        BY <2>11 DEF Drop
      <3>2. there \in {"release", "done"} /\ (there = "release" \/ lock # Lease(p))
        OBVIOUS
      <3> HIDE DEF there
      <3> QED BY <2>0, <3>1, <3>2, MoveHolds DEF Acquiring, Examining, Holding, Gone
    <2>12. CASE Exit(p)
      <3>1. Goes(p, pc[p], Gone) /\ UNCHANGED <<lock, overtaken>> /\ read' = read /\ pc[p] # Gone
        BY <2>12 DEF Exit, Goes
      <3> QED BY <2>0, <3>1, MoveHolds DEF Examining, Holding, Gone
    <2> QED BY <1>2, <2>1, <2>2, <2>3, <2>4, <2>5, <2>6, <2>7, <2>8, <2>9, <2>10, <2>11, <2>12 DEF Steps
  <1> QED BY <1>1, <1>2 DEF Next

(* The invariant holds at all times. *)
LEMMA InvariantHolds == Spec => []IInv
  BY StartHolds, StepHolds, PTL DEF Spec

(* Every variable of the lease is of its type: whatever is killed and raced  *)
(* for, the file is absent, empty or whole, and a process's that takes it.   *)
THEOREM LeaseTypeCorrect == Spec => []TypeOK
  <1>1. IInv => TypeOK
    BY DEF IInv
  <1> QED BY InvariantHolds, <1>1, PTL

(* load_active and the guard's drop, over acquire's loop: whoever created    *)
(* the file keeps it, and holds it once it is written, unless a process that *)
(* had examined an older one removed it by its name.                         *)
THEOREM LivingLeasesStay == Spec => []LivingLeaseStays
  <1>1. IInv => LivingLeaseStays
    BY DEF IInv
  <1> QED BY InvariantHolds, <1>1, PTL

(* acquire's refusal: of any number of processes, as long as none that has   *)
(* come to take the lease has ended, two never hold it.                      *)
THEOREM LeaseExcludesWhileAllRun == Spec => []ExcludesWhileAllRun
  <1>1. IInv => ExcludesWhileAllRun
    <2> SUFFICES ASSUME IInv, \A p \in Runtimes : Running(p), NEW p \in Runtimes, NEW q \in Runtimes,
                        pc[p] \in Holding, pc[q] \in Holding
                 PROVE  p = q
      BY DEF ExcludesWhileAllRun, MutualExclusion
    <2>1. lock = Lease(p) /\ lock = Lease(q)
      BY DEF IInv, UndisturbedWhileAllRun, LivingLeaseStays
    <2> QED BY <2>1, LeasesDiffer
  <1> QED BY InvariantHolds, <1>1, PTL

(* load_active's answer: the lease never names a process that lives on       *)
(* without holding it.                                                       *)
THEOREM NoLeaseOfALivingLoser == Spec => []NoPhantomHolder
  <1>1. IInv => NoPhantomHolder
    BY DEF IInv
  <1> QED BY InvariantHolds, <1>1, PTL
=============================================================================
