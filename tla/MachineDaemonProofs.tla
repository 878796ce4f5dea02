------------------------ MODULE MachineDaemonProofs ------------------------
(***************************************************************************)
(* For any repositories, targets and processes: commands that follow one   *)
(* another start one daemon at most, and the state file names it.          *)
(*                                                                         *)
(* DaemonAccountedFor is not inductive: that a start spawns a second       *)
(* daemon is kept away by what the command at the terminal has found out,  *)
(* which CommandKnows states.                                              *)
(***************************************************************************)
EXTENDS MachineDaemon, TLAPS

\* What the argument needs of the shape of the records.
Shaped ==
    /\ DOMAIN daemon = Daemons
    /\ \A d \in Daemons : "pc" \in DOMAIN daemon[d]
    /\ {"cmd", "child", "pc"} \subseteq DOMAIN cli
    /\ state \in Daemons \cup {NoDaemon}

\* About to spawn, or with the daemon terminated: none is up.  Waiting: no other
\* daemon than the one it spawned.
CommandKnows ==
    /\ cli.pc \in {"spawn", "gone"} => \A d \in Daemons : ~Up(d)
    /\ cli.pc = "await" => \A d \in Daemons : Up(d) => d = cli.child

Accounted == Shaped /\ DaemonAccountedFor /\ CommandKnows

LEMMA InitAccounted == Init => Accounted
  BY DaemonAssumption DEF Init, Accounted, Shaped, DaemonAccountedFor, CommandKnows, Up, NoCommand, Idle

\* Process d is somewhere else in its round, or has ended; no other has moved.
Moves(d) ==
    /\ DOMAIN daemon' = Daemons
    /\ "pc" \in DOMAIN daemon'[d]
    /\ daemon'[d].pc \notin {"born", "unborn"}
    /\ \A e \in Daemons \ {d} : daemon'[e] = daemon[e]

\* A daemon that has begun goes on or ends.
LEMMA DaemonGoesOn ==
    ASSUME Accounted, UNCHANGED <<state, cli>>,
           NEW d \in Daemons, Up(d), daemon[d].pc # "born", Moves(d)
    PROVE  Accounted'
  BY DEF Accounted, Shaped, DaemonAccountedFor, CommandKnows, Up, Moves

\* A record of which a field was replaced, among others, has it.
LEMMA Placed ==
    ASSUME Shaped, NEW d \in Daemons, NEW step, "pc" \in DOMAIN step,
           step.pc \notin {"born", "unborn"}, daemon' = [daemon EXCEPT ![d] = step]
    PROVE  Moves(d)
  BY DEF Shaped, Moves

\* A command goes on without looking for daemons.
LEMMA CommandGoesOn ==
    ASSUME Accounted, UNCHANGED <<state, daemon>>, cli.pc # "await",
           {"cmd", "child", "pc"} \subseteq DOMAIN cli',
           cli'.pc \notin {"spawn", "gone", "await"}
    PROVE  Accounted'
  BY DEF Accounted, Shaped, DaemonAccountedFor, CommandKnows, Up

\* Each step of a daemon.
LEMMA DaemonAccounted ==
    ASSUME Accounted, NEW d \in Daemons, DaemonStep(d) \/ RunFails(d) \/ Crash(d)
    PROVE  Accounted'
<1> USE DEF Accounted
<1>1. CASE Begin(d)
  BY <1>1 DEF Begin, Shaped, DaemonAccountedFor, CommandKnows, Up
<1>2. CASE Round(d)
  <2>1. Moves(d)
    <3> DEFINE step == [Timed(d) EXCEPT !.pc = "poll", !.left = Working(d)]
    <3>1. "pc" \in DOMAIN Timed(d)
      BY DEF Timed, Shaped
    <3>2. "pc" \in DOMAIN step /\ step.pc = "poll"
      BY <3>1
    <3>3. daemon' = [daemon EXCEPT ![d] = step]
      BY <1>2 DEF Round
    <3>4. QED
      BY <3>2, <3>3, Placed
  <2>2. QED
    BY <1>2, <2>1, DaemonGoesOn DEF Round, Up
<1>3. CASE Refresh(d)
  <2>1. Moves(d)
    <3> DEFINE step == [Timed(d) EXCEPT !.pc = "refresh", !.left = registry]
    <3>1. "pc" \in DOMAIN Timed(d)
      BY DEF Timed, Shaped
    <3>2. "pc" \in DOMAIN step /\ step.pc = "refresh"
      BY <3>1
    <3>3. daemon' = [daemon EXCEPT ![d] = step]
      BY <1>3 DEF Refresh
    <3>4. QED
      BY <3>2, <3>3, Placed
  <2>2. QED
    BY <1>3, <2>1, DaemonGoesOn DEF Refresh, Up
<1>4. CASE RefreshFails(d)
  <2>1. Moves(d)
    BY <1>4, Placed DEF RefreshFails, Dies, Dead, Idle, Shaped
  <2>2. QED
    BY <1>4, <2>1, DaemonGoesOn DEF RefreshFails, Up
<1>5. CASE LoadTargets(d) \/ SaveConfig(d)
  <2>1. Moves(d)
    BY <1>5, Placed DEF LoadTargets, SaveConfig, Take, Shaped
  <2>2. QED
    BY <1>5, <2>1, DaemonGoesOn DEF LoadTargets, SaveConfig, Up
<1>6. CASE LoadFails(d) \/ OpenConfig(d) \/ Refreshed(d)
  <2>1. Moves(d)
    BY <1>6 DEF LoadFails, OpenConfig, Refreshed, Shaped, Moves
  <2>2. QED
    BY <1>6, <2>1, DaemonGoesOn DEF LoadFails, OpenConfig, Refreshed, Up
<1>7. CASE Relocate(d)
  <2>1. Moves(d)
    BY <1>7, Placed DEF Relocate, Shaped
  <2>2. QED
    BY <1>7, <2>1, DaemonGoesOn DEF Relocate, Up
<1>8. CASE Poll(d)
  <2>1. Moves(d)
    BY <1>8 DEF Poll, Shaped, Moves
  <2>2. QED
    BY <1>8, <2>1, DaemonGoesOn DEF Poll, Up
<1>9. CASE RunTarget(d) \/ RunHeld(d) \/ RunFails(d)
  <2>1. daemon[d].pc = "poll" /\ UNCHANGED <<state, cli>> /\ \E t \in NextTarget(d) : Ran(d, t)
    BY <1>9 DEF RunTarget, RunHeld, RunFails
  <2>2. Moves(d)
    BY <2>1 DEF Ran, Shaped, Moves
  <2>3. QED
    BY <2>1, <2>2, DaemonGoesOn DEF Up
<1>10. CASE Sleep(d)
  <2>1. Moves(d)
    <3>1. "pc" \in DOMAIN Rested(d) /\ Rested(d).pc = "top"
      BY DEF Rested, Shaped
    <3>2. QED
      BY <1>10, <3>1, Placed DEF Sleep
  <2>2. QED
    BY <1>10, <2>1, DaemonGoesOn DEF Sleep, Up
<1>11. CASE Crash(d)
  BY <1>11 DEF Crash, Dies, Dead, Idle, Shaped, DaemonAccountedFor, CommandKnows, Up
<1>12. QED
  BY <1>1, <1>2, <1>3, <1>4, <1>5, <1>6, <1>7, <1>8, <1>9, <1>10, <1>11
  DEF DaemonStep

\* Each step of a command.
LEMMA CommandAccounted ==
    ASSUME Accounted, CommandStep \/ Interrupt \/ (\E cmd, r, t : Command(cmd, r, t))
    PROVE  Accounted'
<1> USE DEF Accounted
<1>1. CASE \E cmd, r, t : Command(cmd, r, t)
  BY <1>1, CommandGoesOn DEF Command, NoCommand, Shaped
<1>2. CASE Load
  <2>1. PICK to : cli' = to /\ to \in {NoCommand, LoadStart, LoadAdd, LoadGet, LoadRemove}
    BY <1>2 DEF Load
  <2>2. {"cmd", "child", "pc"} \subseteq DOMAIN to /\ to.pc \notin {"spawn", "gone", "await"}
    <3>1. CASE to \in {NoCommand, LoadStart}
      BY <3>1 DEF LoadStart, NoCommand, Shaped
    <3>2. CASE to = LoadAdd
      BY <3>2 DEF LoadAdd, NoCommand, Shaped
    <3>3. CASE to = LoadGet
      BY <3>3 DEF LoadGet, NoCommand, Shaped
    <3>4. CASE to = LoadRemove
      BY <3>4 DEF LoadRemove, NoCommand, Shaped
    <3>5. QED
      BY <2>1, <3>1, <3>2, <3>3, <3>4
  <2>3. QED
    BY <1>2, <2>1, <2>2, CommandGoesOn DEF Load
<1>3. CASE Open \/ Close \/ Bootstrap \/ Fetch
  BY <1>3, CommandGoesOn DEF Open, Close, Bootstrap, Fetch, Shaped
<1>4. CASE Register \/ RegisterFails \/ Enroll
  <2>1. {"cmd", "child", "pc"} \subseteq DOMAIN cli' /\ cli'.pc \notin {"spawn", "gone", "await"}
    <3>1. CASE Register
      BY <3>1 DEF Register, Shaped
    <3>2. CASE RegisterFails
      <4>1. CASE RollBack
        BY <4>1 DEF RollBack, Shaped
      <4>2. CASE Ends
        BY <4>2 DEF Ends, NoCommand
      <4>3. QED
        BY <3>2, <4>1, <4>2 DEF RegisterFails
    <3>3. CASE Enroll
      BY <3>3 DEF Enroll, Ends, NoCommand, Shaped
    <3>4. QED
      BY <1>4, <3>1, <3>2, <3>3
  <2>2. QED
    BY <1>4, <2>1, CommandGoesOn DEF Register, RegisterFails, Enroll
<1>5. CASE Interrupt
  BY <1>5, CommandGoesOn DEF Interrupt, Ends, NoCommand, Shaped
<1>6. CASE Look
  BY <1>6, DaemonAssumption DEF Look, Active, Running, Ends, NoCommand, Shaped, DaemonAccountedFor, CommandKnows, Up
<1>7. CASE LookFinds
  BY <1>7 DEF LookFinds, Active, Running, Dies, Dead, Idle, Ends, NoCommand, Shaped, DaemonAccountedFor, CommandKnows, Up
<1>8. CASE Spawn
  BY <1>8 DEF Spawn, Shaped, DaemonAccountedFor, CommandKnows, Up
<1>9. CASE Await
  BY <1>9 DEF Await, Active, Running, Ends, NoCommand, Shaped, DaemonAccountedFor, CommandKnows, Up
<1>10. CASE Stopped
  BY <1>10 DEF Stopped, Ends, NoCommand, Shaped, DaemonAccountedFor, CommandKnows, Up
<1>11. QED
  BY <1>1, <1>2, <1>3, <1>4, <1>5, <1>6, <1>7, <1>8, <1>9, <1>10 DEF CommandStep

\* Any step: what users do leaves processes and commands alone.
LEMMA NextAccounted == Accounted /\ [Next]_vars => Accounted'
<1> SUFFICES ASSUME Accounted, [Next]_vars PROVE Accounted'
  OBVIOUS
<1>1. CASE UNCHANGED <<state, daemon, cli>>
  BY <1>1 DEF Accounted, Shaped, DaemonAccountedFor, CommandKnows, Up
<1>2. CASE \E r \in Repos, t \in Targets : Edit(r, t) \/ RemoteChange(r, t) \/ MoveRoot(r, t)
  BY <1>1, <1>2 DEF Edit, RemoteChange, MoveRoot
<1>3. QED
  BY <1>1, <1>2, DaemonAccounted, CommandAccounted DEF Next, vars

\* For any repositories, targets and processes, killed at any point, and commands
\* one after another: one daemon at most, named by the state file.
THEOREM OneDaemon == Spec => []DaemonAccountedFor
<1>1. Accounted => DaemonAccountedFor
  BY DEF Accounted
<1>2. QED
  BY <1>1, InitAccounted, NextAccounted, PTL DEF Spec
=============================================================================
