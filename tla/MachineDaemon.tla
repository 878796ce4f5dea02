--------------------------- MODULE MachineDaemon ---------------------------
(***************************************************************************)
(* The machine-wide daemon and the commands that steer it.  The daemon     *)
(* (run_machine_daemon) goes round: it reads the registry and each         *)
(* repository's sync entries now and then, collects what the watcher saw,  *)
(* syncs a target when its changes have settled, and sweeps the others.    *)
(* Commands start and stop it and rewrite the registry and the entries;    *)
(* users edit, move a synced directory, and others write to the server.    *)
(*                                                                         *)
(* A target is one synced directory of a repository, and the sync of one   *)
(* target is one step here; CheckoutSync takes it apart.  One terminal:    *)
(* commands follow one another, but not the daemon.  Time is counted in    *)
(* rounds of the daemon.  A file that fs::write has cut short and not yet  *)
(* filled is torn, and stays torn when its writer is killed.               *)
(***************************************************************************)
EXTENDS Naturals, FiniteSets

CONSTANTS
    Repos, Targets,
    Synced,          \* which targets have entries at first: any of these sets
    Daemons,         \* the processes that can be spawned: bounds the starts
    NoDaemon, Started,    \* and the one that may be running at first
    Notify,          \* whether a notify watcher can be set up: a set of BOOLEANs
    Debounce,        \* local_debounce, registry_refresh, polling_backstop and
    RefreshEvery,    \* remote_sweep, in rounds
    BackstopEvery,
    SweepEvery,
    MaxActs          \* bounds commands, edits, moves, failures and crashes

ASSUME DaemonAssumption ==
    /\ NoDaemon \notin Daemons /\ Started \in Daemons
    /\ \A S \in Synced : S # {} /\ S \subseteq Targets
    /\ Notify \subseteq BOOLEAN /\ Notify # {}
    /\ Debounce \in Nat /\ MaxActs \in Nat
    /\ {RefreshEvery, BackstopEvery, SweepEvery} \subseteq Nat \ {0}

VARIABLES
    registry,    \* repos.json: the repositories the daemon is to sync
    config,      \* each repository's sync-entries.json: where its targets are
    torn,        \* which of these files are cut short
    place,       \* where each target's directory really is
    edited,      \* targets with local changes that no run has pushed
    behind,      \* targets with changes of others that no run has written
    state,       \* the process the daemon's state file names
    daemon,      \* each process: where in its round it is
    runtime,     \* each process's RepoRuntimes
    cli,         \* the command at the terminal
    acts

files == <<registry, config, torn>>
work == <<place, edited, behind>>
vars == <<files, work, state, daemon, runtime, cli, acts>>

Gone == "gone"
Places == {"home", "away"}
NoTargets == [t \in Targets |-> Gone]
Registry == "registry"

\* A repository that is registered and has nothing to do is not in the map.
NoRuntime == [targets |-> NoTargets, notify |-> FALSE,
              queue |-> {}, diff |-> {}, pending |-> {}, quiet |-> 0]

\* RepoRuntime::new: what is on disk becomes the watcher's baseline.
NewRuntime(targets, notify) == [NoRuntime EXCEPT !.targets = targets, !.notify = notify]

Configured(targets) == {t \in Targets : targets[t] # Gone}

Idle == [pc |-> "unborn", left |-> {}, at |-> "none", read |-> NoTargets,
         jobs |-> {}, rest |-> {}, backstop |-> FALSE, sweep |-> FALSE,
         age |-> [refresh |-> RefreshEvery, backstop |-> BackstopEvery, sweep |-> SweepEvery]]
Dead == [Idle EXCEPT !.pc = "dead"]

NoCommand == [cmd |-> "none", repo |-> "none", target |-> "none", child |-> NoDaemon, pc |-> "idle",
              read |-> NoTargets, next |-> NoTargets, keep |-> FALSE, back |-> FALSE]

Up(d) == daemon[d].pc \notin {"unborn", "dead"}

\* is_process_running: a process the start command has not waited for yet
\* counts, even when it has ended.
Running(d) == Up(d) \/ (cli.pc = "await" /\ cli.child = d)

Active == state # NoDaemon /\ Running(state)

Act == acts < MaxActs /\ acts' = acts + 1

\* Synced repositories, with other directories that may be added; the daemon is
\* running or not.
Init ==
    /\ registry = Repos
    /\ torn = {}
    /\ \E S \in Synced : \E new \in SUBSET (Targets \ S) :
          /\ config = [r \in Repos |-> [t \in Targets |-> IF t \in S THEN "home" ELSE Gone]]
          /\ place = [r \in Repos |-> [t \in Targets |-> IF t \in S \cup new THEN "home" ELSE Gone]]
          /\ edited = Repos \X new
    /\ behind = {}
    /\ \E d \in {Started, NoDaemon} :
          /\ state = d
          /\ daemon = [e \in Daemons |-> IF e = d THEN [Idle EXCEPT !.pc = "top"] ELSE Idle]
    /\ runtime = [d \in Daemons |-> [r \in Repos |-> NoRuntime]]
    /\ cli = NoCommand
    /\ acts = 0

-----------------------------------------------------------------------------
(* What watchers see.                                                      *)

\* The daemons' runtimes once files changed at these places of targets of r.
\* The polling comparison finds every change; notify tells at once or never.
Seen(r, spots, heard) ==
    [d \in Daemons |-> [runtime[d] EXCEPT ![r] =
        LET watched == {t \in Targets : <<t, @.targets[t]>> \in spots}
            told == IF heard /\ @.notify THEN watched ELSE {}
        IN  [@ EXCEPT !.diff = @ \cup watched, !.queue = @ \cup told]]]

-----------------------------------------------------------------------------
(* The daemon.                                                             *)

Begin(d) ==
    /\ daemon[d].pc = "born"
    /\ state' = d
    /\ daemon' = [daemon EXCEPT ![d].pc = "top"]
    /\ UNCHANGED <<files, work, runtime, cli, acts>>

\* Its runtimes end with the process; the state file stays.
Dies(d) ==
    /\ daemon' = [daemon EXCEPT ![d] = Dead]
    /\ runtime' = [runtime EXCEPT ![d] = [r \in Repos |-> NoRuntime]]

Due(d, timer, every) == daemon[d].age[timer] = every

\* The timers are read at the top of a round; a due one starts again.
Restarted(age) ==
    [refresh |-> IF age.refresh = RefreshEvery THEN 0 ELSE age.refresh,
     backstop |-> IF age.backstop = BackstopEvery THEN 0 ELSE age.backstop,
     sweep |-> IF age.sweep = SweepEvery THEN 0 ELSE age.sweep]

Timed(d) ==
    [daemon[d] EXCEPT !.backstop = Due(d, "backstop", BackstopEvery),
                      !.sweep = Due(d, "sweep", SweepEvery),
                      !.age = Restarted(@)]

Working(d) == {r \in Repos : runtime[d][r] # NoRuntime}

\* The heartbeat renews the time in a state file that names this process.
Round(d) ==
    /\ daemon[d].pc = "top"
    /\ ~Due(d, "refresh", RefreshEvery)
    /\ daemon' = [daemon EXCEPT ![d] = [Timed(d) EXCEPT !.pc = "poll", !.left = Working(d)]]
    /\ UNCHANGED <<files, work, state, runtime, cli, acts>>

\* refresh_repo_runtimes: repositories no longer registered are dropped.
Refresh(d) ==
    /\ daemon[d].pc = "top"
    /\ Due(d, "refresh", RefreshEvery)
    /\ Registry \notin torn
    /\ daemon' = [daemon EXCEPT ![d] = [Timed(d) EXCEPT !.pc = "refresh", !.left = registry]]
    /\ runtime' = [runtime EXCEPT ![d] =
                       [r \in Repos |-> IF r \in registry THEN @[r] ELSE NoRuntime]]
    /\ UNCHANGED <<files, work, state, cli, acts>>

\* A registry that does not parse ends the daemon.
RefreshFails(d) ==
    /\ daemon[d].pc = "top"
    /\ Due(d, "refresh", RefreshEvery)
    /\ Registry \in torn
    /\ Dies(d)
    /\ UNCHANGED <<files, work, state, cli, acts>>

\* relocate_missing_sync_entry_roots: a directory gone from its place and found,
\* with the texts last written to it, elsewhere.
Relocated(r) ==
    [t \in Targets |->
        IF config[r][t] # Gone /\ place[r][t] \notin {Gone, config[r][t]} /\ <<r, t>> \notin edited
        THEN place[r][t] ELSE config[r][t]]

\* A bug: a repository that has a runtime keeps it.
TakeOnce(d, r, targets) ==
    /\ daemon' = [daemon EXCEPT ![d] = [@ EXCEPT !.pc = "refresh", !.left = @ \ {r}, !.at = "none",
                                                 !.read = NoTargets]]
    /\ \E works \in Notify :
          runtime' = [runtime EXCEPT ![d][r] =
                          IF targets = NoTargets THEN NoRuntime
                          ELSE IF @ # NoRuntime THEN @ ELSE NewRuntime(targets, works)]

\* A runtime is replaced, with all it had pending, when its targets changed.
\* A missing root keeps notify from being set up.
Take(d, r, targets) ==
    /\ daemon' = [daemon EXCEPT ![d] = [@ EXCEPT !.pc = "refresh", !.left = @ \ {r}, !.at = "none",
                                                 !.read = NoTargets]]
    /\ \E works \in Notify :
          LET there == \A t \in Configured(targets) : place[r][t] = targets[t]
          IN  runtime' = [runtime EXCEPT ![d][r] =
                             IF targets = NoTargets THEN NoRuntime
                             ELSE IF @.targets = targets THEN @ ELSE NewRuntime(targets, works /\ there)]

LoadTargets(d) ==
    /\ daemon[d].pc = "refresh"
    /\ \E r \in daemon[d].left \ torn :
          /\ Relocated(r) = config[r]
          /\ Take(d, r, config[r])
    /\ UNCHANGED <<files, work, state, cli, acts>>

\* Entries that do not parse leave the runtime as it is.
LoadFails(d) ==
    /\ daemon[d].pc = "refresh"
    /\ \E r \in daemon[d].left \cap torn : daemon' = [daemon EXCEPT ![d].left = @ \ {r}]
    /\ UNCHANGED <<files, work, state, runtime, cli, acts>>

Relocate(d) ==
    /\ daemon[d].pc = "refresh"
    /\ \E r \in daemon[d].left \ torn :
          /\ Relocated(r) # config[r]
          /\ daemon' = [daemon EXCEPT ![d] = [@ EXCEPT !.pc = "open", !.at = r, !.read = Relocated(r)]]
    /\ UNCHANGED <<files, work, state, runtime, cli, acts>>

\* The entries are saved as they were read, but for the new places.
OpenConfig(d) ==
    /\ daemon[d].pc = "open"
    /\ torn' = torn \cup {daemon[d].at}
    /\ daemon' = [daemon EXCEPT ![d].pc = "close"]
    /\ UNCHANGED <<registry, config, work, state, runtime, cli, acts>>

SaveConfig(d) ==
    /\ daemon[d].pc = "close"
    /\ config' = [config EXCEPT ![daemon[d].at] = daemon[d].read]
    /\ torn' = torn \ {daemon[d].at}
    /\ Take(d, daemon[d].at, daemon[d].read)
    /\ UNCHANGED <<registry, work, state, cli, acts>>

Refreshed(d) ==
    /\ daemon[d].pc = "refresh" /\ daemon[d].left = {}
    /\ daemon' = [daemon EXCEPT ![d].pc = "poll", ![d].left = Working(d)]
    /\ UNCHANGED <<files, work, state, runtime, cli, acts>>

\* The next target of the round: those that waited before those of the sweep.
NextTarget(d) == IF daemon[d].jobs # {} THEN daemon[d].jobs ELSE daemon[d].rest

\* Targets with events wait until none came for a while; those that waited run.
\* A sweep runs the rest, a target that has just waited a second time.
Poll(d) ==
    /\ daemon[d].pc = "poll" /\ NextTarget(d) = {}
    /\ \E r \in daemon[d].left :
          LET rt == runtime[d][r]
              scan == daemon[d].backstop \/ ~rt.notify
              events == rt.queue \cup (IF scan THEN rt.diff ELSE {})
              pending == rt.pending \cup events
              quiet == IF events # {} THEN 0 ELSE rt.quiet
              ready == IF quiet >= Debounce THEN pending ELSE {}
          IN  /\ runtime' = [runtime EXCEPT ![d][r] =
                     [@ EXCEPT !.queue = {}, !.diff = IF scan THEN {} ELSE @,
                               !.pending = pending \ ready,
                               !.quiet = IF pending = ready THEN 0 ELSE quiet]]
              /\ daemon' = [daemon EXCEPT ![d] =
                     [@ EXCEPT !.at = r, !.left = @ \ {r}, !.jobs = ready,
                               !.rest = IF ~daemon[d].sweep THEN {}
                                        ELSE Configured(rt.targets) \ (events \cup (pending \ ready))]]
    /\ UNCHANGED <<files, work, state, cli, acts>>

Ran(d, t) ==
    daemon' = [daemon EXCEPT ![d] =
        IF @.jobs # {} THEN [@ EXCEPT !.jobs = @ \ {t}] ELSE [@ EXCEPT !.rest = @ \ {t}]]

\* A run pushes, pulls and writes every live file of the target anew.
RunTarget(d) ==
    /\ daemon[d].pc = "poll"
    /\ \E t \in NextTarget(d) :
          LET r == daemon[d].at
          IN  /\ runtime[d][r].targets[t] = place[r][t]
              /\ edited' = edited \ {<<r, t>>}
              /\ behind' = behind \ {<<r, t>>}
              /\ runtime' = Seen(r, {<<t, place[r][t]>>}, TRUE)
              /\ Ran(d, t)
    /\ UNCHANGED <<files, place, state, cli, acts>>

\* A target whose root is missing is held: nothing is pushed or written.  (A root
\* nothing was written to yet is made anew instead; what the user has elsewhere
\* stays as it is all the same.)
RunHeld(d) ==
    /\ daemon[d].pc = "poll"
    /\ \E t \in NextTarget(d) :
          runtime[d][daemon[d].at].targets[t] # place[daemon[d].at][t] /\ Ran(d, t)
    /\ UNCHANGED <<files, work, state, runtime, cli, acts>>

\* Its error is dropped, and with it the work that was pending.
RunFails(d) ==
    /\ daemon[d].pc = "poll"
    /\ \E t \in NextTarget(d) : Ran(d, t)
    /\ Act
    /\ UNCHANGED <<files, work, state, runtime, cli>>

Later(n, top) == IF n < top THEN n + 1 ELSE n

Aged(age) == [refresh |-> Later(age.refresh, RefreshEvery),
              backstop |-> Later(age.backstop, BackstopEvery),
              sweep |-> Later(age.sweep, SweepEvery)]

Rested(d) == [daemon[d] EXCEPT !.pc = "top", !.at = "none", !.age = Aged(@)]

Sleep(d) ==
    /\ daemon[d].pc = "poll" /\ daemon[d].left = {} /\ NextTarget(d) = {}
    /\ daemon' = [daemon EXCEPT ![d] = Rested(d)]
    /\ runtime' = [runtime EXCEPT ![d] = [r \in Repos |->
           IF @[r].pending = {} THEN @[r] ELSE [@[r] EXCEPT !.quiet = Later(@, Debounce)]]]
    /\ UNCHANGED <<files, work, state, cli, acts>>

\* Killed, or ended by an error of the watcher.
Crash(d) ==
    /\ Up(d)
    /\ Dies(d)
    /\ Act
    /\ UNCHANGED <<files, work, state, cli>>

DaemonStep(d) ==
    \/ Begin(d) \/ Round(d) \/ Refresh(d) \/ RefreshFails(d)
    \/ LoadTargets(d) \/ LoadFails(d) \/ Relocate(d) \/ OpenConfig(d) \/ SaveConfig(d)
    \/ Refreshed(d) \/ Poll(d) \/ RunTarget(d) \/ RunHeld(d) \/ Sleep(d)

-----------------------------------------------------------------------------
(* The commands.                                                           *)

Ends == cli' = NoCommand

Command(cmd, r, t) ==
    /\ cli.pc = "idle"
    /\ cmd = "start" => \E d \in Daemons : daemon[d].pc = "unborn"
    /\ cli' = [NoCommand EXCEPT !.cmd = cmd, !.repo = r, !.target = t,
                   !.pc = CASE cmd = "stop" -> "register" [] cmd = "stopall" -> "look" [] OTHER -> "load"]
    /\ Act
    /\ UNCHANGED <<files, work, state, daemon, runtime>>

Entries == config[cli.repo]
Entry(where) == [Entries EXCEPT ![cli.target] = where]

\* What the command does once it has read the entries: nothing, look for the
\* daemon, register, or go on to write the entries.
LoadStart ==
    IF Entries = NoTargets THEN [cli EXCEPT !.pc = "look"] ELSE [cli EXCEPT !.pc = "register"]

LoadAdd ==
    LET at == place[cli.repo][cli.target]
    IN  IF Entries[cli.target] # Gone \/ at = Gone THEN NoCommand
        ELSE [cli EXCEPT !.pc = "open", !.read = Entries, !.next = Entry(at)]

LoadGet ==
    IF Entries[cli.target] # Gone \/ place[cli.repo][cli.target] # Gone THEN NoCommand
    ELSE [cli EXCEPT !.pc = "fetch", !.next = Entry("home")]

LoadRemove ==
    IF Entries[cli.target] = Gone THEN NoCommand
    ELSE [cli EXCEPT !.pc = "open", !.next = Entry(Gone)]

Load ==
    /\ cli.pc = "load"
    /\ cli' = IF cli.repo \in torn THEN NoCommand
              ELSE CASE cli.cmd = "start" -> LoadStart
                     [] cli.cmd = "add" -> LoadAdd
                     [] cli.cmd = "get" -> LoadGet
                     [] OTHER -> LoadRemove
    /\ UNCHANGED <<files, work, state, daemon, runtime, acts>>

Open ==
    /\ cli.pc = "open"
    /\ torn' = torn \cup {cli.repo}
    /\ cli' = [cli EXCEPT !.pc = "close"]
    /\ UNCHANGED <<registry, config, work, state, daemon, runtime, acts>>

\* FileRepoSyncConfigStore::save puts the whole list, as read before, in place.
Close ==
    /\ cli.pc = "close"
    /\ config' = [config EXCEPT ![cli.repo] = cli.next]
    /\ torn' = torn \ {cli.repo}
    /\ cli' = [cli EXCEPT !.pc = IF cli.cmd = "add" /\ ~cli.back THEN "bootstrap" ELSE "register"]
    /\ UNCHANGED <<registry, work, state, daemon, runtime, acts>>

\* apply_authoritative_snapshot writes the server's files of every entry where
\* the entries say they are: over local edits, and where a directory is missing.
Materialize(targets) ==
    LET r == cli.repo
        S == Configured(targets)
    IN  /\ place' = [place EXCEPT ![r] = [t \in Targets |-> IF t \in S THEN targets[t] ELSE @[t]]]
        /\ edited' = edited \ ({r} \X S)
        /\ behind' = behind \ ({r} \X S)
        /\ runtime' = Seen(r, {<<t, targets[t]>> : t \in S}, TRUE)

\* add: the new entry is synced, which pushes its files, then all are written.
Bootstrap ==
    /\ cli.pc = "bootstrap"
    /\ Materialize(cli.next)
    /\ cli' = [cli EXCEPT !.pc = "register"]
    /\ UNCHANGED <<files, state, daemon, acts>>

\* rollback_sync_entry_add writes back what was read before the bootstrap.
RollBack == cli' = [cli EXCEPT !.pc = "open", !.next = cli.read, !.back = TRUE]

BootstrapFails ==
    /\ cli.pc = "bootstrap"
    /\ RollBack
    /\ Act
    /\ UNCHANGED <<files, work, state, daemon, runtime>>

\* get: the files are written before the entry is.
Fetch ==
    /\ cli.pc = "fetch"
    /\ Materialize(cli.next)
    /\ cli' = [cli EXCEPT !.pc = "open"]
    /\ UNCHANGED <<files, state, daemon, acts>>

\* stop asks for no entries and start has read them; the others read them again,
\* and register a repository that has some.
ReadsAgain == cli.cmd \notin {"start", "stop"}

Register ==
    /\ cli.pc = "register"
    /\ Registry \notin torn
    /\ ReadsAgain => cli.repo \notin torn
    /\ torn' = torn \cup {Registry}
    /\ cli' = [cli EXCEPT !.pc = "enroll", !.keep = cli.cmd # "stop" /\ Entries # NoTargets]
    /\ UNCHANGED <<registry, config, work, state, daemon, runtime, acts>>

RegisterFails ==
    /\ cli.pc = "register"
    /\ Registry \in torn \/ (ReadsAgain /\ cli.repo \in torn)
    /\ IF cli.cmd = "add" /\ ~cli.back THEN RollBack ELSE Ends
    /\ UNCHANGED <<files, work, state, daemon, runtime, acts>>

Enroll ==
    /\ cli.pc = "enroll"
    /\ registry' = IF cli.keep THEN registry \cup {cli.repo} ELSE registry \ {cli.repo}
    /\ torn' = torn \ {Registry}
    /\ IF cli.cmd \in {"start", "stop"} THEN cli' = [cli EXCEPT !.pc = "look"] ELSE Ends
    /\ UNCHANGED <<config, work, state, daemon, runtime, acts>>

\* load_active removes a state file whose process has ended.
Look ==
    /\ cli.pc = "look"
    /\ ~Active
    /\ state' = NoDaemon
    /\ IF cli.cmd = "start" THEN cli' = [cli EXCEPT !.pc = "spawn"] ELSE Ends
    /\ UNCHANGED <<files, work, daemon, runtime, acts>>

LookFinds ==
    /\ cli.pc = "look"
    /\ Active
    /\ IF cli.cmd = "stopall" THEN Dies(state) /\ cli' = [cli EXCEPT !.pc = "gone"]
       ELSE Ends /\ UNCHANGED <<daemon, runtime>>
    /\ UNCHANGED <<files, work, state, acts>>

\* A bug: the command does not wait for its daemon to show.
SpawnAndLeave ==
    /\ cli.pc = "spawn"
    /\ \E d \in Daemons :
          /\ daemon[d].pc = "unborn"
          /\ daemon' = [daemon EXCEPT ![d].pc = "born"]
    /\ Ends
    /\ UNCHANGED <<files, work, state, runtime, acts>>

Spawn ==
    /\ cli.pc = "spawn"
    /\ \E d \in Daemons :
          /\ daemon[d].pc = "unborn"
          /\ daemon' = [daemon EXCEPT ![d].pc = "born"]
          /\ cli' = [cli EXCEPT !.pc = "await", !.child = d]
    /\ UNCHANGED <<files, work, state, runtime, acts>>

\* The command looks until it finds a daemon or has looked often enough; the
\* process it spawned has begun, or ended, by then.
Await ==
    /\ cli.pc = "await"
    /\ Active \/ daemon[cli.child].pc = "dead"
    /\ Ends
    /\ UNCHANGED <<files, work, state, daemon, runtime, acts>>

\* stop --all: SIGTERM has ended the process, whose state file is removed.
Stopped ==
    /\ cli.pc = "gone"
    /\ state' = NoDaemon
    /\ Ends
    /\ UNCHANGED <<files, work, daemon, runtime, acts>>

CommandStep ==
    \/ Load \/ Open \/ Close \/ Bootstrap \/ Fetch
    \/ Register \/ RegisterFails \/ Enroll
    \/ Look \/ LookFinds \/ Spawn \/ Await \/ Stopped

\* Ctrl-C; a start is left to wait.
Interrupt ==
    /\ cli.pc \notin {"idle", "await"}
    /\ Ends
    /\ Act
    /\ UNCHANGED <<files, work, state, daemon, runtime>>

-----------------------------------------------------------------------------
(* Users and other checkouts.                                              *)

Edit(r, t) ==
    /\ place[r][t] # Gone
    /\ edited' = edited \cup {<<r, t>>}
    /\ \E heard \in BOOLEAN : runtime' = Seen(r, {<<t, place[r][t]>>}, heard)
    /\ Act
    /\ UNCHANGED <<files, place, behind, state, daemon, cli>>

RemoteChange(r, t) ==
    /\ config[r][t] # Gone
    /\ behind' = behind \cup {<<r, t>>}
    /\ Act
    /\ UNCHANGED <<files, place, edited, state, daemon, runtime, cli>>

MoveRoot(r, t) ==
    /\ place[r][t] # Gone
    /\ \E there \in Places \ {place[r][t]} :
          /\ place' = [place EXCEPT ![r][t] = there]
          /\ \E heard \in BOOLEAN : runtime' = Seen(r, {<<t, place[r][t]>>, <<t, there>>}, heard)
    /\ Act
    /\ UNCHANGED <<files, edited, behind, state, daemon, cli>>

Next ==
    \/ \E d \in Daemons : DaemonStep(d) \/ RunFails(d) \/ Crash(d)
    \/ CommandStep \/ Interrupt
    \/ \E r \in Repos, cmd \in {"start", "stop", "stopall"} : Command(cmd, r, "none")
    \/ \E r \in Repos, t \in Targets :
          \/ \E cmd \in {"add", "get", "remove"} : Command(cmd, r, t)
          \/ Edit(r, t) \/ RemoteChange(r, t) \/ MoveRoot(r, t)

\* Processes are scheduled; nobody has to edit, fail or crash.
Spec ==
    /\ Init /\ [][Next]_vars
    /\ \A d \in Daemons : WF_vars(DaemonStep(d))
    /\ WF_vars(CommandStep)

-----------------------------------------------------------------------------
\* start and stop, one after another, while the daemon may die at any point:
\* there is one daemon at most, its state file names it as long as it runs, and
\* no file means that none runs but the one a start is waiting for.
DaemonAccountedFor ==
    \A d \in Daemons : Up(d) =>
        /\ \A e \in Daemons : Up(e) => e = d
        /\ state = d \/ (daemon[d].pc = "born" /\ cli.pc = "await" /\ cli.child = d)

\* Nobody can tell: not registered, no entry, a file cut short, a directory that
\* was edited after it was moved, or no daemon.
Excused(r, t) ==
    \/ r \notin registry \/ config[r][t] = Gone \/ torn \cap {Registry, r} # {}
    \/ (config[r][t] # place[r][t] /\ <<r, t>> \in edited)
    \/ \A d \in Daemons : ~Up(d)

\* The daemon syncs what changed, here or elsewhere, whatever events are lost,
\* runtimes replaced, runs failed, and wherever the directory was moved to: no
\* target stays behind for ever.  (Entries added or fetched put the server's
\* text over edits of the others; such edits are no longer there to be synced.)
ChangesGetThrough ==
    \A r \in Repos, t \in Targets :
        []<>(<<r, t>> \notin edited \cup behind \/ Excused(r, t))

\* ARCHITECTURE.md:261 "avoid file write loops": once nobody changes anything
\* the daemon comes to have no local work.
QuietDaemonSettles ==
    <>[](\A d \in Daemons, r \in Repos : runtime[d][r].queue \cup runtime[d][r].diff \cup runtime[d][r].pending = {})
=============================================================================
