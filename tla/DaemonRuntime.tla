---- MODULE DaemonRuntime ----
(***************************************************************************)
(* The threads around DaemonState (ade-daemon/src/windows.rs): clients,    *)
(* one reader and one control thread per shell, the process monitor and    *)
(* the main thread that starts the daemon.  A step is one critical section *)
(* of the code's mutexes or one call that can be overtaken.                *)
(*                                                                         *)
(* The handlers are those of DaemonState.  There `stored` changes together *)
(* with the snapshot; here it is what should be on disk, and `disk` what   *)
(* is.  Output bytes are the subject of OutputHub.                         *)
(***************************************************************************)
EXTENDS DaemonState

CONSTANTS Clients,
          Fitting,      \* the sizes PtySize::new accepts, those of a COORD
          SavesFail,    \* may the repository fail to save?
          Budgets       \* bounds: requests the clients make, directories and
                        \* labels observed (reports), and times the daemon dies

ASSUME RuntimeAssumption ==
    /\ Fitting \subseteq Sizes /\ SavesFail \in BOOLEAN
    /\ Budgets \subseteq [requests : Nat, reports : Nat, crashes : Nat]

VARIABLES disk,      \* the snapshot in the repository
          mode,      \* of the daemon: down, starting, up or failed
          toSpawn,   \* panes that run() has still to spawn
          requests,  \* the holder of Shared.requests, or None
          job,       \* [Threads -> what the thread is in the middle of]
          sessions,  \* the keys of Shared.sessions
          control,   \* [PaneIds -> control thread]: none, running, closing, ended
          stopSent,  \* panes with Control::Stop in their channel
          shown,     \* the last snapshot sent to the subscribed client, or None
          left       \* what is left of the budget

runtimeVars == <<disk, mode, toSpawn, requests, job, sessions, control,
                 stopSent, shown, left>>
stateVars == <<snapshot, stored, spawned, usedPanes, usedWs>>
allVars == <<stateVars, runtimeVars>>

Client(c)  == <<"client", c>>
Closer(p)  == <<"closer", p>>   \* the control thread, once it closes the pane
Tracker(p) == <<"tracker", p>>  \* the reader thread, on a reported directory
Monitor    == <<"monitor", None>>
Main       == <<"main", None>>

Threads == {Client(c) : c \in Clients} \cup {Closer(p) : p \in PaneIds}
           \cup {Tracker(p) : p \in PaneIds} \cup {Monitor, Main}

ASSUME ThreadAssumption == None \notin Threads

Idle == [pc |-> "idle", spawn |-> None, stop |-> {}, copy |-> EmptySnapshot]

Steps == {"idle", "ended", "acting", "inserting", "marking", "copying", "saving",
          "publishing", "emitting", "attaching"}

RuntimeTypeOK ==
    /\ TypeOK
    /\ IsSnapshot(disk)
    /\ mode \in {"down", "starting", "up", "failed"}
    /\ toSpawn \subseteq PaneIds /\ sessions \subseteq PaneIds
    /\ requests \in Threads \cup {None}
    /\ \A t \in Threads : job[t].pc \in Steps /\ IsSnapshot(job[t].copy)
    /\ control \in [PaneIds -> {"none", "running", "closing", "ended"}]
    /\ shown = None \/ IsSnapshot(shown)

RuntimeInit ==
    /\ Init
    /\ disk = EmptySnapshot
    /\ mode = "down"
    /\ toSpawn = {} /\ sessions = {} /\ stopSent = {}
    /\ requests = None
    /\ job = [t \in Threads |-> Idle]
    /\ control = [p \in PaneIds |-> "none"]
    /\ shown = None
    /\ left \in Budgets

At(t, pc) == job[t].pc = pc /\ mode \in {"starting", "up"}

Goto(t, pc) == job' = [job EXCEPT ![t].pc = pc]

\* OutputHub::emit of a PaneStatus, as the client applies it.
ShownStatus(p, status) ==
    IF shown = None THEN None
    ELSE IF p \notin DOMAIN shown.panes THEN shown
    ELSE SetPaneStatus(shown, p, status)

----
(* Starting and dying *)

\* What a process that dies takes with it.
Forgotten ==
    /\ job' = [t \in Threads |-> Idle]
    /\ requests' = None /\ shown' = None
    /\ sessions' = {} /\ stopSent' = {}
    /\ control' = [p \in PaneIds |-> "none"]

Crash ==
    /\ mode \in {"starting", "up"}
    /\ left.crashes > 0
    /\ mode' = "down"
    /\ left' = [left EXCEPT !.crashes = @ - 1]
    /\ snapshot' = EmptySnapshot /\ stored' = EmptySnapshot
    /\ spawned' = {} /\ toSpawn' = {}
    /\ Forgotten
    /\ UNCHANGED disk /\ NoNewIds

\* run(): load_state, DaemonState::new, and the list of panes to start.
Boot ==
    /\ mode \in {"down", "failed"}
    /\ mode' = "starting"
    /\ snapshot' = Restarted(disk) /\ stored' = Restarted(disk)
    /\ spawned' = DOMAIN disk.panes
    /\ toSpawn' = DOMAIN disk.panes
    /\ Forgotten
    /\ UNCHANGED <<disk, left>> /\ NoNewIds

\* run(): the next pane to spawn; when there is none, the snapshot is saved.
StartNext ==
    /\ mode = "starting"
    /\ At(Main, "idle")
    /\ IF toSpawn = {} THEN Goto(Main, "copying") /\ UNCHANGED toSpawn
       ELSE \E p \in toSpawn :
               /\ toSpawn' = toSpawn \ {p}
               /\ IF p \in DOMAIN snapshot.panes
                  THEN job' = [job EXCEPT ![Main] = [Idle EXCEPT !.pc = "acting", !.spawn = p]]
                  ELSE Goto(Main, "ended")
    /\ mode' = IF job'[Main].pc = "ended" THEN "failed" ELSE mode
    /\ UNCHANGED <<stateVars, disk, requests, sessions, control, stopSent, shown, left>>

----
(* Requests *)

\* client_loop: take the requests lock, then handle the request.  A request
\* that is refused changes nothing.
BeginRequest(c) ==
    /\ mode = "up" /\ At(Client(c), "idle")
    /\ requests = None
    /\ left.requests > 0
    /\ left' = [left EXCEPT !.requests = @ - 1]
    /\ Request
    /\ requests' = Client(c)
    /\ job' = [job EXCEPT ![Client(c)] =
                  [Idle EXCEPT !.pc = "acting", !.stop = spawned \ spawned',
                               !.spawn = IF spawned' \subseteq spawned THEN None
                                         ELSE CHOOSE p \in spawned' \ spawned : TRUE]]
    /\ UNCHANGED <<disk, mode, toSpawn, sessions, control, stopSent, shown>>

\* Mutant: the sessions are forgotten without a Stop.
ClosePanesSilently(t) ==
    /\ At(t, "acting") /\ job[t].spawn = None
    /\ sessions' = sessions \ job[t].stop
    /\ job' = [job EXCEPT ![t] = [Idle EXCEPT !.pc = "copying"]]
    /\ UNCHANGED <<stateVars, disk, mode, toSpawn, requests, control, stopSent,
                   shown, left>>

\* Mutant: the sessions are stopped and stay registered.
ClosePanesRegistered(t) ==
    /\ At(t, "acting") /\ job[t].spawn = None
    /\ stopSent' = stopSent \cup (job[t].stop \cap sessions)
    /\ job' = [job EXCEPT ![t] = [Idle EXCEPT !.pc = "copying"]]
    /\ UNCHANGED <<stateVars, disk, mode, toSpawn, requests, sessions, control,
                   shown, left>>

\* apply_action for ClosePane and ClosePanes (none for the other actions):
\* close_pane of each pane.  Nobody else touches these entries.
ClosePanes(t) ==
    /\ At(t, "acting") /\ job[t].spawn = None
    /\ sessions' = sessions \ job[t].stop
    /\ stopSent' = stopSent \cup (job[t].stop \cap sessions)
    /\ job' = [job EXCEPT ![t] = [Idle EXCEPT !.pc = "copying"]]
    /\ UNCHANGED <<stateVars, disk, mode, toSpawn, requests, control, shown, left>>

----
(* spawn_pane, by a client or by the main thread *)

\* What an error of spawn_pane means: a client is told and goes on, run()
\* returns.
SpawnError(t) ==
    IF t = Main THEN mode' = "failed" /\ UNCHANGED job
    ELSE job' = [job EXCEPT ![t] = [Idle EXCEPT !.pc = "copying"]] /\ UNCHANGED mode

SpawnDone(t) ==
    job' = [job EXCEPT ![t] = [Idle EXCEPT !.pc = IF t = Main THEN "idle" ELSE "copying"]]

\* PtySize::new refuses the size, before anything is spawned.
SpawnRefused(t) ==
    LET p == job[t].spawn
    IN  /\ At(t, "acting") /\ p # None
        /\ p \in DOMAIN snapshot.panes => snapshot.panes[p].size \notin Fitting
        /\ SpawnError(t)
        /\ UNCHANGED <<stateVars, disk, toSpawn, requests, sessions, control,
                       stopSent, shown, left>>

\* Mutant: the error of a shell that does not start is returned, as that of a
\* refused size is.
SpawnFailsLoudly(t) ==
    LET p == job[t].spawn
    IN  /\ At(t, "acting") /\ p \in DOMAIN snapshot.panes
        /\ "FailedToStart" \in Observable
        /\ snapshot.panes[p].size \in Fitting
        /\ SpawnError(t)
        /\ UNCHANGED <<stateVars, disk, toSpawn, requests, sessions, control,
                       stopSent, shown, left>>

\* ConPtySession::spawn fails, which becomes the status of the pane.
SpawnFails(t) ==
    LET p == job[t].spawn
    IN  /\ At(t, "acting") /\ p \in DOMAIN snapshot.panes
        /\ "FailedToStart" \in Observable
        /\ snapshot.panes[p].size \in Fitting
        /\ snapshot' = SetPaneStatus(snapshot, p, "FailedToStart")
        /\ shown' = ShownStatus(p, "FailedToStart")
        /\ SpawnDone(t)
        /\ UNCHANGED <<stored, spawned, usedPanes, usedWs, disk, mode, toSpawn,
                       requests, sessions, control, stopSent, left>>

\* The shell and its threads run, before the session is registered.
SpawnStarts(t) ==
    LET p == job[t].spawn
    IN  /\ At(t, "acting") /\ p \in DOMAIN snapshot.panes
        /\ snapshot.panes[p].size \in Fitting
        /\ control' = [control EXCEPT ![p] = "running"]
        /\ Goto(t, "inserting")
        /\ UNCHANGED <<stateVars, disk, mode, toSpawn, requests, sessions, stopSent,
                       shown, left>>

SpawnInserts(t) ==
    /\ At(t, "inserting")
    /\ sessions' = sessions \cup {job[t].spawn}
    /\ Goto(t, "marking")
    /\ UNCHANGED <<stateVars, disk, mode, toSpawn, requests, control, stopSent,
                   shown, left>>

SpawnMarks(t) ==
    LET p == job[t].spawn
    IN  /\ At(t, "marking")
        /\ IF p \in DOMAIN snapshot.panes
           THEN /\ snapshot' = SetPaneStatus(snapshot, p, "Running")
                /\ shown' = ShownStatus(p, "Running")
                /\ SpawnDone(t)
                /\ UNCHANGED mode
           ELSE SpawnError(t) /\ UNCHANGED <<snapshot, shown>>
        /\ UNCHANGED <<stored, spawned, usedPanes, usedWs, disk, toSpawn, requests,
                       sessions, control, stopSent, left>>

----
(* persist_snapshot, and publishing: each takes its copy under the state   *)
(* lock and uses it under another                                          *)

CopyToSave(t) ==
    /\ At(t, "copying")
    /\ job' = [job EXCEPT ![t].pc = "saving", ![t].copy = snapshot]
    /\ UNCHANGED <<stateVars, disk, mode, toSpawn, requests, sessions, control,
                   stopSent, shown, left>>

Save(t) ==
    /\ At(t, "saving")
    /\ disk' = job[t].copy
    /\ mode' = IF t = Main THEN "up" ELSE mode
    /\ job' = [job EXCEPT ![t] = [Idle EXCEPT !.pc = IF t = Main THEN "ended"
                                                     ELSE "publishing"]]
    /\ UNCHANGED <<stateVars, toSpawn, requests, sessions, control, stopSent,
                   shown, left>>

Release(t) == requests' = IF requests = t THEN None ELSE requests

\* A client's thread ends, run() returns, a closer goes on, a tracker drops it.
SaveFails(t) ==
    /\ SavesFail
    /\ At(t, "saving")
    /\ mode' = IF t = Main THEN "failed" ELSE mode
    /\ job' = [job EXCEPT ![t] = [Idle EXCEPT !.pc =
                  CASE t[1] = "closer"  -> "publishing"
                    [] t[1] = "tracker" -> "idle"
                    [] OTHER            -> "ended"]]
    /\ IF t[1] = "closer" THEN UNCHANGED requests ELSE Release(t)
    /\ UNCHANGED <<stateVars, disk, toSpawn, sessions, control, stopSent, shown, left>>

CopyToPublish(t) ==
    /\ At(t, "publishing")
    /\ job' = [job EXCEPT ![t].pc = "emitting", ![t].copy = snapshot]
    /\ UNCHANGED <<stateVars, disk, mode, toSpawn, requests, sessions, control,
                   stopSent, shown, left>>

\* Mutant: an event waits for a subscriber.
EmitWaits(t) ==
    /\ At(t, "emitting")
    /\ shown # None
    /\ shown' = job[t].copy
    /\ job' = [job EXCEPT ![t] = Idle]
    /\ Release(t)
    /\ UNCHANGED <<stateVars, disk, mode, toSpawn, sessions, control, stopSent, left>>

Emit(t) ==
    /\ At(t, "emitting")
    /\ shown' = IF shown = None THEN None ELSE job[t].copy
    /\ job' = [job EXCEPT ![t] = IF t[1] = "closer" THEN [Idle EXCEPT !.pc = "ended"]
                                 ELSE Idle]
    /\ Release(t)
    /\ UNCHANGED <<stateVars, disk, mode, toSpawn, sessions, control, stopSent, left>>

\* Attach: the snapshot is copied before the output lock is taken.
AttachCopies(c) ==
    /\ mode = "up" /\ At(Client(c), "idle")
    /\ shown = None
    /\ job' = [job EXCEPT ![Client(c)] = [Idle EXCEPT !.pc = "attaching", !.copy = snapshot]]
    /\ UNCHANGED <<stateVars, disk, mode, toSpawn, requests, sessions, control,
                   stopSent, shown, left>>

AttachActivates(c) ==
    /\ At(Client(c), "attaching")
    /\ shown' = job[Client(c)].copy
    /\ job' = [job EXCEPT ![Client(c)] = Idle]
    /\ UNCHANGED <<stateVars, disk, mode, toSpawn, requests, sessions, control,
                   stopSent, left>>

----
(* The threads of a shell *)

\* control_session receives Stop and returns; the session is dropped.
ControlStops(p) ==
    /\ mode \in {"starting", "up"}
    /\ control[p] = "running" /\ p \in stopSent
    /\ control' = [control EXCEPT ![p] = "ended"]
    /\ UNCHANGED <<stateVars, disk, mode, toSpawn, requests, job, sessions, stopSent,
                   shown, left>>

\* try_wait finds the shell gone, whether or not a Stop has arrived since.
ControlSeesExit(p) ==
    /\ mode \in {"starting", "up"}
    /\ control[p] = "running"
    /\ "Exited" \in Observable
    /\ control' = [control EXCEPT ![p] = "closing"]
    /\ IF p \in DOMAIN snapshot.panes
       THEN snapshot' = SetPaneStatus(snapshot, p, "Exited")
       ELSE UNCHANGED snapshot
    /\ shown' = ShownStatus(p, "Exited")
    /\ UNCHANGED <<stored, spawned, usedPanes, usedWs, disk, mode, toSpawn, requests,
                   job, sessions, stopSent, left>>

\* try_wait fails: the status says so, and the thread ends with the shell.
ControlFails(p) ==
    /\ mode \in {"starting", "up"}
    /\ control[p] = "running"
    /\ "FailedToStart" \in Observable
    /\ control' = [control EXCEPT ![p] = "ended"]
    /\ IF p \in DOMAIN snapshot.panes
       THEN snapshot' = SetPaneStatus(snapshot, p, "FailedToStart")
       ELSE UNCHANGED snapshot
    /\ shown' = ShownStatus(p, "FailedToStart")
    /\ UNCHANGED <<stored, spawned, usedPanes, usedWs, disk, mode, toSpawn, requests,
                   job, sessions, stopSent, left>>

\* Mutant: an exit that finds the requests lock taken is forgotten.
BeginCloseTry(p) ==
    /\ mode \in {"starting", "up"}
    /\ control[p] = "closing"
    /\ requests # None
    /\ control' = [control EXCEPT ![p] = "ended"]
    /\ UNCHANGED <<stateVars, disk, mode, toSpawn, requests, job, sessions, stopSent,
                   shown, left>>

\* close_exited_pane: ClosePane under the requests lock, then close_pane.  For
\* a pane that is gone the request is accepted and changes nothing.
BeginClose(p) ==
    /\ mode \in {"starting", "up"}
    /\ control[p] = "closing"
    /\ requests = None
    /\ control' = [control EXCEPT ![p] = "ended"]
    /\ IF CanClosePane(snapshot, p)
       THEN /\ Mutation(ClosePane(snapshot, p))
            /\ spawned' = spawned \ {p}
            /\ requests' = Closer(p)
            /\ job' = [job EXCEPT ![Closer(p)] =
                          [Idle EXCEPT !.pc = "acting", !.stop = {p}]]
            /\ UNCHANGED <<sessions, stopSent>>
       ELSE /\ sessions' = sessions \ {p}
            /\ stopSent' = stopSent \cup (sessions \cap {p})
            /\ UNCHANGED <<snapshot, stored, spawned, requests, job>>
    /\ UNCHANGED <<disk, mode, toSpawn, shown, left>> /\ NoNewIds

\* The shell reports another directory: update_pane_cwd, without the requests
\* lock, saves and publishes in the reader thread.
ReportCwd(p) ==
    /\ At(Tracker(p), "idle")
    /\ control[p] # "none"
    /\ left.reports > 0
    /\ left' = [left EXCEPT !.reports = @ - 1]
    /\ p \in DOMAIN snapshot.panes
    /\ \E cwd \in Dirs \ {snapshot.panes[p].cwd} : Mutation(SetPaneCwd(snapshot, p, cwd))
    /\ Goto(Tracker(p), "copying")
    /\ UNCHANGED <<spawned, usedPanes, usedWs, disk, mode, toSpawn, requests, sessions,
                   control, stopSent, shown>>

\* monitor_pane_processes: labels are not saved, only published.
ObserveLabel ==
    /\ mode = "up" /\ At(Monitor, "idle")
    /\ left.reports > 0
    /\ left' = [left EXCEPT !.reports = @ - 1]
    /\ \E p \in DOMAIN snapshot.panes \cap sessions :
           \E label \in Labels \ {snapshot.panes[p].label} :
              snapshot' = SetPaneProcessLabel(snapshot, p, label)
    /\ Goto(Monitor, "publishing")
    /\ UNCHANGED <<stored, spawned, usedPanes, usedWs, disk, mode, toSpawn, requests,
                   sessions, control, stopSent, shown>>

----
ThreadStep(t) ==
    \/ ClosePanes(t)
    \/ SpawnRefused(t) \/ SpawnFails(t) \/ SpawnStarts(t)
    \/ SpawnInserts(t) \/ SpawnMarks(t)
    \/ CopyToSave(t) \/ Save(t) \/ SaveFails(t)
    \/ CopyToPublish(t) \/ Emit(t)

RuntimeNext ==
    \/ Boot \/ Crash \/ StartNext
    \/ \E c \in Clients : BeginRequest(c) \/ AttachCopies(c) \/ AttachActivates(c)
    \/ \E t \in Threads : ThreadStep(t)
    \/ \E p \in PaneIds :
          \/ ControlStops(p) \/ ControlSeesExit(p) \/ ControlFails(p)
          \/ BeginClose(p) \/ ReportCwd(p)
    \/ ObserveLabel

RuntimeSpec == RuntimeInit /\ [][RuntimeNext]_allVars

\* A thread that can go on does; the requests lock is handed on, since the
\* requests of an instance are bounded.  Nothing makes clients ask, shells
\* exit or the daemon die.
RuntimeFairness ==
    /\ WF_allVars(StartNext)
    /\ \A t \in Threads : WF_allVars(ThreadStep(t))
    /\ \A p \in PaneIds : WF_allVars(BeginClose(p)) /\ WF_allVars(ControlStops(p))

RuntimeFairSpec == RuntimeSpec /\ RuntimeFairness

----
(* Properties *)

\* Every shell that runs belongs to a pane of the snapshot, has been sent its
\* Stop, or is about to be: no interleaving of requests, exits and spawns
\* leaves a shell behind that no pane names.
NoOrphanShell ==
    \A p \in PaneIds :
        mode = "up" /\ control[p] = "running" =>
            \/ p \in DOMAIN snapshot.panes
            \/ p \in stopSent
            \/ \E t \in Threads : p \in job[t].stop /\ job[t].pc = "acting"

\* Between two requests the registered sessions are those of known panes, and
\* of the panes the UI treats as live those that run have one to take their
\* input.  A pane that is still starting has none: its size was refused, and
\* nobody tries again.
SessionsMatch ==
    mode = "up" /\ requests = None =>
        /\ sessions \subseteq DOMAIN snapshot.panes
        /\ \A p \in DOMAIN snapshot.panes :
              HasLiveSession(snapshot.panes[p]) =>
                  (p \in sessions <=> snapshot.panes[p].status = "Running")

\* What is saved, loaded, published and shown is well formed in every
\* interleaving: copies are taken whole under the state lock.
CopiesWellFormed ==
    /\ RuntimeTypeOK
    /\ WellFormed(snapshot) /\ WellFormed(disk)
    /\ shown = None \/ WellFormed(shown)

\* Threads, sessions, panes and the copies of the snapshot agree in every
\* interleaving of requests, exits, spawns, saves and restarts.
ShellsHavePanes == NoOrphanShell /\ SessionsMatch /\ CopiesWellFormed

\* Nothing is under way.
AtRest == /\ mode = "up"
          /\ \A t \in Threads : job[t].pc \in {"idle", "ended"}
          /\ \A p \in PaneIds : control[p] # "closing"

\* docs/features.md sections 9.4 and 10: exited panes are removed from the
\* persisted layout, and a restart loads the saved workspaces.  Once every
\* thread is done the repository holds what the daemon would show.
DiskCatchesUp == AtRest => Lasting(disk) = Lasting(snapshot)

\* docs/features.md section 9.4: the daemon removes exited panes.  Whoever
\* holds the requests lock, an observed exit ends in the pane's removal.
ExitRemovesPane ==
    \A p \in PaneIds :
        (mode = "up" /\ control[p] = "closing") ~> (p \notin DOMAIN snapshot.panes)

\* An accepted request is carried out to its end, failures included.
RequestFinishes ==
    \A c \in Clients : (job[Client(c)].pc = "acting")
                           ~> (job[Client(c)].pc \in {"idle", "ended"})

\* docs/features.md section 13: a shell that cannot be started is a status of
\* its pane and does not end the daemon.  What does end run() before the pipe
\* is served is a save that fails, a stored size no console can have, or a
\* shell that exits while others are still being started.
StartFailsFor ==
    \/ job[Main].pc = "saving"
    \/ \E p \in DOMAIN snapshot.panes : snapshot.panes[p].size \notin Fitting
    \/ \E p \in PaneIds : control[p] \in {"closing", "ended"}

StartFailsOnlyFor == [][mode' = "failed" => StartFailsFor]_mode

\* Starting comes to an end: the daemon serves, or it is gone.
StartEnds == (mode = "starting") ~> (mode # "starting")

\* What holds or waits for the requests lock is done in the end, and so is
\* starting, which no shell that fails to start prevents.
WorkFinishes == ExitRemovesPane /\ RequestFinishes /\ StartEnds /\ StartFailsOnlyFor
====
