---- MODULE DaemonRuntime_proofs ----
(***************************************************************************)
(* That no interleaving of the daemon's threads loses a shell, a session   *)
(* or a snapshot (DaemonRuntime), for every set of clients and panes and   *)
(* every budget.  There are two layers.  Sound, the first, says what holds *)
(* of each variable alone: the invariant of DaemonState, the copies of the *)
(* snapshot that are under way, and types.  Shells, the second, is about   *)
(* who may be doing what with which pane.                                  *)
(***************************************************************************)
EXTENDS DaemonRuntime, DaemonState_proofs

----
(* The first layer *)

\* The shape of a thread's record.
Rec(pc, spawn, stop, copy) == [pc |-> pc, spawn |-> spawn, stop |-> stop, copy |-> copy]

\* A snapshot, and the record of a thread, that only name panes of P and
\* workspaces of W.
Fits(s, P, W) == WellFormed(s) /\ DOMAIN s.panes \subseteq P /\ DOMAIN s.ws \subseteq W

\* Where a thread has begun to spawn a pane.
Spawning == {"inserting", "marking"}

JobFits(j, P, W) ==
    /\ j = Rec(j.pc, j.spawn, j.stop, j.copy)
    /\ j.pc \in Steps
    /\ j.spawn \in P \cup {None} /\ j.stop \subseteq P
    /\ j.pc \in Spawning => j.spawn # None
    /\ Fits(j.copy, P, W)

JobsOK ==
    /\ job = [t \in Threads |-> job[t]]
    /\ \A t \in Threads : JobFits(job[t], usedPanes, usedWs)

ShownOK == shown = None \/ WellFormed(shown)

Controls == {"none", "running", "closing", "ended"}

PlainOK ==
    /\ mode \in {"down", "starting", "up", "failed"}
    /\ toSpawn \subseteq usedPanes /\ sessions \subseteq usedPanes
    /\ requests \in Threads \cup {None}
    /\ control \in [PaneIds -> Controls]

Sound == IInv /\ Fits(disk, usedPanes, usedWs) /\ JobsOK /\ ShownOK /\ PlainOK

\* Identifiers are only added.
Growing == usedPanes \subseteq usedPanes' /\ usedWs \subseteq usedWs'

LEMMA FitsGrows ==
    ASSUME NEW P, NEW W, NEW P2, NEW W2, P \subseteq P2, W \subseteq W2
    PROVE  /\ \A s : Fits(s, P, W) => Fits(s, P2, W2)
           /\ \A j : JobFits(j, P, W) => JobFits(j, P2, W2)
  <1>1. \A s : Fits(s, P, W) => Fits(s, P2, W2)
    BY DEF Fits
  <1>2. ASSUME NEW j, JobFits(j, P, W)  PROVE JobFits(j, P2, W2)
    <2>1. j.spawn \in P2 \cup {None} /\ j.stop \subseteq P2
      BY <1>2 DEF JobFits
    <2> QED  BY <1>1, <1>2, <2>1 DEF JobFits
  <1> QED  BY <1>1, <1>2

LEMMA EmptyFits == \A P, W : Fits(EmptySnapshot, P, W)
  <1>1. DOMAIN EmptySnapshot.panes = {} /\ DOMAIN EmptySnapshot.ws = {}
    BY DEF EmptySnapshot
  <1> QED  BY <1>1, EmptyWF DEF Fits

LEMMA SnapshotFits == ASSUME IInv  PROVE Fits(snapshot, usedPanes, usedWs)
  BY DEF IInv, SnapshotsWellFormed, Fits

\* A record with given fields, and one made from Idle or another record.
LEMMA MakeJob ==
    ASSUME NEW P, NEW W, NEW pc \in Steps, NEW spawn \in P \cup {None},
           NEW stop \in SUBSET P, NEW copy, Fits(copy, P, W),
           pc \in Spawning => spawn # None
    PROVE  JobFits(Rec(pc, spawn, stop, copy), P, W)
  BY DEF JobFits, Rec

LEMMA IdleRecords ==
    ASSUME NEW pc, NEW p, NEW stop
    PROVE  /\ Idle = Rec("idle", None, {}, EmptySnapshot)
           /\ [Idle EXCEPT !.pc = pc] = Rec(pc, None, {}, EmptySnapshot)
           /\ [Idle EXCEPT !.pc = pc, !.spawn = p] = Rec(pc, p, {}, EmptySnapshot)
           /\ [Idle EXCEPT !.pc = pc, !.stop = stop] = Rec(pc, None, stop, EmptySnapshot)
           /\ [Idle EXCEPT !.pc = pc, !.stop = stop, !.spawn = p]
                 = Rec(pc, p, stop, EmptySnapshot)
  <1> DEFINE k == [Idle EXCEPT !.pc = pc]
             l == [k EXCEPT !.stop = stop]
  <1>1. Idle = Rec("idle", None, {}, EmptySnapshot)
    BY DEF Idle, Rec
  <1>2. k = Rec(pc, None, {}, EmptySnapshot)
    BY <1>1 DEF Rec
  <1> HIDE DEF k
  <1>3. [k EXCEPT !.spawn = p] = Rec(pc, p, {}, EmptySnapshot)
    BY <1>2 DEF Rec
  <1>4. l = Rec(pc, None, stop, EmptySnapshot)
    BY <1>2 DEF Rec
  <1> HIDE DEF l
  <1>5. [l EXCEPT !.spawn = p] = Rec(pc, p, stop, EmptySnapshot)
    BY <1>4 DEF Rec
  <1> QED  BY <1>1, <1>2, <1>3, <1>4, <1>5 DEF k, l

LEMMA JobRecord ==
    ASSUME NEW P, NEW W, NEW j, JobFits(j, P, W), NEW pc
    PROVE  [j EXCEPT !.pc = pc] = Rec(pc, j.spawn, j.stop, j.copy)
  <1>1. j = Rec(j.pc, j.spawn, j.stop, j.copy)
    BY DEF JobFits
  <1> QED  BY <1>1 DEF Rec

\* What thread t is doing is replaced, copy apart, and nothing else.
Becomes(t, pc, spawn, stop) ==
    \A u \in Threads :
        /\ job'[u].pc = IF u = t THEN pc ELSE job[u].pc
        /\ job'[u].spawn = IF u = t THEN spawn ELSE job[u].spawn
        /\ job'[u].stop = IF u = t THEN stop ELSE job[u].stop

LEMMA RecFields ==
    ASSUME NEW pc, NEW spawn, NEW stop, NEW copy
    PROVE  /\ Rec(pc, spawn, stop, copy).pc = pc
           /\ Rec(pc, spawn, stop, copy).spawn = spawn
           /\ Rec(pc, spawn, stop, copy).stop = stop
           /\ Rec(pc, spawn, stop, copy).copy = copy
  BY DEF Rec

LEMMA SetJob ==
    ASSUME JobsOK, Growing, NEW t \in Threads, NEW pc \in Steps,
           NEW spawn \in usedPanes' \cup {None}, NEW stop \in SUBSET usedPanes',
           NEW copy, Fits(copy, usedPanes', usedWs'), pc \in Spawning => spawn # None,
           job' = [job EXCEPT ![t] = Rec(pc, spawn, stop, copy)]
    PROVE  JobsOK' /\ Becomes(t, pc, spawn, stop)
  <1> DEFINE j == Rec(pc, spawn, stop, copy)
  <1>1. JobFits(j, usedPanes', usedWs')
    BY MakeJob
  <1>2. job = [u \in Threads |-> job[u]]
    BY DEF JobsOK
  <1>3. job' = [u \in Threads |-> job'[u]]
    BY <1>2
  <1>4. \A u \in Threads : job'[u] = IF u = t THEN j ELSE job[u]
    BY <1>2
  <1>5. ASSUME NEW u \in Threads  PROVE JobFits(job'[u], usedPanes', usedWs')
    <2>1. JobFits(job[u], usedPanes, usedWs)
      BY DEF JobsOK
    <2>2. JobFits(job[u], usedPanes', usedWs')
      BY <2>1, FitsGrows DEF Growing
    <2> QED  BY <2>2, <1>1, <1>4
  <1>6. JobsOK'
    BY <1>3, <1>5 DEF JobsOK
  <1>7. j.pc = pc /\ j.spawn = spawn /\ j.stop = stop
    BY RecFields
  <1> HIDE DEF j
  <1> QED  BY <1>4, <1>6, <1>7 DEF Becomes

LEMMA SameJobs ==
    ASSUME JobsOK, Growing, UNCHANGED job
    PROVE  JobsOK'
  <1>1. ASSUME NEW u \in Threads  PROVE JobFits(job'[u], usedPanes', usedWs')
    <2>1. JobFits(job[u], usedPanes, usedWs)
      BY DEF JobsOK
    <2> QED  BY <2>1, FitsGrows DEF Growing
  <1> QED  BY <1>1 DEF JobsOK

LEMMA IdleJob ==
    ASSUME JobsOK, Growing, NEW t \in Threads, NEW pc \in Steps \ Spawning,
           job' = [job EXCEPT ![t] = [Idle EXCEPT !.pc = pc]]
    PROVE  JobsOK' /\ Becomes(t, pc, None, {})
  <1>1. [Idle EXCEPT !.pc = pc] = Rec(pc, None, {}, EmptySnapshot)
    BY IdleRecords
  <1>2. job' = [job EXCEPT ![t] = Rec(pc, None, {}, EmptySnapshot)]
    BY <1>1
  <1> QED  BY <1>2, EmptyFits, SetJob

LEMMA GotoJob ==
    ASSUME JobsOK, Growing, NEW t \in Threads, NEW pc \in Steps, Goto(t, pc),
           pc \in Spawning => job[t].spawn # None
    PROVE  JobsOK' /\ Becomes(t, pc, job[t].spawn, job[t].stop)
  <1> DEFINE j == [job[t] EXCEPT !.pc = pc]
  <1>1. JobFits(job[t], usedPanes, usedWs)
    BY DEF JobsOK
  <1>2. JobFits(job[t], usedPanes', usedWs')
    BY <1>1, FitsGrows DEF Growing
  <1>3. j = Rec(pc, job[t].spawn, job[t].stop, job[t].copy)
    BY <1>1, JobRecord
  <1>4. job' = [job EXCEPT ![t] = j]
    BY DEF Goto
  <1> HIDE DEF j
  <1>5. job' = [job EXCEPT ![t] = Rec(pc, job[t].spawn, job[t].stop, job[t].copy)]
    BY <1>3, <1>4
  <1> QED  BY <1>2, <1>5, SetJob DEF JobFits

LEMMA CopyJob ==
    ASSUME JobsOK, IInv, NEW t \in Threads, NEW pc \in Steps \ Spawning,
           UNCHANGED <<usedPanes, usedWs>>,
           job' = [job EXCEPT ![t].pc = pc, ![t].copy = snapshot]
    PROVE  JobsOK' /\ Becomes(t, pc, job[t].spawn, job[t].stop)
  <1> DEFINE i == [job[t] EXCEPT !.pc = pc]
             j == [i EXCEPT !.copy = snapshot]
             k == [job EXCEPT ![t] = i]
  <1>1. JobFits(job[t], usedPanes, usedWs) /\ Fits(snapshot, usedPanes, usedWs)
    BY SnapshotFits DEF JobsOK
  <1>2. i = Rec(pc, job[t].spawn, job[t].stop, job[t].copy)
    BY <1>1, JobRecord
  <1>3. k[t] = i
    BY DEF JobsOK
  <1>4. [job EXCEPT ![t].pc = pc] = k
    OBVIOUS
  <1> HIDE DEF i
  <1>5. [k EXCEPT ![t].copy = snapshot] = [k EXCEPT ![t] = [k[t] EXCEPT !.copy = snapshot]]
    OBVIOUS
  <1>6. job' = [job EXCEPT ![t] = j]
    BY <1>3, <1>4, <1>5
  <1>7. j = Rec(pc, job[t].spawn, job[t].stop, snapshot)
    BY <1>2 DEF Rec
  <1> HIDE DEF j, k
  <1>8. job' = [job EXCEPT ![t] = Rec(pc, job[t].spawn, job[t].stop, snapshot)]
    BY <1>6, <1>7
  <1>9. Growing
    BY DEF Growing
  <1> QED  BY <1>1, <1>8, <1>9, SetJob DEF JobFits

LEMMA ResetJob ==
    ASSUME JobsOK, Growing, NEW t \in Threads, job' = [job EXCEPT ![t] = Idle]
    PROVE  JobsOK' /\ Becomes(t, "idle", None, {})
  <1>1. Idle = Rec("idle", None, {}, EmptySnapshot)
    BY IdleRecords
  <1>2. job' = [job EXCEPT ![t] = Rec("idle", None, {}, EmptySnapshot)]
    BY <1>1
  <1> QED  BY <1>2, EmptyFits, SetJob DEF Steps, Spawning

LEMMA ThreadKinds ==
    /\ \A c \in Clients : Client(c) \in Threads
    /\ \A p \in PaneIds : Closer(p) \in Threads /\ Tracker(p) \in Threads
    /\ Monitor \in Threads /\ Main \in Threads
  BY DEF Threads

\* Nothing of the state changes, but the disk may.
LEMMA SameState ==
    ASSUME Sound, UNCHANGED stateVars
    PROVE  IInv' /\ Growing /\ UNCHANGED <<usedPanes, usedWs>>
  BY DEF Sound, stateVars, IInv, SnapshotsWellFormed, EffectsCoverPanes, RestartRestores,
         Growing

LEMMA SameDisk ==
    ASSUME Sound, Growing, UNCHANGED disk
    PROVE  Fits(disk, usedPanes, usedWs)'
  <1>1. Fits(disk, usedPanes', usedWs')
    BY FitsGrows DEF Sound, Growing
  <1> QED  BY <1>1

\* A status is set in the snapshot, as ObserveStatus of DaemonState does.
LEMMA StatusIInv ==
    ASSUME IInv, NEW p \in DOMAIN snapshot.panes, NEW status \in Statuses,
           snapshot' = SetPaneStatus(snapshot, p, status),
           UNCHANGED <<stored, spawned, usedPanes, usedWs>>
    PROVE  IInv' /\ Growing
  <1>1. WellFormed(snapshot) /\ IsSnapshot(snapshot)
    BY DEF IInv, SnapshotsWellFormed, WellFormed
  <1>2. WellFormed(snapshot')
    BY <1>1, SetPaneFieldsWF
  <1>3. Lasting(snapshot') = Lasting(snapshot)
    BY <1>1, ObservationsNotLasting
  <1>4. DOMAIN snapshot'.panes = DOMAIN snapshot.panes /\ snapshot'.ws = snapshot.ws
    BY DEF SetPaneStatus, Update
  <1> QED  BY <1>2, <1>3, <1>4
           DEF IInv, SnapshotsWellFormed, EffectsCoverPanes, RestartRestores, Growing

LEMMA ShownStatusOK ==
    ASSUME ShownOK, NEW p, NEW status \in Statuses, shown' = ShownStatus(p, status)
    PROVE  ShownOK'
  <1>1. CASE shown = None \/ p \notin DOMAIN shown.panes
    BY <1>1 DEF ShownStatus, ShownOK
  <1>2. CASE shown # None /\ p \in DOMAIN shown.panes
    BY <1>2, SetPaneFieldsWF DEF ShownStatus, ShownOK
  <1> QED  BY <1>1, <1>2

\* A process that dies: all threads idle, nothing registered.
LEMMA ForgottenOK ==
    ASSUME Forgotten, mode' \in {"down", "starting", "up", "failed"}, toSpawn' \subseteq usedPanes'
    PROVE  JobsOK' /\ ShownOK' /\ PlainOK'
  <1>1. ASSUME NEW P, NEW W  PROVE JobFits(Idle, P, W)
    <2>1. Idle = Rec("idle", None, {}, EmptySnapshot)
      BY IdleRecords
    <2> QED  BY <2>1, MakeJob, EmptyFits DEF Steps, Spawning
  <1>2. JobsOK'
    BY <1>1 DEF Forgotten, JobsOK
  <1> QED  BY <1>2 DEF Forgotten, ShownOK, PlainOK, Controls

----
(* Each step keeps the first layer *)

LEMMA CrashSound == ASSUME Sound, Crash  PROVE Sound'
  <1>1. /\ snapshot' = EmptySnapshot /\ stored' = EmptySnapshot /\ spawned' = {}
        /\ UNCHANGED <<usedPanes, usedWs>> /\ UNCHANGED disk
    BY DEF Crash, NoNewIds
  <1>2. DOMAIN EmptySnapshot.panes = {} /\ DOMAIN EmptySnapshot.ws = {}
    BY DEF EmptySnapshot
  <1>3. IInv'
    BY <1>1, <1>2, EmptyWF
       DEF Sound, IInv, SnapshotsWellFormed, EffectsCoverPanes, RestartRestores
  <1>4. Growing
    BY <1>1 DEF Growing
  <1>5. JobsOK' /\ ShownOK' /\ PlainOK'
    BY ForgottenOK DEF Crash
  <1> QED  BY <1>1, <1>3, <1>4, <1>5, SameDisk DEF Sound

LEMMA BootSound == ASSUME Sound, Boot  PROVE Sound'
  <1> DEFINE n == Restarted(disk)
  <1>1. /\ Mutation(n) /\ spawned' = DOMAIN disk.panes /\ toSpawn' = DOMAIN disk.panes
        /\ UNCHANGED <<usedPanes, usedWs>> /\ UNCHANGED disk
    BY DEF Boot, Mutation, NoNewIds
  <1>2. WellFormed(n)
    BY RestartedWF DEF Sound, Fits
  <1>3. DOMAIN n.panes = DOMAIN disk.panes /\ DOMAIN n.ws = DOMAIN disk.ws
    BY DEF Restarted, Update
  <1> HIDE DEF n
  <1>4. IInv'
    BY <1>1, <1>2, <1>3, MutationIInv DEF Sound, IInv, Fits
  <1>5. Growing
    BY <1>1 DEF Growing
  <1>6. JobsOK' /\ ShownOK' /\ PlainOK'
    BY <1>1, ForgottenOK DEF Boot, Sound, Fits
  <1> QED  BY <1>1, <1>4, <1>5, <1>6, SameDisk DEF Sound

LEMMA RequestIInv ==
    ASSUME IInv, Request
    PROVE  IInv' /\ Growing
  <1>1. IInv'
    BY CreateIInv, CloseIInv, UpdateIInv DEF Request
  <1>2. Growing
    BY DEF Growing, Request, NoNewIds, DoCreateWorkspace, DoRenameWorkspace,
           DoCloseWorkspace, DoCreatePane, DoSplitPane, DoClosePane, DoFocusWorkspace,
           DoFocusPane, DoUpdateLayout, DoResize, DoReportCwd
  <1> QED  BY <1>1, <1>2

\* The pane a request has a client spawn, if any.
ToStart == IF spawned' \subseteq spawned THEN None
           ELSE CHOOSE p \in spawned' \ spawned : TRUE

LEMMA RequestJob ==
    ASSUME Sound, NEW c \in Clients, BeginRequest(c)
    PROVE  /\ IInv' /\ Growing /\ JobsOK'
           /\ Becomes(Client(c), "acting", ToStart, spawned \ spawned')
  <1>1. IInv' /\ Growing
    BY RequestIInv DEF BeginRequest, Sound
  <1>2. spawned \subseteq usedPanes' /\ spawned' \subseteq usedPanes'
    BY <1>1 DEF Sound, IInv, EffectsCoverPanes, Growing
  <1>3. ToStart \in usedPanes' \cup {None}
    BY <1>2 DEF ToStart
  <1>4. job' = [job EXCEPT ![Client(c)] =
                   [Idle EXCEPT !.pc = "acting", !.stop = spawned \ spawned',
                                !.spawn = ToStart]]
    BY DEF BeginRequest, ToStart
  <1> DEFINE start == ToStart  gone == spawned \ spawned'
  <1> HIDE DEF start, gone
  <1>5. [Idle EXCEPT !.pc = "acting", !.stop = gone, !.spawn = start]
           = Rec("acting", start, gone, EmptySnapshot)
    BY IdleRecords
  <1>6. job' = [job EXCEPT ![Client(c)] = Rec("acting", start, gone, EmptySnapshot)]
    BY <1>4, <1>5 DEF start, gone
  <1>7. /\ Client(c) \in Threads /\ "acting" \in Steps
        /\ start \in usedPanes' \cup {None} /\ gone \in SUBSET usedPanes'
        /\ Fits(EmptySnapshot, usedPanes', usedWs') /\ "acting" \notin Spawning
    BY <1>2, <1>3, ThreadKinds, EmptyFits DEF Steps, Spawning, start, gone
  <1>8. JobsOK' /\ Becomes(Client(c), "acting", start, gone)
    BY <1>1, <1>6, <1>7, SetJob DEF Sound
  <1> QED  BY <1>1, <1>8 DEF start, gone

LEMMA RequestSound == ASSUME Sound, NEW c \in Clients, BeginRequest(c)  PROVE Sound'
  <1>1. IInv' /\ Growing /\ JobsOK'
    BY RequestJob
  <1>2. UNCHANGED <<disk, mode, toSpawn, sessions, control, shown>> /\ requests' = Client(c)
    BY DEF BeginRequest
  <1>3. PlainOK'
    BY <1>1, <1>2, ThreadKinds DEF Sound, PlainOK, Growing
  <1>4. ShownOK'
    BY <1>2 DEF Sound, ShownOK
  <1> QED  BY <1>1, <1>2, <1>3, <1>4, SameDisk DEF Sound

\* A step that leaves the state alone.
LEMMA Quiet ==
    ASSUME Sound, UNCHANGED stateVars, JobsOK', ShownOK', PlainOK',
           Fits(disk', usedPanes, usedWs)
    PROVE  Sound'
  <1>1. IInv' /\ UNCHANGED <<usedPanes, usedWs>>
    BY SameState
  <1> QED  BY <1>1 DEF Sound

LEMMA ClosePanesSound ==
    ASSUME Sound, NEW t \in Threads, ClosePanes(t)
    PROVE  Sound' /\ Becomes(t, "copying", None, {})
  <1>1. Growing /\ UNCHANGED <<usedPanes, usedWs>>
    BY SameState DEF ClosePanes
  <1>2. JobsOK' /\ Becomes(t, "copying", None, {})
    BY <1>1, IdleJob DEF ClosePanes, Sound, Steps, Spawning
  <1>3. ShownOK' /\ PlainOK'
    BY <1>1 DEF ClosePanes, Sound, ShownOK, PlainOK
  <1> QED  BY <1>2, <1>3, Quiet DEF ClosePanes, Sound

\* What an error of spawn_pane leaves.
LEMMA SpawnErrorJob ==
    ASSUME JobsOK, Growing, NEW t \in Threads, SpawnError(t)
    PROVE  /\ JobsOK'
           /\ t = Main => mode' = "failed" /\ UNCHANGED job
           /\ t # Main => Becomes(t, "copying", None, {}) /\ UNCHANGED mode
  <1>1. CASE t = Main
    BY <1>1, SameJobs DEF SpawnError
  <1>2. CASE t # Main
    BY <1>2, IdleJob DEF SpawnError, Steps, Spawning
  <1> QED  BY <1>1, <1>2

LEMMA SpawnDoneJob ==
    ASSUME JobsOK, Growing, NEW t \in Threads, SpawnDone(t)
    PROVE  JobsOK' /\ Becomes(t, IF t = Main THEN "idle" ELSE "copying", None, {})
  <1> DEFINE pc == IF t = Main THEN "idle" ELSE "copying"
  <1>1. pc \in Steps \ Spawning
    BY DEF Steps, Spawning
  <1>2. job' = [job EXCEPT ![t] = [Idle EXCEPT !.pc = pc]]
    BY DEF SpawnDone
  <1> HIDE DEF pc
  <1>3. JobsOK' /\ Becomes(t, pc, None, {})
    BY <1>1, <1>2, IdleJob
  <1> QED  BY <1>3 DEF pc

LEMMA SpawnRefusedSound == ASSUME Sound, NEW t \in Threads, SpawnRefused(t)  PROVE Sound'
  <1>1. Growing /\ UNCHANGED <<usedPanes, usedWs>>
    BY SameState DEF SpawnRefused
  <1>2. JobsOK' /\ (mode' = "failed" \/ UNCHANGED mode)
    BY <1>1, SpawnErrorJob DEF SpawnRefused, Sound
  <1>3. ShownOK' /\ PlainOK'
    BY <1>1, <1>2 DEF SpawnRefused, Sound, ShownOK, PlainOK
  <1> QED  BY <1>2, <1>3, Quiet DEF SpawnRefused, Sound

LEMMA SpawnFailsSound == ASSUME Sound, NEW t \in Threads, SpawnFails(t)  PROVE Sound'
  <1> DEFINE p == job[t].spawn
  <1>1. /\ p \in DOMAIN snapshot.panes
        /\ snapshot' = SetPaneStatus(snapshot, p, "FailedToStart")
        /\ shown' = ShownStatus(p, "FailedToStart") /\ SpawnDone(t)
        /\ UNCHANGED <<stored, spawned, usedPanes, usedWs, disk, mode, toSpawn,
                       requests, sessions, control>>
    BY DEF SpawnFails
  <1> HIDE DEF p
  <1>2. "FailedToStart" \in Statuses
    BY DEF Statuses
  <1>3. IInv' /\ Growing
    BY <1>1, <1>2, StatusIInv DEF Sound
  <1>4. JobsOK'
    BY <1>1, <1>3, SpawnDoneJob DEF Sound
  <1>5. ShownOK' /\ PlainOK'
    BY <1>1, <1>2, ShownStatusOK DEF Sound, PlainOK
  <1> QED  BY <1>1, <1>3, <1>4, <1>5, SameDisk DEF Sound

\* The pane of a snapshot of this daemon is an identifier that was given out.
LEMMA KnownPane ==
    ASSUME Sound, NEW p \in DOMAIN snapshot.panes
    PROVE  p \in usedPanes /\ p \in PaneIds /\ p # None
  BY SnapshotAssumption DEF Sound, IInv

LEMMA SpawnStartsSound ==
    ASSUME Sound, NEW t \in Threads, SpawnStarts(t)
    PROVE  Sound' /\ Becomes(t, "inserting", job[t].spawn, job[t].stop)
  <1>1. Growing /\ UNCHANGED <<usedPanes, usedWs>>
    BY SameState DEF SpawnStarts
  <1>2. job[t].spawn # None
    BY KnownPane DEF SpawnStarts
  <1>3. JobsOK' /\ Becomes(t, "inserting", job[t].spawn, job[t].stop)
    BY <1>1, <1>2, GotoJob DEF SpawnStarts, Sound, Steps
  <1>4. ShownOK' /\ PlainOK'
    BY <1>1 DEF SpawnStarts, Sound, ShownOK, PlainOK, Controls
  <1> QED  BY <1>3, <1>4, Quiet DEF SpawnStarts, Sound

LEMMA SpawnInsertsSound ==
    ASSUME Sound, NEW t \in Threads, SpawnInserts(t)
    PROVE  Sound' /\ Becomes(t, "marking", job[t].spawn, job[t].stop)
  <1>1. Growing /\ UNCHANGED <<usedPanes, usedWs>>
    BY SameState DEF SpawnInserts
  <1>2. job[t].spawn # None /\ job[t].spawn \in usedPanes
    BY DEF SpawnInserts, At, Sound, JobsOK, JobFits, Spawning
  <1>3. JobsOK' /\ Becomes(t, "marking", job[t].spawn, job[t].stop)
    BY <1>1, <1>2, GotoJob DEF SpawnInserts, Sound, Steps
  <1>4. ShownOK' /\ PlainOK'
    BY <1>1, <1>2 DEF SpawnInserts, Sound, ShownOK, PlainOK
  <1> QED  BY <1>3, <1>4, Quiet DEF SpawnInserts, Sound

LEMMA SpawnMarksSound == ASSUME Sound, NEW t \in Threads, SpawnMarks(t)  PROVE Sound'
  <1> DEFINE p == job[t].spawn
  <1>1. UNCHANGED <<stored, spawned, usedPanes, usedWs, disk, toSpawn, requests,
                    sessions, control>>
    BY DEF SpawnMarks
  <1>2. CASE p \in DOMAIN snapshot.panes
    <2>1. /\ snapshot' = SetPaneStatus(snapshot, p, "Running")
          /\ shown' = ShownStatus(p, "Running") /\ SpawnDone(t) /\ UNCHANGED mode
      BY <1>2 DEF SpawnMarks
    <2>2. "Running" \in Statuses
      BY DEF Statuses
    <2> HIDE DEF p
    <2>3. IInv' /\ Growing
      BY <1>1, <1>2, <2>1, <2>2, StatusIInv DEF Sound
    <2>4. JobsOK'
      BY <2>1, <2>3, SpawnDoneJob DEF Sound
    <2>5. ShownOK' /\ PlainOK'
      BY <1>1, <2>1, <2>2, ShownStatusOK DEF Sound, PlainOK
    <2> QED  BY <1>1, <2>3, <2>4, <2>5, SameDisk DEF Sound
  <1>3. CASE p \notin DOMAIN snapshot.panes
    <2>1. SpawnError(t) /\ UNCHANGED <<snapshot, shown>>
      BY <1>3 DEF SpawnMarks
    <2>2. UNCHANGED stateVars
      BY <1>1, <2>1 DEF stateVars
    <2>3. Growing
      BY <1>1 DEF Growing
    <2>4. JobsOK' /\ (mode' = "failed" \/ UNCHANGED mode)
      BY <2>1, <2>3, SpawnErrorJob DEF Sound
    <2>5. ShownOK' /\ PlainOK'
      BY <1>1, <2>1, <2>4 DEF Sound, ShownOK, PlainOK
    <2> QED  BY <1>1, <2>2, <2>4, <2>5, Quiet DEF Sound
  <1> QED  BY <1>2, <1>3

LEMMA CopyToSaveSound ==
    ASSUME Sound, NEW t \in Threads, CopyToSave(t)
    PROVE  Sound' /\ Becomes(t, "saving", job[t].spawn, job[t].stop)
  <1>1. UNCHANGED <<usedPanes, usedWs>>
    BY SameState DEF CopyToSave
  <1>2. JobsOK' /\ Becomes(t, "saving", job[t].spawn, job[t].stop)
    BY <1>1, CopyJob DEF CopyToSave, Sound, Steps, Spawning
  <1>3. ShownOK' /\ PlainOK'
    BY <1>1 DEF CopyToSave, Sound, ShownOK, PlainOK
  <1> QED  BY <1>2, <1>3, Quiet DEF CopyToSave, Sound

LEMMA CopyToPublishSound ==
    ASSUME Sound, NEW t \in Threads, CopyToPublish(t)
    PROVE  Sound' /\ Becomes(t, "emitting", job[t].spawn, job[t].stop)
  <1>1. UNCHANGED <<usedPanes, usedWs>>
    BY SameState DEF CopyToPublish
  <1>2. JobsOK' /\ Becomes(t, "emitting", job[t].spawn, job[t].stop)
    BY <1>1, CopyJob DEF CopyToPublish, Sound, Steps, Spawning
  <1>3. ShownOK' /\ PlainOK'
    BY <1>1 DEF CopyToPublish, Sound, ShownOK, PlainOK
  <1> QED  BY <1>2, <1>3, Quiet DEF CopyToPublish, Sound

LEMMA SaveSound ==
    ASSUME Sound, NEW t \in Threads, Save(t)
    PROVE  Sound' /\ Becomes(t, IF t = Main THEN "ended" ELSE "publishing", None, {})
  <1> DEFINE pc == IF t = Main THEN "ended" ELSE "publishing"
  <1>1. Growing /\ UNCHANGED <<usedPanes, usedWs>>
    BY SameState DEF Save
  <1>2. pc \in Steps \ Spawning /\ job' = [job EXCEPT ![t] = [Idle EXCEPT !.pc = pc]]
    BY DEF Save, Steps, Spawning
  <1> HIDE DEF pc
  <1>3. JobsOK' /\ Becomes(t, pc, None, {})
    BY <1>1, <1>2, IdleJob DEF Sound
  <1>4. Fits(disk', usedPanes, usedWs)
    BY DEF Save, Sound, JobsOK, JobFits
  <1>5. ShownOK' /\ PlainOK'
    BY <1>1 DEF Save, Sound, ShownOK, PlainOK
  <1> QED  BY <1>3, <1>4, <1>5, Quiet DEF Save, pc

\* Where a thread goes whose save has failed.
AfterFailure(t) == CASE t[1] = "closer"  -> "publishing"
                     [] t[1] = "tracker" -> "idle"
                     [] OTHER            -> "ended"

LEMMA SaveFailsSound ==
    ASSUME Sound, NEW t \in Threads, SaveFails(t)
    PROVE  Sound' /\ Becomes(t, AfterFailure(t), None, {})
  <1>1. Growing /\ UNCHANGED <<usedPanes, usedWs>>
    BY SameState DEF SaveFails
  <1>2. AfterFailure(t) \in Steps \ Spawning
    BY DEF AfterFailure, Steps, Spawning
  <1>3. job' = [job EXCEPT ![t] = [Idle EXCEPT !.pc = AfterFailure(t)]]
    BY DEF SaveFails, AfterFailure
  <1>4. JobsOK' /\ Becomes(t, AfterFailure(t), None, {})
    BY <1>1, <1>2, <1>3, IdleJob DEF Sound
  <1>5. requests' \in Threads \cup {None}
    BY DEF SaveFails, Release, Sound, PlainOK
  <1>6. ShownOK' /\ PlainOK'
    BY <1>1, <1>5 DEF SaveFails, Sound, ShownOK, PlainOK
  <1> QED  BY <1>4, <1>6, Quiet DEF SaveFails, Sound

LEMMA EmitSound ==
    ASSUME Sound, NEW t \in Threads, Emit(t)
    PROVE  Sound' /\ Becomes(t, IF t[1] = "closer" THEN "ended" ELSE "idle", None, {})
  <1>1. Growing /\ UNCHANGED <<usedPanes, usedWs>>
    BY SameState DEF Emit
  <1>2. JobsOK' /\ Becomes(t, IF t[1] = "closer" THEN "ended" ELSE "idle", None, {})
    <2>1. CASE t[1] = "closer"
      BY <1>1, <2>1, IdleJob DEF Emit, Sound, Steps, Spawning
    <2>2. CASE t[1] # "closer"
      BY <1>1, <2>2, ResetJob DEF Emit, Sound
    <2> QED  BY <2>1, <2>2
  <1>3. ShownOK'
    BY DEF Emit, Sound, ShownOK, JobsOK, JobFits, Fits
  <1>4. requests' \in Threads \cup {None}
    BY DEF Emit, Release, Sound, PlainOK
  <1>5. PlainOK'
    BY <1>1, <1>4 DEF Emit, Sound, PlainOK
  <1> QED  BY <1>2, <1>3, <1>5, Quiet DEF Emit, Sound

LEMMA AttachSound ==
    ASSUME Sound, NEW c \in Clients, AttachCopies(c) \/ AttachActivates(c)
    PROVE  /\ Sound'
           /\ AttachCopies(c) => Becomes(Client(c), "attaching", None, {})
           /\ AttachActivates(c) => Becomes(Client(c), "idle", None, {})
  <1>1. Growing /\ UNCHANGED <<usedPanes, usedWs>>
    BY SameState DEF AttachCopies, AttachActivates
  <1>2. CASE AttachCopies(c)
    <2> DEFINE k == [Idle EXCEPT !.pc = "attaching"]
    <2>1. k = Rec("attaching", None, {}, EmptySnapshot)
      BY IdleRecords
    <2>2. job' = [job EXCEPT ![Client(c)] = [k EXCEPT !.copy = snapshot]]
      BY <1>2 DEF AttachCopies
    <2> HIDE DEF k
    <2>3. [k EXCEPT !.copy = snapshot] = Rec("attaching", None, {}, snapshot)
      BY <2>1 DEF Rec
    <2>4. job' = [job EXCEPT ![Client(c)] = Rec("attaching", None, {}, snapshot)]
      BY <2>2, <2>3
    <2>5. Fits(snapshot, usedPanes', usedWs')
      BY <1>1, SnapshotFits DEF Sound
    <2>6. Client(c) \in Threads /\ "attaching" \in Steps /\ "attaching" \notin Spawning
      BY ThreadKinds DEF Steps, Spawning
    <2>7. JobsOK' /\ Becomes(Client(c), "attaching", None, {})
      BY <1>1, <2>4, <2>5, <2>6, SetJob DEF Sound
    <2>8. ShownOK' /\ PlainOK'
      BY <1>1, <1>2 DEF AttachCopies, Sound, ShownOK, PlainOK
    <2>9. Sound' /\ ~AttachActivates(c)
      BY <1>2, <2>7, <2>8, Quiet DEF AttachCopies, AttachActivates, At, Sound
    <2> QED  BY <2>7, <2>9
  <1>3. CASE AttachActivates(c)
    <2>1. JobsOK' /\ Becomes(Client(c), "idle", None, {})
      BY <1>1, <1>3, ThreadKinds, ResetJob DEF AttachActivates, Sound
    <2>2. ShownOK' /\ PlainOK'
      BY <1>1, <1>3, ThreadKinds
         DEF AttachActivates, Sound, ShownOK, PlainOK, JobsOK, JobFits, Fits
    <2>3. Sound' /\ ~AttachCopies(c)
      BY <1>3, <2>1, <2>2, Quiet DEF AttachCopies, AttachActivates, At, Sound
    <2> QED  BY <2>1, <2>3
  <1> QED  BY <1>2, <1>3

LEMMA StartNextSound ==
    ASSUME Sound, StartNext
    PROVE  /\ Sound'
           /\ \/ Becomes(Main, "copying", job[Main].spawn, job[Main].stop) /\ UNCHANGED mode
              \/ /\ Becomes(Main, "ended", job[Main].spawn, job[Main].stop)
                 /\ mode' = "failed"
              \/ /\ \E p \in usedPanes : Becomes(Main, "acting", p, {})
                 /\ UNCHANGED mode
  <1>1. Growing /\ UNCHANGED <<usedPanes, usedWs>>
    BY SameState DEF StartNext
  <1> DEFINE Pc == job'[Main].pc
  <1>2. CASE toSpawn = {}
    <2>1. JobsOK' /\ Becomes(Main, "copying", job[Main].spawn, job[Main].stop)
      BY <1>1, <1>2, ThreadKinds, GotoJob DEF StartNext, Sound, Steps, Spawning
    <2>2. UNCHANGED mode
      BY <2>1, ThreadKinds DEF Becomes, StartNext
    <2>3. ShownOK' /\ PlainOK'
      BY <1>1, <1>2, <2>2 DEF StartNext, Sound, ShownOK, PlainOK
    <2> QED  BY <2>1, <2>2, <2>3, Quiet DEF StartNext, Sound
  <1>3. CASE toSpawn # {}
    <2>1. PICK p \in toSpawn :
            /\ toSpawn' = toSpawn \ {p}
            /\ IF p \in DOMAIN snapshot.panes
               THEN job' = [job EXCEPT ![Main] = [Idle EXCEPT !.pc = "acting", !.spawn = p]]
               ELSE Goto(Main, "ended")
      BY <1>3 DEF StartNext
    <2>2. p \in usedPanes
      BY DEF Sound, PlainOK
    <2>3. CASE p \in DOMAIN snapshot.panes
      <3>1. [Idle EXCEPT !.pc = "acting", !.spawn = p] = Rec("acting", p, {}, EmptySnapshot)
        BY IdleRecords
      <3>2. job' = [job EXCEPT ![Main] = Rec("acting", p, {}, EmptySnapshot)]
        BY <2>1, <2>3, <3>1
      <3>3. "acting" \in Steps /\ "acting" \notin Spawning /\ p \in usedPanes' \cup {None}
        BY <1>1, <2>2 DEF Steps, Spawning
      <3>4. JobsOK' /\ Becomes(Main, "acting", p, {})
        BY <1>1, <3>2, <3>3, ThreadKinds, EmptyFits, SetJob DEF Sound
      <3>5. UNCHANGED mode
        BY <3>4, ThreadKinds DEF Becomes, StartNext
      <3>6. ShownOK' /\ PlainOK'
        BY <1>1, <2>1, <3>5 DEF StartNext, Sound, ShownOK, PlainOK
      <3> QED  BY <2>2, <3>4, <3>5, <3>6, Quiet DEF StartNext, Sound
    <2>4. CASE p \notin DOMAIN snapshot.panes
      <3>1. JobsOK' /\ Becomes(Main, "ended", job[Main].spawn, job[Main].stop)
        BY <1>1, <2>1, <2>4, ThreadKinds, GotoJob DEF StartNext, Sound, Steps, Spawning
      <3>2. mode' = "failed"
        BY <3>1, ThreadKinds DEF Becomes, StartNext
      <3>3. ShownOK' /\ PlainOK'
        BY <1>1, <2>1, <3>2 DEF StartNext, Sound, ShownOK, PlainOK
      <3> QED  BY <3>1, <3>2, <3>3, Quiet DEF StartNext, Sound
    <2> QED  BY <2>3, <2>4
  <1> QED  BY <1>2, <1>3

LEMMA ControlSound ==
    ASSUME Sound, NEW p \in PaneIds, ControlStops(p) \/ ControlSeesExit(p) \/ ControlFails(p)
    PROVE  Sound'
  <1>1. CASE ControlStops(p)
    <2>1. Growing /\ UNCHANGED <<usedPanes, usedWs>>
      BY <1>1, SameState DEF ControlStops
    <2>2. JobsOK'
      BY <1>1, <2>1, SameJobs DEF ControlStops, Sound
    <2>3. ShownOK' /\ PlainOK'
      BY <1>1, <2>1 DEF ControlStops, Sound, ShownOK, PlainOK, Controls
    <2> QED  BY <1>1, <2>2, <2>3, Quiet DEF ControlStops, Sound
  <1>2. ASSUME NEW status \in Statuses, NEW c \in Controls,
               control' = [control EXCEPT ![p] = c], shown' = ShownStatus(p, status),
               IF p \in DOMAIN snapshot.panes
               THEN snapshot' = SetPaneStatus(snapshot, p, status)
               ELSE UNCHANGED snapshot,
               UNCHANGED <<stored, spawned, usedPanes, usedWs, disk, mode, toSpawn,
                           requests, job, sessions>>
        PROVE  Sound'
    <2>1. IInv' /\ Growing
      <3>1. CASE p \in DOMAIN snapshot.panes
        BY <1>2, <3>1, StatusIInv DEF Sound
      <3>2. CASE p \notin DOMAIN snapshot.panes
        BY <1>2, <3>2, SameState DEF stateVars
      <3> QED  BY <3>1, <3>2
    <2>2. JobsOK'
      BY <1>2, <2>1, SameJobs DEF Sound
    <2>3. ShownOK' /\ PlainOK'
      BY <1>2, ShownStatusOK DEF Sound, PlainOK
    <2> QED  BY <1>2, <2>1, <2>2, <2>3, SameDisk DEF Sound
  <1>3. CASE ControlSeesExit(p)
    BY <1>2, <1>3 DEF ControlSeesExit, Statuses, Controls
  <1>4. CASE ControlFails(p)
    BY <1>2, <1>4 DEF ControlFails, Statuses, Controls
  <1> QED  BY <1>1, <1>3, <1>4

LEMMA BeginCloseSound ==
    ASSUME Sound, NEW p \in PaneIds, BeginClose(p)
    PROVE  /\ Sound'
           /\ CanClosePane(snapshot, p) => Becomes(Closer(p), "acting", None, {p})
  <1>1. Growing /\ UNCHANGED <<disk, mode, toSpawn, shown, usedPanes, usedWs>>
    BY DEF BeginClose, NoNewIds, Growing
  <1>2. control' \in [PaneIds -> Controls]
    BY DEF BeginClose, Sound, PlainOK, Controls
  <1>3. CASE CanClosePane(snapshot, p)
    <2>1. DoClosePane
      BY <1>1, <1>3 DEF BeginClose, DoClosePane, NoNewIds
    <2>2. IInv'
      BY <2>1, CloseIInv DEF Sound
    <2>3. p \in usedPanes
      BY <1>3, KnownPane DEF CanClosePane
    <2>4. [Idle EXCEPT !.pc = "acting", !.stop = {p}] = Rec("acting", None, {p}, EmptySnapshot)
      BY IdleRecords
    <2>5. job' = [job EXCEPT ![Closer(p)] = Rec("acting", None, {p}, EmptySnapshot)]
      BY <1>3, <2>4 DEF BeginClose
    <2>6. "acting" \in Steps /\ "acting" \notin Spawning /\ {p} \in SUBSET usedPanes'
      BY <1>1, <2>3 DEF Steps, Spawning
    <2>7. JobsOK' /\ Becomes(Closer(p), "acting", None, {p})
      BY <1>1, <2>5, <2>6, ThreadKinds, EmptyFits, SetJob DEF Sound
    <2>8. ShownOK' /\ PlainOK'
      BY <1>1, <1>2, <1>3, ThreadKinds DEF BeginClose, Sound, ShownOK, PlainOK
    <2> QED  BY <1>1, <2>2, <2>7, <2>8, SameDisk DEF Sound
  <1>4. CASE ~CanClosePane(snapshot, p)
    <2>1. UNCHANGED stateVars /\ UNCHANGED <<requests, job>> /\ sessions' = sessions \ {p}
      BY <1>1, <1>4 DEF BeginClose, stateVars
    <2>2. JobsOK'
      BY <1>1, <2>1, SameJobs DEF Sound
    <2>3. ShownOK' /\ PlainOK'
      BY <1>1, <1>2, <2>1 DEF Sound, ShownOK, PlainOK
    <2> QED  BY <1>1, <1>4, <2>1, <2>2, <2>3, Quiet DEF Sound
  <1> QED  BY <1>3, <1>4

LEMMA ReportCwdSound ==
    ASSUME Sound, NEW p \in PaneIds, ReportCwd(p)
    PROVE  /\ Sound'
           /\ Becomes(Tracker(p), "copying", job[Tracker(p)].spawn, job[Tracker(p)].stop)
  <1>1. /\ Growing
        /\ UNCHANGED <<spawned, usedPanes, usedWs, disk, mode, toSpawn, requests, sessions,
                       control, shown>>
    BY DEF ReportCwd, Growing
  <1>2. DoReportCwd
    BY <1>1 DEF ReportCwd, DoReportCwd, NoNewIds
  <1>3. IInv'
    BY <1>2, UpdateIInv DEF Sound
  <1>4. /\ JobsOK'
        /\ Becomes(Tracker(p), "copying", job[Tracker(p)].spawn, job[Tracker(p)].stop)
    BY <1>1, ThreadKinds, GotoJob DEF ReportCwd, Sound, Steps, Spawning
  <1>5. ShownOK' /\ PlainOK'
    BY <1>1 DEF Sound, ShownOK, PlainOK
  <1> QED  BY <1>1, <1>3, <1>4, <1>5, SameDisk DEF Sound

LEMMA ObserveLabelSound ==
    ASSUME Sound, ObserveLabel
    PROVE  Sound' /\ Becomes(Monitor, "publishing", job[Monitor].spawn, job[Monitor].stop)
  <1>1. /\ Growing
        /\ UNCHANGED <<stored, spawned, usedPanes, usedWs, disk, mode, toSpawn, requests,
                       sessions, control, shown>>
    BY DEF ObserveLabel, Growing
  <1>2. ObserveProcessLabel
    BY <1>1 DEF ObserveLabel, ObserveProcessLabel, NoNewIds
  <1>3. IInv'
    BY <1>2, ObserveIInv DEF Sound
  <1>4. JobsOK' /\ Becomes(Monitor, "publishing", job[Monitor].spawn, job[Monitor].stop)
    BY <1>1, ThreadKinds, GotoJob DEF ObserveLabel, Sound, Steps, Spawning
  <1>5. ShownOK' /\ PlainOK'
    BY <1>1 DEF Sound, ShownOK, PlainOK
  <1> QED  BY <1>1, <1>3, <1>4, <1>5, SameDisk DEF Sound

LEMMA InitSound == RuntimeInit => Sound
  <1> SUFFICES ASSUME RuntimeInit  PROVE Sound
    OBVIOUS
  <1>1. IInv
    BY InitIInv DEF RuntimeInit
  <1>2. Fits(disk, usedPanes, usedWs)
    BY EmptyFits DEF RuntimeInit
  <1>3. JobsOK
    <2>1. Idle = Rec("idle", None, {}, EmptySnapshot)
      BY IdleRecords
    <2>2. JobFits(Idle, usedPanes, usedWs)
      BY <2>1, MakeJob, EmptyFits DEF Steps, Spawning
    <2> QED  BY <2>2 DEF RuntimeInit, JobsOK
  <1>4. ShownOK /\ PlainOK
    BY DEF RuntimeInit, ShownOK, PlainOK, Controls
  <1> QED  BY <1>1, <1>2, <1>3, <1>4 DEF Sound

LEMMA NextSound == Sound /\ [RuntimeNext]_allVars => Sound'
  <1> SUFFICES ASSUME Sound, [RuntimeNext]_allVars  PROVE Sound'
    OBVIOUS
  <1>1. CASE UNCHANGED allVars
    <2>1. JobsOK'
      BY <1>1, SameJobs DEF allVars, runtimeVars, stateVars, Sound, Growing
    <2>2. ShownOK' /\ PlainOK'
      BY <1>1 DEF allVars, runtimeVars, stateVars, Sound, ShownOK, PlainOK
    <2> QED  BY <1>1, <2>1, <2>2, Quiet DEF allVars, runtimeVars, Sound
  <1>2. CASE Boot \/ Crash \/ StartNext \/ ObserveLabel
    BY <1>2, BootSound, CrashSound, StartNextSound, ObserveLabelSound
  <1>3. CASE \E c \in Clients : BeginRequest(c) \/ AttachCopies(c) \/ AttachActivates(c)
    BY <1>3, RequestSound, AttachSound
  <1>4. CASE \E t \in Threads : ThreadStep(t)
    BY <1>4, ClosePanesSound, SpawnRefusedSound, SpawnFailsSound, SpawnStartsSound,
       SpawnInsertsSound, SpawnMarksSound, CopyToSaveSound, SaveSound, SaveFailsSound,
       CopyToPublishSound, EmitSound
       DEF ThreadStep
  <1>5. CASE \E p \in PaneIds : \/ ControlStops(p) \/ ControlSeesExit(p) \/ ControlFails(p)
                                \/ BeginClose(p) \/ ReportCwd(p)
    BY <1>5, ControlSound, BeginCloseSound, ReportCwdSound
  <1> QED  BY <1>1, <1>2, <1>3, <1>4, <1>5 DEF RuntimeNext

LEMMA SoundIsWellFormed == Sound => CopiesWellFormed
  <1> SUFFICES ASSUME Sound  PROVE CopiesWellFormed
    OBVIOUS
  <1>1. WellFormed(snapshot) /\ WellFormed(stored) /\ WellFormed(disk)
    BY DEF Sound, IInv, SnapshotsWellFormed, Fits
  <1>2. TypeOK
    BY <1>1 DEF Sound, IInv, EffectsCoverPanes, TypeOK, WellFormed
  <1>3. \A t \in Threads : job[t].pc \in Steps /\ IsSnapshot(job[t].copy)
    BY DEF Sound, JobsOK, JobFits, Fits, WellFormed
  <1>4. usedPanes \subseteq PaneIds
    BY DEF Sound, IInv
  <1>5. RuntimeTypeOK
    BY <1>1, <1>2, <1>3, <1>4
       DEF RuntimeTypeOK, Sound, PlainOK, ShownOK, Controls, WellFormed
  <1> QED  BY <1>1, <1>5 DEF CopiesWellFormed, Sound, ShownOK

----
(* The second layer: who does what *)

Doing   == {"acting"} \cup Spawning
Holding == Doing \cup {"copying", "saving", "publishing", "emitting"}

\* Clients and closers work under the requests lock, clients only once the
\* daemon is up, the main thread only until then; a closer stops its own pane,
\* and the threads that report touch no shell.
Roles ==
    /\ \A t \in Threads : t[1] \in {"client", "closer"} /\ job[t].pc \in Holding
                              => requests = t
    /\ mode # "up" => \A t \in Threads : t[1] = "client" => job[t].pc = "idle"
    /\ mode = "up" => job[Main].pc = "ended"
    /\ \A t \in Threads : t[1] \in {"tracker", "monitor"} => job[t].pc \notin Doing
    /\ \A p \in PaneIds :
          /\ job[Closer(p)].pc \notin Spawning
          /\ job[Closer(p)].pc = "acting" =>
                /\ job[Closer(p)].spawn = None /\ job[Closer(p)].stop = {p}
                /\ control[p] = "ended"

LEMMA ThreadTags ==
    /\ \A c \in Clients : Client(c)[1] = "client"
    /\ \A p \in PaneIds : Closer(p)[1] = "closer" /\ Tracker(p)[1] = "tracker"
    /\ Monitor[1] = "monitor" /\ Main[1] = "main"
    /\ \A p, q \in PaneIds : Closer(p) = Closer(q) => p = q
    /\ \A t \in Threads : /\ t[1] \in {"client", "closer", "tracker", "monitor", "main"}
                          /\ t[1] = "main" => t = Main
                          /\ t[1] = "closer" => \E p \in PaneIds : t = Closer(p)
                          /\ t # None
  BY ThreadAssumption DEF Threads, Client, Closer, Tracker, Monitor, Main

Alive == mode \in {"starting", "up"}

StopsPending(p) == \E t \in Threads : job[t].pc = "acting" /\ p \in job[t].stop
AtPane(pc, p) == \E t \in Threads : job[t].pc = pc /\ job[t].spawn = p

\* A thread spawns or stops, and stops what is no longer a pane.
Deeds ==
    \A t \in Threads :
        /\ job[t].pc \in Doing /\ (job[t].spawn # None \/ t = Main) => job[t].stop = {}
        /\ job[t].pc = "acting" => job[t].stop \cap DOMAIN snapshot.panes = {}
        /\ t[1] = "client" /\ job[t].pc \in Doing /\ job[t].spawn # None
              => job[t].spawn \in DOMAIN snapshot.panes
        /\ job[t].pc = "marking" =>
              job[t].spawn \in sessions \/ job[t].spawn \notin DOMAIN snapshot.panes

\* A shell that runs and is not told to stop has a pane or a thread that will
\* stop it, and is registered or about to be.
Owed ==
    \A p \in PaneIds :
        control[p] = "running" =>
            \/ p \in stopSent
            \/ /\ p \in DOMAIN snapshot.panes \/ StopsPending(p)
               /\ p \in sessions \/ AtPane("inserting", p)

\* A session has a pane, a thread that will drop it, or the main thread that
\* will find out.
Registered ==
    \A p \in sessions :
        \/ p \in DOMAIN snapshot.panes
        \/ StopsPending(p)
        \/ job[Main].pc = "marking" /\ job[Main].spawn = p

\* What the snapshot says of a pane against the sessions.
Marked ==
    \A p \in DOMAIN snapshot.panes :
        /\ snapshot.panes[p].status = "Running" => p \in sessions
        /\ snapshot.panes[p].status = "Starting" /\ p \in sessions => AtPane("marking", p)

Shells == Deeds /\ (Alive => Owed /\ Registered /\ Marked)

\* The lock and the mode are as thread t wants them at its next place.
Permitted(t, pc) ==
    /\ \A u \in Threads \ {t} : requests = u => requests' = u
    /\ t[1] \in {"client", "closer"} /\ pc \in Holding => requests' = t
    /\ mode' # "up" => mode # "up" /\ (t[1] = "client" => pc = "idle")
    /\ mode' = "up" => \/ mode = "up" /\ t # Main
                       \/ t = Main /\ pc = "ended"

\* One thread's record changes.
LEMMA RolesStep ==
    ASSUME Roles, NEW t \in Threads, NEW pc, NEW spawn, NEW stop, Becomes(t, pc, spawn, stop),
           Permitted(t, pc),
           t[1] \in {"tracker", "monitor"} => pc \notin Doing,
           \A p \in PaneIds :
               IF t = Closer(p)
               THEN /\ pc \notin Spawning
                    /\ pc = "acting" => spawn = None /\ stop = {p} /\ control'[p] = "ended"
               ELSE job[Closer(p)].pc = "acting" => control'[p] = "ended"
    PROVE  Roles'
  <1>1. /\ job'[t].pc = pc /\ job'[t].spawn = spawn /\ job'[t].stop = stop
        /\ \A u \in Threads \ {t} : /\ job'[u].pc = job[u].pc
                                    /\ job'[u].spawn = job[u].spawn
                                    /\ job'[u].stop = job[u].stop
    BY DEF Becomes
  <1>2. \A u \in Threads : u[1] \in {"client", "closer"} /\ job'[u].pc \in Holding
                              => requests' = u
    BY <1>1 DEF Roles, Permitted
  <1>3. mode' # "up" => \A u \in Threads : u[1] = "client" => job'[u].pc = "idle"
    BY <1>1 DEF Roles, Permitted
  <1>4. mode' = "up" => job'[Main].pc = "ended"
    BY <1>1, ThreadKinds DEF Roles, Permitted
  <1>5. \A u \in Threads : u[1] \in {"tracker", "monitor"} => job'[u].pc \notin Doing
    BY <1>1 DEF Roles
  <1>6. ASSUME NEW p \in PaneIds
        PROVE  /\ job'[Closer(p)].pc \notin Spawning
               /\ job'[Closer(p)].pc = "acting" =>
                     /\ job'[Closer(p)].spawn = None /\ job'[Closer(p)].stop = {p}
                     /\ control'[p] = "ended"
    BY <1>1, ThreadKinds DEF Roles
  <1> QED  BY <1>2, <1>3, <1>4, <1>5, <1>6 DEF Roles

\* No pane comes or goes, and none comes alive.
SamePanes ==
    /\ DOMAIN snapshot'.panes = DOMAIN snapshot.panes
    /\ \A p \in DOMAIN snapshot.panes :
          snapshot'.panes[p].status \in {snapshot.panes[p].status, "Exited", "FailedToStart"}

\* Thread t goes to pc, and nobody else moves.
Moves(t, pc) ==
    \A u \in Threads : /\ job'[u].pc = IF u = t THEN pc ELSE job[u].pc
                       /\ u # t => /\ job'[u].spawn = job[u].spawn
                                   /\ job'[u].stop = job[u].stop

\* Nobody misses what thread t was doing, if anything, and it does no more.
Late(t, pc) ==
    /\ Moves(t, pc) /\ pc \notin Doing
    /\ job[t].pc \in Doing => job[t].pc = "acting" /\ job[t].stop = {}

LEMMA BecomesMoves ==
    ASSUME NEW t, NEW pc, NEW spawn, NEW stop, Becomes(t, pc, spawn, stop)
    PROVE  Moves(t, pc)
  BY DEF Becomes, Moves

LEMMA BecomesLate ==
    ASSUME NEW t, NEW pc, NEW spawn, NEW stop, Becomes(t, pc, spawn, stop),
           job[t].pc \in Doing => job[t].pc = "acting" /\ job[t].stop = {},
           pc \notin Doing
    PROVE  Late(t, pc)
  BY BecomesMoves DEF Late

LEMMA LateRoles ==
    ASSUME Roles, NEW t \in Threads, NEW pc, Moves(t, pc), pc \notin Doing,
           Permitted(t, pc), UNCHANGED control
    PROVE  Roles'
  <1> DEFINE spawn == job'[t].spawn
             stop == job'[t].stop
  <1>1. Becomes(t, pc, spawn, stop)
    BY DEF Moves, Becomes
  <1>2. /\ pc \notin Spawning /\ pc # "acting"
        /\ \A p \in PaneIds : job[Closer(p)].pc = "acting" => control[p] = "ended"
    BY DEF Doing, Spawning, Roles
  <1> HIDE DEF spawn, stop
  <1> QED  BY <1>1, <1>2, RolesStep

LEMMA LateShells ==
    ASSUME Shells, SamePanes, Alive, UNCHANGED <<sessions, control, stopSent>>,
           NEW t \in Threads, NEW pc, Late(t, pc)
    PROVE  Shells'
  <1>1. /\ job'[t].pc = pc /\ pc \notin Doing
        /\ job[t].pc \in Doing => job[t].pc = "acting" /\ job[t].stop = {}
        /\ \A u \in Threads \ {t} : /\ job'[u].pc = job[u].pc
                                    /\ job'[u].spawn = job[u].spawn
                                    /\ job'[u].stop = job[u].stop
    BY DEF Late, Moves
  <1> USE DEF Doing, Spawning
  <1>2. /\ \A p : StopsPending(p) => StopsPending(p)'
        /\ \A p : AtPane("inserting", p) => AtPane("inserting", p)'
        /\ \A p : AtPane("marking", p) => AtPane("marking", p)'
    BY <1>1 DEF StopsPending, AtPane
  <1>3. Deeds'
    BY <1>1 DEF Shells, Deeds, SamePanes
  <1>4. Owed' /\ Registered' /\ Marked'
    <2>1. Owed /\ Registered /\ Marked
      BY DEF Shells
    <2>2. Owed'
      BY <1>2, <2>1 DEF Owed, SamePanes
    <2>3. Registered'
      BY <1>1, <1>2, <2>1, ThreadKinds DEF Registered, SamePanes
    <2>4. Marked'
      BY <1>2, <2>1 DEF Marked, SamePanes
    <2> QED  BY <2>2, <2>3, <2>4
  <1> QED  BY <1>3, <1>4 DEF Shells

LEMMA LateStep ==
    ASSUME Roles, Shells, SamePanes, Alive, UNCHANGED <<sessions, control, stopSent>>,
           NEW t \in Threads, NEW pc, NEW spawn, NEW stop, Becomes(t, pc, spawn, stop),
           job[t].pc \in Doing => job[t].pc = "acting" /\ job[t].stop = {},
           pc \notin Doing, Permitted(t, pc)
    PROVE  Roles' /\ Shells'
  <1>1. Late(t, pc)
    BY BecomesLate
  <1>2. Roles'
    BY <1>1, LateRoles DEF Late
  <1> QED  BY <1>1, <1>2, LateShells

\* What the roles say of a thread that has work in hand.
LEMMA RoleOf ==
    ASSUME Roles, NEW t \in Threads, job[t].pc \in Holding
    PROVE  /\ t[1] \in {"client", "closer"} => requests = t
           /\ t[1] = "client" => mode = "up"
           /\ t = Main => mode # "up"
           /\ \A u \in Threads \ {t} : requests = u => t[1] \notin {"client", "closer"}
  BY DEF Roles, Holding, Doing, Spawning

LEMMA CopyToSaveLate ==
    ASSUME Sound, Roles, Shells, NEW t \in Threads, CopyToSave(t)
    PROVE  Roles' /\ Shells'
  <1>1. Becomes(t, "saving", job[t].spawn, job[t].stop)
    BY CopyToSaveSound
  <1>2. /\ job[t].pc = "copying" /\ Alive /\ SamePanes
        /\ UNCHANGED <<mode, requests, control, sessions, stopSent>>
    BY DEF CopyToSave, At, Alive, stateVars, SamePanes
  <1>3. /\ job[t].pc \in Holding
        /\ job[t].pc \notin Doing /\ "saving" \notin Doing
    BY <1>2 DEF Doing, Spawning, Holding
  <1>4. Permitted(t, "saving")
    BY <1>2, <1>3, RoleOf DEF Permitted
  <1> QED  BY <1>1, <1>2, <1>3, <1>4, LateStep

LEMMA CopyToPublishLate ==
    ASSUME Sound, Roles, Shells, NEW t \in Threads, CopyToPublish(t)
    PROVE  Roles' /\ Shells'
  <1>1. Becomes(t, "emitting", job[t].spawn, job[t].stop)
    BY CopyToPublishSound
  <1>2. /\ job[t].pc = "publishing" /\ Alive /\ SamePanes
        /\ UNCHANGED <<mode, requests, control, sessions, stopSent>>
    BY DEF CopyToPublish, At, Alive, stateVars, SamePanes
  <1>3. /\ job[t].pc \in Holding
        /\ job[t].pc \notin Doing /\ "emitting" \notin Doing
    BY <1>2 DEF Doing, Spawning, Holding
  <1>4. Permitted(t, "emitting")
    BY <1>2, <1>3, RoleOf DEF Permitted
  <1> QED  BY <1>1, <1>2, <1>3, <1>4, LateStep

LEMMA SaveLate ==
    ASSUME Sound, Roles, Shells, NEW t \in Threads, Save(t)
    PROVE  Roles' /\ Shells'
  <1> DEFINE pc == IF t = Main THEN "ended" ELSE "publishing"
  <1>1. Becomes(t, pc, None, {})
    BY SaveSound
  <1>2. /\ job[t].pc = "saving" /\ Alive /\ SamePanes
        /\ UNCHANGED <<requests, control, sessions, stopSent>>
        /\ mode' = IF t = Main THEN "up" ELSE mode
    BY DEF Save, At, Alive, stateVars, SamePanes
  <1>3. /\ pc \notin Doing /\ job[t].pc \notin Doing /\ job[t].pc \in Holding
        /\ t = Main => pc = "ended"
    BY <1>2 DEF Doing, Spawning, Holding
  <1> HIDE DEF pc
  <1>4. Permitted(t, pc)
    BY <1>2, <1>3, RoleOf DEF Permitted
  <1> QED  BY <1>1, <1>2, <1>3, <1>4, LateStep

LEMMA SaveFailsLate ==
    ASSUME Sound, Roles, Shells, NEW t \in Threads, SaveFails(t)
    PROVE  Roles' /\ Shells'
  <1> DEFINE pc == AfterFailure(t)
  <1>1. Becomes(t, pc, None, {})
    BY SaveFailsSound
  <1>2. /\ job[t].pc = "saving" /\ Alive /\ SamePanes
        /\ UNCHANGED <<control, sessions, stopSent>>
        /\ mode' = IF t = Main THEN "failed" ELSE mode
        /\ t[1] = "closer" => requests' = requests
        /\ requests # t => requests' = requests
    BY DEF SaveFails, Release, At, Alive, stateVars, SamePanes
  <1>3. /\ pc \notin Doing /\ job[t].pc \notin Doing /\ job[t].pc \in Holding
        /\ t[1] = "client" => pc \notin Holding
    BY <1>2 DEF Doing, Spawning, Holding, AfterFailure
  <1> HIDE DEF pc
  <1>4. Permitted(t, pc)
    BY <1>2, <1>3, RoleOf, ThreadTags DEF Permitted
  <1> QED  BY <1>1, <1>2, <1>3, <1>4, LateStep

LEMMA EmitLate ==
    ASSUME Sound, Roles, Shells, NEW t \in Threads, Emit(t)
    PROVE  Roles' /\ Shells'
  <1> DEFINE pc == IF t[1] = "closer" THEN "ended" ELSE "idle"
  <1>1. Becomes(t, pc, None, {})
    BY EmitSound
  <1>2. /\ job[t].pc = "emitting" /\ Alive /\ SamePanes
        /\ UNCHANGED <<mode, control, sessions, stopSent>>
        /\ requests # t => requests' = requests
    BY DEF Emit, Release, At, Alive, stateVars, SamePanes
  <1>3. /\ pc \notin Holding /\ pc \notin Doing
        /\ job[t].pc \notin Doing /\ job[t].pc \in Holding
    BY <1>2 DEF Doing, Spawning, Holding
  <1> HIDE DEF pc
  <1>4. Permitted(t, pc)
    BY <1>2, <1>3, RoleOf DEF Permitted
  <1> QED  BY <1>1, <1>2, <1>3, <1>4, LateStep

LEMMA AttachLate ==
    ASSUME Sound, Roles, Shells, NEW c \in Clients, AttachCopies(c) \/ AttachActivates(c)
    PROVE  Roles' /\ Shells'
  <1> DEFINE t == Client(c)
  <1>1. t \in Threads /\ t[1] = "client" /\ t # Main
    BY ThreadKinds, ThreadTags
  <1>2. /\ SamePanes /\ UNCHANGED <<mode, requests, control, sessions, stopSent>>
        /\ job[t].pc \in {"idle", "attaching"} /\ Alive
    BY DEF AttachCopies, AttachActivates, At, Alive, stateVars, SamePanes
  <1>3. mode = "up"
    BY <1>1 DEF AttachCopies, AttachActivates, At, Roles
  <1>4. Becomes(t, "attaching", None, {}) \/ Becomes(t, "idle", None, {})
    BY AttachSound
  <1>5. PICK pc \in {"attaching", "idle"} : Becomes(t, pc, None, {})
    BY <1>4
  <1>6. pc \notin Holding /\ pc \notin Doing /\ job[t].pc \notin Doing
    BY <1>2 DEF Doing, Spawning, Holding
  <1> HIDE DEF t
  <1>7. Permitted(t, pc)
    BY <1>1, <1>2, <1>3, <1>6 DEF Permitted
  <1> QED  BY <1>1, <1>2, <1>5, <1>6, <1>7, LateStep

LEMMA ReportLate ==
    ASSUME Sound, Roles, Shells, (\E p \in PaneIds : ReportCwd(p)) \/ ObserveLabel
    PROVE  Roles' /\ Shells'
  <1>1. PICK t \in Threads, pc \in {"copying", "publishing"} :
          /\ t[1] \in {"tracker", "monitor"} /\ t # Main /\ job[t].pc = "idle" /\ Alive
          /\ Becomes(t, pc, job[t].spawn, job[t].stop)
    <2>1. CASE ObserveLabel
      <3>1. /\ Becomes(Monitor, "publishing", job[Monitor].spawn, job[Monitor].stop)
            /\ job[Monitor].pc = "idle" /\ Alive
        BY <2>1, ObserveLabelSound DEF ObserveLabel, At, Alive
      <3> QED  BY <3>1, ThreadKinds, ThreadTags
    <2>2. ASSUME NEW p \in PaneIds, ReportCwd(p)
          PROVE  \E t \in Threads, pc \in {"copying", "publishing"} :
                   /\ t[1] \in {"tracker", "monitor"} /\ t # Main /\ job[t].pc = "idle"
                   /\ Alive /\ Becomes(t, pc, job[t].spawn, job[t].stop)
      <3>1. /\ Becomes(Tracker(p), "copying", job[Tracker(p)].spawn, job[Tracker(p)].stop)
            /\ job[Tracker(p)].pc = "idle" /\ Alive
        BY <2>2, ReportCwdSound DEF ReportCwd, At, Alive
      <3> QED  BY <3>1, ThreadKinds, ThreadTags
    <2> QED  BY <2>1, <2>2
  <1>2. UNCHANGED <<mode, requests, control, sessions, stopSent>>
    BY DEF ReportCwd, ObserveLabel
  <1>3. SamePanes
    <2>1. snapshot.panes \in [DOMAIN snapshot.panes -> Pane]
      BY DEF Sound, IInv, SnapshotsWellFormed, WellFormed, IsSnapshot
    <2>2. \/ \E p \in DOMAIN snapshot.panes, cwd \in Dirs :
                snapshot' = SetPaneCwd(snapshot, p, cwd)
          \/ \E p \in DOMAIN snapshot.panes, label \in Labels :
                snapshot' = SetPaneProcessLabel(snapshot, p, label)
      BY DEF ReportCwd, ObserveLabel, Mutation
    <2>3. ASSUME NEW p \in DOMAIN snapshot.panes, NEW x, NEW a \in Pane,
                 a.status = snapshot.panes[p].status,
                 snapshot'.panes = [snapshot.panes EXCEPT ![p] = a]
          PROVE  SamePanes
      BY <2>1, <2>3 DEF SamePanes
    <2>4. ASSUME NEW p \in DOMAIN snapshot.panes, NEW cwd \in Dirs,
                 snapshot' = SetPaneCwd(snapshot, p, cwd)
          PROVE  SamePanes
      <3> DEFINE a == [snapshot.panes[p] EXCEPT !.cwd = cwd]
      <3>1. a \in Pane /\ a.status = snapshot.panes[p].status
        BY <2>1 DEF Pane
      <3>2. snapshot'.panes = [snapshot.panes EXCEPT ![p] = a]
        BY <2>1, <2>4 DEF SetPaneCwd, Update
      <3> QED  BY <2>3, <3>1, <3>2
    <2>5. ASSUME NEW p \in DOMAIN snapshot.panes, NEW label \in Labels,
                 snapshot' = SetPaneProcessLabel(snapshot, p, label)
          PROVE  SamePanes
      <3> DEFINE a == [snapshot.panes[p] EXCEPT !.label = label]
      <3>1. a \in Pane /\ a.status = snapshot.panes[p].status
        BY <2>1 DEF Pane
      <3>2. snapshot'.panes = [snapshot.panes EXCEPT ![p] = a]
        BY <2>1, <2>5 DEF SetPaneProcessLabel, Update
      <3> QED  BY <2>3, <3>1, <3>2
    <2> QED  BY <2>2, <2>4, <2>5
  <1>4. pc \notin Doing /\ pc # "idle" /\ job[t].pc \notin Doing
    BY <1>1 DEF Doing, Spawning
  <1>5. Permitted(t, pc)
    BY <1>1, <1>2 DEF Permitted
  <1> QED  BY <1>1, <1>2, <1>3, <1>4, <1>5, LateStep

LEMMA ClosePanesKeep ==
    ASSUME Sound, Roles, Shells, NEW t \in Threads, ClosePanes(t)
    PROVE  Roles' /\ Shells'
  <1> DEFINE S == job[t].stop
  <1>1. Becomes(t, "copying", None, {})
    BY ClosePanesSound
  <1>2. /\ job[t].pc = "acting" /\ Alive
        /\ sessions' = sessions \ S
        /\ stopSent' = stopSent \cup (S \cap sessions)
        /\ UNCHANGED <<snapshot, mode, requests, control>>
    BY DEF ClosePanes, At, Alive, stateVars
  <1>3. /\ job[t].pc \in Doing /\ job[t].pc \in Holding
        /\ "copying" \notin Doing
    BY <1>2 DEF Doing, Spawning, Holding
  <1>4. Permitted(t, "copying")
    BY <1>2, <1>3, RoleOf DEF Permitted
  <1>5. Roles'
    BY <1>1, <1>2, <1>3, <1>4, BecomesMoves, LateRoles
  <1>6. /\ job'[t].pc = "copying"
        /\ \A u \in Threads \ {t} : /\ job'[u].pc = job[u].pc
                                    /\ job'[u].spawn = job[u].spawn
                                    /\ job'[u].stop = job[u].stop
    BY <1>1 DEF Becomes
  <1>7. S \cap DOMAIN snapshot.panes = {}
    BY <1>2 DEF Shells, Deeds
  <1>8. Owed /\ Registered /\ Marked
    BY <1>2 DEF Shells
  \* Nobody spawns a pane that another thread stops.
  <1>9. ASSUME NEW p \in S, control[p] = "running", AtPane("inserting", p)
        PROVE  FALSE
    <2>1. PICK u \in Threads : job[u].pc = "inserting" /\ job[u].spawn = p
      BY <1>9 DEF AtPane
    <2>2. u # t /\ job[u].pc \in Doing /\ job[u].pc \in Holding /\ job[u].pc \in Spawning
      BY <1>2, <2>1 DEF Doing, Spawning, Holding
    <2>3. u[1] \in {"client", "main"}
      BY <2>2, ThreadTags DEF Roles
    <2>4. t # Main
      BY <1>2, <1>3, <1>9 DEF Shells, Deeds
    <2>5. t[1] \in {"client", "closer"}
      BY <1>3, <2>4, ThreadTags DEF Roles
    <2>6. requests = t
      BY <1>3, <2>5 DEF Roles
    <2>7. u = Main /\ mode # "up"
      BY <2>2, <2>3, <2>6, RoleOf, ThreadTags
    <2>8. t[1] = "closer"
      BY <1>3, <2>5, <2>7, RoleOf
    <2>9. PICK q \in PaneIds : t = Closer(q)
      BY <2>8, ThreadTags
    <2>10. S = {q} /\ control[q] = "ended"
      BY <1>2, <2>9 DEF Roles
    <2> QED  BY <1>9, <2>10
  <1> HIDE DEF S
  <1>10. /\ \A p : StopsPending(p) => StopsPending(p)' \/ p \in S
         /\ \A p : AtPane("inserting", p) => AtPane("inserting", p)'
         /\ \A p : AtPane("marking", p) => AtPane("marking", p)'
    BY <1>2, <1>6 DEF StopsPending, AtPane, S
  <1>11. Deeds'
    BY <1>2, <1>3, <1>6, <1>7 DEF Shells, Deeds
  <1>12. Owed'
    BY <1>2, <1>7, <1>8, <1>9, <1>10 DEF Owed
  <1>13. Registered'
    BY <1>2, <1>6, <1>8, <1>10, ThreadKinds DEF Registered
  <1>14. Marked'
    BY <1>2, <1>7, <1>8, <1>10 DEF Marked
  <1> QED  BY <1>5, <1>11, <1>12, <1>13, <1>14 DEF Shells

\* Who spawns a pane: a client, for a pane of the snapshot, or run().
LEMMA Spawner ==
    ASSUME Roles, Shells, NEW t \in Threads, job[t].pc \in Doing, job[t].spawn # None
    PROVE  /\ t[1] = "client" \/ t = Main
           /\ t # Main => t[1] = "client" /\ job[t].spawn \in DOMAIN snapshot.panes
           /\ job[t].stop = {}
  <1>1. t[1] \notin {"tracker", "monitor"}
    BY DEF Roles
  <1>2. t[1] # "closer"
    BY ThreadTags DEF Roles, Doing
  <1> QED  BY <1>1, <1>2, ThreadTags DEF Shells, Deeds

LEMMA SpawnErrorKeeps ==
    ASSUME Sound, Roles, Shells, SamePanes, Alive, NEW t \in Threads,
           job[t].pc = "acting" \/ t = Main, job[t].pc \in Doing, job[t].spawn # None,
           SpawnError(t), UNCHANGED <<requests, sessions, control, stopSent>>
    PROVE  Roles' /\ Shells'
  <1>1. job[t].pc \in Holding
    BY DEF Holding
  <1>2. /\ t = Main => mode' = "failed" /\ UNCHANGED job
        /\ t # Main => UNCHANGED mode
    BY DEF SpawnError
  <1>3. CASE t = Main
    <2>1. mode' = "failed" /\ UNCHANGED job /\ mode # "up"
      BY <1>1, <1>2, <1>3, RoleOf
    <2>2. Roles'
      BY <2>1 DEF Roles
    <2>3. Deeds'
      BY <2>1 DEF Shells, Deeds, SamePanes
    <2> QED  BY <2>1, <2>2, <2>3 DEF Shells, Alive
  <1>4. CASE t # Main
    <2>1. job' = [job EXCEPT ![t] = [Idle EXCEPT !.pc = "copying"]] /\ UNCHANGED mode
      BY <1>4 DEF SpawnError
    <2>2. Moves(t, "copying")
      BY <2>1 DEF Moves, Sound, JobsOK, Idle
    <2>3. "copying" \notin Doing /\ job[t].pc = "acting" /\ job[t].stop = {}
      BY <1>4, Spawner DEF Doing, Spawning
    <2>4. Permitted(t, "copying")
      BY <1>1, <1>4, <2>1, RoleOf DEF Permitted
    <2>5. Late(t, "copying")
      BY <2>2, <2>3 DEF Late
    <2> QED  BY <2>2, <2>3, <2>4, <2>5, LateRoles, LateShells
  <1> QED  BY <1>3, <1>4

LEMMA SpawnRefusedKeeps ==
    ASSUME Sound, Roles, Shells, NEW t \in Threads, SpawnRefused(t)
    PROVE  Roles' /\ Shells'
  <1>1. /\ job[t].pc = "acting" /\ job[t].spawn # None /\ Alive /\ SamePanes
        /\ SpawnError(t) /\ UNCHANGED <<requests, sessions, control, stopSent>>
    BY DEF SpawnRefused, At, Alive, stateVars, SamePanes
  <1>2. job[t].pc \in Doing
    BY <1>1 DEF Doing
  <1> QED  BY <1>1, <1>2, SpawnErrorKeeps

\* The status of one pane is set.
LEMMA StatusSet ==
    ASSUME Sound, NEW p \in DOMAIN snapshot.panes, NEW status \in Statuses,
           snapshot' = SetPaneStatus(snapshot, p, status)
    PROVE  /\ DOMAIN snapshot'.panes = DOMAIN snapshot.panes
           /\ snapshot'.panes[p].status = status
           /\ \A q \in DOMAIN snapshot.panes \ {p} : snapshot'.panes[q] = snapshot.panes[q]
  <1>1. snapshot.panes \in [DOMAIN snapshot.panes -> Pane]
    BY DEF Sound, IInv, SnapshotsWellFormed, WellFormed, IsSnapshot
  <1> DEFINE a == [snapshot.panes[p] EXCEPT !.status = status]
  <1>2. a.status = status
    BY <1>1 DEF Pane
  <1>3. snapshot'.panes = [snapshot.panes EXCEPT ![p] = a]
    BY DEF SetPaneStatus, Update
  <1> HIDE DEF a
  <1> QED  BY <1>1, <1>2, <1>3

LEMMA SpawnFailsKeeps ==
    ASSUME Sound, Roles, Shells, NEW t \in Threads, SpawnFails(t)
    PROVE  Roles' /\ Shells'
  <1> DEFINE pc == IF t = Main THEN "idle" ELSE "copying"
             p == job[t].spawn
  <1>1. /\ job[t].pc = "acting" /\ p \in DOMAIN snapshot.panes /\ Alive
        /\ snapshot' = SetPaneStatus(snapshot, p, "FailedToStart") /\ SpawnDone(t)
        /\ UNCHANGED <<mode, requests, sessions, control, stopSent>>
    BY DEF SpawnFails, At, Alive
  <1>2. p # None
    BY <1>1, KnownPane
  <1>3. SamePanes
    BY <1>1, StatusSet DEF SamePanes, Statuses
  <1>4. job[t].pc \in Doing /\ job[t].pc \in Holding /\ pc \notin Doing
    BY <1>1 DEF Doing, Spawning, Holding
  <1>5. job[t].stop = {} /\ (t[1] = "client" \/ t = Main)
    BY <1>2, <1>4, Spawner
  <1>6. Moves(t, pc)
    BY <1>1 DEF SpawnDone, Moves, Sound, JobsOK, Idle
  <1>7. pc = "idle" => t[1] # "client"
    BY ThreadTags
  <1> HIDE DEF pc
  <1>8. Permitted(t, pc)
    BY <1>1, <1>4, <1>7, RoleOf DEF Permitted
  <1>9. Late(t, pc)
    BY <1>1, <1>4, <1>5, <1>6 DEF Late
  <1> QED  BY <1>1, <1>3, <1>4, <1>6, <1>8, <1>9, LateRoles, LateShells

\* A thread goes from one step of spawn_pane to the next.
LEMMA SpawningRoles ==
    ASSUME Roles, Shells, NEW t \in Threads, NEW pc \in Spawning, NEW spawn, NEW stop,
           Becomes(t, pc, spawn, stop), job[t].pc \in Doing, job[t].spawn # None,
           UNCHANGED <<mode, requests>>,
           \A p \in PaneIds : job[Closer(p)].pc = "acting" => control'[p] = "ended"
    PROVE  Roles'
  <1>1. t[1] = "client" \/ t = Main
    BY Spawner
  <1>2. \A p \in PaneIds : t # Closer(p)
    BY <1>1, ThreadTags
  <1>3. job[t].pc \in Holding
    BY DEF Holding
  <1>4. Permitted(t, pc)
    BY <1>1, <1>3, RoleOf, ThreadTags DEF Permitted
  <1>5. t[1] \notin {"tracker", "monitor"}
    BY <1>1, ThreadTags
  <1> QED  BY <1>2, <1>4, <1>5, RolesStep

LEMMA SpawnStartsKeeps ==
    ASSUME Sound, Roles, Shells, NEW t \in Threads, SpawnStarts(t)
    PROVE  Roles' /\ Shells'
  <1>0. PICK p : p = job[t].spawn
    OBVIOUS
  <1> USE <1>0
  <1>1. /\ job[t].pc = "acting" /\ p \in DOMAIN snapshot.panes /\ Alive
        /\ control' = [control EXCEPT ![p] = "running"]
        /\ UNCHANGED <<snapshot, mode, requests, sessions, stopSent>>
    BY DEF SpawnStarts, At, Alive, stateVars
  <1>2. p \in PaneIds /\ p # None
    BY <1>1, KnownPane
  <1>3. Becomes(t, "inserting", p, job[t].stop)
    BY SpawnStartsSound
  <1>4. job[t].pc \in Doing /\ "inserting" \in Spawning
    BY <1>1 DEF Doing, Spawning
  <1>5. job[t].stop = {} /\ (t # Main => t[1] = "client")
    BY <1>2, <1>4, Spawner
  <1>6. control \in [PaneIds -> Controls]
    BY DEF Sound, PlainOK
  <1>7. ASSUME NEW q \in PaneIds, job[Closer(q)].pc = "acting"
        PROVE  control'[q] = "ended"
    <2>1. job[Closer(q)].stop = {q} /\ control[q] = "ended"
      BY <1>7 DEF Roles
    <2>2. q # p
      BY <1>1, <1>7, <2>1, ThreadKinds DEF Shells, Deeds
    <2> QED  BY <1>1, <1>6, <2>1, <2>2
  <1>8. Roles'
    BY <1>1, <1>2, <1>3, <1>4, <1>7, SpawningRoles
  <1>9. /\ job'[t].pc = "inserting" /\ job'[t].spawn = p /\ job'[t].stop = {}
        /\ \A u \in Threads \ {t} : /\ job'[u].pc = job[u].pc
                                    /\ job'[u].spawn = job[u].spawn
                                    /\ job'[u].stop = job[u].stop
    BY <1>3, <1>5 DEF Becomes
  <1>10. /\ \A q : StopsPending(q) => StopsPending(q)'
         /\ \A q : AtPane("inserting", q) => AtPane("inserting", q)'
         /\ \A q : AtPane("marking", q) => AtPane("marking", q)'
         /\ AtPane("inserting", p)'
    BY <1>1, <1>5, <1>9 DEF StopsPending, AtPane
  <1>11. Deeds'
    BY <1>1, <1>9 DEF Shells, Deeds
  <1>12. Owed /\ Registered /\ Marked
    BY <1>1 DEF Shells
  <1>13. Owed'
    <2>1. \A q \in PaneIds \ {p} : control'[q] = control[q]
      BY <1>1, <1>6
    <2>2. ASSUME NEW q \in PaneIds, control'[q] = "running", q \notin stopSent, q # p
          PROVE  /\ q \in DOMAIN snapshot.panes \/ StopsPending(q)
                 /\ q \in sessions \/ AtPane("inserting", q)
      BY <1>12, <2>1, <2>2 DEF Owed
    <2> QED  BY <1>1, <1>10, <2>2 DEF Owed
  <1>14. Registered'
    <2>1. job[Main].pc = "marking" => /\ job'[Main].pc = "marking"
                                      /\ job'[Main].spawn = job[Main].spawn
      BY <1>1, <1>9, ThreadKinds
    <2> QED  BY <1>1, <1>10, <1>12, <2>1 DEF Registered
  <1>15. Marked'
    BY <1>1, <1>10, <1>12 DEF Marked
  <1> QED  BY <1>8, <1>11, <1>13, <1>14, <1>15 DEF Shells

LEMMA SpawnInsertsKeeps ==
    ASSUME Sound, Roles, Shells, NEW t \in Threads, SpawnInserts(t)
    PROVE  Roles' /\ Shells'
  <1>0. PICK p : p = job[t].spawn
    OBVIOUS
  <1> USE <1>0
  <1>1. /\ job[t].pc = "inserting" /\ Alive
        /\ sessions' = sessions \cup {p}
        /\ UNCHANGED <<snapshot, mode, requests, control, stopSent>>
    BY DEF SpawnInserts, At, Alive, stateVars
  <1>2. Becomes(t, "marking", p, job[t].stop)
    BY SpawnInsertsSound
  <1>3. job[t].pc \in Doing /\ job[t].pc \in Spawning /\ "marking" \in Spawning
    BY <1>1 DEF Doing, Spawning
  <1>4. p # None
    BY <1>3 DEF Sound, JobsOK, JobFits
  <1>5. job[t].stop = {} /\ (t # Main => p \in DOMAIN snapshot.panes)
    BY <1>3, <1>4, Spawner
  <1>6. Roles'
    <2>1. \A q \in PaneIds : job[Closer(q)].pc = "acting" => control'[q] = "ended"
      BY <1>1 DEF Roles
    <2> QED  BY <1>1, <1>2, <1>3, <1>4, <2>1, SpawningRoles
  <1>7. /\ job'[t].pc = "marking" /\ job'[t].spawn = p /\ job'[t].stop = {}
        /\ \A u \in Threads \ {t} : /\ job'[u].pc = job[u].pc
                                    /\ job'[u].spawn = job[u].spawn
                                    /\ job'[u].stop = job[u].stop
    BY <1>2, <1>5 DEF Becomes
  <1>8. /\ \A q : StopsPending(q) => StopsPending(q)'
        /\ \A q : AtPane("inserting", q) => AtPane("inserting", q)' \/ q = p
        /\ \A q : AtPane("marking", q) => AtPane("marking", q)'
        /\ AtPane("marking", p)'
    BY <1>1, <1>5, <1>7 DEF StopsPending, AtPane
  <1>9. t[1] = "client" => p \in DOMAIN snapshot.panes
    BY <1>5, ThreadTags
  <1>10. Deeds'
    BY <1>1, <1>7, <1>9 DEF Shells, Deeds
  <1>11. Owed /\ Registered /\ Marked
    BY <1>1 DEF Shells
  <1>12. Owed'
    BY <1>1, <1>8, <1>11 DEF Owed
  <1>13. Registered'
    <2>1. job[Main].pc = "marking" => /\ job'[Main].pc = "marking"
                                      /\ job'[Main].spawn = job[Main].spawn
      BY <1>1, <1>7, ThreadKinds
    <2>2. \/ p \in DOMAIN snapshot.panes
          \/ job'[Main].pc = "marking" /\ job'[Main].spawn = p
      BY <1>5, <1>7
    <2> QED  BY <1>1, <1>8, <1>11, <2>1, <2>2 DEF Registered
  <1>14. Marked'
    <2>1. ASSUME NEW q \in DOMAIN snapshot.panes
          PROVE  /\ snapshot.panes[q].status = "Running" => q \in sessions
                 /\ snapshot.panes[q].status = "Starting" /\ q \in sessions
                       => AtPane("marking", q)'
      BY <1>8, <1>11 DEF Marked
    <2> QED  BY <1>1, <1>8, <2>1 DEF Marked
  <1> QED  BY <1>6, <1>10, <1>12, <1>13, <1>14 DEF Shells

LEMMA SpawnMarksKeeps ==
    ASSUME Sound, Roles, Shells, NEW t \in Threads, SpawnMarks(t)
    PROVE  Roles' /\ Shells'
  <1> DEFINE p == job[t].spawn
             pc == IF t = Main THEN "idle" ELSE "copying"
  <1>1. /\ job[t].pc = "marking" /\ Alive
        /\ UNCHANGED <<requests, sessions, control, stopSent>>
    BY DEF SpawnMarks, At, Alive
  <1>2. /\ job[t].pc \in Doing /\ job[t].pc \in Holding /\ job[t].pc \in Spawning
        /\ pc \notin Doing
    BY <1>1 DEF Doing, Spawning, Holding
  <1>3. p # None
    BY <1>2 DEF Sound, JobsOK, JobFits
  <1>4. job[t].stop = {} /\ (t # Main => t[1] = "client" /\ p \in DOMAIN snapshot.panes)
    BY <1>2, <1>3, Spawner
  <1>5. CASE p \notin DOMAIN snapshot.panes
    <2>1. t = Main /\ SpawnError(t) /\ UNCHANGED snapshot
      BY <1>4, <1>5 DEF SpawnMarks
    <2>2. SamePanes
      BY <2>1 DEF SamePanes
    <2> QED  BY <1>1, <1>2, <1>3, <2>1, <2>2, SpawnErrorKeeps
  <1>6. CASE p \in DOMAIN snapshot.panes
    <2>1. /\ snapshot' = SetPaneStatus(snapshot, p, "Running") /\ SpawnDone(t)
          /\ UNCHANGED mode
      BY <1>6 DEF SpawnMarks
    <2>2. /\ DOMAIN snapshot'.panes = DOMAIN snapshot.panes
          /\ snapshot'.panes[p].status = "Running"
          /\ \A q \in DOMAIN snapshot.panes \ {p} : snapshot'.panes[q] = snapshot.panes[q]
      BY <1>6, <2>1, StatusSet DEF Statuses
    <2>3. p \in sessions
      BY <1>1, <1>6 DEF Shells, Deeds
    <2>4. Moves(t, pc)
      BY <2>1 DEF SpawnDone, Moves, Sound, JobsOK, Idle
    <2>5. pc = "idle" => t[1] # "client"
      BY ThreadTags
    <2> HIDE DEF p, pc
    <2>6. Permitted(t, pc)
      BY <1>2, <1>4, <2>1, <2>5, <1>1, RoleOf, ThreadTags DEF Permitted
    <2>7. Roles'
      BY <1>1, <1>2, <2>4, <2>6, LateRoles
    <2>8. /\ job'[t].pc = pc
          /\ \A u \in Threads \ {t} : /\ job'[u].pc = job[u].pc
                                      /\ job'[u].spawn = job[u].spawn
                                      /\ job'[u].stop = job[u].stop
      BY <2>4 DEF Moves
    <2>9. /\ \A q : StopsPending(q) => StopsPending(q)'
          /\ \A q : AtPane("inserting", q) => AtPane("inserting", q)'
          /\ \A q : AtPane("marking", q) => AtPane("marking", q)' \/ q = p
      BY <1>1, <2>8 DEF StopsPending, AtPane, p
    <2>10. Deeds'
      BY <1>1, <1>2, <2>2, <2>8 DEF Shells, Deeds, Doing, Spawning
    <2>11. Owed /\ Registered /\ Marked
      BY <1>1 DEF Shells
    <2>12. Owed'
      BY <1>1, <2>2, <2>9, <2>11 DEF Owed
    <2>13. Registered'
      <3>1. job[Main].pc = "marking" /\ job[Main].spawn \notin DOMAIN snapshot.panes
              => job'[Main].pc = "marking" /\ job'[Main].spawn = job[Main].spawn
        BY <1>6, <2>8, ThreadKinds DEF p
      <3> QED  BY <1>1, <2>2, <2>9, <2>11, <3>1 DEF Registered
    <2>14. Marked'
      BY <1>1, <2>2, <2>3, <2>9, <2>11 DEF Marked
    <2> QED  BY <2>7, <2>10, <2>12, <2>13, <2>14 DEF Shells
  <1> QED  BY <1>5, <1>6

LEMMA ControlKeeps ==
    ASSUME Sound, Roles, Shells, NEW p \in PaneIds,
           ControlStops(p) \/ ControlSeesExit(p) \/ ControlFails(p)
    PROVE  Roles' /\ Shells'
  <1>1. /\ control[p] = "running" /\ Alive
        /\ control' \in {[control EXCEPT ![p] = "ended"], [control EXCEPT ![p] = "closing"]}
        /\ UNCHANGED <<mode, requests, job, sessions, stopSent>>
    BY DEF ControlStops, ControlSeesExit, ControlFails, Alive
  <1>2. SamePanes
    <2>1. CASE UNCHANGED snapshot
      BY <2>1 DEF SamePanes
    <2>2. CASE /\ p \in DOMAIN snapshot.panes
               /\ \/ snapshot' = SetPaneStatus(snapshot, p, "Exited")
                  \/ snapshot' = SetPaneStatus(snapshot, p, "FailedToStart")
      BY <2>2, StatusSet DEF SamePanes, Statuses
    <2> QED  BY <2>1, <2>2 DEF ControlStops, ControlSeesExit, ControlFails, stateVars
  <1>3. /\ control'[p] # "running"
        /\ \A q \in PaneIds \ {p} : control'[q] = control[q]
    BY <1>1 DEF Sound, PlainOK
  <1>4. Roles'
    BY <1>1, <1>3 DEF Roles
  <1>5. Deeds'
    BY <1>1, <1>2 DEF Shells, Deeds, SamePanes
  <1>6. Owed /\ Registered /\ Marked
    BY <1>1 DEF Shells
  <1>7. Owed'
    BY <1>1, <1>2, <1>3, <1>6 DEF Owed, SamePanes, StopsPending, AtPane
  <1>8. Registered'
    BY <1>1, <1>2, <1>6 DEF Registered, SamePanes, StopsPending
  <1>9. Marked'
    BY <1>1, <1>2, <1>6 DEF Marked, SamePanes, AtPane
  <1> QED  BY <1>4, <1>5, <1>7, <1>8, <1>9 DEF Shells

\* What a request does to the panes: those that stay keep their status, and
\* those that come are new and start.
PanesKept ==
    \A p \in DOMAIN snapshot'.panes :
        \/ p \in DOMAIN snapshot.panes /\ snapshot'.panes[p].status = snapshot.panes[p].status
        \/ p \notin usedPanes /\ snapshot'.panes[p].status = "Starting"

LEMMA RequestPanes ==
    ASSUME Sound, Request
    PROVE  PanesKept /\ (spawned' \subseteq spawned \/ spawned \subseteq spawned')
  <1>1. snapshot.panes \in [DOMAIN snapshot.panes -> Pane]
    BY DEF Sound, IInv, SnapshotsWellFormed, WellFormed, IsSnapshot
  <1>2. ASSUME NEW p \in PaneIds \ usedPanes, NEW w, NEW dir, NEW size,
               snapshot'.panes = WithPane(snapshot.panes, p, NewPane(w, dir, size))
        PROVE  PanesKept
    BY <1>2 DEF PanesKept, WithPane, NewPane
  <1>3. ASSUME NEW D, snapshot'.panes = [p \in DOMAIN snapshot.panes \ D |-> snapshot.panes[p]]
        PROVE  PanesKept
    BY <1>3 DEF PanesKept
  <1>4. ASSUME NEW p, NEW a, p \in DOMAIN snapshot.panes => a.status = snapshot.panes[p].status,
               snapshot'.panes = [snapshot.panes EXCEPT ![p] = a]
        PROVE  PanesKept
    BY <1>1, <1>4 DEF PanesKept
  <1>5. ASSUME snapshot'.panes = snapshot.panes  PROVE PanesKept
    BY <1>5 DEF PanesKept
  <1>6. CASE DoCreateWorkspace
    BY <1>2, <1>6 DEF DoCreateWorkspace, CreateWorkspace, Mutation
  <1>7. CASE DoCreatePane
    BY <1>2, <1>7 DEF DoCreatePane, CreatePane, Update, Mutation
  <1>8. CASE DoSplitPane
    BY <1>2, <1>8 DEF DoSplitPane, SplitPane, Update, Mutation
  <1>9. CASE DoCloseWorkspace
    <2>1. PICK w \in WorkspaceIds :
              /\ snapshot' = CloseWorkspace(snapshot, w)
              /\ spawned' = spawned \ ToSet(snapshot.ws[w].layout)
      BY <1>9 DEF DoCloseWorkspace, Mutation
    <2>2. snapshot'.panes = [p \in DOMAIN snapshot.panes \ PanesOf(snapshot, w) |->
                                snapshot.panes[p]]
      BY <2>1 DEF CloseWorkspace
    <2> QED  BY <1>3, <2>1, <2>2
  <1>10. CASE DoClosePane
    <2>1. PICK p \in PaneIds : snapshot' = ClosePane(snapshot, p) /\ spawned' = spawned \ {p}
      BY <1>10 DEF DoClosePane, Mutation
    <2>2. snapshot'.panes = [q \in DOMAIN snapshot.panes \ {p} |-> snapshot.panes[q]]
      BY <2>1 DEF ClosePane, Update
    <2> QED  BY <1>3, <2>1, <2>2
  <1>11. CASE DoRenameWorkspace \/ DoFocusWorkspace
    BY <1>5, <1>11 DEF DoRenameWorkspace, DoFocusWorkspace, RenameWorkspace,
                       FocusWorkspace, Update, Mutation
  <1>12. CASE DoFocusPane \/ DoUpdateLayout
    <2>1. CASE DoFocusPane
      BY <1>5, <2>1 DEF DoFocusPane, FocusPane, Update, Mutation
    <2>2. CASE DoUpdateLayout
      <3>1. PICK w, leaves : snapshot' = UpdateLayout(snapshot, w, leaves) /\ UNCHANGED spawned
        BY <2>2 DEF DoUpdateLayout, Mutation
      <3>2. snapshot'.panes = snapshot.panes
        BY <3>1 DEF UpdateLayout, Update
      <3> QED  BY <1>5, <3>1, <3>2
    <2> QED  BY <1>12, <2>1, <2>2
  <1>13. CASE DoResize
    <2>1. PICK p \in PaneIds, size \in Sizes :
              p \in DOMAIN snapshot.panes /\ snapshot' = Resize(snapshot, p, size) /\ UNCHANGED spawned
      BY <1>13 DEF DoResize, CanResize, Mutation
    <2> DEFINE a == [snapshot.panes[p] EXCEPT !.size = size]
    <2>2. a.status = snapshot.panes[p].status
      BY <1>1, <2>1 DEF Pane
    <2>3. snapshot'.panes = [snapshot.panes EXCEPT ![p] = a]
      BY <2>1 DEF Resize, Update
    <2> QED  BY <1>4, <2>1, <2>2, <2>3
  <1>14. CASE DoReportCwd
    <2>1. PICK p \in DOMAIN snapshot.panes, cwd \in Dirs :
              snapshot' = SetPaneCwd(snapshot, p, cwd) /\ UNCHANGED spawned
      BY <1>14 DEF DoReportCwd, Mutation
    <2> DEFINE a == [snapshot.panes[p] EXCEPT !.cwd = cwd]
    <2>2. a.status = snapshot.panes[p].status
      BY <1>1, <2>1 DEF Pane
    <2>3. snapshot'.panes = [snapshot.panes EXCEPT ![p] = a]
      BY <2>1 DEF SetPaneCwd, Update
    <2> QED  BY <1>4, <2>1, <2>2, <2>3
  <1> QED  BY <1>6, <1>7, <1>8, <1>9, <1>10, <1>11, <1>12, <1>13, <1>14 DEF Request

\* With the lock free no client or closer has a pane in hand.
LEMMA LockFree ==
    ASSUME Roles, requests = None
    PROVE  \A u \in Threads : job[u].pc \in Doing => u = Main /\ mode # "up"
  <1> SUFFICES ASSUME NEW u \in Threads, job[u].pc \in Doing
               PROVE  u = Main /\ mode # "up"
    OBVIOUS
  <1>1. job[u].pc \in Holding /\ job[u].pc # "ended"
    BY DEF Holding, Doing, Spawning
  <1>2. u[1] \notin {"client", "closer", "tracker", "monitor"}
    BY <1>1, ThreadTags DEF Roles
  <1>3. u = Main
    BY <1>2, ThreadTags
  <1> QED  BY <1>1, <1>3 DEF Roles

LEMMA BeginRequestKeeps ==
    ASSUME Sound, Roles, Shells, NEW c \in Clients, BeginRequest(c)
    PROVE  Roles' /\ Shells'
  <1> DEFINE t == Client(c)
             S == spawned \ spawned'
  <1>1. t \in Threads /\ t[1] = "client" /\ t # Main /\ t # None
    BY ThreadKinds, ThreadTags
  <1>2. /\ Becomes(t, "acting", ToStart, S) /\ Sound' /\ Growing
        /\ PanesKept /\ (spawned' \subseteq spawned \/ spawned \subseteq spawned')
    BY RequestJob, RequestSound, RequestPanes DEF BeginRequest
  <1>3. /\ mode = "up" /\ requests = None /\ requests' = t /\ job[t].pc = "idle"
        /\ UNCHANGED <<mode, sessions, control, stopSent>>
    BY DEF BeginRequest, At
  <1>4. spawned = DOMAIN snapshot.panes /\ spawned' = DOMAIN snapshot'.panes
    BY <1>2 DEF Sound, IInv, EffectsCoverPanes
  <1>5. \A u \in Threads : job[u].pc \notin Doing
    BY <1>3, LockFree
  <1>6. \A p : ~StopsPending(p) /\ ~AtPane("inserting", p) /\ ~AtPane("marking", p)
    BY <1>5 DEF StopsPending, AtPane, Doing, Spawning
  <1> HIDE DEF t, S
  <1>7. Roles'
    <2>1. Permitted(t, "acting")
      <3>1. \A u \in Threads : requests # u
        BY <1>3, ThreadTags
      <3> QED  BY <1>1, <1>3, <3>1 DEF Permitted
    <2>2. \A p \in PaneIds : t # Closer(p) /\ job[Closer(p)].pc # "acting"
      BY <1>1, <1>5, ThreadTags, ThreadKinds DEF Doing
    <2>3. t[1] \notin {"tracker", "monitor"}
      BY <1>1
    <2> QED  BY <1>1, <1>2, <2>1, <2>2, <2>3, RolesStep
  <1>8. /\ job'[t].pc = "acting" /\ job'[t].spawn = ToStart /\ job'[t].stop = S
        /\ \A u \in Threads \ {t} : job'[u].pc \notin Doing
    BY <1>1, <1>2, <1>5 DEF Becomes
  <1>9. /\ ToStart # None => ToStart \in spawned' /\ S = {}
        /\ S \cap DOMAIN snapshot'.panes = {}
    <2>1. CASE spawned' \subseteq spawned
      BY <1>4, <2>1 DEF ToStart, S
    <2>2. CASE ~(spawned' \subseteq spawned)
      <3>1. \E p : p \in spawned' \ spawned
        BY <2>2
      <3>2. ToStart \in spawned' \ spawned
        BY <2>2, <3>1 DEF ToStart
      <3> QED  BY <1>2, <1>4, <2>2, <3>2 DEF S
    <2> QED  BY <2>1, <2>2
  <1>10. Deeds'
    <2>1. ASSUME NEW u \in Threads \ {t}
          PROVE  job'[u].pc \notin Doing /\ job'[u].pc # "acting" /\ job'[u].pc # "marking"
      BY <1>8, <2>1 DEF Doing, Spawning
    <2> QED  BY <1>1, <1>4, <1>8, <1>9, <2>1 DEF Deeds
  <1>11. Owed /\ Registered /\ Marked
    BY <1>3 DEF Shells, Alive
  <1>12. \A p : p \in S => StopsPending(p)'
    BY <1>1, <1>8 DEF StopsPending
  <1>13. Owed'
    BY <1>3, <1>4, <1>6, <1>11, <1>12 DEF Owed, S
  <1>14. \A p \in sessions : p \in DOMAIN snapshot.panes
    BY <1>5, <1>6, <1>11, ThreadKinds DEF Registered, Doing, Spawning
  <1>15. Registered'
    BY <1>3, <1>4, <1>12, <1>14 DEF Registered, S
  <1>16. Marked'
    <2>1. sessions \subseteq usedPanes
      BY DEF Sound, PlainOK
    <2> QED  BY <1>2, <1>3, <1>6, <1>11, <2>1 DEF Marked, PanesKept
  <1> QED  BY <1>7, <1>10, <1>13, <1>15, <1>16 DEF Shells

LEMMA BeginCloseKeeps ==
    ASSUME Sound, Roles, Shells, NEW p \in PaneIds, BeginClose(p)
    PROVE  Roles' /\ Shells'
  <1> DEFINE t == Closer(p)
  <1>1. t \in Threads /\ t[1] = "closer" /\ t # Main /\ t # None
    BY ThreadKinds, ThreadTags
  <1>2. /\ Alive /\ control[p] = "closing" /\ requests = None /\ UNCHANGED mode
        /\ control' = [control EXCEPT ![p] = "ended"]
    BY DEF BeginClose, Alive
  <1>3. /\ control'[p] = "ended"
        /\ \A q \in PaneIds \ {p} : control'[q] = control[q]
    BY <1>2 DEF Sound, PlainOK
  <1>4. \A u \in Threads : job[u].pc \in Doing => u = Main
    BY <1>2, LockFree
  <1>5. Owed /\ Registered /\ Marked
    BY <1>2 DEF Shells
  <1>6. CASE CanClosePane(snapshot, p)
    <2>1. /\ Becomes(t, "acting", None, {p}) /\ requests' = t
          /\ UNCHANGED <<sessions, stopSent>>
          /\ snapshot' = ClosePane(snapshot, p)
      BY <1>6, BeginCloseSound DEF BeginClose, Mutation
    <2>2. /\ DOMAIN snapshot'.panes = DOMAIN snapshot.panes \ {p}
          /\ \A q \in DOMAIN snapshot'.panes : snapshot'.panes[q] = snapshot.panes[q]
      BY <2>1 DEF ClosePane, Update
    <2> HIDE DEF t
    <2>3. /\ job'[t].pc = "acting" /\ job'[t].spawn = None /\ job'[t].stop = {p}
          /\ \A u \in Threads \ {t} : /\ job'[u].pc = job[u].pc
                                      /\ job'[u].spawn = job[u].spawn
                                      /\ job'[u].stop = job[u].stop
      BY <1>1, <2>1 DEF Becomes
    <2>4. job[t].pc \notin Doing
      BY <1>1, <1>4
    <2>5. Roles'
      <3>1. Permitted(t, "acting")
        <4>1. \A u \in Threads : requests # u
          BY <1>2, ThreadTags
        <4> QED  BY <1>1, <1>2, <2>1, <4>1 DEF Permitted
      <3>2. \A q \in PaneIds : t = Closer(q) => q = p
        BY ThreadTags DEF t
      <3>3. \A q \in PaneIds : q # p => (job[Closer(q)].pc = "acting" => control'[q] = "ended")
        BY <1>3 DEF Roles
      <3>4. "acting" \notin Spawning /\ t[1] \notin {"tracker", "monitor"}
        BY <1>1 DEF Spawning
      <3>5. ASSUME NEW q \in PaneIds
            PROVE  IF t = Closer(q)
                   THEN /\ "acting" \notin Spawning
                        /\ "acting" = "acting" => /\ None = None /\ {p} = {q}
                                                  /\ control'[q] = "ended"
                   ELSE job[Closer(q)].pc = "acting" => control'[q] = "ended"
        BY <1>3, <3>2, <3>3, <3>4 DEF t
      <3> QED  BY <1>1, <2>1, <3>1, <3>4, <3>5, RolesStep
    <2>6. /\ \A q : StopsPending(q) => StopsPending(q)'
          /\ \A q : AtPane("inserting", q) => AtPane("inserting", q)'
          /\ \A q : AtPane("marking", q) => AtPane("marking", q)'
          /\ StopsPending(p)'
      BY <1>1, <2>3, <2>4 DEF StopsPending, AtPane, Doing, Spawning
    <2>7. Deeds'
      <3>1. ASSUME NEW u \in Threads \ {t}
            PROVE  /\ job[u].pc \in Doing /\ (job[u].spawn # None \/ u = Main) => job[u].stop = {}
                   /\ job[u].pc = "acting" => job[u].stop \cap DOMAIN snapshot'.panes = {}
                   /\ u[1] # "client" \/ job[u].pc \notin Doing
                   /\ job[u].pc = "marking" =>
                         job[u].spawn \in sessions \/ job[u].spawn \notin DOMAIN snapshot'.panes
        BY <1>4, <2>2, ThreadTags DEF Shells, Deeds
      <3> QED  BY <1>1, <2>1, <2>2, <2>3, <3>1 DEF Deeds
    <2>8. Owed'
      BY <1>3, <1>5, <2>1, <2>2, <2>6 DEF Owed
    <2>9. Registered'
      BY <1>1, <1>5, <2>1, <2>2, <2>3, <2>6, ThreadKinds DEF Registered
    <2>10. Marked'
      BY <1>5, <2>1, <2>2, <2>6 DEF Marked
    <2> QED  BY <2>5, <2>7, <2>8, <2>9, <2>10 DEF Shells
  <1>7. CASE ~CanClosePane(snapshot, p)
    <2>1. /\ UNCHANGED <<snapshot, job, requests>>
          /\ sessions' = sessions \ {p} /\ stopSent' = stopSent \cup (sessions \cap {p})
      BY <1>7 DEF BeginClose
    <2>2. p \notin DOMAIN snapshot.panes
      <3>1. SnapshotsWellFormed
        BY DEF Sound, IInv
      <3> QED  BY <1>7, <3>1 DEF CanClosePane, SnapshotsWellFormed, WellFormed, LayoutsMatchPanes
    <2>3. Roles'
      BY <1>2, <1>3, <2>1 DEF Roles
    <2>4. Deeds'
      BY <2>1, <2>2 DEF Shells, Deeds
    <2>5. Owed'
      BY <1>3, <1>5, <2>1 DEF Owed, StopsPending, AtPane
    <2>6. Registered'
      BY <1>5, <2>1 DEF Registered, StopsPending
    <2>7. Marked'
      BY <1>5, <2>1, <2>2 DEF Marked, AtPane
    <2> QED  BY <2>3, <2>4, <2>5, <2>6, <2>7 DEF Shells
  <1> QED  BY <1>6, <1>7

LEMMA StartNextKeeps ==
    ASSUME Sound, Roles, Shells, StartNext
    PROVE  Roles' /\ Shells'
  <1>1. /\ mode = "starting" /\ job[Main].pc = "idle" /\ Alive
        /\ UNCHANGED <<snapshot, requests, sessions, control, stopSent>>
    BY DEF StartNext, At, Alive, stateVars
  <1>2. SamePanes
    BY <1>1 DEF SamePanes
  <1>3. Main \in Threads /\ Main[1] = "main" /\ job[Main].pc \notin Doing
    BY <1>1, ThreadKinds, ThreadTags DEF Doing, Spawning
  <1>4. CASE \/ Becomes(Main, "copying", job[Main].spawn, job[Main].stop) /\ UNCHANGED mode
             \/ Becomes(Main, "ended", job[Main].spawn, job[Main].stop) /\ mode' = "failed"
    <2>1. PICK pc \in {"copying", "ended"} :
            /\ Becomes(Main, pc, job[Main].spawn, job[Main].stop)
            /\ mode' \in {"starting", "failed"}
      BY <1>1, <1>4
    <2>2. pc \notin Doing
      BY DEF Doing, Spawning
    <2>3. Permitted(Main, pc)
      BY <1>1, <1>3, <2>1 DEF Permitted
    <2> QED  BY <1>1, <1>2, <1>3, <2>1, <2>2, <2>3, LateStep
  <1>5. CASE (\E p \in usedPanes : Becomes(Main, "acting", p, {})) /\ UNCHANGED mode
    <2>1. PICK p \in usedPanes : Becomes(Main, "acting", p, {})
      BY <1>5
    <2>2. p # None
      BY SnapshotAssumption DEF Sound, IInv
    <2>3. /\ job'[Main].pc = "acting" /\ job'[Main].spawn = p /\ job'[Main].stop = {}
          /\ \A u \in Threads \ {Main} : /\ job'[u].pc = job[u].pc
                                         /\ job'[u].spawn = job[u].spawn
                                         /\ job'[u].stop = job[u].stop
      BY <1>3, <2>1 DEF Becomes
    <2>4. Roles'
      <3>1. Permitted(Main, "acting")
        BY <1>1, <1>3, <1>5 DEF Permitted
      <3>2. \A q \in PaneIds : Main # Closer(q)
        BY ThreadTags
      <3>3. \A q \in PaneIds : job[Closer(q)].pc = "acting" => control'[q] = "ended"
        BY <1>1 DEF Roles
      <3>4. Main[1] \notin {"tracker", "monitor"}
        BY <1>3
      <3> QED  BY <1>3, <2>1, <3>1, <3>2, <3>3, <3>4, RolesStep
    <2>5. /\ \A q : StopsPending(q) => StopsPending(q)'
          /\ \A q : AtPane("inserting", q) => AtPane("inserting", q)'
          /\ \A q : AtPane("marking", q) => AtPane("marking", q)'
      BY <1>1, <2>3 DEF StopsPending, AtPane
    <2>6. Deeds'
      BY <1>1, <1>3, <2>3 DEF Shells, Deeds
    <2>7. Owed /\ Registered /\ Marked
      BY <1>1 DEF Shells
    <2>8. Owed'
      BY <1>1, <2>5, <2>7 DEF Owed
    <2>9. Registered'
      BY <1>1, <2>5, <2>7 DEF Registered
    <2>10. Marked'
      BY <1>1, <2>5, <2>7 DEF Marked
    <2> QED  BY <2>4, <2>6, <2>8, <2>9, <2>10 DEF Shells
  <1> QED  BY <1>4, <1>5, StartNextSound

\* Every thread starts anew, without shells.
LEMMA AnewKeeps ==
    ASSUME \A t \in Threads : job'[t] = Idle, mode' # "up", sessions' = {},
           control' = [p \in PaneIds |-> "none"],
           \A p \in DOMAIN snapshot'.panes : snapshot'.panes[p].status # "Running"
    PROVE  Roles' /\ Shells'
  <1>1. \A t \in Threads : job'[t].pc = "idle"
    BY DEF Idle
  <1>2. Roles'
    BY <1>1, ThreadKinds DEF Roles, Doing, Spawning, Holding
  <1>3. Deeds'
    BY <1>1 DEF Deeds, Doing, Spawning
  <1>4. Owed' /\ Registered' /\ Marked'
    BY DEF Owed, Registered, Marked
  <1> QED  BY <1>2, <1>3, <1>4 DEF Shells

LEMMA AnewSteps ==
    ASSUME Sound, Boot \/ Crash
    PROVE  Roles' /\ Shells'
  <1>1. /\ \A t \in Threads : job'[t] = Idle
        /\ mode' # "up" /\ sessions' = {}
        /\ control' = [p \in PaneIds |-> "none"]
    BY DEF Boot, Crash, Forgotten
  <1>2. \A p \in DOMAIN snapshot'.panes : snapshot'.panes[p].status # "Running"
    <2>1. CASE Boot
      <3>1. disk.panes \in [DOMAIN disk.panes -> Pane]
        BY DEF Sound, Fits, WellFormed, IsSnapshot
      <3>2. snapshot'.panes = [p \in DOMAIN disk.panes |->
                                  [disk.panes[p] EXCEPT !.status = "Starting"]]
        BY <2>1 DEF Boot, Restarted, Update
      <3> QED  BY <3>1, <3>2 DEF Pane
    <2>2. CASE Crash
      BY <2>2 DEF Crash, EmptySnapshot
    <2> QED  BY <2>1, <2>2
  <1> QED  BY <1>1, <1>2, AnewKeeps

LEMMA InitKeeps == RuntimeInit => Roles /\ Shells
  <1> SUFFICES ASSUME RuntimeInit  PROVE Roles /\ Shells
    OBVIOUS
  <1>1. \A t \in Threads : job[t].pc = "idle"
    BY DEF RuntimeInit, Idle
  <1>2. mode = "down"
    BY DEF RuntimeInit
  <1>3. Roles
    BY <1>1, <1>2, ThreadKinds DEF Roles, Doing, Spawning, Holding
  <1>4. Deeds
    BY <1>1 DEF Deeds, Doing, Spawning
  <1> QED  BY <1>2, <1>3, <1>4 DEF Shells, Alive

LEMMA NextKeeps == Sound /\ Roles /\ Shells /\ [RuntimeNext]_allVars => Roles' /\ Shells'
  <1> SUFFICES ASSUME Sound, Roles, Shells, [RuntimeNext]_allVars
               PROVE  Roles' /\ Shells'
    OBVIOUS
  <1>1. CASE UNCHANGED allVars
    <2>1. UNCHANGED <<snapshot, mode, requests, job, sessions, control, stopSent>>
      BY <1>1 DEF allVars, runtimeVars, stateVars
    <2>2. Roles'
      BY <2>1 DEF Roles
    <2>3. Shells'
      BY <2>1 DEF Shells, Alive, Deeds, Owed, Registered, Marked, StopsPending, AtPane
    <2> QED  BY <2>2, <2>3
  <1>2. CASE Boot \/ Crash \/ StartNext \/ ObserveLabel
    BY <1>2, AnewSteps, StartNextKeeps, ReportLate
  <1>3. CASE \E c \in Clients : BeginRequest(c) \/ AttachCopies(c) \/ AttachActivates(c)
    BY <1>3, BeginRequestKeeps, AttachLate
  <1>4. CASE \E t \in Threads : ThreadStep(t)
    BY <1>4, ClosePanesKeep, SpawnRefusedKeeps, SpawnFailsKeeps, SpawnStartsKeeps,
       SpawnInsertsKeeps, SpawnMarksKeeps, CopyToSaveLate, SaveLate, SaveFailsLate,
       CopyToPublishLate, EmitLate
       DEF ThreadStep
  <1>5. CASE \E p \in PaneIds : \/ ControlStops(p) \/ ControlSeesExit(p) \/ ControlFails(p)
                                \/ BeginClose(p) \/ ReportCwd(p)
    BY <1>5, ControlKeeps, BeginCloseKeeps, ReportLate
  <1> QED  BY <1>1, <1>2, <1>3, <1>4, <1>5 DEF RuntimeNext

LEMMA ShellsFollow == Sound /\ Roles /\ Shells => NoOrphanShell /\ SessionsMatch
  <1> SUFFICES ASSUME Sound, Roles, Shells  PROVE NoOrphanShell /\ SessionsMatch
    OBVIOUS
  <1>1. NoOrphanShell
    BY DEF NoOrphanShell, Shells, Alive, Owed, StopsPending
  <1>2. SessionsMatch
    <2> SUFFICES ASSUME mode = "up", requests = None
                 PROVE  /\ sessions \subseteq DOMAIN snapshot.panes
                        /\ \A p \in DOMAIN snapshot.panes :
                              HasLiveSession(snapshot.panes[p]) =>
                                 (p \in sessions <=> snapshot.panes[p].status = "Running")
      BY DEF SessionsMatch
    <2>1. \A u \in Threads : job[u].pc \notin Doing
      BY LockFree
    <2>2. /\ \A p : ~StopsPending(p) /\ ~AtPane("marking", p)
          /\ job[Main].pc # "marking"
      BY <2>1, ThreadKinds DEF StopsPending, AtPane, Doing, Spawning
    <2>3. Registered /\ Marked
      BY DEF Shells, Alive
    <2>4. sessions \subseteq DOMAIN snapshot.panes
      BY <2>2, <2>3 DEF Registered
    <2>5. ASSUME NEW p \in DOMAIN snapshot.panes, HasLiveSession(snapshot.panes[p])
          PROVE  p \in sessions <=> snapshot.panes[p].status = "Running"
      BY <2>2, <2>3, <2>5 DEF Marked, HasLiveSession
    <2> QED  BY <2>4, <2>5
  <1> QED  BY <1>1, <1>2

\* However the daemon's threads interleave, and whatever fails or dies, no
\* shell runs without a pane or somebody to stop it, the sessions match the
\* panes whenever nobody holds the requests lock, and every copy of the
\* snapshot that is saved, loaded or shown is well formed (windows.rs).
THEOREM ShellsAlwaysHavePanes == RuntimeSpec => []ShellsHavePanes
  <1>1. RuntimeInit => Sound /\ Roles /\ Shells
    BY InitSound, InitKeeps
  <1>2. Sound /\ Roles /\ Shells /\ [RuntimeNext]_allVars => (Sound /\ Roles /\ Shells)'
    BY NextSound, NextKeeps
  <1>3. Sound /\ Roles /\ Shells => ShellsHavePanes
    BY ShellsFollow, SoundIsWellFormed DEF ShellsHavePanes
  <1> QED  BY <1>1, <1>2, <1>3, PTL DEF RuntimeSpec
====
