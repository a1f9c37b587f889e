---- MODULE DaemonState ----
(***************************************************************************)
(* DaemonState (ade-daemon/src/lib.rs) as its caller drives it one request *)
(* at a time: the snapshot, the stored copy that a restart reads back, and *)
(* the panes that the returned StateActions have asked the caller to run.  *)
(* Threads come in with module DaemonRuntime; this is what it must look    *)
(* like from outside.                                                      *)
(***************************************************************************)
EXTENDS AppSnapshot

CONSTANT Observable  \* the statuses the runtime may report in this instance

ASSUME ObservableAssumption == Observable \subseteq Statuses \ {"Starting"}

VARIABLES snapshot,  \* DaemonState.snapshot
          stored,    \* the snapshot in the repository
          spawned,   \* panes of SpawnPane actions not undone by ClosePane(s)
          usedPanes, \* every PaneId::new() so far (uuids never repeat)
          usedWs     \* every WorkspaceId::new() so far

vars == <<snapshot, stored, spawned, usedPanes, usedWs>>

TypeOK ==
    /\ IsSnapshot(snapshot)
    /\ IsSnapshot(stored)
    /\ spawned \in SUBSET PaneIds
    /\ usedPanes \in SUBSET PaneIds
    /\ usedWs \in SUBSET WorkspaceIds

\* load_state on a repository without a snapshot.
Init ==
    /\ snapshot = EmptySnapshot
    /\ stored = EmptySnapshot
    /\ spawned = {}
    /\ usedPanes = {}
    /\ usedWs = {}

\* StateChange::mutation: the caller persists (and publishes) what it left.
Mutation(s) == snapshot' = s /\ stored' = s

NoNewIds == UNCHANGED <<usedPanes, usedWs>>

DoCreateWorkspace ==
    \E w \in WorkspaceIds \ usedWs, p \in PaneIds \ usedPanes,
       name \in Names, root \in Dirs :
        /\ CanCreateWorkspace(name)
        /\ Mutation(CreateWorkspace(snapshot, w, p, name, root))
        /\ spawned' = spawned \cup {p}
        /\ usedPanes' = usedPanes \cup {p}
        /\ usedWs' = usedWs \cup {w}

DoRenameWorkspace ==
    \E w \in WorkspaceIds, name \in Names :
        /\ CanRenameWorkspace(snapshot, w, name)
        /\ Mutation(RenameWorkspace(snapshot, w, name))
        /\ UNCHANGED spawned /\ NoNewIds

\* Mutant: only the focused shell of the workspace is stopped.
DoCloseWorkspaceStopActive ==
    \E w \in WorkspaceIds :
        /\ CanCloseWorkspace(snapshot, w)
        /\ Mutation(CloseWorkspace(snapshot, w))
        /\ spawned' = spawned \ {snapshot.ws[w].active}
        /\ NoNewIds

\* The panes to stop are the leaves of the removed layout; the panes removed
\* are those that name the workspace.
DoCloseWorkspace ==
    \E w \in WorkspaceIds :
        /\ CanCloseWorkspace(snapshot, w)
        /\ Mutation(CloseWorkspace(snapshot, w))
        /\ spawned' = spawned \ ToSet(snapshot.ws[w].layout)
        /\ NoNewIds

DoCreatePane ==
    \E w \in WorkspaceIds, p \in PaneIds \ usedPanes :
        /\ CanCreatePane(snapshot, w)
        /\ Mutation(CreatePane(snapshot, w, p))
        /\ spawned' = spawned \cup {p}
        /\ usedPanes' = usedPanes \cup {p}
        /\ UNCHANGED usedWs

DoSplitPane ==
    \E w \in WorkspaceIds, target \in PaneIds, p \in PaneIds \ usedPanes :
        /\ CanSplitPane(snapshot, w, target)
        /\ Mutation(SplitPane(snapshot, w, target, p))
        /\ spawned' = spawned \cup {p}
        /\ usedPanes' = usedPanes \cup {p}
        /\ UNCHANGED usedWs

\* Mutant: closing a pane returns StateChange::runtime, so nothing persists.
DoClosePaneUnsaved ==
    \E p \in PaneIds :
        /\ CanClosePane(snapshot, p)
        /\ snapshot' = ClosePane(snapshot, p)
        /\ spawned' = spawned \ {p}
        /\ UNCHANGED stored /\ NoNewIds

DoClosePane ==
    \E p \in PaneIds :
        /\ CanClosePane(snapshot, p)
        /\ Mutation(ClosePane(snapshot, p))
        /\ spawned' = spawned \ {p}
        /\ NoNewIds

DoFocusWorkspace ==
    \E w \in WorkspaceIds :
        /\ CanFocusWorkspace(snapshot, w)
        /\ Mutation(FocusWorkspace(snapshot, w))
        /\ UNCHANGED spawned /\ NoNewIds

DoFocusPane ==
    \E p \in PaneIds :
        /\ CanFocusPane(snapshot, p)
        /\ Mutation(FocusPane(snapshot, p))
        /\ UNCHANGED spawned /\ NoNewIds

\* The client may send any tree; its leaves are drawn from every sequence of
\* known identifiers as long as a full workspace.
DoUpdateLayout ==
    \E w \in WorkspaceIds :
        \E n \in 0..MaxTerminals : \E leaves \in [1..n -> PaneIds] :
            /\ CanUpdateLayout(snapshot, w, leaves)
            /\ Mutation(UpdateLayout(snapshot, w, leaves))
            /\ UNCHANGED spawned /\ NoNewIds

\* Mutant: a resize returns StateChange::runtime, so nothing persists.
DoResizeUnsaved ==
    \E p \in PaneIds, size \in Sizes :
        /\ CanResize(snapshot, p, size)
        /\ snapshot' = Resize(snapshot, p, size)
        /\ UNCHANGED <<stored, spawned>> /\ NoNewIds

DoResize ==
    \E p \in PaneIds, size \in Sizes :
        /\ CanResize(snapshot, p, size)
        /\ Mutation(Resize(snapshot, p, size))
        /\ UNCHANGED spawned /\ NoNewIds

\* ReportCwd, and the OSC 7 report that update_pane_cwd handles: the second
\* persists only when the directory changed, which is the same snapshot.
DoReportCwd ==
    \E p \in DOMAIN snapshot.panes, cwd \in Dirs :
        /\ Mutation(SetPaneCwd(snapshot, p, cwd))
        /\ UNCHANGED spawned /\ NoNewIds

\* What the runtime observes of the pane's root process; not persisted.
ObserveStatus ==
    \E p \in DOMAIN snapshot.panes, status \in Observable :
        /\ snapshot' = SetPaneStatus(snapshot, p, status)
        /\ UNCHANGED <<stored, spawned>> /\ NoNewIds

ObserveProcessLabel ==
    \E p \in DOMAIN snapshot.panes, label \in Labels :
        /\ snapshot' = SetPaneProcessLabel(snapshot, p, label)
        /\ UNCHANGED <<stored, spawned>> /\ NoNewIds

\* The daemon stops or dies between two requests, and run() starts again:
\* load the stored snapshot, spawn every pane of it, persist.
Restart ==
    /\ Mutation(Restarted(stored))
    /\ spawned' = DOMAIN stored.panes
    /\ NoNewIds

Request ==
    \/ DoCreateWorkspace \/ DoRenameWorkspace \/ DoCloseWorkspace
    \/ DoCreatePane \/ DoSplitPane \/ DoClosePane
    \/ DoFocusWorkspace \/ DoFocusPane
    \/ DoUpdateLayout \/ DoResize \/ DoReportCwd

Next == Request \/ ObserveStatus \/ ObserveProcessLabel \/ Restart

Spec == Init /\ [][Next]_vars

----
(* Properties *)

\* The snapshot, and the stored one a restart would load, always have each
\* pane in exactly one layout, at most MaxTerminals per workspace, and a
\* focus that exists whenever there is something to focus (handle, lib.rs).
SnapshotsWellFormed == WellFormed(snapshot) /\ WellFormed(stored)

\* A caller that carries out every StateAction runs exactly the panes of the
\* snapshot: no shell outlives its pane and no pane is left without one.
\* CloseWorkspace takes the panes to stop from the layout and the panes to
\* forget from their workspace_id; the two must agree.
EffectsCoverPanes == spawned = DOMAIN snapshot.panes

\* After every request a restart would bring back the same workspaces, panes,
\* focus, directories and sizes: nothing accepted from a client is lost.
RestartRestores == Lasting(stored) = Lasting(snapshot)

\* A pane or workspace that was closed does not come back, not even through
\* a restart.
ClosedStaysClosed ==
    [][/\ DOMAIN snapshot'.panes \cap (usedPanes \ DOMAIN snapshot.panes) = {}
       /\ DOMAIN snapshot'.ws \cap (usedWs \ DOMAIN snapshot.ws) = {}]_vars

\* Closing something the user is not in leaves the focus alone, in every
\* workspace; closing the focused workspace moves the focus to a neighbour of
\* it in the sidebar.
FocusFollowsUser ==
    [][LET gonePanes == DOMAIN snapshot.panes \ DOMAIN snapshot'.panes
           goneWs    == DOMAIN snapshot.ws \ DOMAIN snapshot'.ws
           at(w)     == IndexOf(snapshot.order, w)
       IN  gonePanes \cup goneWs # {} =>
             /\ \A w \in DOMAIN snapshot'.ws :
                   snapshot.ws[w].active \notin gonePanes =>
                       snapshot'.ws[w].active = snapshot.ws[w].active
             /\ snapshot.activeWs \notin goneWs =>
                    snapshot'.activeWs = snapshot.activeWs
             /\ snapshot.activeWs \in goneWs /\ snapshot'.order # <<>> =>
                    at(snapshot'.activeWs) - at(snapshot.activeWs) \in {-1, 1}
      ]_vars
====
