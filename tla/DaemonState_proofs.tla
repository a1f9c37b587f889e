---- MODULE DaemonState_proofs ----
(***************************************************************************)
(* The safety properties of DaemonState for every set of identifiers, every*)
(* limit and every length of run, from one inductive invariant.            *)
(***************************************************************************)
EXTENDS DaemonState, AppSnapshot_proofs

\* SnapshotsWellFormed alone is not inductive: Restart needs the stored copy
\* to hold the same panes, and creation needs identifiers not in use.
IInv ==
    /\ SnapshotsWellFormed
    /\ EffectsCoverPanes
    /\ RestartRestores
    /\ usedPanes \in SUBSET PaneIds /\ DOMAIN snapshot.panes \subseteq usedPanes
    /\ usedWs \in SUBSET WorkspaceIds /\ DOMAIN snapshot.ws \subseteq usedWs

\* A mutation leaves the stored copy equal to the snapshot.
LEMMA MutationIInv ==
    ASSUME NEW n, WellFormed(n), Mutation(n),
           spawned' = DOMAIN n.panes,
           usedPanes' \in SUBSET PaneIds, DOMAIN n.panes \subseteq usedPanes',
           usedWs' \in SUBSET WorkspaceIds, DOMAIN n.ws \subseteq usedWs'
    PROVE  IInv'
  BY DEF IInv, SnapshotsWellFormed, EffectsCoverPanes, RestartRestores, Mutation

LEMMA InitIInv == Init => IInv
  <1> SUFFICES ASSUME Init  PROVE IInv
    OBVIOUS
  <1>1. WellFormed(snapshot) /\ WellFormed(stored)
    BY EmptyWF DEF Init
  <1>2. DOMAIN snapshot.panes = {} /\ DOMAIN snapshot.ws = {}
    BY DEF Init, EmptySnapshot
  <1> QED  BY <1>1, <1>2 DEF Init, IInv, SnapshotsWellFormed,
                             EffectsCoverPanes, RestartRestores

LEMMA CreateIInv ==
    ASSUME IInv, DoCreateWorkspace \/ DoCreatePane \/ DoSplitPane
    PROVE  IInv'
  <1> USE DEF IInv, SnapshotsWellFormed, EffectsCoverPanes
  <1>1. CASE DoCreateWorkspace
    <2>1. PICK w \in WorkspaceIds \ usedWs, p \in PaneIds \ usedPanes,
               name \in Names, root \in Dirs :
            /\ Mutation(CreateWorkspace(snapshot, w, p, name, root))
            /\ spawned' = spawned \cup {p}
            /\ usedPanes' = usedPanes \cup {p}
            /\ usedWs' = usedWs \cup {w}
      BY <1>1 DEF DoCreateWorkspace
    <2> DEFINE n == CreateWorkspace(snapshot, w, p, name, root)
    <2>2. /\ DOMAIN n.panes = DOMAIN snapshot.panes \cup {p}
          /\ DOMAIN n.ws = DOMAIN snapshot.ws \cup {w}
      BY DEF CreateWorkspace, WithPane
    <2>3. WellFormed(n)
      BY CreateWorkspaceWF
    <2> HIDE DEF n
    <2> QED  BY <2>1, <2>2, <2>3, MutationIInv DEF n
  <1>2. CASE DoCreatePane
    <2>1. PICK w \in WorkspaceIds, p \in PaneIds \ usedPanes :
            /\ CanCreatePane(snapshot, w)
            /\ Mutation(CreatePane(snapshot, w, p))
            /\ spawned' = spawned \cup {p}
            /\ usedPanes' = usedPanes \cup {p}
            /\ UNCHANGED usedWs
      BY <1>2 DEF DoCreatePane
    <2> DEFINE n == CreatePane(snapshot, w, p)
    <2>2. /\ DOMAIN n.panes = DOMAIN snapshot.panes \cup {p}
          /\ DOMAIN n.ws = DOMAIN snapshot.ws
      BY DEF CreatePane, Update, WithPane
    <2>3. WellFormed(n)
      BY <2>1, CreatePaneWF
    <2> HIDE DEF n
    <2> QED  BY <2>1, <2>2, <2>3, MutationIInv DEF n
  <1>3. CASE DoSplitPane
    <2>1. PICK w \in WorkspaceIds, target \in PaneIds, p \in PaneIds \ usedPanes :
            /\ CanSplitPane(snapshot, w, target)
            /\ Mutation(SplitPane(snapshot, w, target, p))
            /\ spawned' = spawned \cup {p}
            /\ usedPanes' = usedPanes \cup {p}
            /\ UNCHANGED usedWs
      BY <1>3 DEF DoSplitPane
    <2> DEFINE n == SplitPane(snapshot, w, target, p)
    <2>2. /\ DOMAIN n.panes = DOMAIN snapshot.panes \cup {p}
          /\ DOMAIN n.ws = DOMAIN snapshot.ws
      BY DEF SplitPane, Update, WithPane
    <2>3. WellFormed(n)
      BY <2>1, SplitPaneWF
    <2> HIDE DEF n
    <2> QED  BY <2>1, <2>2, <2>3, MutationIInv DEF n
  <1> QED  BY <1>1, <1>2, <1>3

LEMMA CloseIInv ==
    ASSUME IInv, DoCloseWorkspace \/ DoClosePane
    PROVE  IInv'
  <1> USE DEF IInv, SnapshotsWellFormed, EffectsCoverPanes
  <1>1. CASE DoCloseWorkspace
    <2>1. PICK w \in WorkspaceIds :
            /\ CanCloseWorkspace(snapshot, w)
            /\ Mutation(CloseWorkspace(snapshot, w))
            /\ spawned' = spawned \ ToSet(snapshot.ws[w].layout)
            /\ NoNewIds
      BY <1>1 DEF DoCloseWorkspace
    <2> DEFINE n == CloseWorkspace(snapshot, w)
    <2>2. /\ DOMAIN n.panes = DOMAIN snapshot.panes \ PanesOf(snapshot, w)
          /\ DOMAIN n.ws = DOMAIN snapshot.ws \ {w}
      BY DEF CloseWorkspace
    <2>3. ToSet(snapshot.ws[w].layout) = PanesOf(snapshot, w)
      BY <2>1 DEF CanCloseWorkspace, WellFormed, LayoutsMatchPanes
    <2>4. WellFormed(n)
      BY <2>1, CloseWorkspaceWF
    <2> HIDE DEF n
    <2> QED  BY <2>1, <2>2, <2>3, <2>4, MutationIInv DEF n, NoNewIds
  <1>2. CASE DoClosePane
    <2>1. PICK p \in PaneIds :
            /\ CanClosePane(snapshot, p)
            /\ Mutation(ClosePane(snapshot, p))
            /\ spawned' = spawned \ {p}
            /\ NoNewIds
      BY <1>2 DEF DoClosePane
    <2> DEFINE n == ClosePane(snapshot, p)
    <2>2. /\ DOMAIN n.panes = DOMAIN snapshot.panes \ {p}
          /\ DOMAIN n.ws = DOMAIN snapshot.ws
      BY DEF ClosePane, Update
    <2>3. WellFormed(n)
      BY <2>1, ClosePaneWF
    <2> HIDE DEF n
    <2> QED  BY <2>1, <2>2, <2>3, MutationIInv DEF n, NoNewIds
  <1> QED  BY <1>1, <1>2

LEMMA UpdateIInv ==
    ASSUME IInv, \/ DoRenameWorkspace \/ DoFocusWorkspace \/ DoFocusPane
                 \/ DoUpdateLayout \/ DoResize \/ DoReportCwd
    PROVE  IInv'
  <1>1. ASSUME NEW n, WellFormed(n), Mutation(n), UNCHANGED spawned, NoNewIds,
               DOMAIN n.panes = DOMAIN snapshot.panes,
               DOMAIN n.ws = DOMAIN snapshot.ws
        PROVE  IInv'
    BY <1>1, MutationIInv DEF IInv, EffectsCoverPanes, NoNewIds
  <1>2. WellFormed(snapshot)
    BY DEF IInv, SnapshotsWellFormed
  <1>3. CASE DoRenameWorkspace
    <2>1. PICK w \in WorkspaceIds, name \in Names :
            /\ CanRenameWorkspace(snapshot, w, name)
            /\ Mutation(RenameWorkspace(snapshot, w, name))
            /\ UNCHANGED spawned /\ NoNewIds
      BY <1>3 DEF DoRenameWorkspace
    <2>2. WellFormed(RenameWorkspace(snapshot, w, name))
      BY <2>1, <1>2, RenameWorkspaceWF
    <2> QED  BY <2>1, <2>2, <1>1 DEF RenameWorkspace, Update
  <1>4. CASE DoFocusWorkspace
    <2>1. PICK w \in WorkspaceIds :
            /\ CanFocusWorkspace(snapshot, w)
            /\ Mutation(FocusWorkspace(snapshot, w))
            /\ UNCHANGED spawned /\ NoNewIds
      BY <1>4 DEF DoFocusWorkspace
    <2>2. WellFormed(FocusWorkspace(snapshot, w))
      BY <2>1, <1>2, FocusWorkspaceWF
    <2> QED  BY <2>1, <2>2, <1>1 DEF FocusWorkspace, Update
  <1>5. CASE DoFocusPane
    <2>1. PICK p \in PaneIds :
            /\ CanFocusPane(snapshot, p)
            /\ Mutation(FocusPane(snapshot, p))
            /\ UNCHANGED spawned /\ NoNewIds
      BY <1>5 DEF DoFocusPane
    <2>2. WellFormed(FocusPane(snapshot, p))
      BY <2>1, <1>2, FocusPaneWF
    <2> QED  BY <2>1, <2>2, <1>1 DEF FocusPane, Update
  <1>6. CASE DoUpdateLayout
    <2>1. PICK w \in WorkspaceIds, k \in 0..MaxTerminals :
                \E leaves \in [1..k -> PaneIds] :
                    /\ CanUpdateLayout(snapshot, w, leaves)
                    /\ Mutation(UpdateLayout(snapshot, w, leaves))
                    /\ UNCHANGED spawned /\ NoNewIds
      BY <1>6 DEF DoUpdateLayout
    <2>a. PICK leaves \in [1..k -> PaneIds] :
            /\ CanUpdateLayout(snapshot, w, leaves)
            /\ Mutation(UpdateLayout(snapshot, w, leaves))
            /\ UNCHANGED spawned /\ NoNewIds
      BY <2>1
    <2>2. leaves \in Seq(PaneIds)
      BY SnapshotAssumption
    <2>3. WellFormed(UpdateLayout(snapshot, w, leaves))
      BY <2>a, <2>2, <1>2, UpdateLayoutWF
    <2> QED  BY <2>a, <2>3, <1>1 DEF UpdateLayout, Update
  <1>7. CASE DoResize
    <2>1. PICK p \in PaneIds, size \in Sizes :
            /\ CanResize(snapshot, p, size)
            /\ Mutation(Resize(snapshot, p, size))
            /\ UNCHANGED spawned /\ NoNewIds
      BY <1>7 DEF DoResize
    <2>2. WellFormed(Resize(snapshot, p, size))
      BY <2>1, <1>2, SetPaneFieldsWF DEF CanResize
    <2> QED  BY <2>1, <2>2, <1>1 DEF Resize, Update
  <1>8. CASE DoReportCwd
    <2>1. PICK p \in DOMAIN snapshot.panes, cwd \in Dirs :
            /\ Mutation(SetPaneCwd(snapshot, p, cwd))
            /\ UNCHANGED spawned /\ NoNewIds
      BY <1>8 DEF DoReportCwd
    <2>2. WellFormed(SetPaneCwd(snapshot, p, cwd))
      BY <1>2, SetPaneFieldsWF
    <2> QED  BY <2>1, <2>2, <1>1 DEF SetPaneCwd, Update
  <1> QED  BY <1>3, <1>4, <1>5, <1>6, <1>7, <1>8

LEMMA ObserveIInv ==
    ASSUME IInv, ObserveStatus \/ ObserveProcessLabel
    PROVE  IInv'
  <1>1. ASSUME NEW n, WellFormed(n), snapshot' = n, UNCHANGED <<stored, spawned>>,
               NoNewIds, Lasting(n) = Lasting(snapshot),
               DOMAIN n.panes = DOMAIN snapshot.panes,
               DOMAIN n.ws = DOMAIN snapshot.ws
        PROVE  IInv'
    BY <1>1 DEF IInv, SnapshotsWellFormed, EffectsCoverPanes, RestartRestores, NoNewIds
  <1>2. WellFormed(snapshot) /\ IsSnapshot(snapshot)
    BY DEF IInv, SnapshotsWellFormed, WellFormed
  <1>3. CASE ObserveStatus
    <2>1. PICK p \in DOMAIN snapshot.panes, status \in Observable :
            /\ snapshot' = SetPaneStatus(snapshot, p, status)
            /\ UNCHANGED <<stored, spawned>> /\ NoNewIds
      BY <1>3 DEF ObserveStatus
    <2>2. WellFormed(SetPaneStatus(snapshot, p, status))
      BY <1>2, SetPaneFieldsWF, ObservableAssumption
    <2>3. Lasting(SetPaneStatus(snapshot, p, status)) = Lasting(snapshot)
      BY <1>2, ObservationsNotLasting
    <2> QED  BY <2>1, <2>2, <2>3, <1>1 DEF SetPaneStatus, Update
  <1>4. CASE ObserveProcessLabel
    <2>1. PICK p \in DOMAIN snapshot.panes, label \in Labels :
            /\ snapshot' = SetPaneProcessLabel(snapshot, p, label)
            /\ UNCHANGED <<stored, spawned>> /\ NoNewIds
      BY <1>4 DEF ObserveProcessLabel
    <2>2. WellFormed(SetPaneProcessLabel(snapshot, p, label))
      BY <1>2, SetPaneFieldsWF
    <2>3. Lasting(SetPaneProcessLabel(snapshot, p, label)) = Lasting(snapshot)
      BY <1>2, ObservationsNotLasting
    <2> QED  BY <2>1, <2>2, <2>3, <1>1 DEF SetPaneProcessLabel, Update
  <1> QED  BY <1>3, <1>4

\* Equal in what lasts, so equal in which panes and workspaces there are.
LEMMA SameDomains ==
    ASSUME RestartRestores
    PROVE  /\ DOMAIN stored.panes = DOMAIN snapshot.panes
           /\ DOMAIN stored.ws = DOMAIN snapshot.ws
  <1>1. \A s : /\ DOMAIN Lasting(s).panes = DOMAIN s.panes
               /\ Lasting(s).ws = s.ws
    BY DEF Lasting, Update
  <1> QED  BY <1>1 DEF RestartRestores

LEMMA RestartIInv ==
    ASSUME IInv, Restart
    PROVE  IInv'
  <1>1. WellFormed(Restarted(stored))
    BY RestartedWF DEF IInv, SnapshotsWellFormed
  <1>2. /\ DOMAIN Restarted(stored).panes = DOMAIN stored.panes
        /\ DOMAIN Restarted(stored).ws = DOMAIN stored.ws
    BY DEF Restarted, Update
  <1>3. /\ DOMAIN stored.panes = DOMAIN snapshot.panes
        /\ DOMAIN stored.ws = DOMAIN snapshot.ws
    BY SameDomains DEF IInv
  <1> QED  BY <1>1, <1>2, <1>3, MutationIInv DEF IInv, Restart, NoNewIds

LEMMA NextIInv == IInv /\ [Next]_vars => IInv'
  <1> SUFFICES ASSUME IInv, [Next]_vars  PROVE IInv'
    OBVIOUS
  <1>1. CASE Next
    BY <1>1, CreateIInv, CloseIInv, UpdateIInv, ObserveIInv, RestartIInv
       DEF Next, Request
  <1>2. CASE UNCHANGED vars
    BY <1>2 DEF vars, IInv, SnapshotsWellFormed, EffectsCoverPanes, RestartRestores
  <1> QED  BY <1>1, <1>2

LEMMA SpecIInv == Spec => []IInv
  BY InitIInv, NextIInv, PTL DEF Spec

----
(* The theorems *)

\* Every variable keeps its type (the state of DaemonState and its caller).
THEOREM TypeCorrect == Spec => []TypeOK
  <1>1. IInv => TypeOK
    <2> SUFFICES ASSUME IInv  PROVE TypeOK
      OBVIOUS
    <2>1. IsSnapshot(snapshot) /\ IsSnapshot(stored)
      BY DEF IInv, SnapshotsWellFormed, WellFormed
    <2> QED  BY <2>1 DEF IInv, EffectsCoverPanes, TypeOK
  <1> QED  BY <1>1, SpecIInv, PTL

\* Whatever the requests and restarts, both the live and the stored snapshot
\* are well formed: layouts, panes and focus agree (handle, lib.rs).
THEOREM AlwaysWellFormed == Spec => []SnapshotsWellFormed
  <1>1. IInv => SnapshotsWellFormed
    BY DEF IInv
  <1> QED  BY <1>1, SpecIInv, PTL

\* The returned StateActions start and stop exactly the panes of the snapshot.
THEOREM NoShellLeaks == Spec => []EffectsCoverPanes
  <1>1. IInv => EffectsCoverPanes
    BY DEF IInv
  <1> QED  BY <1>1, SpecIInv, PTL

\* A restart brings back everything that was accepted from clients.
THEOREM RestartIsFaithful == Spec => []RestartRestores
  <1>1. IInv => RestartRestores
    BY DEF IInv
  <1> QED  BY <1>1, SpecIInv, PTL

\* One step never brings back an identifier that was used and dropped.
LEMMA StepKeepsClosed ==
    ASSUME IInv, Next
    PROVE  /\ DOMAIN snapshot'.panes \cap (usedPanes \ DOMAIN snapshot.panes) = {}
           /\ DOMAIN snapshot'.ws \cap (usedWs \ DOMAIN snapshot.ws) = {}
  <1> DEFINE Kept == /\ DOMAIN snapshot'.panes \subseteq DOMAIN snapshot.panes
                     /\ DOMAIN snapshot'.ws \subseteq DOMAIN snapshot.ws
  <1>1. CASE DoCreateWorkspace
    BY <1>1 DEF DoCreateWorkspace, Mutation, CreateWorkspace, WithPane
  <1>2. CASE DoCreatePane
    BY <1>2 DEF DoCreatePane, Mutation, CreatePane, Update, WithPane
  <1>3. CASE DoSplitPane
    BY <1>3 DEF DoSplitPane, Mutation, SplitPane, Update, WithPane
  <1>4. CASE DoCloseWorkspace
    <2>1. PICK w \in WorkspaceIds : snapshot' = CloseWorkspace(snapshot, w)
      BY <1>4 DEF DoCloseWorkspace, Mutation
    <2>2. /\ snapshot'.ws = [v \in DOMAIN snapshot.ws \ {w} |-> snapshot.ws[v]]
          /\ snapshot'.panes = [p \in DOMAIN snapshot.panes \ PanesOf(snapshot, w) |-> snapshot.panes[p]]
      BY <2>1 DEF CloseWorkspace
    <2>3. /\ DOMAIN snapshot'.ws = DOMAIN snapshot.ws \ {w}
          /\ DOMAIN snapshot'.panes = DOMAIN snapshot.panes \ PanesOf(snapshot, w)
      BY <2>2
    <2>4. DOMAIN snapshot'.ws \subseteq DOMAIN snapshot.ws
      BY <2>3
    <2>5. DOMAIN snapshot'.panes \subseteq DOMAIN snapshot.panes
      BY <2>3
    <2>6. Kept  BY <2>4, <2>5
    <2> QED  BY <2>6
  <1>5. CASE DoClosePane
    <2>1. PICK p \in PaneIds : snapshot' = ClosePane(snapshot, p)
      BY <1>5 DEF DoClosePane, Mutation
    <2>2. DOMAIN snapshot'.panes = DOMAIN snapshot.panes \ {p} /\ DOMAIN snapshot'.ws = DOMAIN snapshot.ws
      BY <2>1, ClosePaneRemoves
    <2>3. Kept  BY <2>2
    <2> QED  BY <2>3
  <1>6. CASE \/ DoRenameWorkspace \/ DoFocusWorkspace \/ DoFocusPane
             \/ DoUpdateLayout \/ DoResize \/ DoReportCwd
    <2>1. CASE DoRenameWorkspace
      BY <2>1 DEF DoRenameWorkspace, Mutation, RenameWorkspace, Update
    <2>2. CASE DoFocusWorkspace
      BY <2>2 DEF DoFocusWorkspace, Mutation, FocusWorkspace, Update
    <2>3. CASE DoFocusPane
      BY <2>3 DEF DoFocusPane, Mutation, FocusPane, Update
    <2>4. CASE DoUpdateLayout
      BY <2>4 DEF DoUpdateLayout, Mutation, UpdateLayout, Update
    <2>5. CASE DoResize
      BY <2>5 DEF DoResize, Mutation, Resize, Update
    <2>6. CASE DoReportCwd
      BY <2>6 DEF DoReportCwd, Mutation, SetPaneCwd, Update
    <2> QED  BY <2>1, <2>2, <2>3, <2>4, <2>5, <2>6, <1>6
  <1>8. CASE ObserveStatus \/ ObserveProcessLabel
    <2>1. Kept
      BY <1>8 DEF ObserveStatus, ObserveProcessLabel, SetPaneStatus,
                  SetPaneProcessLabel, Update
    <2> QED  BY <2>1
  <1>9. CASE Restart
    <2>1. Kept
      BY <1>9, SameDomains DEF IInv, Restart, Mutation, Restarted, Update
    <2> QED  BY <2>1
  <1> QED  BY <1>1, <1>2, <1>3, <1>4, <1>5, <1>6, <1>8, <1>9
           DEF Next, Request

\* Nothing that was closed is brought back, by a request or by a restart.
THEOREM ClosedNeverReturns == Spec => ClosedStaysClosed
  <1>1. IInv /\ [Next]_vars =>
          [/\ DOMAIN snapshot'.panes \cap (usedPanes \ DOMAIN snapshot.panes) = {}
           /\ DOMAIN snapshot'.ws \cap (usedWs \ DOMAIN snapshot.ws) = {}]_vars
    BY StepKeepsClosed
  <1> QED  BY <1>1, SpecIInv, PTL DEF Spec, ClosedStaysClosed

\* All other requests and what is observed close nothing, and neither does a
\* restart.
LEMMA OthersCloseNothing ==
    ASSUME IInv, Next, ~DoClosePane, ~DoCloseWorkspace
    PROVE  DOMAIN snapshot.panes \subseteq DOMAIN snapshot'.panes
           /\ DOMAIN snapshot.ws \subseteq DOMAIN snapshot'.ws
  <1>1. CASE DoCreateWorkspace
    BY <1>1 DEF DoCreateWorkspace, Mutation, CreateWorkspace, WithPane
  <1>2. CASE DoCreatePane
    BY <1>2 DEF DoCreatePane, Mutation, CreatePane, Update, WithPane
  <1>3. CASE DoSplitPane
    BY <1>3 DEF DoSplitPane, Mutation, SplitPane, Update, WithPane
  <1>4. CASE DoRenameWorkspace
    BY <1>4 DEF DoRenameWorkspace, Mutation, RenameWorkspace, Update
  <1>5. CASE DoFocusWorkspace
    BY <1>5 DEF DoFocusWorkspace, Mutation, FocusWorkspace, Update
  <1>6. CASE DoFocusPane
    BY <1>6 DEF DoFocusPane, Mutation, FocusPane, Update
  <1>7. CASE DoUpdateLayout
    BY <1>7 DEF DoUpdateLayout, Mutation, UpdateLayout, Update
  <1>8. CASE DoResize
    BY <1>8 DEF DoResize, Mutation, Resize, Update
  <1>9. CASE DoReportCwd
    BY <1>9 DEF DoReportCwd, Mutation, SetPaneCwd, Update
  <1>10. CASE ObserveStatus \/ ObserveProcessLabel
    BY <1>10 DEF ObserveStatus, ObserveProcessLabel, SetPaneStatus, SetPaneProcessLabel, Update
  <1>11. CASE Restart
    BY <1>11, SameDomains DEF IInv, Restart, Mutation, Restarted, Update
  <1> QED  BY <1>1, <1>2, <1>3, <1>4, <1>5, <1>6, <1>7, <1>8, <1>9, <1>10, <1>11
           DEF Next, Request

\* What a step that closes something does to the focus.
KeepsFocus ==
    LET gonePanes == DOMAIN snapshot.panes \ DOMAIN snapshot'.panes
        goneWs    == DOMAIN snapshot.ws \ DOMAIN snapshot'.ws
        at(w)     == IndexOf(snapshot.order, w)
    IN  gonePanes \cup goneWs # {} =>
          /\ \A w \in DOMAIN snapshot'.ws :
                snapshot.ws[w].active \notin gonePanes =>
                    snapshot'.ws[w].active = snapshot.ws[w].active
          /\ snapshot.activeWs \notin goneWs =>
                 snapshot'.activeWs = snapshot.activeWs
          /\ snapshot.activeWs \in goneWs /\ snapshot'.order # <<>> =>
                 at(snapshot'.activeWs) - at(snapshot.activeWs) \in {-1, 1}

LEMMA StepKeepsFocus == ASSUME IInv, Next PROVE KeepsFocus
  <1>1. WellFormed(snapshot)
    BY DEF IInv, SnapshotsWellFormed
  <1>2. CASE DoClosePane
    <2>1. PICK p \in PaneIds : CanClosePane(snapshot, p) /\ snapshot' = ClosePane(snapshot, p)
      BY <1>2 DEF DoClosePane, Mutation
    <2>2. /\ DOMAIN snapshot.panes \ DOMAIN snapshot'.panes = {p}
          /\ DOMAIN snapshot'.ws = DOMAIN snapshot.ws /\ snapshot'.activeWs = snapshot.activeWs
      <3>1. /\ DOMAIN snapshot'.panes = DOMAIN snapshot.panes \ {p}
            /\ DOMAIN snapshot'.ws = DOMAIN snapshot.ws /\ snapshot'.activeWs = snapshot.activeWs
        BY <2>1, ClosePaneRemoves
      <3>2. p \in DOMAIN snapshot.panes
        BY <2>1 DEF CanClosePane
      <3> QED  BY <3>1, <3>2
    <2>3. ASSUME NEW w \in DOMAIN snapshot'.ws, snapshot.ws[w].active # p
          PROVE  snapshot'.ws[w].active = snapshot.ws[w].active
      BY <1>1, <2>1, <2>2, <2>3, ClosePaneFocus
    <2> QED  BY <2>2, <2>3 DEF KeepsFocus
  <1>3. CASE DoCloseWorkspace
    <2>1. PICK w \in WorkspaceIds :
             CanCloseWorkspace(snapshot, w) /\ snapshot' = CloseWorkspace(snapshot, w)
      BY <1>3 DEF DoCloseWorkspace, Mutation
    <2>2. /\ DOMAIN snapshot'.ws = DOMAIN snapshot.ws \ {w} /\ w \in DOMAIN snapshot.ws
          /\ \A v \in DOMAIN snapshot'.ws : snapshot'.ws[v] = snapshot.ws[v]
          /\ snapshot.activeWs # w => snapshot'.activeWs = snapshot.activeWs
      BY <2>1 DEF CloseWorkspace, CanCloseWorkspace
    <2>3. DOMAIN snapshot.ws \ DOMAIN snapshot'.ws = {w}
      BY <2>2
    <2>4. snapshot.activeWs = w /\ snapshot'.order # <<>> =>
             IndexOf(snapshot.order, snapshot'.activeWs) - IndexOf(snapshot.order, w) \in {-1, 1}
      BY <1>1, <2>1, CloseWorkspaceHeir
    <2> QED  BY <2>2, <2>3, <2>4 DEF KeepsFocus
  <1>4. CASE ~DoClosePane /\ ~DoCloseWorkspace
    BY <1>4, OthersCloseNothing DEF KeepsFocus
  <1> QED  BY <1>2, <1>3, <1>4

\* Closing a pane or workspace the user is not in leaves his focus alone, and
\* closing the one he is in moves it to a neighbour (close_workspace).
THEOREM FocusStaysWithUser == Spec => FocusFollowsUser
  <1>1. IInv /\ [Next]_vars => [KeepsFocus]_vars
    BY StepKeepsFocus
  <1>2. [][KeepsFocus]_vars => FocusFollowsUser
    BY DEF KeepsFocus, FocusFollowsUser
  <1>3. Spec => [][KeepsFocus]_vars
    BY <1>1, SpecIInv, PTL DEF Spec
  <1> QED  BY <1>2, <1>3
====
