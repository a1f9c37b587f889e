---- MODULE UiSession ----
(***************************************************************************)
(* The desktop application's view of the daemon (ade-app/src/main.rs): it  *)
(* shows the last snapshot it was sent, moves the focus at once and asks   *)
(* the daemon afterwards, and feeds each pane's output to a terminal.  The *)
(* daemon's side is its request loop, the publications of its client,      *)
(* exit and monitor threads, and the output of its shells; the handlers    *)
(* are those of AppSnapshot.                                               *)
(*                                                                         *)
(* One window and one connection.  Names, colours and time are left out;   *)
(* a chunk of output is its number, and one grid size stands for the       *)
(* geometry of every pane on the screen.                                   *)
(***************************************************************************)
EXTENDS AppSnapshot

CONSTANTS Capacity,    \* CLIENT_EVENT_CAPACITY
          MaxActions,  \* bound: what the user does
          MaxEvents,   \* bound: chunks shells write, exits and new labels
          MaxSteps     \* bound: actions and events together

ASSUME UiAssumption ==
    /\ Capacity \in Nat \ {0}
    /\ {MaxActions, MaxEvents, MaxSteps} \subseteq Nat
    /\ PaneIds # {} /\ IsFiniteSet(PaneIds) /\ WorkspaceIds # {}
    /\ \A size \in Sizes : size[1] # 0 /\ size[2] # 0  \* cells_for_pixels

VARIABLES snapshot,   \* DaemonState.snapshot
          usedPanes,  \* every PaneId::new() so far
          usedWs,     \* every WorkspaceId::new() so far
          holder,     \* of Shared.requests: none, client or closer
          copies,     \* the snapshot a thread has copied and not yet sent on
          exiting,    \* panes whose control thread is about to close them
          output,     \* [PaneIds -> chunks its shell has written]
          buffers,    \* OutputHub.buffers
          attached,   \* OutputHub.client is this connection
          queue,      \* events on their way: the connection's queue, at most
                      \* Capacity, with the pipe and DaemonClient.events
          published,  \* history: the last snapshot sent, None if it was dropped
          skipped,    \* history: a snapshot was sent that lacks a pane there is
          outbox,     \* DaemonClient.requests, and the pipe after it
          view,       \* AdeApp.workspaces and AdeApp.active_workspace
          terms,      \* the TerminalPane of each pane in view
          grid,       \* the size the window's geometry gives a pane
          left        \* what is left of each bound

daemonVars == <<snapshot, usedPanes, usedWs, holder, copies, exiting, output,
                buffers, attached>>
uiVars     == <<view, terms, grid>>
vars       == <<daemonVars, queue, published, skipped, outbox, uiVars, left>>

Publishers == {"client", "closer", "monitor"}

Closing == {"no", "started", "sent"}  \* close_started_at, close_request_sent

Leaves(v) == UNION {ToSet(v.ws[w].layout) : w \in DOMAIN v.ws}

TypeOK ==
    /\ IsSnapshot(snapshot)
    /\ usedPanes \subseteq PaneIds /\ usedWs \subseteq WorkspaceIds
    /\ holder \in {"none", "client", "closer"} /\ attached \in BOOLEAN
    /\ \A t \in Publishers : copies[t] = None \/ IsSnapshot(copies[t])
    /\ published = None \/ IsSnapshot(published)
    /\ exiting \subseteq PaneIds /\ grid \in Sizes
    /\ Len(queue) <= Capacity
    /\ \A p \in DOMAIN terms : terms[p].closing \in Closing
                               /\ terms[p].status \in Statuses

\* The daemon is new, or already runs a workspace with one shell.
Init ==
    /\ \/ /\ snapshot = EmptySnapshot
          /\ usedPanes = {} /\ usedWs = {}
       \/ LET w == CHOOSE w \in WorkspaceIds : TRUE
              p == CHOOSE p \in PaneIds : TRUE
          IN  /\ \E name \in Names, root \in Dirs :
                    snapshot = SetPaneStatus(
                        CreateWorkspace(EmptySnapshot, w, p, name, root), p, "Running")
              /\ usedPanes = {p} /\ usedWs = {w}
    /\ holder = "none" /\ exiting = {} /\ attached = FALSE
    /\ copies = [t \in Publishers |-> None]
    /\ output = [p \in PaneIds |-> 0]
    /\ buffers = [p \in PaneIds |-> <<>>]
    /\ queue = <<>> /\ published = None /\ skipped = FALSE
    /\ outbox = <<[kind |-> "Attach"]>>
    /\ view = [order |-> <<>>, ws |-> [w \in {} |-> None], index |-> 0]
    /\ terms = [p \in {} |-> None]
    /\ grid = DefaultSize
    /\ left = [actions |-> MaxActions, events |-> MaxEvents, steps |-> MaxSteps]

\* One more of the bounded steps.
Uses(bound) ==
    /\ left[bound] > 0 /\ left.steps > 0
    /\ left' = [left EXCEPT ![bound] = @ - 1, !.steps = @ - 1]

----
(* The daemon: events *)

HasRoom == attached /\ Len(queue) < Capacity

\* OutputHub::emit, and send_request_error: try_send, and a full queue drops.
Emit(event) == queue' = IF HasRoom THEN Append(queue, event) ELSE queue

Error == [kind |-> "Error"]
Updated(s) == [kind |-> "Updated", snap |-> s]
PaneStatus(p, status) == [kind |-> "Status", pane |-> p, status |-> status]
TerminalOutput(p, data) == [kind |-> "Output", pane |-> p, data |-> data]

\* Publishing: the snapshot is copied under the state lock ...
CopyToPublish(t) ==
    /\ holder = t
    /\ copies[t] = None
    /\ copies' = [copies EXCEPT ![t] = snapshot]
    /\ UNCHANGED <<snapshot, usedPanes, usedWs, holder, exiting, output, buffers,
                   attached, queue, published, skipped, outbox, uiVars, left>>

\* ... and sent under that of the output, where another may have overtaken it.
Publish(t) ==
    /\ copies[t] # None
    /\ t = holder \/ t = "monitor"
    /\ Emit(Updated(copies[t]))
    /\ published' = IF HasRoom THEN copies[t] ELSE None
    /\ skipped' = \/ skipped
                  \/ HasRoom /\ ~(DOMAIN snapshot.panes \subseteq DOMAIN copies[t].panes)
    /\ copies' = [copies EXCEPT ![t] = None]
    /\ holder' = IF holder = t THEN "none" ELSE holder
    /\ UNCHANGED <<snapshot, usedPanes, usedWs, exiting, output, buffers, attached,
                   outbox, uiVars, left>>

\* monitor_pane_processes finds another label, and copies what it will publish.
ObserveLabel ==
    /\ Uses("events") /\ copies["monitor"] = None
    /\ \E p \in DOMAIN snapshot.panes :
          \E label \in Labels \ {snapshot.panes[p].label} :
             /\ snapshot' = SetPaneProcessLabel(snapshot, p, label)
             /\ copies' = [copies EXCEPT !["monitor"] = snapshot']
    /\ UNCHANGED <<usedPanes, usedWs, holder, exiting, output, buffers, attached,
                   queue, published, skipped, outbox, uiVars>>

\* The reader thread of a shell appends a chunk and waits for room to send it.
\* It may be behind: the pane can be gone already.
Output(p) ==
    /\ p \in usedPanes /\ Uses("events")
    /\ attached => HasRoom
    /\ output' = [output EXCEPT ![p] = @ + 1]
    /\ buffers' = [buffers EXCEPT ![p] = Append(@, output'[p])]
    /\ Emit(TerminalOutput(p, <<output'[p]>>))
    /\ UNCHANGED <<snapshot, usedPanes, usedWs, holder, copies, exiting, attached,
                   published, skipped, outbox, uiVars>>

\* control_session sees the shell gone.
Exit(p) ==
    /\ p \in DOMAIN snapshot.panes \ exiting
    /\ snapshot.panes[p].status = "Running"
    /\ snapshot' = SetPaneStatus(snapshot, p, "Exited")
    /\ Emit(PaneStatus(p, "Exited"))
    /\ exiting' = exiting \cup {p}
    /\ Uses("events")
    /\ UNCHANGED <<usedPanes, usedWs, holder, copies, output, buffers, attached,
                   published, skipped, outbox, uiVars>>

\* close_pane removes the replay buffers of the panes that are gone.
RemoveBuffers ==
    buffers' = [p \in PaneIds |->
                   IF p \in DOMAIN snapshot.panes \ DOMAIN snapshot'.panes
                   THEN <<>> ELSE buffers[p]]

\* close_exited_pane, which holds the requests lock until it has published.
CloseExited(p) ==
    /\ p \in exiting /\ holder = "none"
    /\ exiting' = exiting \ {p}
    /\ IF CanClosePane(snapshot, p)
       THEN snapshot' = ClosePane(snapshot, p) /\ holder' = "closer" /\ RemoveBuffers
       ELSE UNCHANGED <<snapshot, holder, buffers>>
    /\ UNCHANGED <<usedPanes, usedWs, copies, output, attached, queue, published, skipped,
                   outbox, uiVars, left>>

----
(* The daemon: the connection's requests *)

FreshPane == CHOOSE p \in PaneIds : p \notin usedPanes
FreshWs   == CHOOSE w \in WorkspaceIds : w \notin usedWs

Accepts(r) ==
    CASE r.kind = "CreateWorkspace" -> TRUE
      [] r.kind = "CloseWorkspace"  -> CanCloseWorkspace(snapshot, r.ws)
      [] r.kind = "FocusWorkspace"  -> CanFocusWorkspace(snapshot, r.ws)
      [] r.kind = "CreatePane"      -> CanCreatePane(snapshot, r.ws)
      [] r.kind = "SplitPane"       -> CanSplitPane(snapshot, r.ws, r.pane)
      [] r.kind = "ClosePane"       -> CanClosePane(snapshot, r.pane)
      [] r.kind = "FocusPane"       -> CanFocusPane(snapshot, r.pane)
      [] r.kind = "UpdateLayout"    -> CanUpdateLayout(snapshot, r.ws, r.leaves)
      [] r.kind = "Resize"          -> CanResize(snapshot, r.pane, r.size)

After(r) ==
    CASE r.kind = "CreateWorkspace" ->
            CreateWorkspace(snapshot, FreshWs, FreshPane, r.name, r.root)
      [] r.kind = "CloseWorkspace"  -> CloseWorkspace(snapshot, r.ws)
      [] r.kind = "FocusWorkspace"  -> FocusWorkspace(snapshot, r.ws)
      [] r.kind = "CreatePane"      -> CreatePane(snapshot, r.ws, FreshPane)
      [] r.kind = "SplitPane"       -> SplitPane(snapshot, r.ws, r.pane, FreshPane)
      [] r.kind = "ClosePane"       -> ClosePane(snapshot, r.pane)
      [] r.kind = "FocusPane"       -> FocusPane(snapshot, r.pane)
      [] r.kind = "UpdateLayout"    -> UpdateLayout(snapshot, r.ws, r.leaves)
      [] r.kind = "Resize"          -> Resize(snapshot, r.pane, r.size)

Spawns(r) == r.kind \in {"CreateWorkspace", "CreatePane", "SplitPane"}

\* Bound: the identifiers there are.
IdsLeft == usedPanes # PaneIds /\ usedWs # WorkspaceIds

ClientFree == holder # "client" /\ copies["client"] = None

\* client_loop: handle a request and apply its action; the shell of a new pane
\* runs, and may write, before the snapshot that tells of it is published.
Serve ==
    LET r == Head(outbox)
    IN  /\ outbox # <<>> /\ r.kind # "Attach"
        /\ holder = "none" /\ ClientFree
        /\ Spawns(r) => IdsLeft
        /\ outbox' = Tail(outbox)
        /\ IF ~Accepts(r)
           THEN /\ IF r.kind = "Resize" THEN UNCHANGED queue ELSE Emit(Error)
                /\ UNCHANGED <<snapshot, usedPanes, usedWs, holder, buffers>>
           ELSE /\ IF Spawns(r)
                   THEN /\ snapshot' = SetPaneStatus(After(r), FreshPane, "Running")
                        /\ usedPanes' = usedPanes \cup {FreshPane}
                        /\ Emit(PaneStatus(FreshPane, "Running"))
                   ELSE /\ snapshot' = After(r)
                        /\ UNCHANGED <<usedPanes, queue>>
                /\ usedWs' = usedWs \cup DOMAIN snapshot'.ws
                /\ holder' = "client"
                /\ RemoveBuffers
        /\ UNCHANGED <<copies, exiting, output, attached, published, skipped, uiVars, left>>

\* Attach copies the snapshot before it locks the output ...
AttachCopies ==
    /\ outbox # <<>> /\ Head(outbox).kind = "Attach"
    /\ ClientFree
    /\ copies' = [copies EXCEPT !["client"] = snapshot]
    /\ UNCHANGED <<snapshot, usedPanes, usedWs, holder, exiting, output, buffers,
                   attached, queue, published, skipped, outbox, uiVars, left>>

\* ... and then queues the snapshot and every buffer, and subscribes.
AttachActivates ==
    LET full   == SetToSeq({p \in PaneIds : buffers[p] # <<>>})
        replay == [i \in DOMAIN full |-> TerminalOutput(full[i], buffers[full[i]])]
    IN  /\ copies["client"] # None /\ holder # "client"
        /\ Len(replay) < Capacity
        /\ queue' = <<[kind |-> "Attached", snap |-> copies["client"]]>> \o replay
        /\ published' = copies["client"]
        /\ copies' = [copies EXCEPT !["client"] = None]
        /\ attached' = TRUE
        /\ outbox' = Tail(outbox)
        /\ UNCHANGED <<skipped, snapshot, usedPanes, usedWs, holder, exiting, output, buffers,
                       uiVars, left>>

----
(* The application: events *)

ViewOf(s) ==
    [order |-> s.order,
     ws    |-> [w \in DOMAIN s.ws |->
                   [layout |-> s.ws[w].layout, active |-> s.ws[w].active]],
     index |-> IF s.activeWs \in ToSet(s.order)
               THEN IndexOf(s.order, s.activeWs) - 1 ELSE 0]

NewTerminal(pane) ==
    [status |-> pane.status, size |-> pane.size, closing |-> "no", text |-> <<>>]

\* Mutant: the terminals of closed panes are kept.
ApplySnapshotKeepTerminals(s) ==
    /\ view' = ViewOf(s)
    /\ terms' = [p \in DOMAIN terms \cup Leaves(s) |->
                    IF p \in DOMAIN terms THEN terms[p] ELSE NewTerminal(s.panes[p])]

\* Mutant: every terminal is built anew.
ApplySnapshotAnew(s) ==
    /\ view' = ViewOf(s)
    /\ terms' = [p \in Leaves(s) \cap DOMAIN s.panes |-> NewTerminal(s.panes[p])]

\* apply_snapshot: a pane that is still there keeps its terminal, with its
\* contents, its size and the progress of its closing.
ApplySnapshot(s) ==
    /\ view' = ViewOf(s)
    /\ terms' = [p \in Leaves(s) \cap DOMAIN s.panes |->
                    IF p \in DOMAIN terms THEN [terms[p] EXCEPT !.status = s.panes[p].status]
                    ELSE NewTerminal(s.panes[p])]

Send(request) == outbox' = Append(outbox, request)

RequestWorkspace ==
    \E name \in Names, root \in Dirs : Send([kind |-> "CreateWorkspace", name |-> name, root |-> root])

\* drain_daemon_events
Receive(kinds) ==
    /\ queue # <<>> /\ Head(queue).kind \in kinds
    /\ queue' = Tail(queue)
    /\ UNCHANGED <<daemonVars, published, skipped, grid, left>>

ReceiveSnapshot ==
    /\ Receive({"Attached", "Updated"})
    /\ ApplySnapshot(Head(queue).snap)
    /\ IF Head(queue).kind = "Attached" /\ Head(queue).snap.order = <<>>
       THEN RequestWorkspace ELSE UNCHANGED outbox

\* Output and status of a pane that is not in view are dropped.
ReceiveForPane ==
    /\ Receive({"Output", "Status"})
    /\ LET e == Head(queue)
       IN  terms' = [p \in DOMAIN terms |->
                        IF p # e.pane THEN terms[p]
                        ELSE IF e.kind = "Output" THEN [terms[p] EXCEPT !.text = @ \o e.data]
                        ELSE [terms[p] EXCEPT !.status = e.status]]
    /\ UNCHANGED <<view, outbox>>

ReceiveError == Receive({"Error"}) /\ UNCHANGED <<view, terms, outbox>>

----
(* The application: the user *)

Acts ==
    /\ Uses("actions")
    /\ UNCHANGED <<daemonVars, queue, published, skipped>>

HasWorkspace == view.index < Len(view.order)
ActiveWs == view.order[view.index + 1]
ActiveLayout == view.ws[ActiveWs].layout
ActivePane == view.ws[ActiveWs].active

UserCreatesWorkspace ==
    /\ Acts
    /\ RequestWorkspace
    /\ UNCHANGED uiVars

UserClosesWorkspace ==
    /\ Acts
    /\ \E w \in ToSet(view.order) : Send([kind |-> "CloseWorkspace", ws |-> w])
    /\ UNCHANGED uiVars

\* split_active, and a click in an empty workspace.
UserOpensPane ==
    /\ Acts
    /\ HasWorkspace
    /\ Len(ActiveLayout) < MaxTerminals
    /\ IF ActivePane = None THEN Send([kind |-> "CreatePane", ws |-> ActiveWs])
       ELSE Send([kind |-> "SplitPane", ws |-> ActiveWs, pane |-> ActivePane])
    /\ UNCHANGED uiVars

\* close_active_pane starts an animation; the request follows it.
UserClosesPane ==
    /\ Acts
    /\ HasWorkspace
    /\ ActivePane \in DOMAIN terms
    /\ terms[ActivePane].closing = "no"
    /\ terms' = [terms EXCEPT ![ActivePane].closing = "started"]
    /\ UNCHANGED <<outbox, view, grid>>

\* Mutant: the animation ends and nobody asks the daemon.
FinishCloseSilently(p) ==
    /\ p \in DOMAIN terms /\ terms[p].closing = "started"
    /\ terms' = [terms EXCEPT ![p].closing = "sent"]
    /\ UNCHANGED <<daemonVars, queue, published, skipped, outbox, view, grid, left>>

\* finish_pane_closes, once the animation is over.
FinishClose(p) ==
    /\ p \in DOMAIN terms /\ terms[p].closing = "started"
    /\ terms' = [terms EXCEPT ![p].closing = "sent"]
    /\ Send([kind |-> "ClosePane", pane |-> p])
    /\ UNCHANGED <<daemonVars, queue, published, skipped, view, grid, left>>

Focus(p) ==
    /\ view' = [view EXCEPT !.ws[ActiveWs].active = p]
    /\ Send([kind |-> "FocusPane", pane |-> p])

\* A click on a pane that is not being closed.
UserClicksPane ==
    /\ Acts
    /\ HasWorkspace
    /\ \E p \in ToSet(ActiveLayout) \cap DOMAIN terms :
          terms[p].closing = "no" /\ Focus(p)
    /\ UNCHANGED <<terms, grid>>

\* move_pane_focus and focus_terminal_direction: the next leaf, the previous,
\* or one that lies beside (find_adjacent, module LayoutTree).
UserMovesFocus ==
    /\ Acts
    /\ HasWorkspace
    /\ ActivePane \in ToSet(ActiveLayout)
    /\ \E p \in ToSet(ActiveLayout) :
          /\ p # ActivePane \/ Len(ActiveLayout) = 1
          /\ Focus(p)
    /\ UNCHANGED <<terms, grid>>

\* Mutant: Ctrl+PageDown shows the next workspace and tells nobody.
FocusWorkspaceUnsent(i) ==
    /\ view' = [view EXCEPT !.index = i]
    /\ UNCHANGED outbox

FocusWorkspaceAt(i) ==
    /\ view' = [view EXCEPT !.index = i]
    /\ Send([kind |-> "FocusWorkspace", ws |-> view.order[i + 1]])

\* handle_workspace_action: a click on a tile of the sidebar.
UserPicksWorkspace ==
    /\ Acts
    /\ \E i \in 0..Len(view.order) - 1 : FocusWorkspaceAt(i)
    /\ UNCHANGED <<terms, grid>>

RelativeIndex(forward) ==
    IF forward THEN (view.index + 1) % Len(view.order)
    ELSE IF view.index = 0 THEN Len(view.order) - 1 ELSE view.index - 1

\* focus_relative_workspace
UserTurnsWorkspace ==
    /\ Acts
    /\ view.order # <<>>
    /\ \E forward \in BOOLEAN : FocusWorkspaceAt(RelativeIndex(forward))
    /\ UNCHANGED <<terms, grid>>

\* A divider of the layout in view is dragged; the whole tree is sent.
UserDragsDivider ==
    /\ Acts
    /\ HasWorkspace
    /\ Len(ActiveLayout) > 1
    /\ Send([kind |-> "UpdateLayout", ws |-> ActiveWs, leaves |-> ActiveLayout])
    /\ UNCHANGED uiVars

UserSizesWindow ==
    /\ Acts
    /\ grid' \in Sizes \ {grid}
    /\ UNCHANGED <<outbox, view, terms>>

\* TerminalPane::resize, in every frame that draws the pane.
Misfit(p) ==
    /\ HasWorkspace
    /\ p \in ToSet(ActiveLayout) \cap DOMAIN terms
    /\ terms[p].size # grid

Fit(p) ==
    /\ Misfit(p)
    /\ terms' = [terms EXCEPT ![p].size = grid]
    /\ Send([kind |-> "Resize", pane |-> p, size |-> grid])
    /\ UNCHANGED <<daemonVars, queue, published, skipped, view, grid, left>>

UserActs ==
    \/ UserCreatesWorkspace \/ UserClosesWorkspace
    \/ UserOpensPane \/ UserClosesPane
    \/ UserClicksPane \/ UserMovesFocus
    \/ UserPicksWorkspace \/ UserTurnsWorkspace
    \/ UserDragsDivider \/ UserSizesWindow

----
Publishing(t) == CopyToPublish(t) \/ Publish(t)

Attach == AttachCopies \/ AttachActivates

Frame == ReceiveSnapshot \/ ReceiveForPane \/ ReceiveError

Next ==
    \/ \E t \in Publishers : Publishing(t)
    \/ ObserveLabel
    \/ \E p \in PaneIds : Output(p) \/ Exit(p) \/ CloseExited(p)
    \/ Serve \/ Attach
    \/ Frame
    \/ \E p \in PaneIds : FinishClose(p) \/ Fit(p)
    \/ UserActs

Spec == Init /\ [][Next]_vars

----
(* Properties *)

\* What the application shows can always be drawn and acted on, optimistic
\* focus included: the active workspace is in the list, each focus is a leaf
\* of its layout, and every leaf has its terminal.
ViewWellFormed ==
    /\ TypeOK
    /\ IF view.order = <<>> THEN view.index = 0 ELSE HasWorkspace
    /\ ToSet(view.order) = DOMAIN view.ws
    /\ DOMAIN terms = Leaves(view)
    /\ \A w \in DOMAIN view.ws :
          IF view.ws[w].layout = <<>> THEN view.ws[w].active = None
          ELSE view.ws[w].active \in ToSet(view.ws[w].layout)

\* Nothing is on its way between the daemon and the application.
Quiet ==
    /\ outbox = <<>> /\ queue = <<>>
    /\ holder = "none" /\ exiting = {}
    /\ \A t \in Publishers : copies[t] = None
    /\ \A p \in DOMAIN terms : terms[p].closing # "started" /\ ~Misfit(p)

\* The last snapshot sent found room, and is still what the daemon has.
Current == published # None /\ published = snapshot

ViewSettles ==
    /\ view = ViewOf(snapshot)
    /\ \A p \in DOMAIN terms : terms[p].status = snapshot.panes[p].status

SizesSettle == \A p \in DOMAIN terms : terms[p].size = snapshot.panes[p].size

ClosesSettle == \A p \in DOMAIN terms : terms[p].closing = "no"

\* docs/features.md section 2.2: changes are published to the application.
\* When the last snapshot sent found room, and is still what the daemon has,
\* the application comes to rest in that: the focus it moved ahead of the
\* answer, and requests that were refused, leave no trace; the daemon has every
\* terminal at the size it is drawn in, unless an overtaken snapshot left out a
\* pane, whose terminal was then built again; and no pane stays on the screen
\* in the middle of closing, where nobody would ask for it a second time.
ComesToRest ==
    Quiet /\ Current =>
        ViewSettles /\ ClosesSettle /\ (skipped \/ SizesSettle)

\* docs/architecture.md: losing a chunk would desynchronize the parser.  While
\* a terminal is in view it keeps what it was fed, and is fed without a gap or
\* a repetition, whatever snapshots come between the chunks.
TerminalsContinue ==
    [][\A p \in DOMAIN terms \cap DOMAIN terms' :
          LET text == terms'[p].text
          IN  /\ IsPrefix(terms[p].text, text)
              /\ \A i \in 2..Len(text) : text[i] = text[i - 1] + 1]_vars

\* docs/architecture.md: PTY output delivery is lossless, chunks are never
\* discarded between the daemon and the application.
OutputLossless ==
    Quiet /\ Current =>
        \A p \in DOMAIN terms : terms[p].text = [i \in 1..output[p] |-> i]
====
