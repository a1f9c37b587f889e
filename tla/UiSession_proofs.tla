---- MODULE UiSession_proofs ----
(***************************************************************************)
(* What the application shows can always be drawn and acted on, however    *)
(* snapshots, events, requests and what the user does are interleaved:     *)
(* every snapshot under way is well formed (AppSnapshot_proofs), every     *)
(* request can be handled, and the view is what a well-formed snapshot     *)
(* becomes, with the focus somewhere else inside it (IInv).                *)
(*                                                                         *)
(* A terminal is fed without a gap while it is in view: what it has and    *)
(* what is queued for it are one run of chunks (Streams).                  *)
(*                                                                         *)
(* And the application comes to rest in the snapshot sent last: what it    *)
(* changed ahead of the daemon has been asked for until it is answered     *)
(* (Settles).                                                              *)
(***************************************************************************)
EXTENDS UiSession, AppSnapshot_proofs

----
(* The invariant *)

Events == {"Attached", "Updated", "Output", "Status", "Error"}

EventOK(e) ==
    /\ e.kind \in {"Attached", "Updated"} => WellFormed(e.snap)
    /\ e.kind = "Status" => e.status \in Statuses

Requests == {"Attach", "CreateWorkspace", "CloseWorkspace", "FocusWorkspace", "CreatePane",
             "SplitPane", "ClosePane", "FocusPane", "UpdateLayout", "Resize"}

RequestOK(r) ==
    /\ r.kind \in Requests
    /\ r.kind = "CreateWorkspace" => r.name \in Names /\ r.root \in Dirs
    /\ r.kind = "UpdateLayout" => r.leaves \in Seq(PaneIds)
    /\ r.kind = "Resize" => r.size \in Sizes

\* All that is queued is in order.
EventsOK(q)   == \E S : q \in Seq(S) /\ \A e \in S : EventOK(e)
RequestsOK(q) == \E S : q \in Seq(S) /\ \A r \in S : RequestOK(r)

\* The daemon's document only names identifiers it has given out.
Daemon ==
    /\ WellFormed(snapshot)
    /\ DOMAIN snapshot.panes \subseteq usedPanes /\ usedPanes \subseteq PaneIds
    /\ DOMAIN snapshot.ws \subseteq usedWs /\ usedWs \subseteq WorkspaceIds
    /\ holder \in {"none", "client", "closer"} /\ attached \in BOOLEAN
    /\ exiting \subseteq PaneIds

\* So do the copies threads have made of it.
Copies ==
    /\ copies = [t \in Publishers |-> copies[t]]
    /\ \A t \in Publishers : copies[t] = None \/ WellFormed(copies[t])
    /\ published = None \/ WellFormed(published)

\* Attach is the first request, and there is only one: until it is done the
\* application has been sent nothing, and a thread that has copied the snapshot
\* for it still has the request.
Attaching ==
    /\ copies["client"] # None /\ holder # "client" => outbox # <<>> /\ ~attached
    /\ \A i \in 1..Len(outbox) : outbox[i].kind = "Attach" => i = 1 /\ ~attached
    /\ ~attached => queue = <<>> /\ DOMAIN terms = {}

Lines == Len(queue) <= Capacity /\ EventsOK(queue) /\ RequestsOK(outbox)

\* A list of workspaces with layouts, one of them shown, and a focus in each.
Shown(v) ==
    /\ v = [order |-> v.order, ws |-> v.ws, index |-> v.index]
    /\ v.order \in Seq(WorkspaceIds) /\ ToSet(v.order) = DOMAIN v.ws
    /\ v.index \in Nat /\ IF v.order = <<>> THEN v.index = 0 ELSE v.index < Len(v.order)
    /\ v.ws = [w \in DOMAIN v.ws |-> v.ws[w]]
    /\ \A w \in DOMAIN v.ws :
          /\ v.ws[w] = [layout |-> v.ws[w].layout, active |-> v.ws[w].active]
          /\ v.ws[w].layout \in Seq(PaneIds)
          /\ IF v.ws[w].layout = <<>> THEN v.ws[w].active = None
             ELSE v.ws[w].active \in ToSet(v.ws[w].layout)

TerminalOK(t) ==
    /\ t = [status |-> t.status, size |-> t.size, closing |-> t.closing, text |-> t.text]
    /\ t.status \in Statuses /\ t.closing \in Closing

Window ==
    /\ Shown(view) /\ grid \in Sizes
    /\ DOMAIN terms = Leaves(view) /\ \A p \in DOMAIN terms : TerminalOK(terms[p])

IInv == Daemon /\ Copies /\ Attaching /\ Lines /\ Window

LEMMA Constants ==
    /\ Capacity \in Nat \ {0} /\ PaneIds # {} /\ IsFiniteSet(PaneIds) /\ WorkspaceIds # {}
    /\ DefaultSize \in Sizes /\ None \notin PaneIds \cup WorkspaceIds
  BY UiAssumption, SnapshotAssumption

----
(* Queues *)

LEMMA EventsAppend ==
    ASSUME NEW q, EventsOK(q), NEW e, EventOK(e)
    PROVE  EventsOK(Append(q, e)) /\ Len(Append(q, e)) = Len(q) + 1
<1>1. PICK S : q \in Seq(S) /\ \A d \in S : EventOK(d)
  BY DEF EventsOK
<1>2. q \in Seq(S \cup {e}) /\ Append(q, e) \in Seq(S \cup {e}) /\ Len(Append(q, e)) = Len(q) + 1
  BY <1>1
<1> QED BY <1>1, <1>2 DEF EventsOK

LEMMA EventsTail ==
    ASSUME NEW q, EventsOK(q), q # <<>>
    PROVE  EventOK(Head(q)) /\ EventsOK(Tail(q)) /\ Len(Tail(q)) <= Len(q)
<1>1. PICK S : q \in Seq(S) /\ \A d \in S : EventOK(d)
  BY DEF EventsOK
<1>2. Head(q) \in S /\ Tail(q) \in Seq(S) /\ Len(Tail(q)) = Len(q) - 1 /\ Len(q) \in Nat
  BY <1>1, HeadTailProperties
<1> QED BY <1>1, <1>2 DEF EventsOK

LEMMA RequestsAppend ==
    ASSUME NEW q, RequestsOK(q), NEW r, RequestOK(r)
    PROVE  /\ RequestsOK(Append(q, r)) /\ Append(q, r) # <<>>
           /\ \A i \in 1..Len(Append(q, r)) :
                 Append(q, r)[i] = r \/ (i \in 1..Len(q) /\ Append(q, r)[i] = q[i])
<1>1. PICK S : q \in Seq(S) /\ \A d \in S : RequestOK(d)
  BY DEF RequestsOK
<1>2. Append(q, r) \in Seq(S \cup {r}) /\ Append(q, r) # <<>>
  BY <1>1
<1>3. \A i \in 1..Len(Append(q, r)) :
         Append(q, r)[i] = r \/ (i \in 1..Len(q) /\ Append(q, r)[i] = q[i])
  BY <1>1
<1> QED BY <1>1, <1>2, <1>3 DEF RequestsOK

LEMMA RequestsTail ==
    ASSUME NEW q, RequestsOK(q), q # <<>>
    PROVE  /\ RequestOK(Head(q)) /\ RequestsOK(Tail(q)) /\ Head(q) = q[1] /\ 1 \in 1..Len(q)
           /\ \A i \in 1..Len(Tail(q)) :
                 \E j \in 1..Len(q) : j # 1 /\ Tail(q)[i] = q[j]
<1>1. PICK S : q \in Seq(S) /\ \A d \in S : RequestOK(d)
  BY DEF RequestsOK
<1>2. /\ Head(q) \in S /\ Tail(q) \in Seq(S) /\ Head(q) = q[1] /\ Len(Tail(q)) = Len(q) - 1
      /\ Len(q) \in Nat \ {0} /\ \A i \in 1..Len(Tail(q)) : Tail(q)[i] = q[i + 1]
  BY <1>1, HeadTailProperties, EmptySeq
<1>3. \A i \in 1..Len(Tail(q)) : \E j \in 1..Len(q) : j # 1 /\ Tail(q)[i] = q[j]
  <2>1. ASSUME NEW i \in 1..Len(Tail(q)) PROVE i + 1 \in 1..Len(q) /\ i + 1 # 1
    BY <1>2
  <2> QED BY <1>2, <2>1
<1> QED BY <1>1, <1>2, <1>3 DEF RequestsOK

\* What OutputHub::emit does to the queue.
LEMMA EmitOK ==
    ASSUME Lines, NEW e, EventOK(e), Emit(e) PROVE Len(queue') <= Capacity /\ EventsOK(queue')
<1>1. CASE HasRoom
  <2>1. Len(queue) \in Nat
    BY DEF Lines, EventsOK
  <2> QED BY <1>1, <2>1, Constants, EventsAppend DEF Emit, HasRoom, Lines
<1>2. CASE ~HasRoom
  BY <1>2 DEF Emit, Lines
<1> QED BY <1>1, <1>2

----
(* The view of a snapshot *)

\* What the view has of a workspace.
LEMMA EntryOf ==
    ASSUME NEW layout, NEW active, NEW entry, entry = [layout |-> layout, active |-> active]
    PROVE  /\ entry.layout = layout /\ entry.active = active
           /\ entry = [layout |-> entry.layout, active |-> entry.active]
  OBVIOUS

LEMMA ViewIsShown ==
    ASSUME NEW s, WellFormed(s)
    PROVE  Shown(ViewOf(s)) /\ Leaves(ViewOf(s)) = Leaves(s) /\ Leaves(s) = DOMAIN s.panes
<1> DEFINE v == ViewOf(s)
<1>1. /\ s.order \in Seq(WorkspaceIds) /\ ToSet(s.order) = DOMAIN s.ws
      /\ s.ws \in [DOMAIN s.ws -> Workspace]
  BY DEF WellFormed, IsSnapshot, WorkspacesListed
<1>2. \A w \in DOMAIN s.ws :
         /\ s.ws[w].layout \in Seq(PaneIds)
         /\ ToSet(s.ws[w].layout) = PanesOf(s, w)
         /\ IF s.ws[w].layout = <<>> THEN s.ws[w].active = None
            ELSE s.ws[w].active \in ToSet(s.ws[w].layout)
  BY <1>1 DEF WellFormed, LayoutsMatchPanes, FocusInside, Workspace
<1>3. /\ v.order = s.order /\ DOMAIN v.ws = DOMAIN s.ws
      /\ v.index = IF s.activeWs \in ToSet(s.order) THEN IndexOf(s.order, s.activeWs) - 1 ELSE 0
      /\ v = [order |-> v.order, ws |-> v.ws, index |-> v.index]
      /\ v.ws = [w \in DOMAIN v.ws |-> v.ws[w]]
  BY DEF ViewOf
<1>4. \A w \in DOMAIN s.ws : v.ws[w] = [layout |-> s.ws[w].layout, active |-> s.ws[w].active]
  BY DEF ViewOf
<1>5. DOMAIN v.ws = DOMAIN s.ws
  BY <1>3
<1>6. v.index \in Nat /\ IF v.order = <<>> THEN v.index = 0 ELSE v.index < Len(v.order)
  <2>1. CASE s.activeWs \in ToSet(s.order)
    <3>1. \E i \in 1..Len(s.order) : s.order[i] = s.activeWs
      BY <1>1, <2>1 DEF ToSet
    <3>2. IndexOf(s.order, s.activeWs) \in 1..Len(s.order)
      BY <3>1 DEF IndexOf
    <3>3. PICK i \in 1..Len(s.order) : i = IndexOf(s.order, s.activeWs)
      BY <3>2
    <3>4. v.index = i - 1 /\ Len(s.order) \in Nat /\ s.order # <<>>
      BY <1>1, <1>3, <2>1, <3>3
    <3> QED BY <1>3, <3>4
  <2>2. CASE s.activeWs \notin ToSet(s.order)
    <3>1. s.order # <<>> => Len(s.order) > 0
      BY <1>1, EmptySeq
    <3> QED BY <1>1, <1>3, <2>2, <3>1
  <2> QED BY <2>1, <2>2
<1> HIDE DEF v
<1>7. Shown(v)
  <2>1. ASSUME NEW w \in DOMAIN v.ws
        PROVE  /\ v.ws[w] = [layout |-> v.ws[w].layout, active |-> v.ws[w].active]
               /\ v.ws[w].layout = s.ws[w].layout /\ v.ws[w].active = s.ws[w].active
    <3>1. v.ws[w] = [layout |-> s.ws[w].layout, active |-> s.ws[w].active]
      BY <1>4, <1>5
    <3> QED BY <3>1, EntryOf
  <2>2. \A w \in DOMAIN v.ws :
          /\ v.ws[w] = [layout |-> v.ws[w].layout, active |-> v.ws[w].active]
          /\ v.ws[w].layout \in Seq(PaneIds)
          /\ IF v.ws[w].layout = <<>> THEN v.ws[w].active = None
             ELSE v.ws[w].active \in ToSet(v.ws[w].layout)
    BY <1>2, <1>3, <2>1
  <2>3. v.order \in Seq(WorkspaceIds) /\ ToSet(v.order) = DOMAIN v.ws
    BY <1>1, <1>3
  <2> QED BY <1>3, <1>6, <2>2, <2>3 DEF Shown
<1>8. Leaves(v) = Leaves(s)
  <2>1. ASSUME NEW w \in DOMAIN s.ws PROVE v.ws[w].layout = s.ws[w].layout
    <3>1. v.ws[w] = [layout |-> s.ws[w].layout, active |-> s.ws[w].active]
      BY <1>4
    <3> QED BY <3>1, EntryOf
  <2>2. {ToSet(v.ws[w].layout) : w \in DOMAIN v.ws} = {ToSet(s.ws[w].layout) : w \in DOMAIN s.ws}
    BY <1>3, <2>1
  <2> QED BY <2>2 DEF Leaves
<1>9. Leaves(s) = DOMAIN s.panes
  <2>1. \A p \in DOMAIN s.panes : s.panes[p].ws \in DOMAIN s.ws
    BY DEF WellFormed, LayoutsMatchPanes
  <2> QED BY <1>2, <2>1 DEF Leaves, PanesOf
<1> QED BY <1>7, <1>8, <1>9 DEF v

----
(* The daemon's steps *)

LEMMA FreshIds ==
    ASSUME Daemon, IdsLeft
    PROVE  /\ FreshPane \in PaneIds \ usedPanes /\ FreshPane \in PaneIds \ DOMAIN snapshot.panes
           /\ FreshWs \in WorkspaceIds \ usedWs /\ FreshWs \in WorkspaceIds \ DOMAIN snapshot.ws
<1>1. (\E p \in PaneIds : p \notin usedPanes) /\ (\E w \in WorkspaceIds : w \notin usedWs)
  BY DEF Daemon, IdsLeft
<1>2. FreshPane \in PaneIds \ usedPanes /\ FreshWs \in WorkspaceIds \ usedWs
  BY <1>1 DEF FreshPane, FreshWs
<1> QED BY <1>2 DEF Daemon

\* A request that is accepted leaves a well-formed snapshot, with the new pane
\* if it has one and no other that was not there.
LEMMA AcceptedWF ==
    ASSUME Daemon, NEW r, RequestOK(r), r.kind # "Attach", Spawns(r) => IdsLeft, Accepts(r)
    PROVE  /\ WellFormed(After(r))
           /\ IF Spawns(r)
              THEN /\ FreshPane \in DOMAIN After(r).panes
                   /\ DOMAIN After(r).panes \subseteq DOMAIN snapshot.panes \cup {FreshPane}
              ELSE DOMAIN After(r).panes \subseteq DOMAIN snapshot.panes
<1>1. WellFormed(snapshot)
  BY DEF Daemon
<1>2. CASE r.kind = "CreateWorkspace"
  <2>1. After(r) = CreateWorkspace(snapshot, FreshWs, FreshPane, r.name, r.root)
    BY <1>2 DEF After
  <2>2. WellFormed(After(r))
    BY <1>1, <1>2, <2>1, FreshIds, CreateWorkspaceWF DEF RequestOK, Spawns
  <2>3. DOMAIN After(r).panes = DOMAIN snapshot.panes \cup {FreshPane}
    BY <2>1 DEF CreateWorkspace, WithPane
  <2> QED BY <1>2, <2>2, <2>3 DEF Spawns
<1>3. CASE r.kind = "CloseWorkspace"
  <2>1. After(r) = CloseWorkspace(snapshot, r.ws) /\ CanCloseWorkspace(snapshot, r.ws)
    BY <1>3 DEF After, Accepts
  <2>2. WellFormed(After(r))
    BY <1>1, <2>1, CloseWorkspaceWF
  <2>3. DOMAIN After(r).panes \subseteq DOMAIN snapshot.panes
    BY <2>1 DEF CloseWorkspace
  <2> QED BY <1>3, <2>2, <2>3 DEF Spawns
<1>4. CASE r.kind = "FocusWorkspace"
  <2>1. After(r) = FocusWorkspace(snapshot, r.ws) /\ CanFocusWorkspace(snapshot, r.ws)
    BY <1>4 DEF After, Accepts
  <2>2. WellFormed(After(r))
    BY <1>1, <2>1, FocusWorkspaceWF
  <2>3. DOMAIN After(r).panes \subseteq DOMAIN snapshot.panes
    BY <2>1 DEF FocusWorkspace, Update
  <2> QED BY <1>4, <2>2, <2>3 DEF Spawns
<1>5. CASE r.kind = "CreatePane"
  <2>1. After(r) = CreatePane(snapshot, r.ws, FreshPane) /\ CanCreatePane(snapshot, r.ws)
    BY <1>5 DEF After, Accepts
  <2>2. WellFormed(After(r))
    BY <1>1, <1>5, <2>1, FreshIds, CreatePaneWF DEF Spawns
  <2>3. DOMAIN After(r).panes = DOMAIN snapshot.panes \cup {FreshPane}
    BY <2>1 DEF CreatePane, Update, WithPane
  <2> QED BY <1>5, <2>2, <2>3 DEF Spawns
<1>6. CASE r.kind = "SplitPane"
  <2>1. After(r) = SplitPane(snapshot, r.ws, r.pane, FreshPane) /\ CanSplitPane(snapshot, r.ws, r.pane)
    BY <1>6 DEF After, Accepts
  <2>2. WellFormed(After(r))
    BY <1>1, <1>6, <2>1, FreshIds, SplitPaneWF DEF Spawns
  <2>3. DOMAIN After(r).panes = DOMAIN snapshot.panes \cup {FreshPane}
    BY <2>1 DEF SplitPane, Update, WithPane
  <2> QED BY <1>6, <2>2, <2>3 DEF Spawns
<1>7. CASE r.kind = "ClosePane"
  <2>1. After(r) = ClosePane(snapshot, r.pane) /\ CanClosePane(snapshot, r.pane)
    BY <1>7 DEF After, Accepts
  <2>2. WellFormed(After(r))
    BY <1>1, <2>1, ClosePaneWF
  <2>3. DOMAIN After(r).panes \subseteq DOMAIN snapshot.panes
    <3>1. DOMAIN ClosePane(snapshot, r.pane).panes = DOMAIN snapshot.panes \ {r.pane}
      BY ClosePaneRemoves
    <3> QED BY ONLY <2>1, <3>1
  <2> QED BY <1>7, <2>2, <2>3 DEF Spawns
<1>8. CASE r.kind = "FocusPane"
  <2>1. After(r) = FocusPane(snapshot, r.pane) /\ CanFocusPane(snapshot, r.pane)
    BY <1>8 DEF After, Accepts
  <2>2. WellFormed(After(r))
    BY <1>1, <2>1, FocusPaneWF
  <2>3. DOMAIN After(r).panes \subseteq DOMAIN snapshot.panes
    BY <2>1 DEF FocusPane, Update
  <2> QED BY <1>8, <2>2, <2>3 DEF Spawns
<1>9. CASE r.kind = "UpdateLayout"
  <2>1. /\ After(r) = UpdateLayout(snapshot, r.ws, r.leaves)
        /\ CanUpdateLayout(snapshot, r.ws, r.leaves) /\ r.leaves \in Seq(PaneIds)
    BY <1>9 DEF After, Accepts, RequestOK
  <2>2. WellFormed(After(r))
    BY <1>1, <2>1, UpdateLayoutWF
  <2>3. DOMAIN After(r).panes \subseteq DOMAIN snapshot.panes
    BY <2>1 DEF UpdateLayout, Update
  <2> QED BY <1>9, <2>2, <2>3 DEF Spawns
<1>10. CASE r.kind = "Resize"
  <2>1. /\ After(r) = Resize(snapshot, r.pane, r.size)
        /\ r.pane \in DOMAIN snapshot.panes /\ r.size \in Sizes
    BY <1>10 DEF After, Accepts, RequestOK, CanResize
  <2>2. WellFormed(After(r))
    BY <1>1, <2>1, SetPaneFieldsWF
  <2>3. DOMAIN After(r).panes \subseteq DOMAIN snapshot.panes
    BY <2>1 DEF Resize, Update
  <2> QED BY <1>10, <2>2, <2>3 DEF Spawns
<1> QED BY <1>2, <1>3, <1>4, <1>5, <1>6, <1>7, <1>8, <1>9, <1>10 DEF RequestOK, Requests

LEMMA StatusWF ==
    ASSUME NEW s, WellFormed(s), NEW p \in DOMAIN s.panes, NEW status \in Statuses
    PROVE  WellFormed(SetPaneStatus(s, p, status)) /\ DOMAIN SetPaneStatus(s, p, status).panes = DOMAIN s.panes
  BY SetPaneFieldsWF DEF SetPaneStatus, Update

LEMMA ServeOK == ASSUME Daemon, Lines, Serve PROVE Daemon' /\ Lines'
<1> DEFINE r == Head(outbox)
<1>1. RequestOK(r) /\ RequestsOK(outbox') /\ r.kind # "Attach" /\ (Spawns(r) => IdsLeft)
  BY RequestsTail DEF Serve, Lines
<1>2. exiting' = exiting /\ attached' = attached
  BY DEF Serve
<1>3. CASE ~Accepts(r)
  <2>1. UNCHANGED queue \/ Emit(Error)
    BY <1>3 DEF Serve
  <2>2. EventOK(Error)
    BY DEF EventOK, Error
  <2>3. Len(queue') <= Capacity /\ EventsOK(queue')
    BY <2>1, <2>2, EmitOK DEF Lines
  <2>4. UNCHANGED <<snapshot, usedPanes, usedWs, holder>>
    BY <1>3 DEF Serve
  <2> QED BY <1>1, <1>2, <2>3, <2>4 DEF Daemon, Lines
<1>4. CASE Accepts(r)
  <2>1. /\ WellFormed(After(r))
        /\ IF Spawns(r)
           THEN /\ FreshPane \in DOMAIN After(r).panes
                /\ DOMAIN After(r).panes \subseteq DOMAIN snapshot.panes \cup {FreshPane}
           ELSE DOMAIN After(r).panes \subseteq DOMAIN snapshot.panes
    BY <1>1, <1>4, AcceptedWF
  <2>2. /\ WellFormed(snapshot') /\ DOMAIN snapshot'.panes \subseteq usedPanes' /\ usedPanes' \subseteq PaneIds
        /\ Len(queue') <= Capacity /\ EventsOK(queue')
    <3>1. CASE Spawns(r)
      <4>1. /\ snapshot' = SetPaneStatus(After(r), FreshPane, "Running")
            /\ usedPanes' = usedPanes \cup {FreshPane}
            /\ Emit(PaneStatus(FreshPane, "Running"))
        BY <1>4, <3>1 DEF Serve
      <4>2. WellFormed(snapshot') /\ DOMAIN snapshot'.panes = DOMAIN After(r).panes
        BY <2>1, <3>1, <4>1, StatusWF DEF Statuses
      <4>3. FreshPane \in PaneIds
        BY <1>1, <3>1, FreshIds
      <4>4. EventOK(PaneStatus(FreshPane, "Running"))
        BY DEF EventOK, PaneStatus, Statuses
      <4>5. Len(queue') <= Capacity /\ EventsOK(queue')
        BY <4>1, <4>4, EmitOK
      <4> QED BY <2>1, <3>1, <4>1, <4>2, <4>3, <4>5 DEF Daemon
    <3>2. CASE ~Spawns(r)
      BY <1>4, <2>1, <3>2 DEF Serve, Daemon, Lines
    <3> QED BY <3>1, <3>2
  <2>3. usedWs' = usedWs \cup DOMAIN snapshot'.ws /\ holder' = "client"
    BY <1>4 DEF Serve
  <2>4. DOMAIN snapshot'.ws \subseteq WorkspaceIds
    BY <2>2 DEF WellFormed, IsSnapshot
  <2> QED BY <1>1, <1>2, <2>2, <2>3, <2>4 DEF Daemon, Lines
<1> QED BY <1>3, <1>4

LEMMA CopyToPublishOK ==
    ASSUME Daemon, Copies, NEW t \in Publishers, CopyToPublish(t) PROVE Daemon' /\ Copies'
<1>1. copies' = [copies EXCEPT ![t] = snapshot] /\ published' = published
  BY DEF CopyToPublish
<1>2. Copies'
  BY <1>1 DEF Copies, Daemon
<1> QED BY <1>2 DEF CopyToPublish, Daemon

LEMMA PublishOK ==
    ASSUME Daemon, Copies, Lines, NEW t \in Publishers, Publish(t) PROVE Daemon' /\ Copies' /\ Lines'
<1>1. WellFormed(copies[t])
  BY DEF Publish, Copies
<1>2. EventOK(Updated(copies[t])) /\ Emit(Updated(copies[t]))
  BY <1>1 DEF EventOK, Updated, Publish
<1>3. Len(queue') <= Capacity /\ EventsOK(queue')
  BY <1>2, EmitOK
<1>4. Lines'
  BY <1>3 DEF Publish, Lines
<1>5. Copies'
  BY <1>1 DEF Publish, Copies
<1>6. Daemon'
  BY DEF Publish, Daemon
<1> QED BY <1>4, <1>5, <1>6

LEMMA ObserveLabelOK ==
    ASSUME Daemon, Copies, ObserveLabel PROVE Daemon' /\ Copies'
<1>1. PICK p \in DOMAIN snapshot.panes, label \in Labels :
         /\ snapshot' = SetPaneProcessLabel(snapshot, p, label)
         /\ copies' = [copies EXCEPT !["monitor"] = snapshot']
  BY DEF ObserveLabel
<1>2. WellFormed(snapshot') /\ DOMAIN snapshot'.panes = DOMAIN snapshot.panes /\ snapshot'.ws = snapshot.ws
  BY <1>1, SetPaneFieldsWF DEF Daemon, SetPaneProcessLabel, Update
<1>3. Daemon'
  BY <1>2 DEF Daemon, ObserveLabel
<1>4. Copies'
  BY <1>1, <1>2 DEF Copies, ObserveLabel
<1> QED BY <1>3, <1>4

LEMMA OutputOK == ASSUME Lines, NEW p \in PaneIds, Output(p) PROVE Lines'
<1>1. EventOK(TerminalOutput(p, <<output'[p]>>))
  BY DEF EventOK, TerminalOutput
<1>2. Len(queue') <= Capacity /\ EventsOK(queue')
  BY <1>1, EmitOK DEF Output
<1> QED BY <1>2 DEF Lines, Output

LEMMA ExitOK ==
    ASSUME Daemon, Lines, NEW p \in PaneIds, Exit(p) PROVE Daemon' /\ Lines'
<1>1. snapshot' = SetPaneStatus(snapshot, p, "Exited") /\ p \in DOMAIN snapshot.panes
  BY DEF Exit
<1>2. /\ WellFormed(snapshot') /\ DOMAIN snapshot'.panes = DOMAIN snapshot.panes
      /\ snapshot'.ws = snapshot.ws
  BY <1>1, StatusWF DEF Daemon, Statuses, SetPaneStatus, Update
<1>3. EventOK(PaneStatus(p, "Exited"))
  BY DEF EventOK, PaneStatus, Statuses
<1>4. Len(queue') <= Capacity /\ EventsOK(queue')
  BY <1>3, EmitOK DEF Exit
<1>5. Daemon'
  BY <1>2 DEF Daemon, Exit
<1> QED BY <1>4, <1>5 DEF Lines, Exit

LEMMA CloseExitedOK == ASSUME Daemon, NEW p \in PaneIds, CloseExited(p) PROVE Daemon'
<1>1. CASE CanClosePane(snapshot, p)
  <2>1. snapshot' = ClosePane(snapshot, p) /\ holder' = "closer"
    BY <1>1 DEF CloseExited
  <2>2. WellFormed(snapshot')
    BY <1>1, <2>1, ClosePaneWF DEF Daemon
  <2>3. DOMAIN snapshot'.panes \subseteq DOMAIN snapshot.panes /\ DOMAIN snapshot'.ws = DOMAIN snapshot.ws
    BY <2>1 DEF ClosePane, Update
  <2> QED BY <2>1, <2>2, <2>3 DEF Daemon, CloseExited
<1>2. CASE ~CanClosePane(snapshot, p)
  BY <1>2 DEF Daemon, CloseExited
<1> QED BY <1>1, <1>2

LEMMA AttachCopiesOK == ASSUME Daemon, Copies, AttachCopies PROVE Daemon' /\ Copies'
<1>1. Copies'
  BY DEF Copies, Daemon, AttachCopies
<1> QED BY <1>1 DEF Daemon, AttachCopies

\* The elements of a finite set in some order.
LEMMA SetToSeqIsSeq ==
    ASSUME NEW S, IsFiniteSet(S)
    PROVE  /\ SetToSeq(S) \in Seq(S) /\ IsInjective(SetToSeq(S))
           /\ \A e \in S : \E i \in 1..Len(SetToSeq(S)) : SetToSeq(S)[i] = e
<1> DEFINE n == Cardinality(S)
<1>1. n \in Nat /\ ExistsBijection(1..n, S)
  BY FS_CardinalityType
<1>2. \E f \in [1..n -> S] : IsInjective(f)
  BY <1>1 DEF ExistsBijection, Bijection, Injection
<1>3. PICK f : f = SetToSeq(S) /\ f \in [1..n -> S] /\ IsInjective(f)
  BY <1>2 DEF SetToSeq
<1>4. f \in Seq(S) /\ Len(f) = n
  BY <1>1, <1>3
<1>5. f \in Injection(1..n, S) /\ IsFiniteSet(1..n) /\ Cardinality(1..n) = n
  BY <1>1, <1>3, FS_Interval DEF Injection
<1>6. f \in Surjection(1..n, S)
  BY <1>5, FS_Injection
<1>7. \A e \in S : \E i \in 1..n : f[i] = e
  BY <1>6 DEF Surjection
<1> QED BY <1>3, <1>4, <1>7

LEMMA AttachActivatesOK ==
    ASSUME Daemon, Copies, Attaching, Lines, AttachActivates
    PROVE  Daemon' /\ Copies' /\ Lines'
<1> DEFINE Filled == {p \in PaneIds : buffers[p] # <<>>}
           full   == SetToSeq(Filled)
           replay == [i \in DOMAIN full |-> TerminalOutput(full[i], buffers[full[i]])]
           first  == [kind |-> "Attached", snap |-> copies["client"]]
<1>1. full \in Seq(Filled)
  BY Constants, FS_Subset, SetToSeqIsSeq
<1>2. /\ Len(replay) < Capacity /\ queue' = <<first>> \o replay /\ outbox' = Tail(outbox)
      /\ copies["client"] # None
      /\ copies' = [copies EXCEPT !["client"] = None] /\ published' = copies["client"]
  BY DEF AttachActivates
<1> DEFINE Lines2 == {TerminalOutput(p, d) : p \in Filled, d \in {buffers[p] : p \in Filled}}
<1>3. replay \in Seq(Lines2) /\ Len(replay) \in Nat
  BY <1>1
<1>4. WellFormed(copies["client"])
  BY <1>2 DEF Copies, Publishers
<1>5. EventOK(first) /\ \A e \in Lines2 : EventOK(e)
  BY <1>4 DEF EventOK, TerminalOutput
<1> HIDE DEF replay, first, Lines2
<1>6. queue' \in Seq(Lines2 \cup {first}) /\ Len(queue') = Len(replay) + 1
  <2>1. <<first>> \in Seq(Lines2 \cup {first}) /\ Len(<<first>>) = 1
    OBVIOUS
  <2>2. replay \in Seq(Lines2 \cup {first})
    BY <1>3
  <2> QED BY <1>2, <2>1, <2>2, ConcatProperties
<1>7. EventsOK(queue') /\ Len(queue') <= Capacity
  BY <1>2, <1>3, <1>5, <1>6, Constants DEF EventsOK
<1>8. RequestsOK(outbox')
  BY <1>2, RequestsTail DEF Lines, Attaching, AttachActivates
<1>9. Copies'
  BY <1>2, <1>4 DEF Copies
<1>10. Daemon'
  BY DEF Daemon, AttachActivates
<1> QED BY <1>7, <1>8, <1>9, <1>10 DEF Lines

\* Nothing is emitted to an application that has not attached.
LEMMA EmitAttached == ASSUME NEW e, Emit(e), ~attached PROVE queue' = queue
  BY DEF Emit, HasRoom

LEMMA AttachingKept == ASSUME IInv, Serve \/ Attach \/ \E t \in Publishers : Publishing(t) PROVE Attaching'
<1> USE DEF IInv
<1>1. CASE Serve
  <2>1. outbox # <<>> /\ outbox' = Tail(outbox) /\ UNCHANGED <<copies, attached, terms>>
        /\ copies["client"] = None
    BY <1>1 DEF Serve, ClientFree, uiVars
  <2>2. \A i \in 1..Len(outbox') : outbox'[i].kind # "Attach"
    BY <2>1, RequestsTail DEF Attaching, Lines
  <2>3. ~attached => queue' = queue
    BY <1>1, EmitAttached DEF Serve
  <2> QED BY <2>1, <2>2, <2>3 DEF Attaching
<1>2. CASE AttachCopies
  <2>1. ~attached
    BY <1>2, RequestsTail DEF AttachCopies, Attaching, Lines
  <2> QED BY <1>2, <2>1 DEF AttachCopies, Attaching, uiVars
<1>3. CASE AttachActivates
  <2>1. outbox # <<>> /\ outbox' = Tail(outbox) /\ attached' = TRUE
    BY <1>3 DEF AttachActivates, Attaching
  <2>2. \A i \in 1..Len(outbox') : outbox'[i].kind # "Attach"
    BY <2>1, RequestsTail DEF Attaching, Lines
  <2>3. copies'["client"] = None
    BY <1>3 DEF AttachActivates, Copies, Publishers
  <2> QED BY <2>1, <2>2, <2>3 DEF Attaching
<1>4. ASSUME NEW t \in Publishers, CopyToPublish(t) PROVE Attaching'
  BY <1>4 DEF CopyToPublish, Attaching, Copies, uiVars
<1>5. ASSUME NEW t \in Publishers, Publish(t) PROVE Attaching'
  <2>1. ~attached => queue' = queue
    BY <1>5, EmitAttached DEF Publish
  <2>2. copies'["client"] # None => copies'["client"] = copies["client"]
    BY <1>5 DEF Publish, Copies
  <2>3. holder' # "client" => holder # "client" \/ copies'["client"] = None
    BY <1>5 DEF Publish, Copies
  <2> QED BY <1>5, <2>1, <2>2, <2>3 DEF Publish, Attaching, uiVars
<1> QED BY <1>1, <1>2, <1>3, <1>4, <1>5 DEF Attach, Publishing

LEMMA DaemonStep ==
    ASSUME IInv,
           \/ \E t \in Publishers : Publishing(t)
           \/ ObserveLabel
           \/ \E p \in PaneIds : Output(p) \/ Exit(p) \/ CloseExited(p)
           \/ Serve \/ Attach
    PROVE  IInv'
<1> USE DEF IInv
<1>1. ASSUME NEW t \in Publishers, CopyToPublish(t) PROVE IInv'
  <2>1. Lines' /\ Window'
    BY <1>1 DEF CopyToPublish, Lines, Window, uiVars
  <2> QED BY <1>1, <2>1, CopyToPublishOK, AttachingKept DEF Publishing
<1>2. ASSUME NEW t \in Publishers, Publish(t) PROVE IInv'
  <2>1. Window'
    BY <1>2 DEF Publish, Window, uiVars
  <2> QED BY <1>2, <2>1, PublishOK, AttachingKept DEF Publishing
<1>3. CASE ObserveLabel
  <2>1. Lines' /\ Window'
    BY <1>3 DEF ObserveLabel, Lines, Window, uiVars
  <2>2. Attaching'
    BY <1>3 DEF ObserveLabel, Attaching, Copies, Publishers, uiVars
  <2> QED BY <1>3, <2>1, <2>2, ObserveLabelOK
<1>4. ASSUME NEW p \in PaneIds, Output(p) PROVE IInv'
  <2>1. Daemon' /\ Copies' /\ Window'
    BY <1>4 DEF Output, Daemon, Copies, Window, uiVars
  <2>2. ~attached => queue' = queue
    BY <1>4, EmitAttached DEF Output
  <2>3. Attaching'
    BY <1>4, <2>2 DEF Output, Attaching, uiVars
  <2> QED BY <1>4, <2>1, <2>3, OutputOK
<1>5. ASSUME NEW p \in PaneIds, Exit(p) PROVE IInv'
  <2>1. Copies' /\ Window'
    BY <1>5 DEF Exit, Copies, Window, uiVars
  <2>2. ~attached => queue' = queue
    BY <1>5, EmitAttached DEF Exit
  <2>3. Attaching'
    BY <1>5, <2>2 DEF Exit, Attaching, uiVars
  <2> QED BY <1>5, <2>1, <2>3, ExitOK
<1>6. ASSUME NEW p \in PaneIds, CloseExited(p) PROVE IInv'
  <2>1. Copies' /\ Lines' /\ Window' /\ UNCHANGED <<copies, outbox, attached, queue, terms>>
    BY <1>6 DEF CloseExited, Copies, Lines, Window, uiVars
  <2>2. holder = "none" /\ holder' \in {"none", "closer"}
    BY <1>6 DEF CloseExited
  <2>3. Attaching'
    BY <2>1, <2>2 DEF Attaching
  <2> QED BY <1>6, <2>1, <2>3, CloseExitedOK
<1>7. CASE Serve
  <2>1. Copies' /\ Window'
    BY <1>7 DEF Serve, Copies, Window, uiVars
  <2> QED BY <1>7, <2>1, ServeOK, AttachingKept
<1>8. CASE AttachCopies
  <2>1. Lines' /\ Window'
    BY <1>8 DEF AttachCopies, Lines, Window, uiVars
  <2> QED BY <1>8, <2>1, AttachCopiesOK, AttachingKept DEF Attach
<1>9. CASE AttachActivates
  <2>1. Window'
    BY <1>9 DEF AttachActivates, Window, uiVars
  <2> QED BY <1>9, <2>1, AttachActivatesOK, AttachingKept DEF Attach
<1> QED BY <1>1, <1>2, <1>3, <1>4, <1>5, <1>6, <1>7, <1>8, <1>9 DEF Publishing, Attach

----
(* The application's steps *)

Asks == UNCHANGED outbox \/ \E r : RequestOK(r) /\ r.kind # "Attach" /\ Send(r)

\* What the application does leaves the daemon alone.
LEMMA ApplicationStep ==
    ASSUME IInv, UNCHANGED <<daemonVars, published>>, Asks,
           \/ UNCHANGED queue /\ DOMAIN terms' = DOMAIN terms
           \/ queue # <<>> /\ queue' = Tail(queue),
           Window'
    PROVE  IInv'
<1> USE DEF IInv
<1>1. Daemon' /\ Copies'
  BY DEF daemonVars, Daemon, Copies
<1>2. /\ RequestsOK(outbox') /\ (outbox # <<>> => outbox' # <<>>)
      /\ \A i \in 1..Len(outbox') :
            outbox'[i].kind = "Attach" => i \in 1..Len(outbox) /\ outbox'[i] = outbox[i]
  <2>1. RequestsOK(outbox)
    BY DEF Lines
  <2>2. CASE UNCHANGED outbox
    BY <2>1, <2>2
  <2>3. CASE \E r : RequestOK(r) /\ r.kind # "Attach" /\ Send(r)
    <3>1. PICK r : RequestOK(r) /\ r.kind # "Attach" /\ outbox' = Append(outbox, r)
      BY <2>3 DEF Send
    <3> QED BY <2>1, <3>1, RequestsAppend
  <2> QED BY <2>2, <2>3 DEF Asks
<1>3. UNCHANGED <<copies, holder, attached>>
  BY DEF daemonVars
<1>4. CASE UNCHANGED queue /\ DOMAIN terms' = DOMAIN terms
  <2>1. Attaching'
    BY <1>2, <1>3, <1>4 DEF Attaching
  <2> QED BY <1>1, <1>2, <1>4, <2>1 DEF Lines
<1>5. CASE queue # <<>> /\ queue' = Tail(queue)
  <2>1. EventsOK(queue') /\ Len(queue') <= Len(queue) /\ Len(queue) \in Nat /\ Len(queue') \in Nat
    BY <1>5, EventsTail DEF Lines, EventsOK
  <2>2. Len(queue') <= Capacity
    BY <2>1, Constants DEF Lines
  <2>3. Attaching'
    BY <1>2, <1>3, <1>5 DEF Attaching
  <2> QED BY <1>1, <1>2, <2>1, <2>2, <2>3 DEF Lines
<1> QED BY <1>4, <1>5

LEMMA WorkspaceRequested == ASSUME RequestWorkspace PROVE Asks
<1>1. PICK name \in Names, root \in Dirs :
         Send([kind |-> "CreateWorkspace", name |-> name, root |-> root])
  BY DEF RequestWorkspace
<1>2. RequestOK([kind |-> "CreateWorkspace", name |-> name, root |-> root])
  BY DEF RequestOK, Requests
<1> QED BY <1>1, <1>2 DEF Asks

LEMMA ReceiveSnapshotOK == ASSUME IInv, ReceiveSnapshot PROVE IInv'
<1> USE DEF IInv
<1> DEFINE s == Head(queue).snap
<1>1. WellFormed(s)
  BY EventsTail DEF ReceiveSnapshot, Receive, Lines, EventOK
<1>2. view' = ViewOf(s) /\ grid' = grid
      /\ terms' = [p \in Leaves(s) \cap DOMAIN s.panes |->
                    IF p \in DOMAIN terms THEN [terms[p] EXCEPT !.status = s.panes[p].status]
                    ELSE NewTerminal(s.panes[p])]
  BY DEF ReceiveSnapshot, Receive, ApplySnapshot
<1>3. Shown(ViewOf(s)) /\ Leaves(ViewOf(s)) = Leaves(s) /\ Leaves(s) \subseteq DOMAIN s.panes
  BY <1>1, ViewIsShown
<1>4. Shown(view')
  BY <1>2, <1>3
<1>5. Leaves(view') = Leaves(s)
  BY <1>2, <1>3
<1>6. ASSUME NEW p \in DOMAIN terms' PROVE TerminalOK(terms'[p])
  <2>1. p \in DOMAIN s.panes
    BY <1>2, <1>6
  <2>2. s.panes[p].status \in Statuses
    BY <1>1, <2>1 DEF WellFormed, IsSnapshot, Pane
  <2>3. CASE p \in DOMAIN terms
    <3>1. terms'[p] = [terms[p] EXCEPT !.status = s.panes[p].status] /\ TerminalOK(terms[p])
      BY <1>2, <1>6, <2>3 DEF Window
    <3> QED BY <2>2, <3>1 DEF TerminalOK
  <2>4. CASE p \notin DOMAIN terms
    <3>1. terms'[p] = NewTerminal(s.panes[p])
      BY <1>2, <1>6, <2>4
    <3> QED BY <2>2, <3>1 DEF TerminalOK, NewTerminal, Closing
  <2> QED BY <2>3, <2>4
<1>7. Window'
  <2>1. DOMAIN terms' = Leaves(view')
    BY <1>2, <1>3, <1>5
  <2> QED BY <1>2, <1>4, <1>6, <2>1 DEF Window
<1>8. Asks
  BY WorkspaceRequested DEF Asks, ReceiveSnapshot
<1>9. UNCHANGED <<daemonVars, published>> /\ queue # <<>> /\ queue' = Tail(queue)
  BY DEF ReceiveSnapshot, Receive
<1> QED BY <1>7, <1>8, <1>9, ApplicationStep

\* One terminal changes, and stays a terminal.
LEMMA TerminalChanges ==
    ASSUME Window, UNCHANGED <<view, grid>>, DOMAIN terms' = DOMAIN terms,
           \A p \in DOMAIN terms' : TerminalOK(terms'[p])
    PROVE  Window'
  BY DEF Window

LEMMA ReceiveForPaneOK == ASSUME IInv, ReceiveForPane PROVE IInv'
<1> USE DEF IInv
<1> DEFINE e == Head(queue)
<1>1. e.kind = "Status" => e.status \in Statuses
  BY EventsTail DEF ReceiveForPane, Receive, Lines, EventOK
<1>2. e.kind \in {"Output", "Status"}
  BY DEF ReceiveForPane, Receive
<1>3. terms' = [p \in DOMAIN terms |->
                    IF p # e.pane THEN terms[p]
                    ELSE IF e.kind = "Output" THEN [terms[p] EXCEPT !.text = @ \o e.data]
                    ELSE [terms[p] EXCEPT !.status = e.status]]
  BY DEF ReceiveForPane
<1>4. ASSUME NEW p \in DOMAIN terms' PROVE TerminalOK(terms'[p])
  <2>1. p \in DOMAIN terms
    BY <1>3, <1>4
  <2>2. TerminalOK(terms[p])
    BY <2>1 DEF Window
  <2>3. CASE p # e.pane
    BY <1>3, <2>1, <2>2, <2>3
  <2>4. CASE p = e.pane /\ e.kind = "Output"
    <3>1. terms'[p] = [terms[p] EXCEPT !.text = @ \o e.data]
      BY <1>3, <2>1, <2>4
    <3> QED BY <2>2, <3>1 DEF TerminalOK
  <2>5. CASE p = e.pane /\ e.kind = "Status"
    <3>1. terms'[p] = [terms[p] EXCEPT !.status = e.status]
      BY <1>3, <2>1, <2>5
    <3> QED BY <1>1, <2>2, <2>5, <3>1 DEF TerminalOK
  <2> QED BY <1>2, <2>3, <2>4, <2>5
<1>5. Window'
  <2>1. UNCHANGED <<view, grid>> /\ DOMAIN terms' = DOMAIN terms
    BY <1>3 DEF ReceiveForPane, Receive
  <2> QED BY <1>4, <2>1, TerminalChanges
<1>6. UNCHANGED <<daemonVars, published, outbox>> /\ queue # <<>> /\ queue' = Tail(queue)
  BY DEF ReceiveForPane, Receive
<1> QED BY <1>5, <1>6, ApplicationStep DEF Asks

LEMMA ReceiveErrorOK == ASSUME IInv, ReceiveError PROVE IInv'
<1>1. Window'
  BY DEF IInv, Window, ReceiveError, Receive
<1> QED BY <1>1, ApplicationStep DEF Asks, ReceiveError, Receive

----
(* The user's steps *)

LEMMA ActiveIsListed == ASSUME Shown(view), HasWorkspace PROVE ActiveWs \in DOMAIN view.ws
<1>1. PICK n \in Nat : n = view.index + 1 /\ n \in 1..Len(view.order)
  BY DEF Shown, HasWorkspace
<1> QED BY <1>1 DEF Shown, ToSet, ActiveWs

\* Only the focus of the workspace in view moves.
LEMMA FocusChanges ==
    ASSUME Shown(view), HasWorkspace, NEW p \in ToSet(ActiveLayout), Focus(p)
    PROVE  /\ ActiveWs \in DOMAIN view.ws /\ p \in ToSet(view.ws[ActiveWs].layout)
           /\ view' = [order |-> view'.order, ws |-> view'.ws, index |-> view'.index]
           /\ view'.order = view.order /\ view'.index = view.index
           /\ DOMAIN view'.ws = DOMAIN view.ws /\ view'.ws = [v \in DOMAIN view'.ws |-> view'.ws[v]]
           /\ \A v \in DOMAIN view.ws :
                 /\ view'.ws[v].layout = view.ws[v].layout
                 /\ view'.ws[v] = [layout |-> view'.ws[v].layout, active |-> view'.ws[v].active]
                 /\ view'.ws[v].active = IF v = ActiveWs THEN p ELSE view.ws[v].active
<1> DEFINE w   == ActiveWs
           old == view.ws[w]
           new == [layout |-> old.layout, active |-> p]
<1>1. w \in DOMAIN view.ws
  BY ActiveIsListed
<1>2. old = [layout |-> old.layout, active |-> old.active] /\ p \in ToSet(old.layout)
  BY <1>1 DEF Shown, ActiveLayout
<1>3. /\ view' = [view EXCEPT !.ws[w].active = p]
      /\ view = [order |-> view.order, ws |-> view.ws, index |-> view.index]
      /\ view.ws = [v \in DOMAIN view.ws |-> view.ws[v]]
  BY DEF Focus, Shown
<1> HIDE DEF w
<1>4. view'.order = view.order /\ view'.index = view.index
      /\ view'.ws = [view.ws EXCEPT ![w] = [@ EXCEPT !.active = p]]
      /\ view' = [order |-> view'.order, ws |-> view'.ws, index |-> view'.index]
  BY <1>3
<1>5. [old EXCEPT !.active = p] = new
  BY <1>2
<1>6. view'.ws = [v \in DOMAIN view.ws |-> IF v = w THEN new ELSE view.ws[v]]
  BY <1>3, <1>4, <1>5
<1>7. DOMAIN view'.ws = DOMAIN view.ws /\ view'.ws = [v \in DOMAIN view'.ws |-> view'.ws[v]]
  BY <1>6
<1>8. ASSUME NEW v \in DOMAIN view.ws
      PROVE  /\ view'.ws[v].layout = view.ws[v].layout
             /\ view'.ws[v] = [layout |-> view'.ws[v].layout, active |-> view'.ws[v].active]
             /\ view'.ws[v].active = IF v = w THEN p ELSE view.ws[v].active
  <2>1. CASE v = w
    <3>1. view'.ws[v] = new
      BY <1>6, <2>1
    <3> QED BY <2>1, <3>1, EntryOf
  <2>2. CASE v # w
    <3>1. view'.ws[v] = view.ws[v]
      BY <1>6, <2>2
    <3> QED BY <2>2, <3>1 DEF Shown
  <2> QED BY <2>1, <2>2
<1> QED BY <1>1, <1>2, <1>4, <1>7, <1>8 DEF w

LEMMA FocusOK ==
    ASSUME Shown(view), HasWorkspace, NEW p \in ToSet(ActiveLayout), Focus(p)
    PROVE  Shown(view') /\ Leaves(view') = Leaves(view)
<1> DEFINE w == ActiveWs
<1>1. /\ w \in DOMAIN view.ws /\ p \in ToSet(view.ws[w].layout)
      /\ view' = [order |-> view'.order, ws |-> view'.ws, index |-> view'.index]
      /\ view'.order = view.order /\ view'.index = view.index
      /\ DOMAIN view'.ws = DOMAIN view.ws /\ view'.ws = [v \in DOMAIN view'.ws |-> view'.ws[v]]
      /\ \A v \in DOMAIN view.ws :
            /\ view'.ws[v].layout = view.ws[v].layout
            /\ view'.ws[v] = [layout |-> view'.ws[v].layout, active |-> view'.ws[v].active]
            /\ view'.ws[v].active = IF v = w THEN p ELSE view.ws[v].active
  BY FocusChanges
<1> HIDE DEF w
<1>2. ASSUME NEW v \in DOMAIN view'.ws
      PROVE  /\ view'.ws[v] = [layout |-> view'.ws[v].layout, active |-> view'.ws[v].active]
             /\ view'.ws[v].layout \in Seq(PaneIds)
             /\ IF view'.ws[v].layout = <<>> THEN view'.ws[v].active = None
                ELSE view'.ws[v].active \in ToSet(view'.ws[v].layout)
  <2>1. v \in DOMAIN view.ws
    BY <1>1, <1>2
  <2>2. CASE v = w
    <3>1. view.ws[v].layout # <<>>
      BY <1>1, <2>2 DEF ToSet
    <3> QED BY <1>1, <2>1, <2>2, <3>1 DEF Shown
  <2>3. CASE v # w
    BY <1>1, <2>1, <2>3 DEF Shown
  <2> QED BY <2>2, <2>3
<1>3. Shown(view')
  <2>1. /\ view'.order \in Seq(WorkspaceIds) /\ ToSet(view'.order) = DOMAIN view'.ws
        /\ view'.index \in Nat
        /\ IF view'.order = <<>> THEN view'.index = 0 ELSE view'.index < Len(view'.order)
    BY <1>1 DEF Shown
  <2> QED BY <1>1, <1>2, <2>1 DEF Shown
<1>4. {ToSet(view'.ws[v].layout) : v \in DOMAIN view'.ws} = {ToSet(view.ws[v].layout) : v \in DOMAIN view.ws}
  BY <1>1
<1> QED BY <1>3, <1>4 DEF Leaves

LEMMA TurnOK ==
    ASSUME Shown(view), NEW i \in Nat, i < Len(view.order), FocusWorkspaceAt(i)
    PROVE  Shown(view') /\ Leaves(view') = Leaves(view)
<1>1. /\ view'.order = view.order /\ view'.ws = view.ws /\ view'.index = i
      /\ view' = [order |-> view'.order, ws |-> view'.ws, index |-> view'.index]
  BY DEF FocusWorkspaceAt, Shown
<1>2. view.order # <<>>
  OBVIOUS
<1>3. Shown(view')
  BY <1>1, <1>2 DEF Shown
<1> QED BY <1>1, <1>3 DEF Leaves

\* The index that follows an index, or precedes it, is one of the list.
LEMMA RelativeIndexOK ==
    ASSUME Shown(view), view.order # <<>>, NEW forward \in BOOLEAN
    PROVE  RelativeIndex(forward) \in Nat /\ RelativeIndex(forward) < Len(view.order)
<1>1. PICK n \in Nat \ {0}, i \in Nat : n = Len(view.order) /\ i = view.index /\ i < n
  <2>1. Len(view.order) \in Nat \ {0} /\ view.index \in Nat /\ view.index < Len(view.order)
    BY EmptySeq DEF Shown
  <2> QED BY <2>1
<1>2. (i + 1) % n \in 0..n - 1
  OBVIOUS
<1>3. RelativeIndex(forward) = IF forward THEN (i + 1) % n ELSE IF i = 0 THEN n - 1 ELSE i - 1
  BY <1>1 DEF RelativeIndex
<1> QED BY <1>1, <1>2, <1>3

\* What a step of the user must leave.
LEMMA UserStep ==
    ASSUME IInv, Acts, Asks, DOMAIN terms' = DOMAIN terms, Window' PROVE IInv'
  BY ApplicationStep DEF Acts

\* The requests of a step that shows something else, or nothing else.
LEMMA ViewMoves ==
    ASSUME IInv, Shown(view'), Leaves(view') = Leaves(view), UNCHANGED <<terms, grid>>
    PROVE  Window'
  BY DEF IInv, Window

LEMMA SendOK == ASSUME NEW r, RequestOK(r), r.kind # "Attach", Send(r) PROVE Asks
  BY DEF Asks

LEMMA UserActsOK == ASSUME IInv, UserActs PROVE IInv'
<1>1. Acts
  BY DEF UserActs, UserCreatesWorkspace, UserClosesWorkspace, UserOpensPane, UserClosesPane,
         UserClicksPane, UserMovesFocus, UserPicksWorkspace, UserTurnsWorkspace,
         UserDragsDivider, UserSizesWindow
<1>2. Shown(view) /\ grid \in Sizes
  BY DEF IInv, Window
<1>3. UNCHANGED uiVars => Window' /\ DOMAIN terms' = DOMAIN terms
  BY DEF IInv, Window, uiVars
<1>4. ASSUME NEW p, Focus(p) PROVE Asks
  <2>1. RequestOK([kind |-> "FocusPane", pane |-> p])
    BY DEF RequestOK, Requests
  <2> QED BY <1>4, <2>1, SendOK DEF Focus
<1>5. ASSUME NEW i, FocusWorkspaceAt(i) PROVE Asks
  <2>1. RequestOK([kind |-> "FocusWorkspace", ws |-> view.order[i + 1]])
    BY DEF RequestOK, Requests
  <2> QED BY <1>5, <2>1, SendOK DEF FocusWorkspaceAt
<1>6. CASE UserCreatesWorkspace
  BY <1>1, <1>3, <1>6, WorkspaceRequested, UserStep DEF UserCreatesWorkspace
<1>7. CASE UserClosesWorkspace
  <2>1. PICK w : Send([kind |-> "CloseWorkspace", ws |-> w])
    BY <1>7 DEF UserClosesWorkspace
  <2>2. RequestOK([kind |-> "CloseWorkspace", ws |-> w])
    BY DEF RequestOK, Requests
  <2> QED BY <1>1, <1>3, <1>7, <2>1, <2>2, SendOK, UserStep DEF UserClosesWorkspace
<1>8. CASE UserOpensPane
  <2>1. /\ RequestOK([kind |-> "CreatePane", ws |-> ActiveWs])
        /\ RequestOK([kind |-> "SplitPane", ws |-> ActiveWs, pane |-> ActivePane])
    BY DEF RequestOK, Requests
  <2>2. Asks
    BY <1>8, <2>1, SendOK DEF UserOpensPane
  <2> QED BY <1>1, <1>3, <1>8, <2>2, UserStep DEF UserOpensPane
<1>9. CASE UserClosesPane
  <2>1. UNCHANGED <<outbox, view, grid>> /\ ActivePane \in DOMAIN terms
        /\ terms' = [terms EXCEPT ![ActivePane].closing = "started"]
    BY <1>9 DEF UserClosesPane
  <2>2. Window'
    BY <2>1 DEF IInv, Window, TerminalOK, Closing
  <2> QED BY <1>1, <2>1, <2>2, UserStep DEF Asks
<1>10. CASE UserClicksPane
  <2>1. PICK p \in ToSet(ActiveLayout) : Focus(p)
    BY <1>10 DEF UserClicksPane
  <2>2. HasWorkspace /\ UNCHANGED <<terms, grid>>
    BY <1>10 DEF UserClicksPane
  <2> QED BY <1>1, <1>2, <1>4, <2>1, <2>2, FocusOK, ViewMoves, UserStep
<1>11. CASE UserMovesFocus
  <2>1. PICK p \in ToSet(ActiveLayout) : Focus(p)
    BY <1>11 DEF UserMovesFocus
  <2>2. HasWorkspace /\ UNCHANGED <<terms, grid>>
    BY <1>11 DEF UserMovesFocus
  <2> QED BY <1>1, <1>2, <1>4, <2>1, <2>2, FocusOK, ViewMoves, UserStep
<1>12. CASE UserPicksWorkspace
  <2>1. PICK i \in 0..Len(view.order) - 1 : FocusWorkspaceAt(i)
    BY <1>12 DEF UserPicksWorkspace
  <2>2. i \in Nat /\ i < Len(view.order)
    BY <1>2 DEF Shown
  <2>3. UNCHANGED <<terms, grid>>
    BY <1>12 DEF UserPicksWorkspace
  <2> QED BY <1>1, <1>2, <1>5, <2>1, <2>2, <2>3, TurnOK, ViewMoves, UserStep
<1>13. CASE UserTurnsWorkspace
  <2>1. PICK forward \in BOOLEAN : FocusWorkspaceAt(RelativeIndex(forward))
    BY <1>13 DEF UserTurnsWorkspace
  <2>2. view.order # <<>> /\ UNCHANGED <<terms, grid>>
    BY <1>13 DEF UserTurnsWorkspace
  <2>3. RelativeIndex(forward) \in Nat /\ RelativeIndex(forward) < Len(view.order)
    BY <1>2, <2>2, RelativeIndexOK
  <2> QED BY <1>1, <1>2, <1>5, <2>1, <2>2, <2>3, TurnOK, ViewMoves, UserStep
<1>14. CASE UserDragsDivider
  <2>1. ActiveLayout \in Seq(PaneIds)
    BY <1>2, <1>14, ActiveIsListed DEF UserDragsDivider, ActiveLayout, Shown
  <2>2. RequestOK([kind |-> "UpdateLayout", ws |-> ActiveWs, leaves |-> ActiveLayout])
    BY <2>1 DEF RequestOK, Requests
  <2> QED BY <1>1, <1>3, <1>14, <2>2, SendOK, UserStep DEF UserDragsDivider
<1>15. CASE UserSizesWindow
  <2>1. Window'
    BY <1>15 DEF UserSizesWindow, IInv, Window
  <2> QED BY <1>1, <1>15, <2>1, UserStep DEF UserSizesWindow, Asks
<1> QED BY <1>6, <1>7, <1>8, <1>9, <1>10, <1>11, <1>12, <1>13, <1>14, <1>15 DEF UserActs

LEMMA FinishCloseOK == ASSUME IInv, NEW p \in PaneIds, FinishClose(p) PROVE IInv'
<1>1. UNCHANGED <<daemonVars, queue, published, view, grid>> /\ p \in DOMAIN terms
      /\ terms' = [terms EXCEPT ![p].closing = "sent"]
  BY DEF FinishClose
<1>2. Window'
  BY <1>1 DEF IInv, Window, TerminalOK, Closing
<1>3. RequestOK([kind |-> "ClosePane", pane |-> p])
  BY DEF RequestOK, Requests
<1> QED BY <1>1, <1>2, <1>3, SendOK, ApplicationStep DEF FinishClose

LEMMA FitOK == ASSUME IInv, NEW p \in PaneIds, Fit(p) PROVE IInv'
<1>1. UNCHANGED <<daemonVars, queue, published, view, grid>> /\ p \in DOMAIN terms
      /\ terms' = [terms EXCEPT ![p].size = grid]
  BY DEF Fit, Misfit
<1>2. Window'
  BY <1>1 DEF IInv, Window, TerminalOK
<1>3. RequestOK([kind |-> "Resize", pane |-> p, size |-> grid])
  BY DEF RequestOK, Requests, IInv, Window
<1> QED BY <1>1, <1>2, <1>3, SendOK, ApplicationStep DEF Fit

----
(* Every reachable state *)

LEMMA InitHolds == ASSUME Init PROVE IInv
<1> DEFINE w == CHOOSE w \in WorkspaceIds : TRUE
           p == CHOOSE p \in PaneIds : TRUE
<1>1. w \in WorkspaceIds /\ p \in PaneIds
  BY Constants
<1> HIDE DEF w, p
<1>2. holder = "none" /\ exiting = {} /\ attached = FALSE
  BY DEF Init
<1>3. Daemon
  <2>1. CASE snapshot = EmptySnapshot /\ usedPanes = {} /\ usedWs = {}
    <3>1. DOMAIN snapshot.panes = {} /\ DOMAIN snapshot.ws = {}
      BY <2>1 DEF EmptySnapshot
    <3> QED BY <1>2, <2>1, <3>1, EmptyWF DEF Daemon
  <2>2. CASE /\ \E name \in Names, root \in Dirs :
                    snapshot = SetPaneStatus(
                        CreateWorkspace(EmptySnapshot, w, p, name, root), p, "Running")
             /\ usedPanes = {p} /\ usedWs = {w}
    <3>1. PICK name \in Names, root \in Dirs :
             snapshot = SetPaneStatus(CreateWorkspace(EmptySnapshot, w, p, name, root), p, "Running")
      BY <2>2
    <3> DEFINE s == CreateWorkspace(EmptySnapshot, w, p, name, root)
    <3>2. w \in WorkspaceIds \ DOMAIN EmptySnapshot.ws /\ p \in PaneIds \ DOMAIN EmptySnapshot.panes
      BY <1>1 DEF EmptySnapshot
    <3>3. WellFormed(s)
      BY <3>2, EmptyWF, CreateWorkspaceWF
    <3>4. DOMAIN s.panes = {p} /\ DOMAIN s.ws = {w}
      BY DEF EmptySnapshot, CreateWorkspace, WithPane
    <3>5. snapshot.ws = s.ws
      BY <3>1 DEF SetPaneStatus, Update
    <3> HIDE DEF s
    <3>6. WellFormed(snapshot) /\ DOMAIN snapshot.panes = {p}
      BY <3>1, <3>3, <3>4, StatusWF DEF Statuses, s
    <3> QED BY <1>1, <1>2, <2>2, <3>4, <3>5, <3>6 DEF Daemon
  <2> QED BY <2>1, <2>2 DEF Init, w, p
<1>4. Copies /\ Attaching
  BY DEF Init, Copies, Attaching, Publishers
<1>5. Lines
  <2>1. RequestOK([kind |-> "Attach"])
    BY DEF RequestOK, Requests
  <2>2. outbox \in Seq({[kind |-> "Attach"]}) /\ queue = <<>> /\ queue \in Seq({}) /\ Len(queue) = 0
    BY DEF Init
  <2>3. EventsOK(queue)
    <3> DEFINE S == {Error}
    <3>1. queue \in Seq(S) /\ \A e \in S : EventOK(e)
      BY <2>2 DEF EventOK, Error
    <3> HIDE DEF S
    <3> QED BY <3>1 DEF EventsOK
  <2>4. RequestsOK(outbox)
    <3> DEFINE r == [kind |-> "Attach"]
    <3>1. RequestOK(r) /\ outbox \in Seq({r})
      BY <2>1, <2>2
    <3> HIDE DEF r
    <3> QED BY <3>1 DEF RequestsOK
  <2> QED BY <2>2, <2>3, <2>4, Constants DEF Lines
<1>6. Window
  <2>1. view = [order |-> <<>>, ws |-> [v \in {} |-> None], index |-> 0] /\ grid \in Sizes
        /\ terms = [q \in {} |-> None]
    BY Constants DEF Init
  <2>2. Shown(view)
    BY <2>1 DEF Shown, ToSet
  <2>3. Leaves(view) = {}
    BY <2>1 DEF Leaves
  <2> QED BY <2>1, <2>2, <2>3 DEF Window
<1> QED BY <1>3, <1>4, <1>5, <1>6 DEF IInv

LEMMA NextHolds == ASSUME IInv, [Next]_vars PROVE IInv'
<1>1. CASE UNCHANGED vars
  BY <1>1 DEF vars, daemonVars, uiVars, IInv, Daemon, Copies, Attaching, Lines, Window
<1>2. CASE UserActs
  BY <1>2, UserActsOK
<1>3. CASE Frame
  BY <1>3, ReceiveSnapshotOK, ReceiveForPaneOK, ReceiveErrorOK DEF Frame
<1>4. CASE \E p \in PaneIds : FinishClose(p) \/ Fit(p)
  BY <1>4, FinishCloseOK, FitOK
<1>5. CASE \/ \E t \in Publishers : Publishing(t)
           \/ ObserveLabel
           \/ \E p \in PaneIds : Output(p) \/ Exit(p) \/ CloseExited(p)
           \/ Serve \/ Attach
  BY <1>5, DaemonStep
<1> QED BY <1>1, <1>2, <1>3, <1>4, <1>5 DEF Next

LEMMA Invariant == Spec => []IInv
<1>1. Init => IInv
  BY InitHolds
<1>2. IInv /\ [Next]_vars => IInv'
  BY NextHolds
<1> QED BY <1>1, <1>2, PTL DEF Spec

LEMMA TypesHold == ASSUME IInv PROVE TypeOK
  BY DEF IInv, Daemon, Copies, Lines, Window, TerminalOK, TypeOK, WellFormed

LEMMA IInvImplies == ASSUME IInv PROVE ViewWellFormed
<1>1. Shown(view) /\ DOMAIN terms = Leaves(view)
  BY DEF IInv, Window
<1> QED BY <1>1, TypesHold DEF ViewWellFormed, Shown, HasWorkspace

\* Whatever the daemon publishes, in whatever order its threads do, and
\* whatever the user does ahead of its answers, drain_daemon_events and the
\* handlers of the user's actions leave a view that can be drawn and acted on:
\* the active workspace is listed, each focus is a leaf, each leaf has its
\* terminal and no other pane has one.
THEOREM ViewStaysWellFormed == Spec => []ViewWellFormed
  BY Invariant, IInvImplies, PTL

----
(* The stream of each pane *)

\* The chunks after a, up to b.
Run(a, b) == [k \in 1..b - a |-> a + k]

LEMMA RunIsChunks ==
    ASSUME NEW a \in Nat, NEW b \in Nat, a <= b
    PROVE  Run(a, b) \in Seq(Nat) /\ Len(Run(a, b)) = b - a
           /\ \A k \in 1..b - a : Run(a, b)[k] = a + k
  BY DEF Run

LEMMA EmptyRun == ASSUME NEW a \in Nat PROVE Run(a, a) = <<>>
  BY DEF Run

LEMMA OneRun ==
    ASSUME NEW a \in Nat, NEW b \in Nat, a <= b
    PROVE  Run(b, b + 1) = <<b + 1>> /\ Append(Run(a, b), b + 1) = Run(a, b + 1)
  BY DEF Run

LEMMA RunOfRuns ==
    ASSUME NEW a \in Nat, NEW b \in Nat, NEW c \in Nat, a <= b, b <= c
    PROVE  Run(a, b) \o Run(b, c) = Run(a, c)
  BY DEF Run

\* A run starts with its shorter runs, and its chunks are numbered in a row.
LEMMA RunStarts ==
    ASSUME NEW a \in Nat, NEW b \in Nat, NEW c \in Nat, a <= b, b <= c
    PROVE  /\ IsPrefix(Run(a, b), Run(a, c))
           /\ \A i \in 2..Len(Run(a, b)) : Run(a, b)[i] = Run(a, b)[i - 1] + 1
<1>1. /\ Len(Run(a, b)) = b - a /\ \A k \in 1..b - a : Run(a, b)[k] = a + k
      /\ Run(a, b) \in Seq(Nat)
  BY RunIsChunks
<1>2. /\ Len(Run(a, c)) = c - a /\ \A k \in 1..c - a : Run(a, c)[k] = a + k
      /\ Run(a, c) \in Seq(Nat)
  BY RunIsChunks
<1>3. SubSeq(Run(a, b), 1, b - a) = Run(a, b)
  BY DEF Run
<1>4. SubSeq(Run(a, c), 1, b - a) = Run(a, b)
  BY DEF Run
<1>5. IsPrefix(Run(a, b), Run(a, c))
  BY <1>1, <1>2, <1>3, <1>4 DEF IsPrefix
<1>6. ASSUME NEW i \in 2..Len(Run(a, b)) PROVE Run(a, b)[i] = Run(a, b)[i - 1] + 1
  BY <1>1
<1> QED BY <1>5, <1>6

\* What an event feeds the terminal of p.
Part(e, p) == IF e.kind = "Output" /\ e.pane = p THEN e.data ELSE <<>>

\* The events feed the terminal of p the runs at cuts it.
Cuts(events, p, at) ==
    /\ at \in [1..Len(events) + 1 -> Nat]
    /\ \A i \in 1..Len(events) : at[i] <= at[i + 1] /\ Part(events[i], p) = Run(at[i], at[i + 1])

\* The events take the terminal of p from chunk a to chunk b.
Feed(events, p, a, b) ==
    \E at : Cuts(events, p, at) /\ a = at[1] /\ b = at[Len(events) + 1]

LEMMA FeedNothing == ASSUME NEW p, NEW a \in Nat PROVE Feed(<<>>, p, a, a)
<1> DEFINE at == [i \in 1..1 |-> a]
<1>1. at \in [1..Len(<<>>) + 1 -> Nat] /\ at[1] = a /\ at[Len(<<>>) + 1] = a
  OBVIOUS
<1>2. Cuts(<<>>, p, at)
  BY <1>1 DEF Cuts
<1> HIDE DEF at
<1> QED BY <1>1, <1>2 DEF Feed

LEMMA FeedMore ==
    ASSUME NEW S, NEW events \in Seq(S), NEW p, NEW a, NEW b \in Nat, NEW c \in Nat,
           Feed(events, p, a, b), b <= c, NEW e, Part(e, p) = Run(b, c)
    PROVE  Feed(Append(events, e), p, a, c)
<1>1. PICK at : Cuts(events, p, at) /\ a = at[1] /\ b = at[Len(events) + 1]
  BY DEF Feed
<1>2. PICK n \in Nat, m \in Nat : n = Len(events) /\ m = n + 1
  OBVIOUS
<1> DEFINE more  == Append(events, e)
           after == [i \in 1..m + 1 |-> IF i = m + 1 THEN c ELSE at[i]]
<1>3. at \in [1..m -> Nat] /\ at[m] = b
      /\ \A i \in 1..n : at[i] <= at[i + 1] /\ Part(events[i], p) = Run(at[i], at[i + 1])
  BY <1>1, <1>2 DEF Cuts
<1>4. Len(more) = m /\ more[m] = e /\ \A i \in 1..n : more[i] = events[i]
  BY <1>2
<1>5. after \in [1..m + 1 -> Nat] /\ after[m + 1] = c /\ \A i \in 1..m : after[i] = at[i]
  BY <1>2, <1>3
<1> HIDE DEF more, after
<1>6. ASSUME NEW i \in 1..m
      PROVE  after[i] <= after[i + 1] /\ Part(more[i], p) = Run(after[i], after[i + 1])
  <2>1. CASE i = m
    BY <1>3, <1>4, <1>5, <2>1
  <2>2. CASE i # m
    <3>1. i \in 1..n /\ i \in 1..m /\ i + 1 \in 1..m
      BY <1>2, <2>2
    <3> QED BY <1>3, <1>4, <1>5, <3>1
  <2> QED BY <2>1, <2>2
<1>7. Cuts(more, p, after)
  BY <1>2, <1>4, <1>5, <1>6 DEF Cuts
<1>8. after[1] = a /\ after[Len(more) + 1] = c
  BY <1>1, <1>2, <1>4, <1>5
<1> QED BY <1>7, <1>8 DEF Feed, more

LEMMA FeedFirst ==
    ASSUME NEW S, NEW events \in Seq(S), events # <<>>, NEW p, NEW a \in Nat, NEW c,
           Feed(events, p, a, c)
    PROVE  \E b \in Nat : /\ a <= b /\ Part(Head(events), p) = Run(a, b)
                          /\ Feed(Tail(events), p, b, c)
<1>1. PICK at : Cuts(events, p, at) /\ a = at[1] /\ c = at[Len(events) + 1]
  BY DEF Feed
<1>2. PICK n \in Nat, m \in Nat : m = Len(events) /\ m = n + 1
  <2>1. Len(events) \in Nat \ {0}
    BY EmptySeq
  <2>2. Len(events) - 1 \in Nat /\ Len(events) = (Len(events) - 1) + 1
    BY <2>1
  <2> QED BY <2>1, <2>2
<1> DEFINE rest  == Tail(events)
           after == [i \in 1..n + 1 |-> at[i + 1]]
<1>3. at \in [1..m + 1 -> Nat]
      /\ \A i \in 1..m : at[i] <= at[i + 1] /\ Part(events[i], p) = Run(at[i], at[i + 1])
  BY <1>1, <1>2 DEF Cuts
<1>4. Len(rest) = n /\ Head(events) = events[1] /\ \A i \in 1..n : rest[i] = events[i + 1]
  <2>1. /\ Head(events) = events[1] /\ Len(rest) = Len(events) - 1
        /\ \A i \in 1..Len(rest) : rest[i] = events[i + 1]
    BY HeadTailProperties
  <2> QED BY <1>2, <2>1
<1>5. after \in [1..n + 1 -> Nat] /\ \A i \in 1..n + 1 : after[i] = at[i + 1]
  BY <1>2, <1>3
<1> HIDE DEF rest, after
<1>6. ASSUME NEW i \in 1..n
      PROVE  after[i] <= after[i + 1] /\ Part(rest[i], p) = Run(after[i], after[i + 1])
  <2>1. PICK j \in 1..m : j = i + 1
    BY <1>2
  <2>2. i \in 1..n + 1 /\ i + 1 \in 1..n + 1
    OBVIOUS
  <2>3. at[j] <= at[j + 1] /\ Part(events[j], p) = Run(at[j], at[j + 1])
    BY <1>3
  <2>4. after[i] = at[j] /\ after[i + 1] = at[j + 1] /\ rest[i] = events[j]
    BY <1>4, <1>5, <2>1, <2>2
  <2> QED BY <2>3, <2>4
<1>7. Cuts(rest, p, after)
  BY <1>4, <1>5, <1>6 DEF Cuts
<1>8. PICK b \in Nat : b = at[2]
  BY <1>2, <1>3
<1>9. after[1] = b /\ after[Len(rest) + 1] = c
  BY <1>1, <1>2, <1>4, <1>5, <1>8
<1>10. a <= b /\ Part(Head(events), p) = Run(a, b)
  <2>1. 1 \in 1..m
    BY <1>2
  <2> QED BY <1>1, <1>3, <1>4, <1>8, <2>1
<1>11. Feed(rest, p, b, c)
  BY <1>7, <1>9 DEF Feed
<1> QED BY <1>10, <1>11 DEF rest

\* Each buffer is in the replay once, so that it feeds each pane its buffer.
LEMMA ReplayFeeds ==
    ASSUME NEW full \in Seq(PaneIds), IsInjective(full), NEW p, NEW b \in Nat, NEW o \in Nat,
           b <= o, buffers[p] = Run(b, o),
           b = o \/ \E i \in 1..Len(full) : full[i] = p,
           NEW first, Part(first, p) = <<>>
    PROVE  Feed(<<first>> \o [i \in DOMAIN full |-> TerminalOutput(full[i], buffers[full[i]])],
                p, b, o)
<1> DEFINE replay == [i \in DOMAIN full |-> TerminalOutput(full[i], buffers[full[i]])]
           events == <<first>> \o replay
<1>1. PICK n \in Nat, m \in Nat : n = Len(full) /\ m = n + 1
  OBVIOUS
<1>2. Len(replay) = n /\ \A i \in 1..n : replay[i] = TerminalOutput(full[i], buffers[full[i]])
      /\ DOMAIN replay = 1..n
  BY <1>1
<1>3. Len(events) = m /\ events[1] = first /\ \A i \in 2..m : events[i] = replay[i - 1]
  <2> DEFINE T == {TerminalOutput(full[i], buffers[full[i]]) : i \in 1..n}
  <2>1. PICK r : r = replay /\ r \in Seq(T) /\ Len(r) = n
    <3>1. \A i \in 1..n : replay[i] \in T
      BY <1>2
    <3>2. replay = [i \in 1..n |-> replay[i]]
      BY <1>1
    <3> HIDE DEF T, replay
    <3>3. replay \in Seq(T) /\ Len(replay) = n
      BY <1>1, <3>1, <3>2
    <3> QED BY <3>3
  <2> HIDE DEF T
  <2>2. /\ Len(<<first>> \o r) = 1 + n /\ (<<first>> \o r)[1] = first
        /\ \A i \in 2..1 + n : (<<first>> \o r)[i] = r[i - 1]
    BY <2>1
  <2> QED BY <1>1, <2>1, <2>2
<1> DEFINE Past(i) == \E j \in 1..n : full[j] = p /\ i > j + 1
           at      == [i \in 1..m + 1 |-> IF Past(i) THEN o ELSE b]
<1>4. \A i \in 1..m + 1 : at[i] = IF Past(i) THEN o ELSE b
  OBVIOUS
<1>5. at \in [1..m + 1 -> Nat]
  OBVIOUS
<1>6. \A i, j \in 1..n : full[i] = p /\ full[j] = p => i = j
  BY <1>1 DEF IsInjective
<1>7. Run(b, b) = <<>> /\ Run(o, o) = <<>>
  BY EmptyRun
<1> HIDE DEF replay, events, at
<1>8. ASSUME NEW i \in 1..m PROVE at[i] <= at[i + 1] /\ Part(events[i], p) = Run(at[i], at[i + 1])
  <2>1. i \in 1..m + 1 /\ i + 1 \in 1..m + 1
    BY <1>1
  <2>2. at[i] = (IF Past(i) THEN o ELSE b) /\ at[i + 1] = (IF Past(i + 1) THEN o ELSE b)
    BY <1>4, <2>1
  <2>3. Past(i) => Past(i + 1)
    BY <1>1
  <2>4. CASE i = 1
    <3>1. ~Past(i) /\ ~Past(i + 1)
      BY <1>1, <2>4
    <3> QED BY <1>3, <1>7, <2>2, <2>4, <3>1
  <2>5. CASE i # 1
    <3>1. PICK k \in 1..n : i = k + 1
      <4>1. i - 1 \in 1..n /\ i = (i - 1) + 1
        BY <1>1, <2>5
      <4> QED BY <4>1
    <3>2. events[i] = TerminalOutput(full[k], buffers[full[k]])
      <4>1. events[i] = replay[i - 1] /\ i - 1 = k
        BY <1>1, <1>3, <3>1
      <4> QED BY <1>2, <4>1
    <3>3. Part(events[i], p) = IF full[k] = p THEN Run(b, o) ELSE <<>>
      BY <3>2 DEF Part, TerminalOutput
    <3>4. CASE full[k] = p
      <4>1. ~Past(i)
        BY <1>6, <3>1, <3>4
      <4>2. Past(i + 1)
        BY <3>1, <3>4
      <4> QED BY <2>2, <3>3, <3>4, <4>1, <4>2
    <3>5. CASE full[k] # p
      <4>1. Past(i + 1) => Past(i)
        <5>1. ASSUME NEW j \in 1..n, full[j] = p, i + 1 > j + 1 PROVE i > j + 1
          <6>1. j # k
            BY <3>5, <5>1
          <6> QED BY <1>1, <3>1, <5>1, <6>1
        <5> QED BY <5>1
      <4>2. Part(events[i], p) = <<>>
        BY <3>3, <3>5
      <4> QED BY <1>7, <2>2, <2>3, <4>1, <4>2
    <3> QED BY <3>4, <3>5
  <2> QED BY <2>4, <2>5
<1>9. Cuts(events, p, at)
  BY <1>3, <1>5, <1>8 DEF Cuts
<1>10. at[1] = b /\ at[Len(events) + 1] = o
  <2>1. 1 \in 1..m + 1 /\ m + 1 \in 1..m + 1 /\ ~Past(1)
    BY <1>1
  <2>2. Past(m + 1) \/ b = o
    BY <1>1
  <2> QED BY <1>3, <1>4, <2>1, <2>2
<1> QED BY <1>9, <1>10 DEF Feed, events, replay

----
(* The streams are kept *)

\* A pane's buffer is the newest of what its shell has written.
Kept(p) == \E b \in Nat : b <= output[p] /\ buffers[p] = Run(b, output[p])

\* What a terminal was fed is followed by what the queue has for it, and that
\* by the shell's next chunk.
Flow(p) ==
    \E a, b \in Nat :
       /\ a <= b /\ Feed(queue, p, b, output[p])
       /\ p \in DOMAIN terms => terms[p].text = Run(a, b)

Streams ==
    /\ output \in [PaneIds -> Nat] /\ buffers = [p \in PaneIds |-> buffers[p]]
    /\ \A p \in PaneIds : Kept(p) /\ Flow(p)

\* A step that feeds p nothing and queues nothing for it.
LEMMA FlowStays ==
    ASSUME EventsOK(queue), NEW p, output[p] \in Nat, Flow(p), output'[p] = output[p],
           UNCHANGED queue \/ (\E e : Part(e, p) = <<>> /\ queue' = Append(queue, e)),
           p \in DOMAIN terms' =>
               \/ terms'[p].text = <<>>
               \/ p \in DOMAIN terms /\ terms'[p].text = terms[p].text
    PROVE  Flow(p)'
<1>1. PICK a \in Nat, b \in Nat :
         /\ a <= b /\ Feed(queue, p, b, output[p])
         /\ p \in DOMAIN terms => terms[p].text = Run(a, b)
  BY DEF Flow
<1>2. PICK S : queue \in Seq(S)
  BY DEF EventsOK
<1>3. Feed(queue', p, b, output'[p])
  <2>1. CASE UNCHANGED queue
    BY <1>1, <2>1
  <2>2. ASSUME NEW e, Part(e, p) = <<>>, queue' = Append(queue, e) PROVE Feed(queue', p, b, output'[p])
    <3>1. PICK o \in Nat : o = output[p]
      OBVIOUS
    <3>2. Part(e, p) = Run(o, o) /\ o <= o
      BY <2>2, EmptyRun
    <3>3. Feed(queue, p, b, o)
      BY <1>1, <3>1
    <3>4. Feed(Append(queue, e), p, b, o)
      BY <1>2, <3>2, <3>3, FeedMore
    <3> QED BY <2>2, <3>1, <3>4
  <2> QED BY <2>1, <2>2
<1>4. CASE p \in DOMAIN terms' /\ terms'[p].text = <<>>
  <2>1. b <= b /\ Feed(queue', p, b, output'[p]) /\ terms'[p].text = Run(b, b)
    BY <1>3, <1>4, EmptyRun
  <2> QED BY <2>1 DEF Flow
<1>5. CASE ~(p \in DOMAIN terms' /\ terms'[p].text = <<>>)
  <2>1. p \in DOMAIN terms' => terms'[p].text = Run(a, b)
    BY <1>1, <1>5
  <2> QED BY <1>1, <1>3, <2>1 DEF Flow
<1> QED BY <1>4, <1>5

\* The terminal of p goes on from a chunk it was at.
Grows(p) ==
    \E a, b, c \in Nat :
       a <= b /\ b <= c /\ terms[p].text = Run(a, b) /\ terms'[p].text = Run(a, c)

\* A step that takes the first event and feeds it to the terminal of p.
LEMMA FlowReceived ==
    ASSUME EventsOK(queue), queue # <<>>, queue' = Tail(queue),
           NEW p, Flow(p), output'[p] = output[p],
           p \in DOMAIN terms' =>
               \/ terms'[p].text = <<>>
               \/ p \in DOMAIN terms /\ terms'[p].text = terms[p].text \o Part(Head(queue), p)
    PROVE  /\ Flow(p)'
           /\ (p \in DOMAIN terms /\ terms'[p].text = terms[p].text \o Part(Head(queue), p)) => Grows(p)
<1>1. PICK a \in Nat, b \in Nat :
         /\ a <= b /\ Feed(queue, p, b, output[p])
         /\ p \in DOMAIN terms => terms[p].text = Run(a, b)
  BY DEF Flow
<1>2. PICK S : queue \in Seq(S)
  BY DEF EventsOK
<1>3. PICK c \in Nat : /\ b <= c /\ Part(Head(queue), p) = Run(b, c)
                       /\ Feed(Tail(queue), p, c, output[p])
  BY <1>1, <1>2, FeedFirst
<1>4. Run(a, b) \o Run(b, c) = Run(a, c) /\ a <= c /\ Run(c, c) = <<>> /\ c <= c
  <2>1. a <= c
    BY <1>1, <1>3
  <2>2. Run(a, b) \o Run(b, c) = Run(a, c)
    BY <1>1, <1>3, RunOfRuns
  <2>3. Run(c, c) = <<>> /\ c <= c
    BY EmptyRun
  <2> QED BY <2>1, <2>2, <2>3
<1>5. Feed(queue', p, c, output'[p])
  BY <1>3
<1>6. Flow(p)'
  <2>1. CASE p \in DOMAIN terms' /\ terms'[p].text = <<>>
    <3>1. c <= c /\ Feed(queue', p, c, output'[p]) /\ terms'[p].text = Run(c, c)
      BY <1>4, <1>5, <2>1
    <3> QED BY <3>1 DEF Flow
  <2>2. CASE ~(p \in DOMAIN terms' /\ terms'[p].text = <<>>)
    <3>1. p \in DOMAIN terms' => terms'[p].text = Run(a, c)
      BY <1>1, <1>3, <1>4, <2>2
    <3> QED BY <1>4, <1>5, <3>1 DEF Flow
  <2> QED BY <2>1, <2>2
<1>7. ASSUME p \in DOMAIN terms, terms'[p].text = terms[p].text \o Part(Head(queue), p)
      PROVE  Grows(p)
  <2>1. terms[p].text = Run(a, b) /\ terms'[p].text = Run(a, c)
    BY <1>1, <1>3, <1>4, <1>7
  <2> QED BY <1>1, <1>3, <2>1 DEF Grows
<1> QED BY <1>6, <1>7

LEMMA SameTextGrows ==
    ASSUME NEW p \in DOMAIN terms, Flow(p), terms'[p].text = terms[p].text PROVE Grows(p)
<1>1. PICK a \in Nat, b \in Nat : a <= b /\ terms[p].text = Run(a, b)
  BY DEF Flow
<1>2. b <= b
  OBVIOUS
<1> QED BY <1>1, <1>2 DEF Grows

\* The steps of the daemon that are not about output.
LEMMA SilentStep ==
    ASSUME IInv, Streams, UNCHANGED <<output, terms>>, UNCHANGED buffers \/ RemoveBuffers,
           UNCHANGED queue \/ \E e : e.kind # "Output" /\ Emit(e)
    PROVE  Streams'
<1>1. UNCHANGED queue \/ \E e : e.kind # "Output" /\ queue' = Append(queue, e)
  BY DEF Emit
<1>2. ASSUME NEW p \in PaneIds PROVE Flow(p)'
  <2>1. UNCHANGED queue \/ \E e : Part(e, p) = <<>> /\ queue' = Append(queue, e)
    BY <1>1 DEF Part
  <2> QED BY <2>1, FlowStays DEF IInv, Lines, Streams
<1>3. ASSUME NEW p \in PaneIds PROVE Kept(p)'
  <2>1. buffers'[p] = buffers[p] \/ buffers'[p] = <<>>
    BY DEF RemoveBuffers
  <2>2. PICK o \in Nat : o = output[p]
    BY DEF Streams
  <2>3. o <= o /\ <<>> = Run(o, o)
    BY EmptyRun
  <2>4. PICK b \in Nat : b <= o /\ buffers[p] = Run(b, o)
    BY <2>2 DEF Streams, Kept
  <2>5. output'[p] = o
    BY <2>2
  <2>6. \E c \in Nat : c <= o /\ buffers'[p] = Run(c, o)
    BY <2>1, <2>3, <2>4
  <2> QED BY <2>5, <2>6 DEF Kept
<1>4. buffers' = [p \in PaneIds |-> buffers'[p]]
  BY DEF RemoveBuffers, Streams
<1> QED BY <1>2, <1>3, <1>4 DEF Streams

LEMMA OutputStreams ==
    ASSUME IInv, Streams, NEW q \in PaneIds, Output(q) PROVE Streams'
<1> USE DEF IInv
<1>1. /\ output' = [output EXCEPT ![q] = @ + 1]
      /\ buffers' = [buffers EXCEPT ![q] = Append(@, output'[q])]
      /\ Emit(TerminalOutput(q, <<output'[q]>>)) /\ (attached => HasRoom)
      /\ terms' = terms
  BY DEF Output, uiVars
<1>2. PICK o \in Nat : o = output[q]
  BY DEF Streams
<1>3. PICK n \in Nat : n = o + 1
  OBVIOUS
<1>4. /\ output' \in [PaneIds -> Nat] /\ output'[q] = n
      /\ \A p \in PaneIds \ {q} : output'[p] = output[p] /\ buffers'[p] = buffers[p]
      /\ buffers'[q] = Append(buffers[q], n) /\ buffers' = [p \in PaneIds |-> buffers'[p]]
  BY <1>1, <1>2, <1>3 DEF Streams
<1>5. IF attached THEN queue' = Append(queue, TerminalOutput(q, <<n>>)) ELSE queue' = queue
  <2>1. Emit(TerminalOutput(q, <<n>>))
    BY <1>1, <1>4
  <2>2. HasRoom <=> attached
    BY <1>1 DEF HasRoom
  <2> QED BY <2>1, <2>2 DEF Emit
<1>6. ASSUME NEW p \in PaneIds PROVE Kept(p)'
  <2>1. CASE p = q
    <3>1. PICK b \in Nat : b <= o /\ buffers[q] = Run(b, o)
      BY <1>2 DEF Streams, Kept
    <3>2. Append(Run(b, o), o + 1) = Run(b, o + 1)
      BY <3>1, OneRun
    <3>3. b <= n /\ buffers'[q] = Run(b, n)
      BY <1>3, <1>4, <3>1, <3>2
    <3> QED BY <1>4, <2>1, <3>3 DEF Kept
  <2>2. CASE p # q
    BY <1>4, <2>2 DEF Streams, Kept
  <2> QED BY <2>1, <2>2
<1>7. ASSUME NEW p \in PaneIds PROVE Flow(p)'
  <2>1. CASE p # q
    <3>1. Part(TerminalOutput(q, <<n>>), p) = <<>>
      BY <2>1 DEF Part, TerminalOutput
    <3>2. UNCHANGED queue \/ \E e : Part(e, p) = <<>> /\ queue' = Append(queue, e)
      BY <1>5, <3>1
    <3> QED BY <1>1, <1>4, <2>1, <3>2, FlowStays DEF Lines, Streams
  <2>2. CASE p = q /\ attached
    <3>1. Part(TerminalOutput(q, <<n>>), p) = Run(o, n) /\ o <= n
      <4>1. Run(o, o + 1) = <<o + 1>>
        <5>1. o <= o
          OBVIOUS
        <5> QED BY <5>1, OneRun
      <4> QED BY <1>3, <2>2, <4>1 DEF Part, TerminalOutput
    <3>2. PICK a \in Nat, b \in Nat :
             /\ a <= b /\ Feed(queue, p, b, o)
             /\ p \in DOMAIN terms => terms[p].text = Run(a, b)
      BY <1>2, <2>2 DEF Streams, Flow
    <3>3. PICK S : queue \in Seq(S)
      BY DEF Lines, EventsOK
    <3>4. Feed(queue', p, b, n)
      BY <1>5, <2>2, <3>1, <3>2, <3>3, FeedMore
    <3> QED BY <1>1, <1>4, <2>2, <3>2, <3>4 DEF Flow
  <2>3. CASE p = q /\ ~attached
    <3>1. queue' = <<>> /\ p \notin DOMAIN terms'
      BY <1>1, <1>5, <2>3 DEF Attaching
    <3>2. Feed(queue', p, n, output'[p]) /\ n <= n
      BY <1>4, <2>3, <3>1, FeedNothing
    <3> QED BY <3>1, <3>2 DEF Flow
  <2> QED BY <2>1, <2>2, <2>3
<1> QED BY <1>4, <1>6, <1>7 DEF Streams

LEMMA ActivateStreams ==
    ASSUME IInv, Streams, AttachActivates PROVE Streams'
<1> USE DEF IInv
<1> DEFINE Filled == {p \in PaneIds : buffers[p] # <<>>}
           full   == SetToSeq(Filled)
           replay == [i \in DOMAIN full |-> TerminalOutput(full[i], buffers[full[i]])]
           first  == [kind |-> "Attached", snap |-> copies["client"]]
<1>1. /\ full \in Seq(Filled) /\ IsInjective(full)
      /\ \A e \in Filled : \E i \in 1..Len(full) : full[i] = e
  BY Constants, FS_Subset, SetToSeqIsSeq
<1>2. /\ queue' = <<first>> \o replay /\ UNCHANGED <<output, buffers, terms>>
      /\ copies["client"] # None /\ holder # "client"
  BY DEF AttachActivates, uiVars
<1>3. DOMAIN terms = {}
  BY <1>2 DEF Attaching
<1>4. full \in Seq(PaneIds) /\ \A p \in PaneIds : buffers[p] # <<>> => p \in Filled
  BY <1>1
<1>5. \A p : Part(first, p) = <<>>
  BY DEF Part
<1> HIDE DEF full, first, Filled
<1>6. ASSUME NEW p \in PaneIds PROVE Flow(p)'
  <2>1. PICK o \in Nat, b \in Nat : o = output[p] /\ b <= o /\ buffers[p] = Run(b, o)
    BY DEF Streams, Kept
  <2>2. b = o \/ \E i \in 1..Len(full) : full[i] = p
    <3>1. CASE buffers[p] # <<>>
      BY <1>1, <1>4, <3>1
    <3>2. CASE buffers[p] = <<>>
      <4>1. Len(Run(b, o)) = o - b
        BY <2>1, RunIsChunks
      <4>2. Len(Run(b, o)) = 0
        BY <2>1, <3>2
      <4> QED BY <4>1, <4>2
    <3> QED BY <3>1, <3>2
  <2>3. Feed(queue', p, b, o)
    BY <1>1, <1>2, <1>4, <1>5, <2>1, <2>2, ReplayFeeds
  <2>4. b <= b /\ Feed(queue', p, b, output'[p]) /\ p \notin DOMAIN terms'
    BY <1>2, <1>3, <2>1, <2>3
  <2> QED BY <2>4 DEF Flow
<1>7. ASSUME NEW p \in PaneIds PROVE Kept(p)'
  BY <1>2 DEF Streams, Kept
<1> QED BY <1>2, <1>6, <1>7 DEF Streams

\* What a step must do to a terminal that it keeps.
Continues == \A p \in DOMAIN terms \cap DOMAIN terms' : Grows(p)

LEMMA SameTextContinues ==
    ASSUME IInv, Streams,
           \A p \in DOMAIN terms \cap DOMAIN terms' : terms'[p].text = terms[p].text
    PROVE  Continues
<1>1. DOMAIN terms \subseteq PaneIds
  <2>1. ASSUME NEW w \in DOMAIN view.ws PROVE ToSet(view.ws[w].layout) \subseteq PaneIds
    <3>1. view.ws[w].layout \in Seq(PaneIds)
      BY DEF IInv, Window, Shown
    <3> QED BY <3>1, ToSetRange
  <2> QED BY <2>1 DEF IInv, Window, Leaves
<1> QED BY <1>1, SameTextGrows DEF Continues, Streams

\* The steps of the application that take no event.
LEMMA StillStreams ==
    ASSUME IInv, Streams, UNCHANGED <<output, buffers, queue>>,
           \A p \in DOMAIN terms' : p \in DOMAIN terms /\ terms'[p].text = terms[p].text
    PROVE  Streams' /\ Continues
<1>1. ASSUME NEW p \in PaneIds PROVE Flow(p)'
  BY FlowStays DEF IInv, Lines, Streams
<1>2. ASSUME NEW p \in PaneIds PROVE Kept(p)'
  BY DEF Streams, Kept
<1>3. Streams'
  BY <1>1, <1>2 DEF Streams
<1> QED BY <1>3, SameTextContinues

\* The steps that take one.
LEMMA ReceivedStreams ==
    ASSUME IInv, Streams, UNCHANGED <<output, buffers>>, queue # <<>>, queue' = Tail(queue),
           \A p \in DOMAIN terms' :
              \/ p \notin DOMAIN terms /\ terms'[p].text = <<>>
              \/ p \in DOMAIN terms /\ terms'[p].text = terms[p].text \o Part(Head(queue), p)
    PROVE  Streams' /\ Continues
<1>1. ASSUME NEW p \in PaneIds
      PROVE  Flow(p)' /\ (p \in DOMAIN terms \cap DOMAIN terms' => Grows(p))
  BY FlowReceived DEF IInv, Lines, Streams
<1>2. ASSUME NEW p \in PaneIds PROVE Kept(p)'
  BY DEF Streams, Kept
<1>3. DOMAIN terms \subseteq PaneIds
  <2>1. ASSUME NEW w \in DOMAIN view.ws PROVE ToSet(view.ws[w].layout) \subseteq PaneIds
    <3>1. view.ws[w].layout \in Seq(PaneIds)
      BY DEF IInv, Window, Shown
    <3> QED BY <3>1, ToSetRange
  <2> QED BY <2>1 DEF IInv, Window, Leaves
<1>4. Streams'
  BY <1>1, <1>2 DEF Streams
<1> QED BY <1>1, <1>3, <1>4 DEF Continues

LEMMA FrameStreams == ASSUME IInv, Streams, Frame PROVE Streams' /\ Continues
<1> DEFINE e == Head(queue)
<1>1. UNCHANGED <<output, buffers>> /\ queue # <<>> /\ queue' = Tail(queue)
  BY DEF Frame, ReceiveSnapshot, ReceiveForPane, ReceiveError, Receive, daemonVars
<1>2. ASSUME NEW p \in DOMAIN terms, ~(e.kind = "Output" /\ e.pane = p)
      PROVE  terms[p].text \o Part(e, p) = terms[p].text
  <2>1. PICK a \in Nat, b \in Nat : a <= b /\ terms[p].text = Run(a, b)
    <3>1. p \in PaneIds
      <4>1. PICK w \in DOMAIN view.ws : p \in ToSet(view.ws[w].layout)
        BY DEF IInv, Window, Leaves
      <4>2. view.ws[w].layout \in Seq(PaneIds)
        BY DEF IInv, Window, Shown
      <4> QED BY <4>1, <4>2, ToSetRange
    <3> QED BY <3>1 DEF Streams, Flow
  <2>2. terms[p].text \in Seq(Nat)
    BY <2>1, RunIsChunks
  <2>3. Part(e, p) = <<>>
    BY <1>2 DEF Part
  <2>4. PICK t \in Seq(Nat) : t = terms[p].text
    BY <2>2
  <2>5. t \o <<>> = t
    BY ConcatEmptySeq
  <2> QED BY <2>3, <2>4, <2>5
<1>3. CASE ReceiveSnapshot
  <2> DEFINE s == Head(queue).snap
  <2>1. e.kind # "Output"
    BY <1>3 DEF ReceiveSnapshot, Receive
  <2>2. terms' = [p \in Leaves(s) \cap DOMAIN s.panes |->
                    IF p \in DOMAIN terms THEN [terms[p] EXCEPT !.status = s.panes[p].status]
                    ELSE NewTerminal(s.panes[p])]
    BY <1>3 DEF ReceiveSnapshot, ApplySnapshot
  <2>3. ASSUME NEW p \in DOMAIN terms'
        PROVE  \/ p \notin DOMAIN terms /\ terms'[p].text = <<>>
               \/ p \in DOMAIN terms /\ terms'[p].text = terms[p].text \o Part(e, p)
    <3>1. CASE p \in DOMAIN terms
      <4>1. terms'[p] = [terms[p] EXCEPT !.status = s.panes[p].status] /\ TerminalOK(terms[p])
        BY <2>2, <2>3, <3>1 DEF IInv, Window
      <4>2. terms'[p].text = terms[p].text
        BY <4>1 DEF TerminalOK
      <4> QED BY <1>2, <2>1, <3>1, <4>2
    <3>2. CASE p \notin DOMAIN terms
      <4>1. terms'[p] = NewTerminal(s.panes[p])
        BY <2>2, <2>3, <3>2
      <4>2. NewTerminal(s.panes[p]).text = <<>>
        BY DEF NewTerminal
      <4> QED BY <3>2, <4>1, <4>2
    <3> QED BY <3>1, <3>2
  <2> QED BY <1>1, <2>3, ReceivedStreams
<1>4. CASE ReceiveForPane
  <2>1. terms' = [p \in DOMAIN terms |->
                    IF p # e.pane THEN terms[p]
                    ELSE IF e.kind = "Output" THEN [terms[p] EXCEPT !.text = @ \o e.data]
                    ELSE [terms[p] EXCEPT !.status = e.status]]
    BY <1>4 DEF ReceiveForPane
  <2>2. ASSUME NEW p \in DOMAIN terms'
        PROVE  p \in DOMAIN terms /\ terms'[p].text = terms[p].text \o Part(e, p)
    <3>1. p \in DOMAIN terms
      BY <2>1, <2>2
    <3>2. TerminalOK(terms[p])
      BY <3>1 DEF IInv, Window
    <3>3. CASE e.kind = "Output" /\ e.pane = p
      <4>1. terms'[p] = [terms[p] EXCEPT !.text = @ \o e.data]
        BY <2>1, <3>1, <3>3
      <4>2. terms'[p].text = terms[p].text \o e.data
        BY <3>2, <4>1 DEF TerminalOK
      <4> QED BY <3>1, <3>3, <4>2 DEF Part
    <3>4. CASE ~(e.kind = "Output" /\ e.pane = p)
      <4>1. terms'[p] = terms[p] \/ terms'[p] = [terms[p] EXCEPT !.status = e.status]
        BY <2>1, <3>1, <3>4
      <4>2. terms'[p].text = terms[p].text
        BY <3>2, <4>1 DEF TerminalOK
      <4> QED BY <1>2, <3>1, <3>4, <4>2
    <3> QED BY <3>3, <3>4
  <2> QED BY <1>1, <2>2, ReceivedStreams
<1>5. CASE ReceiveError
  <2>1. terms' = terms /\ e.kind # "Output"
    BY <1>5 DEF ReceiveError, Receive
  <2>2. ASSUME NEW p \in DOMAIN terms'
        PROVE  p \in DOMAIN terms /\ terms'[p].text = terms[p].text \o Part(e, p)
    BY <1>2, <2>1
  <2> QED BY <1>1, <2>2, ReceivedStreams
<1> QED BY <1>3, <1>4, <1>5 DEF Frame

LEMMA StepStreams == ASSUME IInv, Streams, [Next]_vars PROVE Streams' /\ Continues
<1>1. ASSUME UNCHANGED <<output, terms>>, UNCHANGED buffers \/ RemoveBuffers,
             UNCHANGED queue \/ \E e : e.kind # "Output" /\ Emit(e)
      PROVE  Streams' /\ Continues
  BY <1>1, SilentStep, SameTextContinues
<1>2. CASE UNCHANGED vars
  BY <1>1, <1>2 DEF vars, daemonVars, uiVars
<1>3. ASSUME NEW t \in Publishers, CopyToPublish(t) PROVE Streams' /\ Continues
  BY <1>1, <1>3 DEF CopyToPublish, uiVars
<1>4. ASSUME NEW t \in Publishers, Publish(t) PROVE Streams' /\ Continues
  <2>1. Emit(Updated(copies[t])) /\ Updated(copies[t]).kind # "Output"
    BY <1>4 DEF Publish, Updated
  <2> QED BY <1>1, <1>4, <2>1 DEF Publish, uiVars
<1>5. CASE ObserveLabel
  BY <1>1, <1>5 DEF ObserveLabel, uiVars
<1>6. ASSUME NEW p \in PaneIds, Output(p) PROVE Streams' /\ Continues
  <2>1. terms' = terms
    BY <1>6 DEF Output, uiVars
  <2> QED BY <1>6, <2>1, OutputStreams, SameTextContinues
<1>7. ASSUME NEW p \in PaneIds, Exit(p) PROVE Streams' /\ Continues
  <2>1. Emit(PaneStatus(p, "Exited")) /\ PaneStatus(p, "Exited").kind # "Output"
    BY <1>7 DEF Exit, PaneStatus
  <2> QED BY <1>1, <1>7, <2>1 DEF Exit, uiVars
<1>8. ASSUME NEW p \in PaneIds, CloseExited(p) PROVE Streams' /\ Continues
  BY <1>1, <1>8 DEF CloseExited, uiVars
<1>9. CASE Serve
  <2>1. UNCHANGED queue \/ \E e : e.kind # "Output" /\ Emit(e)
    <3>1. Error.kind # "Output" /\ PaneStatus(FreshPane, "Running").kind # "Output"
      BY DEF Error, PaneStatus
    <3>2. UNCHANGED queue \/ Emit(Error) \/ Emit(PaneStatus(FreshPane, "Running"))
      BY <1>9 DEF Serve
    <3> QED BY <3>1, <3>2
  <2>2. UNCHANGED <<output, terms>> /\ (UNCHANGED buffers \/ RemoveBuffers)
    BY <1>9 DEF Serve, uiVars
  <2> QED BY <1>1, <2>1, <2>2
<1>10. CASE AttachCopies
  BY <1>1, <1>10 DEF AttachCopies, uiVars
<1>11. CASE AttachActivates
  <2>1. terms' = terms
    BY <1>11 DEF AttachActivates, uiVars
  <2> QED BY <1>11, <2>1, ActivateStreams, SameTextContinues
<1>12. CASE Frame
  BY <1>12, FrameStreams
<1>13. ASSUME UNCHANGED <<daemonVars, queue>>,
              \/ UNCHANGED terms
              \/ \E p \in DOMAIN terms, c \in Closing : terms' = [terms EXCEPT ![p].closing = c]
              \/ \E p \in DOMAIN terms : terms' = [terms EXCEPT ![p].size = grid]
       PROVE  Streams' /\ Continues
  <2>1. UNCHANGED <<output, buffers, queue>>
    BY <1>13 DEF daemonVars
  <2>2. \A p \in DOMAIN terms : TerminalOK(terms[p])
    BY DEF IInv, Window
  <2>3. CASE UNCHANGED terms
    BY <2>1, <2>3, StillStreams
  <2>4. ASSUME NEW q \in DOMAIN terms, NEW c \in Closing, terms' = [terms EXCEPT ![q].closing = c]
        PROVE  Streams' /\ Continues
    <3>1. \A p \in DOMAIN terms' : p \in DOMAIN terms /\ terms'[p].text = terms[p].text
      BY <2>2, <2>4 DEF TerminalOK
    <3> QED BY <2>1, <3>1, StillStreams
  <2>5. ASSUME NEW q \in DOMAIN terms, terms' = [terms EXCEPT ![q].size = grid]
        PROVE  Streams' /\ Continues
    <3>1. \A p \in DOMAIN terms' : p \in DOMAIN terms /\ terms'[p].text = terms[p].text
      BY <2>2, <2>5 DEF TerminalOK
    <3> QED BY <2>1, <3>1, StillStreams
  <2> QED BY <1>13, <2>3, <2>4, <2>5
<1>14. ASSUME NEW p \in PaneIds, FinishClose(p) PROVE Streams' /\ Continues
  BY <1>13, <1>14 DEF FinishClose, Closing
<1>15. ASSUME NEW p \in PaneIds, Fit(p) PROVE Streams' /\ Continues
  BY <1>13, <1>15 DEF Fit, Misfit
<1>16. CASE UserActs
  <2>1. UNCHANGED <<daemonVars, queue>>
    BY <1>16 DEF UserActs, UserCreatesWorkspace, UserClosesWorkspace, UserOpensPane,
         UserClosesPane, UserClicksPane, UserMovesFocus, UserPicksWorkspace,
         UserTurnsWorkspace, UserDragsDivider, UserSizesWindow, Acts
  <2>2. UserClosesPane \/ UNCHANGED terms
    BY <1>16 DEF UserActs, UserCreatesWorkspace, UserClosesWorkspace, UserOpensPane,
         UserClicksPane, UserMovesFocus, UserPicksWorkspace,
         UserTurnsWorkspace, UserDragsDivider, UserSizesWindow, uiVars
  <2> QED BY <1>13, <2>1, <2>2 DEF UserClosesPane, Closing
<1> QED BY <1>2, <1>3, <1>4, <1>5, <1>6, <1>7, <1>8, <1>9, <1>10, <1>11, <1>12, <1>14, <1>15, <1>16
        DEF Next, Publishing, Attach

LEMMA InitStreams == ASSUME Init PROVE Streams
<1>1. /\ output = [p \in PaneIds |-> 0] /\ buffers = [p \in PaneIds |-> <<>>]
      /\ queue = <<>> /\ terms = [p \in {} |-> None]
  BY DEF Init
<1>2. PICK z \in Nat : z = 0 /\ z <= z
  OBVIOUS
<1>3. ASSUME NEW p \in PaneIds PROVE Kept(p)
  <2>1. z <= output[p] /\ buffers[p] = Run(z, output[p])
    BY <1>1, <1>2, EmptyRun
  <2> QED BY <2>1 DEF Kept
<1>4. ASSUME NEW p \in PaneIds PROVE Flow(p)
  <2>1. Feed(queue, p, z, output[p])
    BY <1>1, <1>2, FeedNothing
  <2>2. p \notin DOMAIN terms
    BY <1>1
  <2> QED BY <1>2, <2>1, <2>2 DEF Flow
<1> QED BY <1>1, <1>3, <1>4 DEF Streams

LEMMA GrowsMeans ==
    ASSUME NEW p, Grows(p)
    PROVE  LET text == terms'[p].text
           IN  /\ IsPrefix(terms[p].text, text)
               /\ \A i \in 2..Len(text) : text[i] = text[i - 1] + 1
<1>1. PICK a \in Nat, b \in Nat, c \in Nat :
         a <= b /\ b <= c /\ terms[p].text = Run(a, b) /\ terms'[p].text = Run(a, c)
  BY DEF Grows
<1>2. a <= c /\ c <= c
  BY <1>1
<1>3. /\ IsPrefix(Run(a, b), Run(a, c))
      /\ \A i \in 2..Len(Run(a, c)) : Run(a, c)[i] = Run(a, c)[i - 1] + 1
  BY <1>1, <1>2, RunStarts
<1> QED BY <1>1, <1>3

\* apply_snapshot keeps the terminals of the panes that stay and drain_daemon_events
\* feeds them in order: the replay of Attach and the chunks that follow it come
\* without a gap or a repetition, whatever snapshots come in between.
THEOREM OutputContinues == Spec => TerminalsContinue
<1>1. Init => IInv /\ Streams
  BY InitHolds, InitStreams
<1>2. IInv /\ Streams /\ [Next]_vars => (IInv /\ Streams)'
  BY NextHolds, StepStreams
<1>3. IInv /\ Streams /\ [Next]_vars =>
        [\A p \in DOMAIN terms \cap DOMAIN terms' :
            LET text == terms'[p].text
            IN  /\ IsPrefix(terms[p].text, text)
                /\ \A i \in 2..Len(text) : text[i] = text[i - 1] + 1]_vars
  BY StepStreams, GrowsMeans DEF Continues
<1> QED BY <1>1, <1>2, <1>3, PTL DEF Spec, TerminalsContinue

----
(* Coming to rest: what follows from what is queued *)

HasSnapshot(e) == e.kind \in {"Attached", "Updated"}

NoSnapshotIn(q) == \A e \in ToSet(q) : ~HasSnapshot(e)

\* s is the last snapshot in q.
LastIn(q, s) ==
    \E i \in 1..Len(q) :
       /\ HasSnapshot(q[i]) /\ q[i].snap = s
       /\ \A j \in i + 1..Len(q) : ~HasSnapshot(q[j])

\* Once a snapshot in q has pane p, or with known at once, they all have it.
StaysIn(q, p, known) ==
    \A j \in 1..Len(q) :
       /\ HasSnapshot(q[j])
       /\ known \/ \E i \in 1..j : HasSnapshot(q[i]) /\ p \in DOMAIN q[i].snap.panes
       => p \in DOMAIN q[j].snap.panes

Resizes(r, p) == r.kind = "Resize" /\ r.pane = p

\* The requests in q take the size of pane p from one to another.
SizesTo(q, p, from, to) ==
    \/ from = to /\ \A r \in ToSet(q) : ~Resizes(r, p)
    \/ \E i \in 1..Len(q) :
          /\ Resizes(q[i], p) /\ q[i].size = to
          /\ \A j \in i + 1..Len(q) : ~Resizes(q[j], p)

\* A sequence, longer by one at its end or shorter by one at its head.
LEMMA Longer ==
    ASSUME NEW S, NEW q \in Seq(S), NEW e
    PROVE  /\ ToSet(Append(q, e)) = ToSet(q) \cup {e}
           /\ Len(q) \in Nat /\ Len(Append(q, e)) = Len(q) + 1 /\ Append(q, e)[Len(q) + 1] = e
           /\ \A i \in 1..Len(q) : Append(q, e)[i] = q[i]
<1>1. q \in Seq(S \cup {e}) /\ e \in S \cup {e}
  OBVIOUS
<1>2. ToSet(Append(q, e)) = ToSet(q) \cup {e} /\ Len(Append(q, e)) = Len(q) + 1
  BY <1>1, AppendElements
<1> QED BY <1>1, <1>2, AppendProperties

LEMMA Shorter ==
    ASSUME NEW S, NEW q \in Seq(S), q # <<>>
    PROVE  /\ ToSet(q) = {Head(q)} \cup ToSet(Tail(q)) /\ Head(q) = q[1]
           /\ \E n \in Nat : /\ Len(Tail(q)) = n /\ Len(q) = n + 1
                             /\ \A i \in 1..n : Tail(q)[i] = q[i + 1]
<1>1. PICK t : t = Tail(q) /\ t \in Seq(S) /\ Head(q) = q[1]
               /\ Len(t) = Len(q) - 1 /\ \A i \in 1..Len(t) : t[i] = q[i + 1]
  <2>1. /\ Tail(q) \in Seq(S) /\ Head(q) = q[1] /\ Len(Tail(q)) = Len(q) - 1
        /\ \A i \in 1..Len(Tail(q)) : Tail(q)[i] = q[i + 1]
    BY HeadTailProperties
  <2> QED BY <2>1
<1>2. PICK n \in Nat : n = Len(t) /\ Len(q) = n + 1
  <2>1. PICK n \in Nat, m \in Nat : n = Len(t) /\ m = Len(q)
    BY <1>1, LenProperties
  <2>2. m = n + 1
    BY <1>1, <2>1
  <2> QED BY <2>1, <2>2
<1>3. \A i \in 1..n : t[i] = q[i + 1]
  BY <1>1, <1>2
<1>4. ToSet(q) = {q[1]} \cup ToSet(t)
  <2>1. ToSet(q) = {q[i] : i \in 1..n + 1} /\ ToSet(t) = {t[i] : i \in 1..n}
    BY <1>2 DEF ToSet
  <2>2. ASSUME NEW i \in 1..n + 1, i # 1 PROVE \E k \in 1..n : t[k] = q[i]
    <3>1. PICK k \in 1..n : i = k + 1
      <4>1. i - 1 \in 1..n /\ i = (i - 1) + 1
        BY <2>2
      <4> QED BY <4>1
    <3> QED BY <1>3, <3>1
  <2>3. ASSUME NEW i \in 1..n PROVE \E k \in 1..n + 1 : t[i] = q[k]
    <3>1. PICK k \in 1..n + 1 : k = i + 1
      OBVIOUS
    <3> QED BY <1>3, <3>1
  <2>4. 1 \in 1..n + 1
    OBVIOUS
  <2> QED BY <2>1, <2>2, <2>3, <2>4
<1> QED BY <1>1, <1>2, <1>3, <1>4

LEMMA LastAppend ==
    ASSUME NEW S, NEW q \in Seq(S), NEW e
    PROVE  /\ HasSnapshot(e) => LastIn(Append(q, e), e.snap)
           /\ ~HasSnapshot(e) => \A s : LastIn(q, s) => LastIn(Append(q, e), s)
<1> DEFINE r == Append(q, e)
<1>1. PICK n \in Nat : n = Len(q)
  BY Longer
<1>2. Len(r) = n + 1 /\ r[n + 1] = e /\ \A i \in 1..n : r[i] = q[i]
  BY <1>1, Longer
<1> HIDE DEF r
<1>3. ASSUME HasSnapshot(e) PROVE LastIn(r, e.snap)
  <2>1. n + 1 \in 1..Len(r) /\ \A j \in (n + 1) + 1..Len(r) : FALSE
    BY <1>2
  <2> QED BY <1>2, <1>3, <2>1 DEF LastIn
<1>4. ASSUME ~HasSnapshot(e), NEW s, LastIn(q, s) PROVE LastIn(r, s)
  <2>1. PICK i \in 1..n : /\ HasSnapshot(q[i]) /\ q[i].snap = s
                          /\ \A j \in i + 1..n : ~HasSnapshot(q[j])
    BY <1>1, <1>4 DEF LastIn
  <2>2. i \in 1..n + 1 /\ r[i] = q[i]
    BY <1>2
  <2>3. ASSUME NEW j \in i + 1..n + 1 PROVE ~HasSnapshot(r[j])
    <3>1. CASE j = n + 1
      BY <1>2, <1>4, <3>1
    <3>2. CASE j # n + 1
      <4>1. j \in i + 1..n /\ j \in 1..n
        BY <3>2
      <4> QED BY <1>2, <2>1, <4>1
    <3> QED BY <3>1, <3>2
  <2> QED BY <1>2, <2>1, <2>2, <2>3 DEF LastIn
<1> QED BY <1>3, <1>4 DEF r

LEMMA LastTail ==
    ASSUME NEW S, NEW q \in Seq(S), q # <<>>, NEW s, LastIn(q, s)
    PROVE  \/ LastIn(Tail(q), s)
           \/ HasSnapshot(Head(q)) /\ Head(q).snap = s /\ NoSnapshotIn(Tail(q))
<1>1. PICK n \in Nat : Len(Tail(q)) = n /\ Len(q) = n + 1 /\ \A i \in 1..n : Tail(q)[i] = q[i + 1]
  BY Shorter
<1>2. PICK i \in 1..n + 1 : /\ HasSnapshot(q[i]) /\ q[i].snap = s
                            /\ \A j \in i + 1..n + 1 : ~HasSnapshot(q[j])
  BY <1>1 DEF LastIn
<1>3. CASE i = 1
  <2>1. Head(q) = q[1] /\ Tail(q) \in Seq(S)
    BY Shorter, HeadTailProperties
  <2>2. \A j \in 1..n : ~HasSnapshot(Tail(q)[j])
    <3>1. ASSUME NEW j \in 1..n PROVE j + 1 \in i + 1..n + 1
      BY <1>3
    <3> QED BY <1>1, <1>2, <3>1
  <2>3. \A x \in ToSet(Tail(q)) : \E j \in 1..n : Tail(q)[j] = x
    BY <1>1, <2>1, ToSetRange
  <2>4. NoSnapshotIn(Tail(q))
    BY <2>2, <2>3 DEF NoSnapshotIn
  <2> QED BY <1>2, <1>3, <2>1, <2>4
<1>4. CASE i # 1
  <2>1. PICK k \in 1..n : i = k + 1
    <3>1. i - 1 \in 1..n /\ i = (i - 1) + 1
      BY <1>4
    <3> QED BY <3>1
  <2>2. HasSnapshot(Tail(q)[k]) /\ Tail(q)[k].snap = s
    BY <1>1, <1>2, <2>1
  <2>3. ASSUME NEW j \in k + 1..n PROVE ~HasSnapshot(Tail(q)[j])
    <3>1. j \in 1..n /\ j + 1 \in i + 1..n + 1
      BY <2>1
    <3> QED BY <1>1, <1>2, <3>1
  <2> QED BY <1>1, <2>2, <2>3 DEF LastIn
<1> QED BY <1>3, <1>4

LEMMA StaysAppend ==
    ASSUME NEW S, NEW q \in Seq(S), NEW e, NEW p, NEW known, StaysIn(q, p, known),
           HasSnapshot(e) => p \in DOMAIN e.snap.panes
    PROVE  StaysIn(Append(q, e), p, known)
<1> DEFINE r == Append(q, e)
<1>1. PICK n \in Nat : n = Len(q)
  BY Longer
<1>2. Len(r) = n + 1 /\ r[n + 1] = e /\ \A i \in 1..n : r[i] = q[i]
  BY <1>1, Longer
<1> HIDE DEF r
<1>3. ASSUME NEW j \in 1..n + 1, HasSnapshot(r[j]),
             known \/ \E i \in 1..j : HasSnapshot(r[i]) /\ p \in DOMAIN r[i].snap.panes
      PROVE  p \in DOMAIN r[j].snap.panes
  <2>1. CASE j = n + 1
    BY <1>2, <1>3, <2>1
  <2>2. CASE j # n + 1
    <3>1. j \in 1..n /\ \A i \in 1..j : i \in 1..n
      BY <2>2
    <3>2. r[j] = q[j] /\ \A i \in 1..j : r[i] = q[i]
      BY <1>2, <3>1
    <3> QED BY <1>1, <1>3, <3>1, <3>2 DEF StaysIn
  <2> QED BY <2>1, <2>2
<1> QED BY <1>2, <1>3 DEF StaysIn, r

LEMMA StaysTail ==
    ASSUME NEW S, NEW q \in Seq(S), q # <<>>, NEW p, NEW known \in BOOLEAN, StaysIn(q, p, known)
    PROVE  /\ ~HasSnapshot(Head(q)) => StaysIn(Tail(q), p, known)
           /\ HasSnapshot(Head(q)) =>
                 /\ known => p \in DOMAIN Head(q).snap.panes
                 /\ StaysIn(Tail(q), p, p \in DOMAIN Head(q).snap.panes)
<1>1. PICK n \in Nat : Len(Tail(q)) = n /\ Len(q) = n + 1 /\ \A i \in 1..n : Tail(q)[i] = q[i + 1]
  BY Shorter
<1>2. Head(q) = q[1]
  BY Shorter
<1>3. ASSUME NEW j \in 1..n, HasSnapshot(Tail(q)[j]),
             \/ known
             \/ HasSnapshot(Head(q)) /\ p \in DOMAIN Head(q).snap.panes
             \/ \E i \in 1..j : HasSnapshot(Tail(q)[i]) /\ p \in DOMAIN Tail(q)[i].snap.panes
      PROVE  p \in DOMAIN Tail(q)[j].snap.panes
  <2>1. PICK k \in 1..n + 1 : k = j + 1
    OBVIOUS
  <2>2. HasSnapshot(q[k]) /\ Tail(q)[j] = q[k]
    BY <1>1, <1>3, <2>1
  <2>3. known \/ \E i \in 1..k : HasSnapshot(q[i]) /\ p \in DOMAIN q[i].snap.panes
    <3>1. CASE known
      BY <3>1
    <3>2. CASE HasSnapshot(Head(q)) /\ p \in DOMAIN Head(q).snap.panes
      <4>1. 1 \in 1..k
        BY <2>1
      <4> QED BY <1>2, <3>2, <4>1
    <3>3. ASSUME NEW i \in 1..j, HasSnapshot(Tail(q)[i]), p \in DOMAIN Tail(q)[i].snap.panes
          PROVE  \E l \in 1..k : HasSnapshot(q[l]) /\ p \in DOMAIN q[l].snap.panes
      <4>1. i \in 1..n /\ i + 1 \in 1..k
        BY <2>1
      <4>2. Tail(q)[i] = q[i + 1]
        BY <1>1, <4>1
      <4> QED BY <3>3, <4>1, <4>2
    <3> QED BY <1>3, <3>1, <3>2, <3>3
  <2> QED BY <1>1, <2>2, <2>3 DEF StaysIn
<1>4. HasSnapshot(Head(q)) /\ known => p \in DOMAIN Head(q).snap.panes
  <2>1. 1 \in 1..Len(q)
    BY <1>1
  <2> QED BY <1>2, <2>1 DEF StaysIn
<1>5. ~HasSnapshot(Head(q)) => StaysIn(Tail(q), p, known)
  BY <1>1, <1>3 DEF StaysIn
<1>6. HasSnapshot(Head(q)) => StaysIn(Tail(q), p, p \in DOMAIN Head(q).snap.panes)
  BY <1>1, <1>3 DEF StaysIn
<1> QED BY <1>4, <1>5, <1>6

LEMMA SizesAppend ==
    ASSUME NEW S, NEW q \in Seq(S), NEW r, NEW p, NEW from, NEW to, SizesTo(q, p, from, to)
    PROVE  /\ Resizes(r, p) => SizesTo(Append(q, r), p, from, r.size)
           /\ ~Resizes(r, p) => SizesTo(Append(q, r), p, from, to)
<1> DEFINE a == Append(q, r)
<1>1. PICK n \in Nat : n = Len(q)
  BY Longer
<1>2. Len(a) = n + 1 /\ a[n + 1] = r /\ (\A i \in 1..n : a[i] = q[i]) /\ ToSet(a) = ToSet(q) \cup {r}
  BY <1>1, Longer
<1> HIDE DEF a
<1>3. ASSUME Resizes(r, p) PROVE SizesTo(a, p, from, r.size)
  <2>1. n + 1 \in 1..Len(a) /\ \A j \in (n + 1) + 1..Len(a) : FALSE
    BY <1>2
  <2> QED BY <1>2, <1>3, <2>1 DEF SizesTo
<1>4. ASSUME ~Resizes(r, p) PROVE SizesTo(a, p, from, to)
  <2>1. CASE from = to /\ \A e \in ToSet(q) : ~Resizes(e, p)
    BY <1>2, <1>4, <2>1 DEF SizesTo
  <2>2. ASSUME NEW i \in 1..n, Resizes(q[i], p), q[i].size = to, \A j \in i + 1..n : ~Resizes(q[j], p)
        PROVE  SizesTo(a, p, from, to)
    <3>1. i \in 1..n + 1 /\ a[i] = q[i]
      BY <1>2
    <3>2. ASSUME NEW j \in i + 1..n + 1 PROVE ~Resizes(a[j], p)
      <4>1. CASE j = n + 1
        BY <1>2, <1>4, <4>1
      <4>2. CASE j # n + 1
        <5>1. j \in i + 1..n /\ j \in 1..n
          BY <4>2
        <5> QED BY <1>2, <2>2, <5>1
      <4> QED BY <4>1, <4>2
    <3> QED BY <1>2, <2>2, <3>1, <3>2 DEF SizesTo
  <2> QED BY <1>1, <2>1, <2>2 DEF SizesTo
<1> QED BY <1>3, <1>4 DEF a

LEMMA SizesTail ==
    ASSUME NEW S, NEW q \in Seq(S), q # <<>>, NEW p, NEW from, NEW to, SizesTo(q, p, from, to)
    PROVE  /\ Resizes(Head(q), p) => SizesTo(Tail(q), p, Head(q).size, to)
           /\ ~Resizes(Head(q), p) => SizesTo(Tail(q), p, from, to)
<1>1. PICK n \in Nat : Len(Tail(q)) = n /\ Len(q) = n + 1 /\ \A i \in 1..n : Tail(q)[i] = q[i + 1]
  BY Shorter
<1>2. Head(q) = q[1] /\ ToSet(q) = {Head(q)} \cup ToSet(Tail(q)) /\ Tail(q) \in Seq(S)
  BY Shorter, HeadTailProperties
<1>3. CASE from = to /\ \A r \in ToSet(q) : ~Resizes(r, p)
  BY <1>2, <1>3 DEF SizesTo
<1>4. ASSUME NEW i \in 1..n + 1, Resizes(q[i], p), q[i].size = to,
             \A j \in i + 1..n + 1 : ~Resizes(q[j], p)
      PROVE  \/ SizesTo(Tail(q), p, from, to) /\ SizesTo(Tail(q), p, Head(q).size, to)
             \/ Resizes(Head(q), p) /\ SizesTo(Tail(q), p, Head(q).size, to)
  <2>1. CASE i = 1
    <3>1. \A j \in 1..n : ~Resizes(Tail(q)[j], p)
      <4>1. ASSUME NEW j \in 1..n PROVE j + 1 \in i + 1..n + 1
        BY <2>1
      <4> QED BY <1>1, <1>4, <4>1
    <3>2. \A r \in ToSet(Tail(q)) : ~Resizes(r, p)
      <4>1. \A r \in ToSet(Tail(q)) : \E j \in 1..n : Tail(q)[j] = r
        BY <1>1, <1>2, ToSetRange
      <4> QED BY <3>1, <4>1
    <3> QED BY <1>2, <1>4, <2>1, <3>2 DEF SizesTo
  <2>2. CASE i # 1
    <3>1. PICK k \in 1..n : i = k + 1
      <4>1. i - 1 \in 1..n /\ i = (i - 1) + 1
        BY <2>2
      <4> QED BY <4>1
    <3>2. Resizes(Tail(q)[k], p) /\ Tail(q)[k].size = to
      BY <1>1, <1>4, <3>1
    <3>3. ASSUME NEW j \in k + 1..n PROVE ~Resizes(Tail(q)[j], p)
      <4>1. j \in 1..n /\ j + 1 \in i + 1..n + 1
        BY <3>1
      <4> QED BY <1>1, <1>4, <4>1
    <3> QED BY <1>1, <3>2, <3>3 DEF SizesTo
  <2> QED BY <2>1, <2>2
<1>5. \/ from = to /\ \A r \in ToSet(q) : ~Resizes(r, p)
      \/ \E i \in 1..n + 1 : /\ Resizes(q[i], p) /\ q[i].size = to
                             /\ \A j \in i + 1..n + 1 : ~Resizes(q[j], p)
  BY <1>1 DEF SizesTo
<1>6. CASE \E i \in 1..n + 1 : /\ Resizes(q[i], p) /\ q[i].size = to
                               /\ \A j \in i + 1..n + 1 : ~Resizes(q[j], p)
  <2>1. \/ SizesTo(Tail(q), p, from, to) /\ SizesTo(Tail(q), p, Head(q).size, to)
        \/ Resizes(Head(q), p) /\ SizesTo(Tail(q), p, Head(q).size, to)
    BY <1>4, <1>6
  <2> QED BY <2>1
<1> QED BY <1>3, <1>5, <1>6

----
(* Coming to rest: the invariant *)

\* No identifier is used twice: a pane or a workspace that is gone stays gone.
Known(s) == DOMAIN s.panes \subseteq usedPanes /\ DOMAIN s.ws \subseteq usedWs

Named ==
    /\ \A t \in Publishers : copies[t] # None => Known(copies[t])
    /\ published # None => Known(published)
    /\ \A e \in ToSet(queue) :
          /\ HasSnapshot(e) => Known(e.snap)
          /\ e.kind = "Status" => e.pane \in usedPanes
    /\ \A r \in ToSet(outbox) : r.kind = "Resize" => r.pane \in usedPanes
    /\ DOMAIN terms \subseteq usedPanes /\ DOMAIN view.ws \subseteq usedWs

\* The snapshot sent last is the last under way, or the one in view.
Told ==
    published # None =>
       \/ LastIn(queue, published)
       \/ /\ NoSnapshotIn(queue)
          /\ view.order = published.order /\ DOMAIN view.ws = DOMAIN published.ws
          /\ \A w \in DOMAIN view.ws : view.ws[w].layout = published.ws[w].layout

Asked(r) == r \in ToSet(outbox)

\* No snapshot is about to be sent, or under way, that would change the view.
Shows == holder = "none" /\ published # None /\ NoSnapshotIn(queue)

\* A focus moved ahead of the daemon has been asked for, or cannot be had.
Focused ==
    Shows =>
       /\ \A w \in DOMAIN view.ws :
             \/ view.ws[w].active = published.ws[w].active
             \/ Asked([kind |-> "FocusPane", pane |-> view.ws[w].active])
             \/ view.ws[w].active \notin DOMAIN snapshot.panes
       /\ HasWorkspace =>
             \/ view.index = ViewOf(published).index
             \/ Asked([kind |-> "FocusWorkspace", ws |-> ActiveWs])
             \/ ActiveWs \notin DOMAIN snapshot.ws

\* A shell that is there runs, and no event says anything else.
Runs(p) == p \in DOMAIN snapshot.panes \ exiting

Alive ==
    /\ \A p \in DOMAIN snapshot.panes \ exiting : snapshot.panes[p].status = "Running"
    /\ \A e \in ToSet(queue) : e.kind = "Status" /\ Runs(e.pane) => e.status = "Running"
    /\ published # None /\ NoSnapshotIn(queue) =>
          \A p \in DOMAIN terms :
             Runs(p) => terms[p].status \in {published.panes[p].status, "Running"}

\* The daemon has been asked to close what the application has closed.
Closed ==
    \A p \in DOMAIN terms :
       terms[p].closing = "sent" =>
          Asked([kind |-> "ClosePane", pane |-> p]) \/ p \notin DOMAIN snapshot.panes

\* A terminal is built once, at the size the daemon has, and tells the daemon
\* of every other.
SizeOf(s, p) == s.panes[p].size

Sized(p) ==
    /\ StaysIn(queue, p, p \in DOMAIN terms)
    /\ p \in DOMAIN terms => SizesTo(outbox, p, SizeOf(snapshot, p), terms[p].size)
    /\ p \notin DOMAIN terms =>
          /\ \A r \in ToSet(outbox) : ~Resizes(r, p)
          /\ \A t \in Publishers :
                copies[t] # None /\ p \in DOMAIN copies[t].panes =>
                   SizeOf(copies[t], p) = SizeOf(snapshot, p)
          /\ \A e \in ToSet(queue) :
                HasSnapshot(e) /\ p \in DOMAIN e.snap.panes =>
                   SizeOf(e.snap, p) = SizeOf(snapshot, p)

SizesKnown == skipped \in BOOLEAN /\ (skipped \/ \A p \in DOMAIN snapshot.panes : Sized(p))

Settles == Named /\ Told /\ Focused /\ Alive /\ Closed /\ SizesKnown

----
(* Coming to rest: the steps of the daemon that send no snapshot *)

\* The request at the head has been done, and nothing else has a new size.
Served ==
    LET r == Head(outbox)
    IN  /\ outbox # <<>> /\ outbox' = Tail(outbox)
        /\ r.kind = "FocusPane" => holder' # "none" \/ r.pane \notin DOMAIN snapshot'.panes
        /\ r.kind = "FocusWorkspace" => holder' # "none" \/ r.ws \notin DOMAIN snapshot'.ws
        /\ r.kind = "ClosePane" => r.pane \notin DOMAIN snapshot'.panes
        /\ \A p \in DOMAIN snapshot.panes \cap DOMAIN snapshot'.panes :
              SizeOf(snapshot', p) = IF Resizes(r, p) THEN r.size ELSE SizeOf(snapshot, p)

\* What such a step may do.
Inside ==
    /\ UNCHANGED <<view, terms, published, skipped>>
    /\ holder' = "none" => holder = "none"
    /\ usedPanes \subseteq usedPanes' /\ usedWs \subseteq usedWs'
    /\ \A p \in DOMAIN snapshot'.panes : p \in DOMAIN snapshot.panes \/ p \notin usedPanes
    /\ \A w \in DOMAIN snapshot'.ws : w \in DOMAIN snapshot.ws \/ w \notin usedWs
    /\ \A t \in Publishers : copies'[t] \in {copies[t], None, snapshot'}
    /\ \/ UNCHANGED queue
       \/ \E e : /\ ~HasSnapshot(e) /\ queue' = Append(queue, e)
                 /\ e.kind = "Status" =>
                       e.pane \in usedPanes' /\ (e.status = "Running" \/ e.pane \in exiting')
    /\ \A p \in exiting : p \in exiting' \/ p \notin DOMAIN snapshot'.panes
    /\ \A p \in DOMAIN snapshot'.panes \ exiting' : snapshot'.panes[p].status = "Running"
    /\ \/ Served
       \/ /\ UNCHANGED outbox
          /\ \A p \in DOMAIN snapshot.panes \cap DOMAIN snapshot'.panes :
                SizeOf(snapshot', p) = SizeOf(snapshot, p)

\* The events and requests there are after such a step.
LEMMA InsideQueues ==
    ASSUME IInv, Inside
    PROVE  /\ \A e \in ToSet(queue') :
                 \/ e \in ToSet(queue)
                 \/ /\ ~HasSnapshot(e)
                    /\ e.kind = "Status" =>
                          e.pane \in usedPanes' /\ (e.status = "Running" \/ e.pane \in exiting')
           /\ ToSet(queue) \subseteq ToSet(queue')
           /\ ToSet(outbox') \subseteq ToSet(outbox)
           /\ \A r \in ToSet(outbox) : r \in ToSet(outbox') \/ (Served /\ r = Head(outbox))
<1>1. PICK S, T : queue \in Seq(S) /\ outbox \in Seq(T)
  BY DEF IInv, Lines, EventsOK, RequestsOK
<1>2. \A e : ToSet(Append(queue, e)) = ToSet(queue) \cup {e}
  BY <1>1, Longer
<1>3. outbox # <<>> => ToSet(outbox) = {Head(outbox)} \cup ToSet(Tail(outbox))
  BY <1>1, Shorter
<1>4. ToSet(outbox') \subseteq ToSet(outbox)
      /\ \A r \in ToSet(outbox) : r \in ToSet(outbox') \/ (Served /\ r = Head(outbox))
  <2>1. CASE Served
    <3>1. outbox # <<>> /\ outbox' = Tail(outbox)
      BY <2>1 DEF Served
    <3> QED BY <1>3, <2>1, <3>1
  <2>2. CASE UNCHANGED outbox
    BY <2>2
  <2> QED BY <2>1, <2>2 DEF Inside
<1>5. \/ queue' = queue
      \/ \E e : /\ ~HasSnapshot(e) /\ queue' = Append(queue, e)
                /\ e.kind = "Status" =>
                      e.pane \in usedPanes' /\ (e.status = "Running" \/ e.pane \in exiting')
  BY DEF Inside
<1>6. ASSUME NEW e, ~HasSnapshot(e), queue' = Append(queue, e),
             e.kind = "Status" =>
               e.pane \in usedPanes' /\ (e.status = "Running" \/ e.pane \in exiting')
      PROVE  /\ \A d \in ToSet(queue') :
                   \/ d \in ToSet(queue)
                   \/ /\ ~HasSnapshot(d)
                      /\ d.kind = "Status" =>
                            d.pane \in usedPanes' /\ (d.status = "Running" \/ d.pane \in exiting')
             /\ ToSet(queue) \subseteq ToSet(queue')
  <2>1. ToSet(queue') = ToSet(queue) \cup {e}
    BY <1>2, <1>6
  <2> QED BY <1>6, <2>1
<1>7. queue' = queue => ToSet(queue') = ToSet(queue)
  OBVIOUS
<1>8. /\ \A d \in ToSet(queue') :
            \/ d \in ToSet(queue)
            \/ /\ ~HasSnapshot(d)
               /\ d.kind = "Status" =>
                     d.pane \in usedPanes' /\ (d.status = "Running" \/ d.pane \in exiting')
      /\ ToSet(queue) \subseteq ToSet(queue')
  <2>1. CASE queue' = queue
    BY <1>7, <2>1
  <2>2. CASE queue' # queue
    <3>1. PICK e : /\ ~HasSnapshot(e) /\ queue' = Append(queue, e)
                   /\ e.kind = "Status" =>
                         e.pane \in usedPanes' /\ (e.status = "Running" \/ e.pane \in exiting')
      BY <1>5, <2>2
    <3> QED BY <1>6, <3>1
  <2> QED BY <2>1, <2>2
<1> QED BY <1>4, <1>8

LEMMA InsideNamed == ASSUME IInv, Daemon', Named, Inside PROVE Named'
<1>1. usedPanes \subseteq usedPanes' /\ usedWs \subseteq usedWs' /\ UNCHANGED <<view, terms, published>>
  BY DEF Inside
<1>2. \A s : Known(s) => Known(s)'
  BY <1>1 DEF Known
<1>3. ASSUME NEW t \in Publishers, copies'[t] # None PROVE Known(copies[t])'
  <2>1. CASE copies'[t] = copies[t]
    BY <1>1, <1>3, <2>1 DEF Named, Known
  <2>2. CASE copies'[t] = snapshot'
    BY <2>2 DEF Known, Daemon
  <2> QED BY <1>3, <2>1, <2>2 DEF Inside
<1>4. ASSUME NEW e \in ToSet(queue')
      PROVE  /\ HasSnapshot(e) => Known(e.snap)'
             /\ e.kind = "Status" => e.pane \in usedPanes'
  BY <1>1, <1>2, InsideQueues DEF Named
<1>5. \A r \in ToSet(outbox') : r.kind = "Resize" => r.pane \in usedPanes'
  BY <1>1, InsideQueues DEF Named
<1>6. published' # None => Known(published)'
  BY <1>1, <1>2 DEF Named, Known
<1>7. DOMAIN terms' \subseteq usedPanes' /\ DOMAIN view'.ws \subseteq usedWs'
  BY <1>1 DEF Named
<1> QED BY <1>3, <1>4, <1>5, <1>6, <1>7 DEF Named, Known, HasSnapshot

LEMMA InsideTold ==
    ASSUME IInv, Told, Inside
    PROVE  Told' /\ (NoSnapshotIn(queue') => NoSnapshotIn(queue))
<1>1. UNCHANGED <<view, published>>
  BY DEF Inside
<1>2. NoSnapshotIn(queue') <=> NoSnapshotIn(queue)
  BY InsideQueues DEF NoSnapshotIn
<1>3. \A s : LastIn(queue, s) => LastIn(queue', s)
  <2>1. PICK S : queue \in Seq(S)
    BY DEF IInv, Lines, EventsOK
  <2>2. UNCHANGED queue \/ \E e : ~HasSnapshot(e) /\ queue' = Append(queue, e)
    BY DEF Inside
  <2> QED BY <2>1, <2>2, LastAppend
<1> QED BY <1>1, <1>2, <1>3 DEF Told

\* What is in view and not there any more does not come back.
LEMMA GoneStaysGone ==
    ASSUME Named, Inside
    PROVE  /\ \A p \in usedPanes : p \notin DOMAIN snapshot.panes => p \notin DOMAIN snapshot'.panes
           /\ \A w \in usedWs : w \notin DOMAIN snapshot.ws => w \notin DOMAIN snapshot'.ws
  BY DEF Inside

\* With nothing under way, the view has the layouts of the last snapshot sent.
LEMMA ToldInView ==
    ASSUME IInv, Told, published # None, NoSnapshotIn(queue)
    PROVE  /\ view.order = published.order /\ DOMAIN view.ws = DOMAIN published.ws
           /\ \A w \in DOMAIN view.ws :
                 /\ view.ws[w].layout = published.ws[w].layout
                 /\ IF view.ws[w].layout = <<>>
                    THEN view.ws[w].active = None /\ published.ws[w].active = None
                    ELSE view.ws[w].active \in DOMAIN terms
           /\ DOMAIN terms = DOMAIN published.panes
<1>1. ~LastIn(queue, published)
  <2>1. PICK S : queue \in Seq(S)
    BY DEF IInv, Lines, EventsOK
  <2> QED BY <2>1, ToSetRange DEF LastIn, NoSnapshotIn
<1>2. /\ view.order = published.order /\ DOMAIN view.ws = DOMAIN published.ws
      /\ \A w \in DOMAIN view.ws : view.ws[w].layout = published.ws[w].layout
  BY <1>1 DEF Told
<1>3. WellFormed(published) /\ Shown(view) /\ DOMAIN terms = Leaves(view)
  BY DEF IInv, Copies, Window
<1>4. \A w \in DOMAIN view.ws :
         /\ view.ws[w].layout = <<>> => view.ws[w].active = None /\ published.ws[w].active = None
         /\ view.ws[w].layout # <<>> => view.ws[w].active \in DOMAIN terms
  BY <1>2, <1>3 DEF Shown, WellFormed, FocusInside, Leaves
<1>5. DOMAIN terms = DOMAIN published.panes
  <2>1. {ToSet(view.ws[w].layout) : w \in DOMAIN view.ws} = {ToSet(published.ws[w].layout) : w \in DOMAIN published.ws}
    BY <1>2
  <2>2. Leaves(view) = Leaves(published)
    BY <2>1 DEF Leaves
  <2> QED BY <1>3, <2>2, ViewIsShown
<1> QED BY <1>2, <1>4, <1>5

LEMMA InsideFocused == ASSUME IInv, Named, Told, Focused, Inside PROVE Focused'
<1> SUFFICES ASSUME Shows' PROVE Focused'
  BY DEF Focused
<1>1. Shows /\ UNCHANGED <<view, terms, published>> /\ holder' = "none"
  BY InsideTold DEF Shows, Inside
<1>2. published # None /\ NoSnapshotIn(queue)
  BY <1>1 DEF Shows
<1>3. ASSUME NEW w \in DOMAIN view.ws
      PROVE  \/ view.ws[w].active = published.ws[w].active
             \/ [kind |-> "FocusPane", pane |-> view.ws[w].active] \in ToSet(outbox')
             \/ view.ws[w].active \notin DOMAIN snapshot'.panes
  <2> DEFINE p == view.ws[w].active
             r == [kind |-> "FocusPane", pane |-> p]
  <2>1. p = published.ws[w].active \/ p \in usedPanes
    BY <1>2, ToldInView DEF Named
  <2>2. p = published.ws[w].active \/ r \in ToSet(outbox) \/ p \notin DOMAIN snapshot.panes
    BY <1>1 DEF Focused, Asked
  <2>3. r.kind = "FocusPane" /\ r.pane = p
    OBVIOUS
  <2> HIDE DEF p, r
  <2>4. r \in ToSet(outbox) => r \in ToSet(outbox') \/ p \notin DOMAIN snapshot'.panes
    BY <1>1, <2>3, InsideQueues DEF Served
  <2> QED BY <2>1, <2>2, <2>4, GoneStaysGone DEF p, r
<1>4. ASSUME HasWorkspace
      PROVE  \/ view.index = ViewOf(published).index
             \/ [kind |-> "FocusWorkspace", ws |-> ActiveWs] \in ToSet(outbox')
             \/ ActiveWs \notin DOMAIN snapshot'.ws
  <2> DEFINE r == [kind |-> "FocusWorkspace", ws |-> ActiveWs]
  <2>1. ActiveWs \in usedWs
    BY <1>4, ActiveIsListed DEF IInv, Window, Named
  <2>2. \/ view.index = ViewOf(published).index \/ r \in ToSet(outbox)
        \/ ActiveWs \notin DOMAIN snapshot.ws
    BY <1>1, <1>4 DEF Focused, Asked
  <2>3. r.kind = "FocusWorkspace" /\ r.ws = ActiveWs
    OBVIOUS
  <2> HIDE DEF r
  <2>4. r \in ToSet(outbox) => r \in ToSet(outbox') \/ ActiveWs \notin DOMAIN snapshot'.ws
    BY <1>1, <2>3, InsideQueues DEF Served
  <2> QED BY <2>1, <2>2, <2>4, GoneStaysGone DEF r
<1>5. HasWorkspace' = HasWorkspace /\ ActiveWs' = ActiveWs /\ ViewOf(published') = ViewOf(published)
  BY <1>1 DEF HasWorkspace, ActiveWs
<1>6. (\A w \in DOMAIN view.ws :
             \/ view.ws[w].active = published.ws[w].active
             \/ Asked([kind |-> "FocusPane", pane |-> view.ws[w].active])
             \/ view.ws[w].active \notin DOMAIN snapshot.panes)'
  BY <1>1, <1>3 DEF Asked
<1>7. (HasWorkspace =>
             \/ view.index = ViewOf(published).index
             \/ Asked([kind |-> "FocusWorkspace", ws |-> ActiveWs])
             \/ ActiveWs \notin DOMAIN snapshot.ws)'
  BY <1>1, <1>4, <1>5 DEF Asked
<1> QED BY <1>6, <1>7 DEF Focused

LEMMA InsideAlive == ASSUME IInv, Named, Told, Alive, Inside PROVE Alive'
<1>1. \A p \in DOMAIN snapshot'.panes \ exiting' : snapshot'.panes[p].status = "Running"
  BY DEF Inside
<1>2. ASSUME NEW p \in usedPanes, p \in DOMAIN snapshot'.panes \ exiting' PROVE Runs(p)
  BY <1>2, GoneStaysGone DEF Inside, Runs
<1>3. ASSUME NEW e \in ToSet(queue'), e.kind = "Status", e.pane \in DOMAIN snapshot'.panes \ exiting'
      PROVE  e.status = "Running"
  BY <1>2, <1>3, InsideQueues DEF Alive, Named
<1>4. ASSUME published' # None, NoSnapshotIn(queue'), NEW p \in DOMAIN terms',
             p \in DOMAIN snapshot'.panes \ exiting'
      PROVE  terms'[p].status \in {published'.panes[p].status, "Running"}
  <2>1. UNCHANGED <<terms, published>> /\ NoSnapshotIn(queue)
    BY <1>4, InsideTold DEF Inside
  <2>2. Runs(p)
    BY <1>2, <1>4, <2>1 DEF Named
  <2> QED BY <1>4, <2>1, <2>2 DEF Alive
<1> QED BY <1>1, <1>3, <1>4 DEF Alive, Runs, NoSnapshotIn, HasSnapshot

LEMMA InsideClosed == ASSUME IInv, Named, Closed, Inside PROVE Closed'
<1>1. UNCHANGED terms
  BY DEF Inside
<1>2. ASSUME NEW p \in DOMAIN terms, terms[p].closing = "sent"
      PROVE  [kind |-> "ClosePane", pane |-> p] \in ToSet(outbox') \/ p \notin DOMAIN snapshot'.panes
  <2> DEFINE r == [kind |-> "ClosePane", pane |-> p]
  <2>1. r \in ToSet(outbox) \/ p \notin DOMAIN snapshot.panes
    BY <1>2 DEF Closed, Asked
  <2>2. r.kind = "ClosePane" /\ r.pane = p
    OBVIOUS
  <2> HIDE DEF r
  <2>3. r \in ToSet(outbox) => r \in ToSet(outbox') \/ p \notin DOMAIN snapshot'.panes
    BY <2>2, InsideQueues DEF Served
  <2>4. p \in usedPanes
    BY DEF Named
  <2> QED BY <2>1, <2>3, <2>4, GoneStaysGone DEF r
<1> QED BY <1>1, <1>2 DEF Closed, Asked

\* A pane that is new has been told to nobody; one that is not has its size.
LEMMA InsideSized == ASSUME IInv, Named, SizesKnown, Inside PROVE SizesKnown'
<1>1. UNCHANGED <<terms, skipped>>
  BY DEF Inside
<1>2. PICK S, T : queue \in Seq(S) /\ queue' \in Seq(S) /\ outbox \in Seq(T)
  <2>1. PICK S, T : queue \in Seq(S) /\ outbox \in Seq(T)
    BY DEF IInv, Lines, EventsOK, RequestsOK
  <2>2. \A e : Append(queue, e) \in Seq(S \cup {e})
    BY <2>1
  <2>3. \E S1 : queue \in Seq(S1) /\ queue' \in Seq(S1)
    <3>1. CASE UNCHANGED queue
      BY <2>1, <3>1
    <3>2. ASSUME NEW e, queue' = Append(queue, e) PROVE \E S1 : queue \in Seq(S1) /\ queue' \in Seq(S1)
      <4>1. queue \in Seq(S \cup {e}) /\ queue' \in Seq(S \cup {e})
        BY <2>1, <2>2, <3>2
      <4> QED BY <4>1
    <3> QED BY <3>1, <3>2 DEF Inside
  <2> QED BY <2>1, <2>3
<1> SUFFICES ASSUME ~skipped, NEW p \in DOMAIN snapshot'.panes PROVE Sized(p)'
  BY <1>1 DEF SizesKnown
<1>3. \A e \in ToSet(queue') : HasSnapshot(e) => e \in ToSet(queue)
  BY InsideQueues
<1>4. \A j \in 1..Len(queue') : queue'[j] \in ToSet(queue')
  BY <1>2, ToSetRange
<1>5. \A t \in Publishers : copies'[t] \in {copies[t], None, snapshot'}
  BY DEF Inside
<1>6. ASSUME p \notin usedPanes PROVE Sized(p)'
  <2>1. \A e \in ToSet(queue') : HasSnapshot(e) => p \notin DOMAIN e.snap.panes
    BY <1>3, <1>6 DEF Named, Known
  <2>2. p \notin DOMAIN terms
    BY <1>6 DEF Named
  <2>3. \A r \in ToSet(outbox') : ~Resizes(r, p)
    BY <1>6, InsideQueues DEF Named, Resizes
  <2>4. StaysIn(queue', p, p \in DOMAIN terms)
    <3>1. \A j \in 1..Len(queue') : HasSnapshot(queue'[j]) => p \notin DOMAIN queue'[j].snap.panes
      BY <1>4, <2>1
    <3>2. ASSUME NEW j \in 1..Len(queue'), NEW i \in 1..j PROVE i \in 1..Len(queue')
      <4>1. Len(queue') \in Nat
        BY <1>2
      <4> QED BY <4>1
    <3> QED BY <2>2, <3>1, <3>2 DEF StaysIn
  <2>5. ASSUME NEW t \in Publishers, copies'[t] # None, p \in DOMAIN copies'[t].panes
        PROVE  SizeOf(copies'[t], p) = SizeOf(snapshot', p)
    <3>1. copies'[t] = copies[t] => FALSE
      BY <1>6, <2>5 DEF Named, Known
    <3> QED BY <1>5, <2>5, <3>1
  <2>6. StaysIn(queue', p, p \in DOMAIN terms')
    BY <1>1, <2>4
  <2> QED BY <1>1, <2>1, <2>2, <2>3, <2>5, <2>6 DEF Sized, SizeOf, Resizes, HasSnapshot, StaysIn
<1>7. ASSUME p \in usedPanes PROVE Sized(p)'
  <2>1. p \in DOMAIN snapshot.panes /\ Sized(p)
    BY <1>7 DEF Inside, SizesKnown
  <2>2. StaysIn(queue', p, p \in DOMAIN terms)
    <3>1. UNCHANGED queue \/ \E e : ~HasSnapshot(e) /\ queue' = Append(queue, e)
      BY DEF Inside
    <3>2. StaysIn(queue, p, p \in DOMAIN terms)
      BY <2>1 DEF Sized
    <3>3. CASE UNCHANGED queue
      BY <3>2, <3>3
    <3>4. ASSUME NEW e, ~HasSnapshot(e), queue' = Append(queue, e)
          PROVE  StaysIn(queue', p, p \in DOMAIN terms)
      <4>1. StaysIn(Append(queue, e), p, p \in DOMAIN terms)
        BY <1>2, <3>2, <3>4, StaysAppend
      <4> QED BY <3>4, <4>1
    <3> QED BY <3>1, <3>3, <3>4
  <2>3. \/ UNCHANGED outbox /\ SizeOf(snapshot', p) = SizeOf(snapshot, p)
        \/ /\ outbox # <<>> /\ outbox' = Tail(outbox)
           /\ Resizes(Head(outbox), p) => SizeOf(snapshot', p) = Head(outbox).size
           /\ ~Resizes(Head(outbox), p) => SizeOf(snapshot', p) = SizeOf(snapshot, p)
    BY <2>1 DEF Inside, Served
  <2>4. ASSUME p \in DOMAIN terms PROVE SizesTo(outbox', p, SizeOf(snapshot', p), terms[p].size)
    <3> DEFINE from == SizeOf(snapshot, p)
               to   == terms[p].size
    <3>1. SizesTo(outbox, p, from, to)
      BY <2>1, <2>4 DEF Sized
    <3> HIDE DEF from, to
    <3>2. ASSUME outbox # <<>>
          PROVE  /\ Resizes(Head(outbox), p) => SizesTo(Tail(outbox), p, Head(outbox).size, to)
                 /\ ~Resizes(Head(outbox), p) => SizesTo(Tail(outbox), p, from, to)
      BY <1>2, <3>1, <3>2, SizesTail
    <3>3. SizesTo(outbox', p, SizeOf(snapshot', p), to)
      <4>1. CASE UNCHANGED outbox /\ SizeOf(snapshot', p) = SizeOf(snapshot, p)
        BY <3>1, <4>1 DEF from
      <4>2. CASE /\ outbox # <<>> /\ outbox' = Tail(outbox)
                 /\ Resizes(Head(outbox), p) => SizeOf(snapshot', p) = Head(outbox).size
                 /\ ~Resizes(Head(outbox), p) => SizeOf(snapshot', p) = SizeOf(snapshot, p)
        <5>1. CASE Resizes(Head(outbox), p)
          BY <3>2, <4>2, <5>1
        <5>2. CASE ~Resizes(Head(outbox), p)
          BY <3>2, <4>2, <5>2 DEF from
        <5> QED BY <5>1, <5>2
      <4> QED BY <2>3, <4>1, <4>2
    <3> QED BY <3>3 DEF to
  <2>5. ASSUME p \notin DOMAIN terms
        PROVE  /\ \A r \in ToSet(outbox') : ~Resizes(r, p)
               /\ SizeOf(snapshot', p) = SizeOf(snapshot, p)
    <3>1. \A r \in ToSet(outbox) : ~Resizes(r, p)
      BY <2>1, <2>5 DEF Sized
    <3>2. outbox # <<>> => Head(outbox) \in ToSet(outbox)
      BY <1>2, Shorter
    <3> QED BY <2>3, <3>1, <3>2, InsideQueues
  <2>6. ASSUME p \notin DOMAIN terms, NEW t \in Publishers, copies'[t] # None,
               p \in DOMAIN copies'[t].panes
        PROVE  SizeOf(copies'[t], p) = SizeOf(snapshot', p)
    <3>1. CASE copies'[t] = copies[t]
      BY <2>1, <2>5, <2>6, <3>1 DEF Sized, SizeOf
    <3> QED BY <1>5, <2>6, <3>1
  <2>7. ASSUME p \notin DOMAIN terms, NEW e \in ToSet(queue'), HasSnapshot(e),
               p \in DOMAIN e.snap.panes
        PROVE  SizeOf(e.snap, p) = SizeOf(snapshot', p)
    BY <1>3, <2>1, <2>5, <2>7 DEF Sized
  <2>8. StaysIn(queue', p, p \in DOMAIN terms')
    BY <1>1, <2>2
  <2>9. p \in DOMAIN terms' => SizesTo(outbox', p, SizeOf(snapshot', p), terms'[p].size)
    BY <1>1, <2>4
  <2> QED BY <1>1, <2>5, <2>6, <2>7, <2>8, <2>9
          DEF Sized, SizeOf, Resizes, HasSnapshot, StaysIn, SizesTo
<1> QED BY <1>6, <1>7

LEMMA InsideSettles == ASSUME IInv, Daemon', Settles, Inside PROVE Settles'
  BY InsideNamed, InsideTold, InsideFocused, InsideAlive, InsideClosed, InsideSized DEF Settles

\* One field of one pane is set.
LEMMA SetPaneField ==
    ASSUME NEW s, WellFormed(s), NEW p \in DOMAIN s.panes, NEW value
    PROVE  /\ SetPaneStatus(s, p, value).ws = s.ws /\ Resize(s, p, value).ws = s.ws
           /\ SetPaneProcessLabel(s, p, value).ws = s.ws
           /\ DOMAIN SetPaneStatus(s, p, value).panes = DOMAIN s.panes
           /\ DOMAIN Resize(s, p, value).panes = DOMAIN s.panes
           /\ DOMAIN SetPaneProcessLabel(s, p, value).panes = DOMAIN s.panes
           /\ \A q \in DOMAIN s.panes :
                 /\ SizeOf(SetPaneStatus(s, p, value), q) = SizeOf(s, q)
                 /\ SetPaneStatus(s, p, value).panes[q].status = IF q = p THEN value ELSE s.panes[q].status
                 /\ SizeOf(SetPaneProcessLabel(s, p, value), q) = SizeOf(s, q)
                 /\ SetPaneProcessLabel(s, p, value).panes[q].status = s.panes[q].status
                 /\ SizeOf(Resize(s, p, value), q) = IF q = p THEN value ELSE SizeOf(s, q)
                 /\ Resize(s, p, value).panes[q].status = s.panes[q].status
<1>1. s.panes \in [DOMAIN s.panes -> Pane]
  BY DEF WellFormed, IsSnapshot
<1>2. ASSUME NEW q \in DOMAIN s.panes PROVE s.panes[q] \in Pane
  BY <1>1
<1>3. /\ SetPaneStatus(s, p, value).panes = [s.panes EXCEPT ![p].status = value]
      /\ Resize(s, p, value).panes = [s.panes EXCEPT ![p].size = value]
      /\ SetPaneProcessLabel(s, p, value).panes = [s.panes EXCEPT ![p].label = value]
      /\ SetPaneStatus(s, p, value).ws = s.ws /\ Resize(s, p, value).ws = s.ws
      /\ SetPaneProcessLabel(s, p, value).ws = s.ws
  BY DEF SetPaneStatus, Resize, SetPaneProcessLabel, Update
<1>4. ASSUME NEW q \in DOMAIN s.panes
      PROVE  /\ [s.panes EXCEPT ![p].status = value][q].size = s.panes[q].size
             /\ [s.panes EXCEPT ![p].status = value][q].status = IF q = p THEN value ELSE s.panes[q].status
             /\ [s.panes EXCEPT ![p].label = value][q].size = s.panes[q].size
             /\ [s.panes EXCEPT ![p].label = value][q].status = s.panes[q].status
             /\ [s.panes EXCEPT ![p].size = value][q].size = IF q = p THEN value ELSE s.panes[q].size
             /\ [s.panes EXCEPT ![p].size = value][q].status = s.panes[q].status
  BY <1>2 DEF Pane
<1> QED BY <1>3, <1>4 DEF SizeOf

\* What an accepted request does to the panes and workspaces there were.
LEMMA AcceptedKeeps ==
    ASSUME Daemon, NEW r, RequestOK(r), r.kind # "Attach", Accepts(r)
    PROVE  /\ \A p \in DOMAIN snapshot.panes \cap DOMAIN After(r).panes :
              (Spawns(r) => p # FreshPane) =>
                 /\ After(r).panes[p].status = snapshot.panes[p].status
                 /\ SizeOf(After(r), p) = IF Resizes(r, p) THEN r.size ELSE SizeOf(snapshot, p)
           /\ DOMAIN After(r).ws \subseteq DOMAIN snapshot.ws \cup (IF Spawns(r) THEN {FreshWs} ELSE {})
           /\ r.kind = "ClosePane" => r.pane \notin DOMAIN After(r).panes
<1>1. WellFormed(snapshot)
  BY DEF Daemon
<1>2. CASE r.kind = "CreateWorkspace"
  <2>1. After(r) = CreateWorkspace(snapshot, FreshWs, FreshPane, r.name, r.root)
    BY <1>2 DEF After
  <2> QED BY <1>2, <2>1 DEF CreateWorkspace, WithPane, Spawns, SizeOf, Resizes
<1>3. CASE r.kind = "CloseWorkspace"
  <2>1. After(r) = CloseWorkspace(snapshot, r.ws)
    BY <1>3 DEF After
  <2> QED BY <1>3, <2>1 DEF CloseWorkspace, Spawns, SizeOf, Resizes
<1>4. CASE r.kind = "FocusWorkspace"
  <2>1. After(r) = FocusWorkspace(snapshot, r.ws)
    BY <1>4 DEF After
  <2> QED BY <1>4, <2>1 DEF FocusWorkspace, Update, Spawns, SizeOf, Resizes
<1>5. CASE r.kind = "CreatePane"
  <2>1. After(r) = CreatePane(snapshot, r.ws, FreshPane)
    BY <1>5 DEF After
  <2> QED BY <1>5, <2>1 DEF CreatePane, Update, WithPane, Spawns, SizeOf, Resizes
<1>6. CASE r.kind = "SplitPane"
  <2>1. After(r) = SplitPane(snapshot, r.ws, r.pane, FreshPane)
    BY <1>6 DEF After
  <2> QED BY <1>6, <2>1 DEF SplitPane, Update, WithPane, Spawns, SizeOf, Resizes
<1>7. CASE r.kind = "ClosePane"
  <2>1. After(r) = ClosePane(snapshot, r.pane)
    BY <1>7 DEF After
  <2>2. /\ After(r).panes = [q \in DOMAIN snapshot.panes \ {r.pane} |-> snapshot.panes[q]]
        /\ DOMAIN After(r).ws = DOMAIN snapshot.ws
    BY <2>1, ClosePaneRemoves
  <2> QED BY <1>7, <2>2 DEF Spawns, SizeOf, Resizes
<1>8. CASE r.kind = "FocusPane"
  <2>1. After(r) = FocusPane(snapshot, r.pane)
    BY <1>8 DEF After
  <2> QED BY <1>8, <2>1 DEF FocusPane, Update, Spawns, SizeOf, Resizes
<1>9. CASE r.kind = "UpdateLayout"
  <2>1. After(r) = UpdateLayout(snapshot, r.ws, r.leaves)
    BY <1>9 DEF After
  <2> QED BY <1>9, <2>1 DEF UpdateLayout, Update, Spawns, SizeOf, Resizes
<1>10. CASE r.kind = "Resize"
  <2>1. After(r) = Resize(snapshot, r.pane, r.size) /\ r.pane \in DOMAIN snapshot.panes
    BY <1>10 DEF After, Accepts, CanResize
  <2>2. After(r).ws = snapshot.ws
    BY <1>1, <2>1, SetPaneField
  <2>3. \A p \in DOMAIN snapshot.panes :
           /\ After(r).panes[p].status = snapshot.panes[p].status
           /\ SizeOf(After(r), p) = IF p = r.pane THEN r.size ELSE SizeOf(snapshot, p)
    BY <1>1, <2>1, SetPaneField
  <2> QED BY <1>10, <2>2, <2>3 DEF Resizes
<1> QED BY <1>2, <1>3, <1>4, <1>5, <1>6, <1>7, <1>8, <1>9, <1>10 DEF RequestOK, Requests

\* An event that is no snapshot has been emitted, or dropped.
Says(e) ==
    /\ ~HasSnapshot(e)
    /\ e.kind = "Status" => e.pane \in usedPanes' /\ (e.status = "Running" \/ e.pane \in exiting')

LEMMA EmitInside ==
    ASSUME NEW e, Emit(e), Says(e)
    PROVE  \/ UNCHANGED queue
           \/ \E d : /\ ~HasSnapshot(d) /\ queue' = Append(queue, d)
                     /\ d.kind = "Status" =>
                           d.pane \in usedPanes' /\ (d.status = "Running" \/ d.pane \in exiting')
<1>1. queue' = queue \/ queue' = Append(queue, e)
  BY DEF Emit
<1> QED BY <1>1 DEF Says

LEMMA ServeInside == ASSUME IInv, Alive, Serve PROVE Inside
<1> DEFINE r == Head(outbox)
<1>1. /\ RequestOK(r) /\ r.kind # "Attach" /\ (Spawns(r) => IdsLeft)
      /\ outbox # <<>> /\ outbox' = Tail(outbox) /\ Daemon /\ WellFormed(snapshot)
  BY RequestsTail DEF Serve, Lines, IInv, Daemon
<1>2. UNCHANGED <<view, terms, published, skipped, copies, exiting>>
  BY DEF Serve, uiVars
<1>3. \A p \in DOMAIN snapshot.panes : snapshot.panes[p].ws \in DOMAIN snapshot.ws
  BY <1>1 DEF WellFormed, LayoutsMatchPanes
<1>4. \A t \in Publishers : copies'[t] \in {copies[t], None, snapshot'}
  BY <1>2
<1>5. CASE ~Accepts(r)
  <2>1. UNCHANGED <<snapshot, usedPanes, usedWs, holder>> /\ (UNCHANGED queue \/ Emit(Error))
    BY <1>5 DEF Serve
  <2>2. \/ UNCHANGED queue
        \/ \E e : /\ ~HasSnapshot(e) /\ queue' = Append(queue, e)
                  /\ e.kind = "Status" =>
                        e.pane \in usedPanes' /\ (e.status = "Running" \/ e.pane \in exiting')
    <3>1. Says(Error)
      BY DEF Says, Error, HasSnapshot
    <3> QED BY <2>1, <3>1, EmitInside
  <2>3. /\ r.kind = "FocusPane" => r.pane \notin DOMAIN snapshot.panes
        /\ r.kind = "ClosePane" => r.pane \notin DOMAIN snapshot.panes
        /\ r.kind = "FocusWorkspace" => r.ws \notin DOMAIN snapshot.ws
        /\ r.kind = "Resize" => r.pane \notin DOMAIN snapshot.panes
    <3>1. r.kind = "FocusPane" => r.pane \notin DOMAIN snapshot.panes
      BY <1>3, <1>5 DEF Accepts, CanFocusPane
    <3>2. r.kind = "ClosePane" => r.pane \notin DOMAIN snapshot.panes
      BY <1>3, <1>5 DEF Accepts, CanClosePane
    <3>3. r.kind = "FocusWorkspace" => r.ws \notin DOMAIN snapshot.ws
      BY <1>5 DEF Accepts, CanFocusWorkspace
    <3>4. r.kind = "Resize" => r.pane \notin DOMAIN snapshot.panes
      BY <1>1, <1>5, UiAssumption DEF Accepts, CanResize, RequestOK
    <3> QED BY <3>1, <3>2, <3>3, <3>4
  <2>4. Served
    BY <1>1, <2>1, <2>3 DEF Served, Resizes
  <2>5. \A p \in DOMAIN snapshot'.panes \ exiting' : snapshot'.panes[p].status = "Running"
    BY <1>2, <2>1 DEF Alive
  <2> QED BY <1>2, <1>4, <2>1, <2>2, <2>4, <2>5 DEF Inside
<1>6. CASE Accepts(r)
  <2>1. /\ usedWs' = usedWs \cup DOMAIN snapshot'.ws /\ holder' = "client"
        /\ IF Spawns(r)
           THEN /\ snapshot' = SetPaneStatus(After(r), FreshPane, "Running")
                /\ usedPanes' = usedPanes \cup {FreshPane}
                /\ Emit(PaneStatus(FreshPane, "Running"))
           ELSE snapshot' = After(r) /\ UNCHANGED <<usedPanes, queue>>
    BY <1>6 DEF Serve
  <2>2. /\ WellFormed(After(r))
        /\ IF Spawns(r)
           THEN /\ FreshPane \in DOMAIN After(r).panes
                /\ DOMAIN After(r).panes \subseteq DOMAIN snapshot.panes \cup {FreshPane}
           ELSE DOMAIN After(r).panes \subseteq DOMAIN snapshot.panes
    BY <1>1, <1>6, AcceptedWF
  <2>3. /\ \A p \in DOMAIN snapshot.panes \cap DOMAIN After(r).panes :
           (Spawns(r) => p # FreshPane) =>
              /\ After(r).panes[p].status = snapshot.panes[p].status
              /\ SizeOf(After(r), p) = IF Resizes(r, p) THEN r.size ELSE SizeOf(snapshot, p)
        /\ DOMAIN After(r).ws \subseteq DOMAIN snapshot.ws \cup (IF Spawns(r) THEN {FreshWs} ELSE {})
        /\ r.kind = "ClosePane" => r.pane \notin DOMAIN After(r).panes
    BY <1>1, <1>6, AcceptedKeeps
  <2> HIDE DEF r
  <2>4. CASE Spawns(r)
    <3>1. /\ FreshPane \in PaneIds \ usedPanes /\ FreshPane \notin DOMAIN snapshot.panes
          /\ FreshWs \notin usedWs
      BY <1>1, <2>4, FreshIds
    <3>2. /\ DOMAIN snapshot'.panes = DOMAIN After(r).panes /\ snapshot'.ws = After(r).ws
          /\ \A p \in DOMAIN After(r).panes :
                /\ SizeOf(snapshot', p) = SizeOf(After(r), p)
                /\ snapshot'.panes[p].status = IF p = FreshPane THEN "Running" ELSE After(r).panes[p].status
      BY <2>1, <2>2, <2>4, SetPaneField
    <3>3. \/ UNCHANGED queue
          \/ \E e : /\ ~HasSnapshot(e) /\ queue' = Append(queue, e)
                    /\ e.kind = "Status" =>
                          e.pane \in usedPanes' /\ (e.status = "Running" \/ e.pane \in exiting')
      <4>1. Says(PaneStatus(FreshPane, "Running"))
        BY <2>1, <2>4 DEF Says, PaneStatus, HasSnapshot
      <4> QED BY <2>1, <2>4, <4>1, EmitInside
    <3>4. r.kind # "ClosePane"
      BY <2>4 DEF Spawns
    <3>5. Served
      <4>1. \A p \in DOMAIN snapshot.panes \cap DOMAIN snapshot'.panes :
               SizeOf(snapshot', p) = IF Resizes(r, p) THEN r.size ELSE SizeOf(snapshot, p)
        BY <2>3, <3>1, <3>2
      <4> QED BY <1>1, <2>1, <3>4, <4>1 DEF Served, r
    <3>6. ASSUME NEW p \in DOMAIN snapshot'.panes \ exiting' PROVE snapshot'.panes[p].status = "Running"
      <4>1. CASE p = FreshPane
        BY <3>2, <4>1
      <4>2. CASE p # FreshPane
        BY <1>2, <2>2, <2>3, <2>4, <3>2, <4>2 DEF Alive
      <4> QED BY <4>1, <4>2
    <3>7. /\ \A p \in DOMAIN snapshot'.panes : p \in DOMAIN snapshot.panes \/ p \notin usedPanes
          /\ \A w \in DOMAIN snapshot'.ws : w \in DOMAIN snapshot.ws \/ w \notin usedWs
      BY <2>2, <2>3, <2>4, <3>1, <3>2
    <3> QED BY <1>2, <1>4, <2>1, <2>4, <3>3, <3>5, <3>6, <3>7 DEF Inside
  <2>5. CASE ~Spawns(r)
    <3>1. snapshot' = After(r) /\ UNCHANGED <<usedPanes, queue>>
      BY <2>1, <2>5
    <3>2. ASSUME NEW p \in DOMAIN After(r).panes
          PROVE  /\ p \in DOMAIN snapshot.panes
                 /\ After(r).panes[p].status = snapshot.panes[p].status
                 /\ SizeOf(After(r), p) = IF Resizes(r, p) THEN r.size ELSE SizeOf(snapshot, p)
      <4>1. p \in DOMAIN snapshot.panes
        BY <2>2, <2>5
      <4> QED BY <2>3, <2>5, <4>1
    <3>3. Served
      BY <1>1, <2>1, <2>3, <3>1, <3>2 DEF Served, r
    <3>4. \A p \in DOMAIN snapshot'.panes \ exiting' : snapshot'.panes[p].status = "Running"
      BY <1>2, <3>1, <3>2 DEF Alive
    <3> QED BY <1>2, <1>4, <2>1, <2>3, <2>5, <3>1, <3>2, <3>3, <3>4 DEF Inside
  <2> QED BY <2>4, <2>5
<1> QED BY <1>5, <1>6

\* The other steps of the daemon that send no snapshot.
LEMMA DaemonInside ==
    ASSUME IInv, Named, Alive,
           \/ \E t \in Publishers : CopyToPublish(t)
           \/ ObserveLabel
           \/ \E p \in PaneIds : Output(p) \/ Exit(p) \/ CloseExited(p)
           \/ Serve \/ AttachCopies
    PROVE  Inside
<1>1. /\ WellFormed(snapshot) /\ DOMAIN snapshot.panes \subseteq usedPanes
      /\ \A p \in DOMAIN snapshot.panes : snapshot.panes[p].ws \in DOMAIN snapshot.ws
      /\ copies = [t \in Publishers |-> copies[t]]
  BY DEF IInv, Daemon, Copies, WellFormed, LayoutsMatchPanes
<1>2. \A p \in DOMAIN snapshot.panes \ exiting : snapshot.panes[p].status = "Running"
  BY DEF Alive
<1>3. ASSUME UNCHANGED <<view, terms, published, skipped, snapshot, usedPanes, usedWs, exiting, outbox, queue>>,
             holder' = holder, NEW t \in Publishers, copies' = [copies EXCEPT ![t] = snapshot]
      PROVE  Inside
  <2>1. \A u \in Publishers : copies'[u] \in {copies[u], None, snapshot'}
    BY <1>1, <1>3
  <2> QED BY <1>2, <1>3, <2>1 DEF Inside
<1>4. ASSUME NEW t \in Publishers, CopyToPublish(t) PROVE Inside
  BY <1>3, <1>4 DEF CopyToPublish, uiVars
<1>5. CASE AttachCopies
  BY <1>3, <1>5 DEF AttachCopies, uiVars, Publishers
<1>6. CASE ObserveLabel
  <2>1. PICK p \in DOMAIN snapshot.panes, label \in Labels :
           /\ snapshot' = SetPaneProcessLabel(snapshot, p, label)
           /\ copies' = [copies EXCEPT !["monitor"] = snapshot']
    BY <1>6 DEF ObserveLabel
  <2>2. /\ DOMAIN snapshot'.panes = DOMAIN snapshot.panes /\ snapshot'.ws = snapshot.ws
        /\ \A q \in DOMAIN snapshot.panes :
              SizeOf(snapshot', q) = SizeOf(snapshot, q)
              /\ snapshot'.panes[q].status = snapshot.panes[q].status
    BY <1>1, <2>1, SetPaneField
  <2>3. \A u \in Publishers : copies'[u] \in {copies[u], None, snapshot'}
    BY <1>1, <2>1
  <2>4. UNCHANGED <<view, terms, published, skipped, usedPanes, usedWs, exiting, outbox, queue, holder>>
    BY <1>6 DEF ObserveLabel, uiVars
  <2> QED BY <1>2, <2>2, <2>3, <2>4 DEF Inside
<1>7. ASSUME NEW p \in PaneIds, Output(p) PROVE Inside
  <2>1. UNCHANGED <<view, terms, published, skipped, snapshot, usedPanes, usedWs, exiting, outbox, holder, copies>>
        /\ Emit(TerminalOutput(p, <<output'[p]>>))
    BY <1>7 DEF Output, uiVars
  <2>2. Says(TerminalOutput(p, <<output'[p]>>))
    BY DEF Says, TerminalOutput, HasSnapshot
  <2>3. \/ UNCHANGED queue
        \/ \E d : /\ ~HasSnapshot(d) /\ queue' = Append(queue, d)
                  /\ d.kind = "Status" =>
                        d.pane \in usedPanes' /\ (d.status = "Running" \/ d.pane \in exiting')
    BY <2>1, <2>2, EmitInside
  <2> QED BY <1>2, <2>1, <2>3 DEF Inside
<1>8. ASSUME NEW p \in PaneIds, Exit(p) PROVE Inside
  <2>1. /\ UNCHANGED <<view, terms, published, skipped, usedPanes, usedWs, outbox, holder, copies>>
        /\ Emit(PaneStatus(p, "Exited")) /\ exiting' = exiting \cup {p}
        /\ snapshot' = SetPaneStatus(snapshot, p, "Exited") /\ p \in DOMAIN snapshot.panes
    BY <1>8 DEF Exit, uiVars
  <2>2. Says(PaneStatus(p, "Exited"))
    BY <1>1, <2>1 DEF Says, PaneStatus, HasSnapshot
  <2>3. \/ UNCHANGED queue
        \/ \E d : /\ ~HasSnapshot(d) /\ queue' = Append(queue, d)
                  /\ d.kind = "Status" =>
                        d.pane \in usedPanes' /\ (d.status = "Running" \/ d.pane \in exiting')
    BY <2>1, <2>2, EmitInside
  <2>4. /\ DOMAIN snapshot'.panes = DOMAIN snapshot.panes /\ snapshot'.ws = snapshot.ws
        /\ \A q \in DOMAIN snapshot.panes :
              /\ SizeOf(snapshot', q) = SizeOf(snapshot, q)
              /\ q # p => snapshot'.panes[q].status = snapshot.panes[q].status
    BY <1>1, <2>1, SetPaneField
  <2> QED BY <1>2, <2>1, <2>3, <2>4 DEF Inside
<1>9. ASSUME NEW p \in PaneIds, CloseExited(p) PROVE Inside
  <2>1. UNCHANGED <<view, terms, published, skipped, usedPanes, usedWs, outbox, copies, queue>>
        /\ exiting' = exiting \ {p} /\ holder = "none"
    BY <1>9 DEF CloseExited, uiVars
  <2>2. CASE CanClosePane(snapshot, p)
    <3>1. snapshot' = ClosePane(snapshot, p)
      BY <1>9, <2>2 DEF CloseExited
    <3>2. /\ snapshot'.panes = [q \in DOMAIN snapshot.panes \ {p} |-> snapshot.panes[q]]
          /\ DOMAIN snapshot'.ws = DOMAIN snapshot.ws
      BY <3>1 DEF ClosePane, Update
    <3>3. \A q \in DOMAIN snapshot'.panes :
             /\ q \in DOMAIN snapshot.panes \ {p} /\ SizeOf(snapshot', q) = SizeOf(snapshot, q)
             /\ snapshot'.panes[q].status = snapshot.panes[q].status
      BY <3>2 DEF SizeOf
    <3> QED BY <1>2, <2>1, <3>2, <3>3 DEF Inside
  <2>3. CASE ~CanClosePane(snapshot, p)
    <3>1. p \notin DOMAIN snapshot.panes /\ UNCHANGED <<snapshot, holder>>
      BY <1>1, <1>9, <2>3 DEF CanClosePane, CloseExited
    <3> QED BY <1>2, <2>1, <3>1 DEF Inside
  <2> QED BY <2>2, <2>3
<1> QED BY <1>4, <1>5, <1>6, <1>7, <1>8, <1>9, ServeInside

----
(* Coming to rest: a snapshot is sent *)

\* What holds of the queue once a snapshot is the last in it.
LEMMA SnapshotSent ==
    ASSUME published' # None, LastIn(queue', published')
    PROVE  Told' /\ ~NoSnapshotIn(queue') /\ Focused'
<1>1. \E i \in 1..Len(queue') : HasSnapshot(queue'[i])
  BY DEF LastIn
<1>2. ~NoSnapshotIn(queue')
  BY <1>1 DEF NoSnapshotIn, ToSet
<1>3. Told'
  BY DEF Told, LastIn, HasSnapshot
<1>4. Focused'
  BY <1>2 DEF Focused, Shows, NoSnapshotIn, HasSnapshot
<1> QED BY <1>2, <1>3, <1>4

LEMMA PublishSettles ==
    ASSUME IInv, Settles, NEW t \in Publishers, Publish(t) PROVE Settles'
<1> DEFINE c == copies[t]
           e == Updated(c)
<1>1. /\ c # None /\ c = copies[t] /\ Emit(e)
      /\ published' = IF HasRoom THEN c ELSE None
      /\ skipped' = (skipped \/ (HasRoom /\ ~(DOMAIN snapshot.panes \subseteq DOMAIN c.panes)))
      /\ copies' = [copies EXCEPT ![t] = None]
      /\ UNCHANGED <<snapshot, usedPanes, usedWs, exiting, outbox, view, terms>>
  BY DEF Publish, uiVars
<1>2. HasSnapshot(e) /\ e.snap = c /\ e.kind = "Updated"
  BY DEF Updated, HasSnapshot
<1>3. Known(c)
  BY <1>1 DEF Settles, Named
<1>4. \A u \in Publishers : copies'[u] \in {copies[u], None}
  BY <1>1 DEF IInv, Copies
<1> HIDE DEF e, c
<1>5. PICK S : queue \in Seq(S)
  BY DEF IInv, Lines, EventsOK
<1>6. (\A s : Known(s)' <=> Known(s)) /\ (\A p, s : SizeOf(s, p)' = SizeOf(s, p)) /\ Closed'
  BY <1>1 DEF Known, SizeOf, Settles, Closed, Asked
<1>7. \A d \in ToSet(queue') : d \in ToSet(queue) \/ (HasRoom /\ d = e)
  <2>1. ToSet(Append(queue, e)) = ToSet(queue) \cup {e}
    BY <1>5, Longer
  <2> QED BY <1>1, <2>1 DEF Emit
<1>8. Named'
  <2>1. \A d \in ToSet(queue') :
           /\ HasSnapshot(d) => Known(d.snap)
           /\ d.kind = "Status" => d.pane \in usedPanes
    BY <1>2, <1>3, <1>7 DEF Settles, Named
  <2>2. published' # None => Known(published')
    BY <1>1, <1>3
  <2>3. \A u \in Publishers : copies'[u] # None => Known(copies'[u])
    BY <1>4 DEF Settles, Named
  <2>4. /\ \A r \in ToSet(outbox) : r.kind = "Resize" => r.pane \in usedPanes
        /\ DOMAIN terms \subseteq usedPanes /\ DOMAIN view.ws \subseteq usedWs
    BY DEF Settles, Named
  <2> QED BY <1>1, <2>1, <2>2, <2>3, <2>4 DEF Named, Known, HasSnapshot
<1>9. Told' /\ Focused' /\ (published' # None => ~NoSnapshotIn(queue'))
  <2>1. CASE HasRoom
    <3>1. published' # None /\ queue' = Append(queue, e) /\ published' = c
      BY <1>1, <2>1 DEF Emit
    <3>2. LastIn(queue', published')
      BY <1>2, <1>5, <3>1, LastAppend
    <3> QED BY <3>1, <3>2, SnapshotSent
  <2>2. CASE ~HasRoom
    BY <1>1, <2>2 DEF Told, Focused, Shows
  <2> QED BY <2>1, <2>2
<1>10. Alive'
  <2>1. \A d \in ToSet(queue') : d.kind = "Status" => d \in ToSet(queue)
    BY <1>2, <1>7
  <2>2. \A d \in ToSet(queue) : d.kind = "Status" /\ Runs(d.pane) => d.status = "Running"
    BY DEF Settles, Alive
  <2>3. \A p : Runs(p)' <=> Runs(p)
    BY <1>1 DEF Runs
  <2>4. \A p \in DOMAIN snapshot.panes \ exiting : snapshot.panes[p].status = "Running"
    BY DEF Settles, Alive
  <2>5. ~(published' # None /\ NoSnapshotIn(queue'))
    BY <1>9
  <2>6. \A d \in ToSet(queue') : d.kind = "Status" /\ Runs(d.pane)' => d.status = "Running"
    BY <2>1, <2>2, <2>3
  <2> QED BY <1>1, <2>4, <2>5, <2>6 DEF Alive, Runs, NoSnapshotIn, HasSnapshot
<1>11. SizesKnown'
  <2>1. skipped' \in BOOLEAN
    BY <1>1 DEF Settles, SizesKnown
  <2>2. ASSUME ~skipped', NEW p \in DOMAIN snapshot.panes PROVE Sized(p)'
    <3>1. ~skipped /\ (HasRoom => p \in DOMAIN c.panes)
      BY <1>1, <2>2 DEF Settles, SizesKnown
    <3>2. Sized(p)
      BY <3>1 DEF Settles, SizesKnown
    <3>3. StaysIn(queue', p, p \in DOMAIN terms)
      <4>1. StaysIn(queue, p, p \in DOMAIN terms)
        BY <3>2 DEF Sized
      <4>2. HasRoom => StaysIn(Append(queue, e), p, p \in DOMAIN terms)
        BY <1>2, <1>5, <3>1, <4>1, StaysAppend
      <4> QED BY <1>1, <4>1, <4>2 DEF Emit
    <3>4. p \in DOMAIN terms => SizesTo(outbox, p, SizeOf(snapshot, p), terms[p].size)
      BY <3>2 DEF Sized
    <3>5. ASSUME p \notin DOMAIN terms
          PROVE  /\ \A r \in ToSet(outbox) : ~Resizes(r, p)
                 /\ \A u \in Publishers :
                       copies[u] # None /\ p \in DOMAIN copies[u].panes =>
                          SizeOf(copies[u], p) = SizeOf(snapshot, p)
                 /\ \A d \in ToSet(queue) :
                       HasSnapshot(d) /\ p \in DOMAIN d.snap.panes =>
                          SizeOf(d.snap, p) = SizeOf(snapshot, p)
      BY <3>2, <3>5 DEF Sized
    <3>6. ASSUME p \notin DOMAIN terms, NEW u \in Publishers, copies'[u] # None,
                 p \in DOMAIN copies'[u].panes
          PROVE  SizeOf(copies'[u], p) = SizeOf(snapshot, p)
      <4>1. copies'[u] = copies[u]
        BY <1>4, <3>6
      <4> QED BY <3>5, <3>6, <4>1
    <3>7. ASSUME p \notin DOMAIN terms, NEW d \in ToSet(queue'), HasSnapshot(d),
                 p \in DOMAIN d.snap.panes
          PROVE  SizeOf(d.snap, p) = SizeOf(snapshot, p)
      <4>1. CASE d \in ToSet(queue)
        BY <3>5, <3>7, <4>1
      <4>2. CASE d = e
        BY <1>1, <1>2, <3>5, <3>7, <4>2
      <4> QED BY <1>7, <4>1, <4>2
    <3> HIDE DEF c
    <3> QED BY <1>1, <3>3, <3>4, <3>5, <3>6, <3>7
            DEF Sized, SizeOf, Resizes, HasSnapshot, StaysIn, SizesTo
  <2> QED BY <1>1, <2>1, <2>2 DEF SizesKnown
<1> QED BY <1>6, <1>8, <1>9, <1>10, <1>11 DEF Settles

\* The snapshot comes first and the output of every buffer after it.
LEMMA Activated ==
    ASSUME IInv, AttachActivates
    PROVE  /\ \E S : queue' \in Seq(S)
           /\ 1 \in 1..Len(queue')
           /\ queue'[1] = [kind |-> "Attached", snap |-> copies["client"]]
           /\ \A j \in 1..Len(queue') : j # 1 => queue'[j].kind = "Output"
<1> DEFINE Filled == {p \in PaneIds : buffers[p] # <<>>}
           full   == SetToSeq(Filled)
           replay == [i \in DOMAIN full |-> TerminalOutput(full[i], buffers[full[i]])]
           first  == [kind |-> "Attached", snap |-> copies["client"]]
           Lines2 == {TerminalOutput(p, d) : p \in Filled, d \in {buffers[p] : p \in Filled}}
<1>1. full \in Seq(Filled)
  BY Constants, FS_Subset, SetToSeqIsSeq
<1>2. queue' = <<first>> \o replay
  BY DEF AttachActivates
<1>3. replay \in Seq(Lines2)
  BY <1>1
<1>4. \A e \in Lines2 : e.kind = "Output"
  BY DEF TerminalOutput
<1> HIDE DEF replay, first, Lines2
<1>5. PICK n \in Nat : n = Len(replay) /\ \A j \in 1..n : replay[j] \in Lines2
  <2>1. Len(replay) \in Nat /\ \A j \in 1..Len(replay) : replay[j] \in Lines2
    BY <1>3
  <2> QED BY <2>1
<1>6. /\ queue' \in Seq(Lines2 \cup {first}) /\ Len(queue') = n + 1
      /\ queue'[1] = first /\ \A j \in 1..n + 1 : j # 1 => queue'[j] = replay[j - 1]
  <2>1. /\ <<first>> \in Seq(Lines2 \cup {first}) /\ Len(<<first>>) = 1 /\ <<first>>[1] = first
        /\ replay \in Seq(Lines2 \cup {first})
    BY <1>3
  <2> QED BY <1>2, <1>5, <2>1, ConcatProperties
<1>7. \A j \in 1..n + 1 : j # 1 => queue'[j] \in Lines2
  <2>1. ASSUME NEW j \in 1..n + 1, j # 1 PROVE j - 1 \in 1..n
    BY <2>1
  <2> QED BY <1>5, <1>6, <2>1
<1>8. 1 \in 1..n + 1
  OBVIOUS
<1> QED BY <1>4, <1>6, <1>7, <1>8 DEF first

LEMMA ActivateSettles == ASSUME IInv, Settles, AttachActivates PROVE Settles'
<1> DEFINE c == copies["client"]
           e == [kind |-> "Attached", snap |-> c]
<1>1. /\ c # None /\ published' = c /\ copies' = [copies EXCEPT !["client"] = None]
      /\ outbox' = Tail(outbox) /\ outbox # <<>>
      /\ UNCHANGED <<skipped, snapshot, usedPanes, usedWs, exiting, view, terms>>
  BY DEF AttachActivates, uiVars, IInv, Attaching
<1>2. DOMAIN terms = {}
  BY DEF AttachActivates, IInv, Attaching
<1>3. /\ 1 \in 1..Len(queue') /\ queue'[1] = e
      /\ \A j \in 1..Len(queue') : j # 1 => queue'[j].kind = "Output"
  BY Activated
<1>4. HasSnapshot(e) /\ e.snap = c /\ e.kind = "Attached"
  BY DEF HasSnapshot
<1>5. Known(c)
  BY <1>1 DEF Settles, Named, Publishers
<1>6. \A u \in Publishers : copies'[u] \in {copies[u], None}
  BY <1>1 DEF IInv, Copies
<1> HIDE DEF e, c
<1>7. \A d \in ToSet(queue') : d = e \/ d.kind = "Output"
  <2>1. \A d \in ToSet(queue') : \E j \in 1..Len(queue') : queue'[j] = d
    BY Activated, ToSetRange
  <2> QED BY <1>3, <2>1
<1>8. ToSet(outbox') \subseteq ToSet(outbox)
  <2>1. PICK T : outbox \in Seq(T)
    BY DEF IInv, Lines, RequestsOK
  <2> QED BY <1>1, <2>1, Shorter
<1>9. Named'
  <2>1. \A d \in ToSet(queue') :
           /\ HasSnapshot(d) => Known(d.snap)
           /\ d.kind = "Status" => d.pane \in usedPanes
    BY <1>4, <1>5, <1>7 DEF HasSnapshot
  <2>2. \A u \in Publishers : copies'[u] # None => Known(copies'[u])
    BY <1>6 DEF Settles, Named
  <2>3. /\ \A r \in ToSet(outbox') : r.kind = "Resize" => r.pane \in usedPanes
        /\ DOMAIN terms \subseteq usedPanes /\ DOMAIN view.ws \subseteq usedWs
    BY <1>8 DEF Settles, Named
  <2> QED BY <1>1, <1>5, <2>1, <2>2, <2>3 DEF Named, Known, HasSnapshot
<1>10. Told' /\ Focused' /\ ~NoSnapshotIn(queue')
  <2>1. \A j \in 1 + 1..Len(queue') : j \in 1..Len(queue') /\ j # 1
    <3>1. Len(queue') \in Nat
      BY Activated
    <3> QED BY <3>1
  <2>2. \A j \in 1 + 1..Len(queue') : ~HasSnapshot(queue'[j])
    BY <1>3, <2>1 DEF HasSnapshot
  <2>3. LastIn(queue', c)
    BY <1>3, <1>4, <2>2 DEF LastIn
  <2> QED BY <1>1, <2>3, SnapshotSent
<1>11. Alive'
  <2>1. \A d \in ToSet(queue') : d.kind # "Status"
    BY <1>4, <1>7
  <2>2. \A p \in DOMAIN snapshot.panes \ exiting : snapshot.panes[p].status = "Running"
    BY DEF Settles, Alive
  <2> QED BY <1>1, <1>10, <2>1, <2>2 DEF Alive, Runs, NoSnapshotIn, HasSnapshot
<1>12. Closed'
  BY <1>1, <1>2 DEF Closed
<1>13. SizesKnown'
  <2>1. ASSUME ~skipped, NEW p \in DOMAIN snapshot.panes PROVE Sized(p)'
    <3>1. Sized(p)
      BY <2>1 DEF Settles, SizesKnown
    <3>2. /\ \A r \in ToSet(outbox) : ~Resizes(r, p)
          /\ \A u \in Publishers :
                copies[u] # None /\ p \in DOMAIN copies[u].panes =>
                   SizeOf(copies[u], p) = SizeOf(snapshot, p)
      BY <1>2, <3>1 DEF Sized
    <3>3. StaysIn(queue', p, p \in DOMAIN terms)
      <4>1. \A j \in 1..Len(queue') : HasSnapshot(queue'[j]) => j = 1
        BY <1>3 DEF HasSnapshot
      <4> QED BY <1>2, <4>1 DEF StaysIn
    <3>4. \A r \in ToSet(outbox') : ~Resizes(r, p)
      BY <1>8, <3>2
    <3>5. ASSUME NEW u \in Publishers, copies'[u] # None, p \in DOMAIN copies'[u].panes
          PROVE  SizeOf(copies'[u], p) = SizeOf(snapshot, p)
      <4>1. copies'[u] = copies[u]
        BY <1>6, <3>5
      <4> QED BY <3>2, <3>5, <4>1
    <3>6. ASSUME NEW d \in ToSet(queue'), HasSnapshot(d), p \in DOMAIN d.snap.panes
          PROVE  SizeOf(d.snap, p) = SizeOf(snapshot, p)
      <4>1. d = e
        BY <1>7, <3>6 DEF HasSnapshot
      <4>2. SizeOf(c, p) = SizeOf(snapshot, p)
        BY <1>1, <1>4, <3>2, <3>6, <4>1 DEF c, Publishers
      <4> QED BY <1>4, <4>1, <4>2
    <3> QED BY <1>1, <1>2, <3>3, <3>4, <3>5, <3>6
            DEF Sized, SizeOf, Resizes, HasSnapshot, StaysIn, SizesTo
  <2> QED BY <1>1, <2>1 DEF SizesKnown, Settles
<1> QED BY <1>9, <1>10, <1>11, <1>12, <1>13 DEF Settles

----
(* Coming to rest: what the user does *)

\* A step of the application that receives nothing: what it changes ahead of
\* the daemon, it has asked for.
Outside ==
    /\ UNCHANGED <<snapshot, usedPanes, usedWs, holder, copies, exiting, queue, published, skipped>>
    /\ DOMAIN terms' = DOMAIN terms
    /\ view'.order = view.order /\ DOMAIN view'.ws = DOMAIN view.ws
    /\ \A w \in DOMAIN view.ws :
          /\ view'.ws[w].layout = view.ws[w].layout
          /\ \/ view'.ws[w].active = view.ws[w].active
             \/ [kind |-> "FocusPane", pane |-> view'.ws[w].active] \in ToSet(outbox')
    /\ \/ view'.index = view.index
       \/ [kind |-> "FocusWorkspace", ws |-> ActiveWs'] \in ToSet(outbox')
    /\ \A p \in DOMAIN terms :
          /\ terms'[p].status = terms[p].status
          /\ terms'[p].closing = "sent" =>
                \/ terms[p].closing = "sent"
                \/ [kind |-> "ClosePane", pane |-> p] \in ToSet(outbox')
    /\ \/ /\ UNCHANGED outbox
          /\ \A p \in DOMAIN terms : terms'[p].size = terms[p].size
       \/ \E r : /\ outbox' = Append(outbox, r)
                 /\ r.kind = "Resize" => r.pane \in DOMAIN terms
                 /\ \A p \in DOMAIN terms :
                       terms'[p].size = IF Resizes(r, p) THEN r.size ELSE terms[p].size

\* What it has asked for comes last.
LEMMA OutsideQueues ==
    ASSUME IInv, Outside
    PROVE  /\ ToSet(outbox) \subseteq ToSet(outbox')
           /\ \A r \in ToSet(outbox') :
                 r \in ToSet(outbox) \/ (r.kind = "Resize" => r.pane \in DOMAIN terms)
<1>1. PICK T : outbox \in Seq(T)
  BY DEF IInv, Lines, RequestsOK
<1>2. \A r : ToSet(Append(outbox, r)) = ToSet(outbox) \cup {r}
  BY <1>1, Longer
<1>3. \/ outbox' = outbox
      \/ \E r : outbox' = Append(outbox, r) /\ (r.kind = "Resize" => r.pane \in DOMAIN terms)
  BY DEF Outside
<1>4. CASE outbox' = outbox
  BY <1>4
<1>5. ASSUME NEW r, outbox' = Append(outbox, r), r.kind = "Resize" => r.pane \in DOMAIN terms
      PROVE  /\ ToSet(outbox) \subseteq ToSet(outbox')
             /\ \A d \in ToSet(outbox') :
                   d \in ToSet(outbox) \/ (d.kind = "Resize" => d.pane \in DOMAIN terms)
  <2>1. ToSet(outbox') = ToSet(outbox) \cup {r}
    BY <1>2, <1>5
  <2> QED BY <1>5, <2>1
<1> QED BY <1>3, <1>4, <1>5

LEMMA OutsideFocused == ASSUME IInv, Settles, Outside PROVE Focused'
<1> SUFFICES ASSUME Shows' PROVE Focused'
  BY DEF Focused
<1>1. /\ view'.order = view.order /\ DOMAIN view'.ws = DOMAIN view.ws
      /\ UNCHANGED <<snapshot, published, queue, holder>>
  BY DEF Outside
<1>2. Shows
  BY <1>1 DEF Shows, NoSnapshotIn, HasSnapshot
<1>3. ASSUME NEW w \in DOMAIN view.ws
      PROVE  \/ view'.ws[w].active = published.ws[w].active
             \/ [kind |-> "FocusPane", pane |-> view'.ws[w].active] \in ToSet(outbox')
             \/ view'.ws[w].active \notin DOMAIN snapshot.panes
  <2>1. \/ view'.ws[w].active = view.ws[w].active
        \/ [kind |-> "FocusPane", pane |-> view'.ws[w].active] \in ToSet(outbox')
    BY DEF Outside
  <2>2. \/ view.ws[w].active = published.ws[w].active
        \/ [kind |-> "FocusPane", pane |-> view.ws[w].active] \in ToSet(outbox)
        \/ view.ws[w].active \notin DOMAIN snapshot.panes
    BY <1>2 DEF Settles, Focused, Asked
  <2>3. CASE view'.ws[w].active = view.ws[w].active
    <3> DEFINE r == [kind |-> "FocusPane", pane |-> view.ws[w].active]
    <3>1. [kind |-> "FocusPane", pane |-> view'.ws[w].active] = r
      BY <2>3
    <3> HIDE DEF r
    <3>2. r \in ToSet(outbox) => r \in ToSet(outbox')
      BY OutsideQueues
    <3>3. CASE r \in ToSet(outbox)
      BY <3>1, <3>2, <3>3
    <3>4. CASE r \notin ToSet(outbox)
      BY <2>2, <2>3, <3>4 DEF r
    <3> QED BY <3>3, <3>4
  <2> QED BY <2>1, <2>3
<1>4. ASSUME HasWorkspace'
      PROVE  \/ view'.index = ViewOf(published).index
             \/ [kind |-> "FocusWorkspace", ws |-> ActiveWs'] \in ToSet(outbox')
             \/ ActiveWs' \notin DOMAIN snapshot.ws
  <2>1. CASE view'.index = view.index
    <3>1. HasWorkspace /\ ActiveWs' = ActiveWs
      BY <1>1, <1>4, <2>1 DEF HasWorkspace, ActiveWs
    <3>2. \/ view.index = ViewOf(published).index
          \/ [kind |-> "FocusWorkspace", ws |-> ActiveWs] \in ToSet(outbox)
          \/ ActiveWs \notin DOMAIN snapshot.ws
      BY <1>2, <3>1 DEF Settles, Focused, Asked
    <3> DEFINE r == [kind |-> "FocusWorkspace", ws |-> ActiveWs]
    <3>3. [kind |-> "FocusWorkspace", ws |-> ActiveWs'] = r
      BY <3>1
    <3> HIDE DEF r
    <3>4. r \in ToSet(outbox) => r \in ToSet(outbox')
      BY OutsideQueues
    <3>5. CASE r \in ToSet(outbox)
      BY <3>3, <3>4, <3>5
    <3>6. CASE r \notin ToSet(outbox)
      BY <2>1, <3>1, <3>2, <3>6 DEF r
    <3> QED BY <3>5, <3>6
  <2> QED BY <2>1 DEF Outside
<1>5. (\A w \in DOMAIN view.ws :
             \/ view.ws[w].active = published.ws[w].active
             \/ Asked([kind |-> "FocusPane", pane |-> view.ws[w].active])
             \/ view.ws[w].active \notin DOMAIN snapshot.panes)'
  BY <1>1, <1>3 DEF Asked
<1>6. ViewOf(published)' = ViewOf(published)
  BY <1>1
<1>7. (HasWorkspace =>
             \/ view.index = ViewOf(published).index
             \/ Asked([kind |-> "FocusWorkspace", ws |-> ActiveWs])
             \/ ActiveWs \notin DOMAIN snapshot.ws)'
  BY <1>1, <1>4, <1>6 DEF Asked
<1> QED BY <1>5, <1>7 DEF Focused

LEMMA OutsideSized == ASSUME IInv, Settles, Outside PROVE SizesKnown'
<1>1. UNCHANGED <<snapshot, copies, queue, skipped>> /\ DOMAIN terms' = DOMAIN terms
  BY DEF Outside
<1>2. PICK T : outbox \in Seq(T)
  BY DEF IInv, Lines, RequestsOK
<1>3. ASSUME ~skipped, NEW p \in DOMAIN snapshot.panes PROVE Sized(p)'
  <2>1. Sized(p)
    BY <1>3 DEF Settles, SizesKnown
  <2>2. ASSUME p \in DOMAIN terms PROVE SizesTo(outbox', p, SizeOf(snapshot, p), terms'[p].size)
    <3>1. PICK from, to : /\ SizesTo(outbox, p, from, to)
                          /\ from = SizeOf(snapshot, p) /\ to = terms[p].size
      BY <2>1, <2>2 DEF Sized
    <3>2. \/ outbox' = outbox /\ terms'[p].size = terms[p].size
          \/ \E r : /\ outbox' = Append(outbox, r)
                    /\ terms'[p].size = IF Resizes(r, p) THEN r.size ELSE terms[p].size
      BY <2>2 DEF Outside
    <3>3. CASE outbox' = outbox /\ terms'[p].size = terms[p].size
      BY <3>1, <3>3
    <3>4. ASSUME NEW r, outbox' = Append(outbox, r),
                 terms'[p].size = IF Resizes(r, p) THEN r.size ELSE terms[p].size
          PROVE  SizesTo(outbox', p, from, terms'[p].size)
      <4>1. /\ Resizes(r, p) => SizesTo(outbox', p, from, r.size)
            /\ ~Resizes(r, p) => SizesTo(outbox', p, from, to)
        BY <1>2, <3>1, <3>4, SizesAppend
      <4>2. CASE Resizes(r, p)
        BY <3>4, <4>1, <4>2
      <4>3. CASE ~Resizes(r, p)
        BY <3>1, <3>4, <4>1, <4>3
      <4> QED BY <4>2, <4>3
    <3> QED BY <3>1, <3>2, <3>3, <3>4
  <2>3. ASSUME p \notin DOMAIN terms
        PROVE  \A r \in ToSet(outbox') : ~Resizes(r, p)
    <3>1. \A r \in ToSet(outbox) : ~Resizes(r, p)
      BY <2>1, <2>3 DEF Sized
    <3> QED BY <2>3, <3>1, OutsideQueues DEF Resizes
  <2>4. /\ StaysIn(queue, p, p \in DOMAIN terms')
        /\ p \notin DOMAIN terms =>
              /\ \A t \in Publishers :
                    copies[t] # None /\ p \in DOMAIN copies[t].panes =>
                       SizeOf(copies[t], p) = SizeOf(snapshot, p)
              /\ \A e \in ToSet(queue) :
                    HasSnapshot(e) /\ p \in DOMAIN e.snap.panes =>
                       SizeOf(e.snap, p) = SizeOf(snapshot, p)
    BY <1>1, <2>1 DEF Sized
  <2> QED BY <1>1, <2>2, <2>3, <2>4 DEF Sized, SizeOf, Resizes, HasSnapshot, StaysIn, SizesTo
<1> QED BY <1>1, <1>3 DEF SizesKnown, Settles

LEMMA OutsideSettles == ASSUME IInv, Settles, Outside PROVE Settles'
<1>1. /\ UNCHANGED <<snapshot, usedPanes, usedWs, copies, exiting, queue, published>>
      /\ DOMAIN terms' = DOMAIN terms /\ DOMAIN view'.ws = DOMAIN view.ws
  BY DEF Outside
<1>2. Named'
  <2>1. \A r \in ToSet(outbox') : r.kind = "Resize" => r.pane \in usedPanes
    BY OutsideQueues DEF Settles, Named
  <2> QED BY <1>1, <2>1 DEF Settles, Named, Known, HasSnapshot
<1>3. Told'
  <2>1. view'.order = view.order /\ \A w \in DOMAIN view.ws : view'.ws[w].layout = view.ws[w].layout
    BY DEF Outside
  <2> QED BY <1>1, <2>1 DEF Settles, Told, LastIn, NoSnapshotIn, HasSnapshot
<1>4. Alive'
  <2>1. \A p \in DOMAIN terms : terms'[p].status = terms[p].status
    BY DEF Outside
  <2> QED BY <1>1, <2>1 DEF Settles, Alive, Runs, NoSnapshotIn, HasSnapshot
<1>5. Closed'
  <2>1. ASSUME NEW p \in DOMAIN terms, terms'[p].closing = "sent"
        PROVE  [kind |-> "ClosePane", pane |-> p] \in ToSet(outbox') \/ p \notin DOMAIN snapshot.panes
    <3>1. CASE terms[p].closing = "sent"
      BY <3>1, OutsideQueues DEF Settles, Closed, Asked
    <3> QED BY <2>1, <3>1 DEF Outside
  <2> QED BY <1>1, <2>1 DEF Closed, Asked
<1> QED BY <1>2, <1>3, <1>4, <1>5, OutsideFocused, OutsideSized DEF Settles

\* What is sent has been asked for.
LEMMA SentIsAsked == ASSUME IInv, NEW r, Send(r) PROVE r \in ToSet(outbox')
<1>1. PICK T : outbox \in Seq(T)
  BY DEF IInv, Lines, RequestsOK
<1>2. ToSet(Append(outbox, r)) = ToSet(outbox) \cup {r}
  BY <1>1, Longer
<1> QED BY <1>2 DEF Send

\* A step that asks for something, and shows what it did.
LEMMA AsksOutside ==
    ASSUME UNCHANGED <<daemonVars, queue, published, skipped, view, terms>>,
           outbox' = outbox \/ \E r : r.kind # "Resize" /\ Send(r)
    PROVE  Outside
  BY DEF Outside, daemonVars, Send, Resizes

LEMMA FocusOutside ==
    ASSUME IInv, UNCHANGED <<daemonVars, queue, published, skipped, terms>>,
           HasWorkspace, NEW p \in ToSet(ActiveLayout), Focus(p)
    PROVE  Outside
<1> DEFINE r == [kind |-> "FocusPane", pane |-> p]
<1>1. Send(r)
  BY DEF Focus
<1>2. r \in ToSet(outbox')
  BY <1>1, SentIsAsked
<1>3. outbox' = Append(outbox, r) /\ r.kind = "FocusPane"
  BY <1>1 DEF Send
<1>4. /\ view'.order = view.order /\ view'.index = view.index /\ DOMAIN view'.ws = DOMAIN view.ws
      /\ \A v \in DOMAIN view.ws :
            /\ view'.ws[v].layout = view.ws[v].layout
            /\ view'.ws[v].active = IF v = ActiveWs THEN p ELSE view.ws[v].active
  BY FocusChanges DEF IInv, Window
<1>5. ASSUME NEW v \in DOMAIN view.ws
      PROVE  \/ view'.ws[v].active = view.ws[v].active
             \/ [kind |-> "FocusPane", pane |-> view'.ws[v].active] \in ToSet(outbox')
  <2>1. CASE v = ActiveWs
    BY <1>2, <1>4, <2>1
  <2>2. CASE v # ActiveWs
    BY <1>4, <2>2
  <2> QED BY <2>1, <2>2
<1> HIDE DEF r
<1>6. \E d : /\ outbox' = Append(outbox, d)
             /\ d.kind = "Resize" => d.pane \in DOMAIN terms
             /\ \A q \in DOMAIN terms :
                   terms'[q].size = IF Resizes(d, q) THEN d.size ELSE terms[q].size
  BY <1>3 DEF Resizes
<1> QED BY <1>4, <1>5, <1>6 DEF Outside, daemonVars

LEMMA TurnOutside ==
    ASSUME IInv, UNCHANGED <<daemonVars, queue, published, skipped, terms>>,
           NEW i \in Nat, FocusWorkspaceAt(i)
    PROVE  Outside
<1> DEFINE r == [kind |-> "FocusWorkspace", ws |-> view.order[i + 1]]
<1>1. Send(r) /\ view' = [view EXCEPT !.index = i]
  BY DEF FocusWorkspaceAt
<1>2. /\ view'.order = view.order /\ view'.ws = view.ws /\ view'.index = i
  BY <1>1 DEF IInv, Window, Shown
<1>3. r = [kind |-> "FocusWorkspace", ws |-> ActiveWs']
  BY <1>2 DEF ActiveWs
<1>4. r \in ToSet(outbox') /\ outbox' = Append(outbox, r) /\ r.kind = "FocusWorkspace"
  BY <1>1, SentIsAsked DEF Send
<1> HIDE DEF r
<1>5. \E d : /\ outbox' = Append(outbox, d)
             /\ d.kind = "Resize" => d.pane \in DOMAIN terms
             /\ \A q \in DOMAIN terms :
                   terms'[q].size = IF Resizes(d, q) THEN d.size ELSE terms[q].size
  BY <1>4 DEF Resizes
<1>6. [kind |-> "FocusWorkspace", ws |-> ActiveWs'] \in ToSet(outbox')
  BY <1>3, <1>4
<1> QED BY <1>2, <1>5, <1>6 DEF Outside, daemonVars

LEMMA UserOutside == ASSUME IInv, UserActs PROVE Outside
<1>1. UNCHANGED <<daemonVars, queue, published, skipped>>
  BY DEF UserActs, UserCreatesWorkspace, UserClosesWorkspace, UserOpensPane, UserClosesPane,
         UserClicksPane, UserMovesFocus, UserPicksWorkspace, UserTurnsWorkspace,
         UserDragsDivider, UserSizesWindow, Acts
<1>2. Shown(view)
  BY DEF IInv, Window
<1>3. CASE UserCreatesWorkspace
  <2>1. PICK name, root : Send([kind |-> "CreateWorkspace", name |-> name, root |-> root])
    BY <1>3 DEF UserCreatesWorkspace, RequestWorkspace
  <2>2. \E r : r.kind # "Resize" /\ Send(r)
    BY <2>1
  <2> QED BY <1>1, <1>3, <2>2, AsksOutside DEF UserCreatesWorkspace, uiVars
<1>4. CASE UserClosesWorkspace
  <2>1. PICK w : Send([kind |-> "CloseWorkspace", ws |-> w])
    BY <1>4 DEF UserClosesWorkspace
  <2>2. \E r : r.kind # "Resize" /\ Send(r)
    BY <2>1
  <2> QED BY <1>1, <1>4, <2>2, AsksOutside DEF UserClosesWorkspace, uiVars
<1>5. CASE UserOpensPane
  <2>1. \/ Send([kind |-> "CreatePane", ws |-> ActiveWs])
        \/ Send([kind |-> "SplitPane", ws |-> ActiveWs, pane |-> ActivePane])
    BY <1>5 DEF UserOpensPane
  <2>2. \E r : r.kind # "Resize" /\ Send(r)
    BY <2>1
  <2> QED BY <1>1, <1>5, <2>2, AsksOutside DEF UserOpensPane, uiVars
<1>6. CASE UserClosesPane
  <2>1. UNCHANGED <<outbox, view>> /\ terms' = [terms EXCEPT ![ActivePane].closing = "started"]
    BY <1>6 DEF UserClosesPane
  <2>2. \A p \in DOMAIN terms : TerminalOK(terms[p])
    BY DEF IInv, Window
  <2>3. \A p \in DOMAIN terms :
           /\ terms'[p].status = terms[p].status /\ terms'[p].size = terms[p].size
           /\ terms'[p].closing = "sent" => terms[p].closing = "sent"
    BY <2>1, <2>2 DEF TerminalOK
  <2> QED BY <1>1, <2>1, <2>3 DEF Outside, daemonVars
<1>7. CASE UserClicksPane
  <2>1. PICK p \in ToSet(ActiveLayout) : Focus(p)
    BY <1>7 DEF UserClicksPane
  <2> QED BY <1>1, <1>7, <2>1, FocusOutside DEF UserClicksPane
<1>8. CASE UserMovesFocus
  <2>1. PICK p \in ToSet(ActiveLayout) : Focus(p)
    BY <1>8 DEF UserMovesFocus
  <2> QED BY <1>1, <1>8, <2>1, FocusOutside DEF UserMovesFocus
<1>9. CASE UserPicksWorkspace
  <2>1. PICK i \in 0..Len(view.order) - 1 : FocusWorkspaceAt(i)
    BY <1>9 DEF UserPicksWorkspace
  <2>2. i \in Nat
    BY <1>2 DEF Shown
  <2> QED BY <1>1, <1>9, <2>1, <2>2, TurnOutside DEF UserPicksWorkspace
<1>10. CASE UserTurnsWorkspace
  <2>1. PICK forward \in BOOLEAN : FocusWorkspaceAt(RelativeIndex(forward))
    BY <1>10 DEF UserTurnsWorkspace
  <2>2. view.order # <<>> /\ UNCHANGED terms
    BY <1>10 DEF UserTurnsWorkspace
  <2>3. RelativeIndex(forward) \in Nat
    BY <1>2, <2>2, RelativeIndexOK
  <2> QED BY <1>1, <2>1, <2>2, <2>3, TurnOutside
<1>11. CASE UserDragsDivider
  <2>1. Send([kind |-> "UpdateLayout", ws |-> ActiveWs, leaves |-> ActiveLayout])
    BY <1>11 DEF UserDragsDivider
  <2>2. \E r : r.kind # "Resize" /\ Send(r)
    BY <2>1
  <2> QED BY <1>1, <1>11, <2>2, AsksOutside DEF UserDragsDivider, uiVars
<1>12. CASE UserSizesWindow
  BY <1>1, <1>12, AsksOutside DEF UserSizesWindow
<1> QED BY <1>3, <1>4, <1>5, <1>6, <1>7, <1>8, <1>9, <1>10, <1>11, <1>12 DEF UserActs

LEMMA FinishCloseOutside == ASSUME IInv, NEW p \in PaneIds, FinishClose(p) PROVE Outside
<1> DEFINE r == [kind |-> "ClosePane", pane |-> p]
<1>1. /\ UNCHANGED <<daemonVars, queue, published, skipped, view>> /\ p \in DOMAIN terms
      /\ terms' = [terms EXCEPT ![p].closing = "sent"] /\ Send(r)
  BY DEF FinishClose
<1>2. \A q \in DOMAIN terms : TerminalOK(terms[q])
  BY DEF IInv, Window
<1>3. \A q \in DOMAIN terms :
         /\ terms'[q].status = terms[q].status /\ terms'[q].size = terms[q].size
         /\ q # p => terms'[q].closing = terms[q].closing
  BY <1>1, <1>2 DEF TerminalOK
<1>4. r \in ToSet(outbox') /\ outbox' = Append(outbox, r) /\ r.kind = "ClosePane"
  BY <1>1, SentIsAsked DEF Send
<1>5. \A q \in DOMAIN terms :
         terms'[q].closing = "sent" =>
            terms[q].closing = "sent" \/ [kind |-> "ClosePane", pane |-> q] \in ToSet(outbox')
  BY <1>3, <1>4
<1> HIDE DEF r
<1>6. \E d : /\ outbox' = Append(outbox, d)
             /\ d.kind = "Resize" => d.pane \in DOMAIN terms
             /\ \A q \in DOMAIN terms :
                   terms'[q].size = IF Resizes(d, q) THEN d.size ELSE terms[q].size
  BY <1>3, <1>4 DEF Resizes
<1>7. DOMAIN terms' = DOMAIN terms
  BY <1>1
<1> QED BY <1>1, <1>3, <1>5, <1>6, <1>7 DEF Outside, daemonVars

LEMMA FitOutside == ASSUME IInv, NEW p \in PaneIds, Fit(p) PROVE Outside
<1> DEFINE r == [kind |-> "Resize", pane |-> p, size |-> grid]
<1>1. /\ UNCHANGED <<daemonVars, queue, published, skipped, view>> /\ p \in DOMAIN terms
      /\ terms' = [terms EXCEPT ![p].size = grid] /\ Send(r)
  BY DEF Fit, Misfit
<1>2. \A q \in DOMAIN terms : TerminalOK(terms[q])
  BY DEF IInv, Window
<1>3. \A q \in DOMAIN terms :
         /\ terms'[q].status = terms[q].status /\ terms'[q].closing = terms[q].closing
         /\ terms'[q].size = IF q = p THEN grid ELSE terms[q].size
  BY <1>1, <1>2 DEF TerminalOK
<1>4. outbox' = Append(outbox, r) /\ r.kind = "Resize" /\ r.pane = p /\ r.size = grid
  BY <1>1 DEF Send
<1> HIDE DEF r
<1>5. \E d : /\ outbox' = Append(outbox, d)
             /\ d.kind = "Resize" => d.pane \in DOMAIN terms
             /\ \A q \in DOMAIN terms :
                   terms'[q].size = IF Resizes(d, q) THEN d.size ELSE terms[q].size
  BY <1>1, <1>3, <1>4 DEF Resizes
<1>6. DOMAIN terms' = DOMAIN terms
  BY <1>1
<1> QED BY <1>1, <1>3, <1>5, <1>6 DEF Outside, daemonVars

----
(* Coming to rest: what the application receives *)

\* The events and snapshots behind the one received.
LEMMA ReceivedQueues ==
    ASSUME IInv, queue # <<>>, queue' = Tail(queue)
    PROVE  /\ ToSet(queue) = {Head(queue)} \cup ToSet(queue')
           /\ \A s : LastIn(queue, s) =>
                 \/ LastIn(queue', s)
                 \/ HasSnapshot(Head(queue)) /\ Head(queue).snap = s /\ NoSnapshotIn(queue')
           /\ \A p : \A known \in BOOLEAN : StaysIn(queue, p, known) =>
                 /\ ~HasSnapshot(Head(queue)) => StaysIn(queue', p, known)
                 /\ HasSnapshot(Head(queue)) =>
                       /\ known => p \in DOMAIN Head(queue).snap.panes
                       /\ StaysIn(queue', p, p \in DOMAIN Head(queue).snap.panes)
<1>1. PICK S : queue \in Seq(S)
  BY DEF IInv, Lines, EventsOK
<1>2. ToSet(queue) = {Head(queue)} \cup ToSet(queue')
  BY <1>1, Shorter
<1>3. ASSUME NEW s, LastIn(queue, s)
      PROVE  \/ LastIn(queue', s)
             \/ HasSnapshot(Head(queue)) /\ Head(queue).snap = s /\ NoSnapshotIn(queue')
  BY <1>1, <1>3, LastTail
<1>4. ASSUME NEW p, NEW known \in BOOLEAN, StaysIn(queue, p, known)
      PROVE  /\ ~HasSnapshot(Head(queue)) => StaysIn(queue', p, known)
             /\ HasSnapshot(Head(queue)) =>
                   /\ known => p \in DOMAIN Head(queue).snap.panes
                   /\ StaysIn(queue', p, p \in DOMAIN Head(queue).snap.panes)
  BY <1>1, <1>4, StaysTail
<1> QED BY <1>2, <1>3, <1>4

\* An event that is no snapshot changes at most the status of one terminal.
LEMMA EventSettles ==
    ASSUME IInv, Settles, UNCHANGED <<daemonVars, published, skipped, view, outbox>>,
           queue # <<>>, queue' = Tail(queue), ~HasSnapshot(Head(queue)),
           DOMAIN terms' = DOMAIN terms,
           \A p \in DOMAIN terms :
              /\ terms'[p].size = terms[p].size /\ terms'[p].closing = terms[p].closing
              /\ \/ terms'[p].status = terms[p].status
                 \/ /\ Head(queue).kind = "Status" /\ Head(queue).pane = p
                    /\ terms'[p].status = Head(queue).status
    PROVE  Settles'
<1>1. UNCHANGED <<snapshot, usedPanes, usedWs, holder, copies, exiting>>
  BY DEF daemonVars
<1>2. ToSet(queue) = {Head(queue)} \cup ToSet(queue')
  BY ReceivedQueues
<1>3. NoSnapshotIn(queue') <=> NoSnapshotIn(queue)
  BY <1>2 DEF NoSnapshotIn
<1>4. Named'
  BY <1>1, <1>2 DEF Settles, Named, Known, HasSnapshot
<1>5. Told'
  <2>1. \A s : LastIn(queue, s) => LastIn(queue', s)
    BY ReceivedQueues
  <2>2. published # None =>
           \/ LastIn(queue', published)
           \/ /\ NoSnapshotIn(queue')
              /\ view.order = published.order /\ DOMAIN view.ws = DOMAIN published.ws
              /\ \A w \in DOMAIN view.ws : view.ws[w].layout = published.ws[w].layout
    BY <1>3, <2>1 DEF Settles, Told
  <2> QED BY <2>2 DEF Told, LastIn, NoSnapshotIn, HasSnapshot
<1>6. Focused'
  <2>1. Shows' => Shows
    BY <1>1, <1>3 DEF Shows, NoSnapshotIn, HasSnapshot
  <2>2. HasWorkspace' = HasWorkspace /\ ActiveWs' = ActiveWs
    BY DEF HasWorkspace, ActiveWs
  <2>3. (\A w \in DOMAIN view.ws :
             \/ view.ws[w].active = published.ws[w].active
             \/ Asked([kind |-> "FocusPane", pane |-> view.ws[w].active])
             \/ view.ws[w].active \notin DOMAIN snapshot.panes)
        => (\A w \in DOMAIN view.ws :
             \/ view.ws[w].active = published.ws[w].active
             \/ Asked([kind |-> "FocusPane", pane |-> view.ws[w].active])
             \/ view.ws[w].active \notin DOMAIN snapshot.panes)'
    BY <1>1 DEF Asked
  <2>4. (HasWorkspace =>
             \/ view.index = ViewOf(published).index
             \/ Asked([kind |-> "FocusWorkspace", ws |-> ActiveWs])
             \/ ActiveWs \notin DOMAIN snapshot.ws)
        => (HasWorkspace =>
             \/ view.index = ViewOf(published).index
             \/ Asked([kind |-> "FocusWorkspace", ws |-> ActiveWs])
             \/ ActiveWs \notin DOMAIN snapshot.ws)'
    BY <1>1, <2>2 DEF Asked
  <2> QED BY <2>1, <2>3, <2>4 DEF Settles, Focused
<1>7. Alive'
  <2>1. \A p \in DOMAIN snapshot.panes \ exiting : snapshot.panes[p].status = "Running"
    BY DEF Settles, Alive
  <2>2. \A d \in ToSet(queue) : d.kind = "Status" /\ Runs(d.pane) => d.status = "Running"
    BY DEF Settles, Alive
  <2>3. ASSUME published # None, NoSnapshotIn(queue'), NEW p \in DOMAIN terms, Runs(p)
        PROVE  terms'[p].status \in {published.panes[p].status, "Running"}
    <3>1. terms[p].status \in {published.panes[p].status, "Running"}
      BY <1>3, <2>3 DEF Settles, Alive
    <3>2. Head(queue) \in ToSet(queue)
      BY <1>2
    <3> QED BY <2>2, <2>3, <3>1, <3>2
  <2>4. \A d \in ToSet(queue') : d.kind = "Status" /\ Runs(d.pane) => d.status = "Running"
    BY <1>2, <2>2
  <2> QED BY <1>1, <2>1, <2>3, <2>4 DEF Alive, Runs, NoSnapshotIn, HasSnapshot
<1>8. Closed'
  BY <1>1 DEF Settles, Closed, Asked
<1>9. SizesKnown'
  <2>1. ASSUME ~skipped, NEW p \in DOMAIN snapshot.panes PROVE Sized(p)'
    <3>1. Sized(p)
      BY <2>1 DEF Settles, SizesKnown
    <3>2. StaysIn(queue', p, p \in DOMAIN terms)
      <4>1. StaysIn(queue, p, p \in DOMAIN terms) /\ (p \in DOMAIN terms) \in BOOLEAN
        BY <3>1 DEF Sized
      <4> QED BY <4>1, ReceivedQueues
    <3>3. /\ p \in DOMAIN terms => SizesTo(outbox, p, SizeOf(snapshot, p), terms'[p].size)
          /\ p \notin DOMAIN terms =>
                /\ \A r \in ToSet(outbox) : ~Resizes(r, p)
                /\ \A t \in Publishers :
                      copies[t] # None /\ p \in DOMAIN copies[t].panes =>
                         SizeOf(copies[t], p) = SizeOf(snapshot, p)
                /\ \A d \in ToSet(queue') :
                      HasSnapshot(d) /\ p \in DOMAIN d.snap.panes =>
                         SizeOf(d.snap, p) = SizeOf(snapshot, p)
      BY <1>2, <3>1 DEF Sized
    <3> QED BY <1>1, <3>2, <3>3 DEF Sized, SizeOf, Resizes, HasSnapshot, StaysIn, SizesTo
  <2> QED BY <1>1, <2>1 DEF SizesKnown, Settles
<1> QED BY <1>4, <1>5, <1>6, <1>7, <1>8, <1>9 DEF Settles

LEMMA ReceiveForPaneSettles == ASSUME IInv, Settles, ReceiveForPane PROVE Settles'
<1> DEFINE e == Head(queue)
<1>1. /\ e.kind \in {"Output", "Status"} /\ queue # <<>> /\ queue' = Tail(queue)
      /\ UNCHANGED <<daemonVars, published, skipped, view, outbox>>
      /\ terms' = [p \in DOMAIN terms |->
                    IF p # e.pane THEN terms[p]
                    ELSE IF e.kind = "Output" THEN [terms[p] EXCEPT !.text = @ \o e.data]
                    ELSE [terms[p] EXCEPT !.status = e.status]]
  BY DEF ReceiveForPane, Receive
<1>2. DOMAIN terms' = DOMAIN terms
  BY <1>1
<1>3. ASSUME NEW p \in DOMAIN terms
      PROVE  /\ terms'[p].size = terms[p].size /\ terms'[p].closing = terms[p].closing
             /\ \/ terms'[p].status = terms[p].status
                \/ e.kind = "Status" /\ e.pane = p /\ terms'[p].status = e.status
  <2>1. TerminalOK(terms[p])
    BY DEF IInv, Window
  <2>2. CASE p # e.pane
    BY <1>1, <2>2
  <2>3. CASE p = e.pane /\ e.kind = "Output"
    <3>1. terms'[p] = [terms[p] EXCEPT !.text = @ \o e.data]
      BY <1>1, <2>3
    <3> QED BY <2>1, <3>1 DEF TerminalOK
  <2>4. CASE p = e.pane /\ e.kind = "Status"
    <3>1. terms'[p] = [terms[p] EXCEPT !.status = e.status]
      BY <1>1, <2>4
    <3> QED BY <2>1, <2>4, <3>1 DEF TerminalOK
  <2> QED BY <1>1, <2>2, <2>3, <2>4
<1>4. ~HasSnapshot(e)
  BY <1>1 DEF HasSnapshot
<1> QED BY <1>1, <1>2, <1>3, <1>4, EventSettles

LEMMA ReceiveErrorSettles == ASSUME IInv, Settles, ReceiveError PROVE Settles'
<1>1. /\ Head(queue).kind = "Error" /\ queue # <<>> /\ queue' = Tail(queue)
      /\ UNCHANGED <<daemonVars, published, skipped, view, terms, outbox>>
  BY DEF ReceiveError, Receive
<1>2. ~HasSnapshot(Head(queue))
  BY <1>1 DEF HasSnapshot
<1> QED BY <1>1, <1>2, EventSettles

LEMMA ReceiveSnapshotSettles == ASSUME IInv, Settles, ReceiveSnapshot PROVE Settles'
<1> DEFINE e == Head(queue)
           s == e.snap
<1>1. /\ HasSnapshot(e) /\ queue # <<>> /\ queue' = Tail(queue) /\ view' = ViewOf(s)
      /\ UNCHANGED <<daemonVars, published, skipped>>
      /\ terms' = [p \in Leaves(s) \cap DOMAIN s.panes |->
                    IF p \in DOMAIN terms THEN [terms[p] EXCEPT !.status = s.panes[p].status]
                    ELSE NewTerminal(s.panes[p])]
  BY DEF ReceiveSnapshot, Receive, ApplySnapshot, HasSnapshot
<1>2. UNCHANGED <<snapshot, usedPanes, usedWs, holder, copies, exiting>>
  BY <1>1 DEF daemonVars
<1>3. WellFormed(s)
  BY <1>1, EventsTail DEF IInv, Lines, EventOK, HasSnapshot
<1>4. ToSet(queue) = {e} \cup ToSet(queue')
  BY <1>1, ReceivedQueues
<1>5. Known(s)
  BY <1>1, <1>4 DEF Settles, Named
<1>6. DOMAIN terms' = DOMAIN s.panes
  BY <1>1, <1>3, ViewIsShown
<1>7. ASSUME NEW p \in DOMAIN s.panes
      PROVE  /\ terms'[p].status = s.panes[p].status
             /\ p \in DOMAIN terms =>
                   terms'[p].size = terms[p].size /\ terms'[p].closing = terms[p].closing
             /\ p \notin DOMAIN terms => terms'[p].size = SizeOf(s, p) /\ terms'[p].closing = "no"
  <2>1. p \in DOMAIN terms'
    BY <1>6
  <2>2. CASE p \in DOMAIN terms
    <3>1. terms'[p] = [terms[p] EXCEPT !.status = s.panes[p].status] /\ TerminalOK(terms[p])
      BY <1>1, <2>1, <2>2 DEF IInv, Window
    <3> QED BY <2>2, <3>1 DEF TerminalOK
  <2>3. CASE p \notin DOMAIN terms
    <3>1. terms'[p] = NewTerminal(s.panes[p])
      BY <1>1, <2>1, <2>3
    <3> QED BY <2>3, <3>1 DEF NewTerminal, SizeOf
  <2> QED BY <2>2, <2>3
<1>8. /\ view'.order = s.order /\ DOMAIN view'.ws = DOMAIN s.ws
      /\ \A w \in DOMAIN s.ws :
            view'.ws[w].layout = s.ws[w].layout /\ view'.ws[w].active = s.ws[w].active
      /\ view'.index = ViewOf(s).index
  <2>1. /\ view'.order = s.order /\ DOMAIN view'.ws = DOMAIN s.ws
        /\ \A w \in DOMAIN s.ws : view'.ws[w] = [layout |-> s.ws[w].layout, active |-> s.ws[w].active]
    BY <1>1 DEF ViewOf
  <2>2. ASSUME NEW w \in DOMAIN s.ws
        PROVE  view'.ws[w].layout = s.ws[w].layout /\ view'.ws[w].active = s.ws[w].active
    <3>1. view'.ws[w] = [layout |-> s.ws[w].layout, active |-> s.ws[w].active]
      BY <2>1
    <3> QED BY <3>1, EntryOf
  <2> QED BY <1>1, <2>1, <2>2
<1> HIDE DEF e, s
<1>9. published # None => LastIn(queue', published) \/ (published = s /\ NoSnapshotIn(queue'))
  <2>1. ~NoSnapshotIn(queue)
    BY <1>1, <1>4 DEF NoSnapshotIn
  <2>2. published # None => LastIn(queue, published)
    BY <2>1 DEF Settles, Told
  <2> QED BY <1>1, <2>2, ReceivedQueues DEF e, s
<1>10. published # None /\ NoSnapshotIn(queue') => published = s
  <2>1. PICK S : queue' \in Seq(S)
    BY <1>1, EventsTail DEF IInv, Lines, EventsOK
  <2>2. LastIn(queue', published) => ~NoSnapshotIn(queue')
    BY <2>1, ToSetRange DEF LastIn, NoSnapshotIn
  <2> QED BY <1>9, <2>2
<1>11. /\ ToSet(outbox) \subseteq ToSet(outbox')
       /\ \A r \in ToSet(outbox') : r \in ToSet(outbox) \/ r.kind # "Resize"
       /\ \A p, from, to : SizesTo(outbox, p, from, to) => SizesTo(outbox', p, from, to)
  <2>1. PICK T : outbox \in Seq(T)
    BY DEF IInv, Lines, RequestsOK
  <2>2. outbox' = outbox \/ \E r : r.kind # "Resize" /\ outbox' = Append(outbox, r)
    <3>1. \A name, root : [kind |-> "CreateWorkspace", name |-> name, root |-> root].kind # "Resize"
      OBVIOUS
    <3> QED BY <3>1 DEF ReceiveSnapshot, RequestWorkspace, Send
  <2>3. CASE outbox' = outbox
    BY <2>3
  <2>4. ASSUME NEW r, r.kind # "Resize", outbox' = Append(outbox, r)
        PROVE  /\ ToSet(outbox) \subseteq ToSet(outbox')
               /\ \A d \in ToSet(outbox') : d \in ToSet(outbox) \/ d.kind # "Resize"
               /\ \A p, from, to : SizesTo(outbox, p, from, to) => SizesTo(outbox', p, from, to)
    <3>1. ToSet(outbox') = ToSet(outbox) \cup {r}
      BY <2>1, <2>4, Longer
    <3>2. ASSUME NEW p, NEW from, NEW to, SizesTo(outbox, p, from, to)
          PROVE  SizesTo(outbox', p, from, to)
      <4>1. ~Resizes(r, p)
        BY <2>4 DEF Resizes
      <4> QED BY <2>1, <2>4, <3>2, <4>1, SizesAppend
    <3> QED BY <2>4, <3>1, <3>2
  <2> QED BY <2>2, <2>3, <2>4
<1>12. Named'
  <2>1. /\ \A d \in ToSet(queue') :
              /\ HasSnapshot(d) => Known(d.snap)
              /\ d.kind = "Status" => d.pane \in usedPanes
        /\ \A r \in ToSet(outbox') : r.kind = "Resize" => r.pane \in usedPanes
        /\ \A t \in Publishers : copies[t] # None => Known(copies[t])
        /\ published # None => Known(published)
    BY <1>4, <1>11 DEF Settles, Named
  <2>2. DOMAIN terms' \subseteq usedPanes /\ DOMAIN view'.ws \subseteq usedWs
    BY <1>5, <1>6, <1>8 DEF Known
  <2> QED BY <1>1, <1>2, <2>1, <2>2 DEF Named, Known, HasSnapshot
<1>13. Told'
  <2>1. CASE LastIn(queue', published)
    BY <1>1, <2>1 DEF Told, LastIn, HasSnapshot
  <2>2. CASE published = s /\ NoSnapshotIn(queue')
    BY <1>1, <1>8, <2>2 DEF Told, NoSnapshotIn, HasSnapshot
  <2> QED BY <1>1, <1>9, <2>1, <2>2 DEF Told
<1>14. Focused'
  <2>1. Shows' => published' = s
    BY <1>1, <1>10 DEF Shows, NoSnapshotIn, HasSnapshot
  <2>2. ASSUME Shows' PROVE (\A w \in DOMAIN view.ws : view.ws[w].active = published.ws[w].active)'
    BY <1>8, <2>1, <2>2
  <2>3. Shows' => (view.index = ViewOf(published).index)'
    BY <1>8, <2>1
  <2> QED BY <2>2, <2>3 DEF Focused
<1>15. Alive'
  <2>1. \A p \in DOMAIN snapshot.panes \ exiting : snapshot.panes[p].status = "Running"
    BY DEF Settles, Alive
  <2>2. \A d \in ToSet(queue') : d.kind = "Status" /\ Runs(d.pane) => d.status = "Running"
    BY <1>4 DEF Settles, Alive
  <2>3. published # None /\ NoSnapshotIn(queue') =>
           \A p \in DOMAIN terms' : terms'[p].status = published.panes[p].status
    BY <1>6, <1>7, <1>10
  <2> QED BY <1>1, <1>2, <2>1, <2>2, <2>3 DEF Alive, Runs, NoSnapshotIn, HasSnapshot
<1>16. Closed'
  <2>1. ASSUME NEW p \in DOMAIN terms', terms'[p].closing = "sent"
        PROVE  [kind |-> "ClosePane", pane |-> p] \in ToSet(outbox') \/ p \notin DOMAIN snapshot.panes
    <3>1. p \in DOMAIN terms /\ terms[p].closing = "sent"
      BY <1>6, <1>7, <2>1
    <3> QED BY <1>11, <3>1 DEF Settles, Closed, Asked
  <2> QED BY <1>2, <2>1 DEF Closed, Asked
<1>17. SizesKnown'
  <2>1. ASSUME ~skipped, NEW p \in DOMAIN snapshot.panes PROVE Sized(p)'
    <3>1. Sized(p)
      BY <2>1 DEF Settles, SizesKnown
    <3>2. /\ p \in DOMAIN terms => p \in DOMAIN s.panes
          /\ StaysIn(queue', p, p \in DOMAIN s.panes)
      <4>1. StaysIn(queue, p, p \in DOMAIN terms) /\ (p \in DOMAIN terms) \in BOOLEAN
        BY <3>1 DEF Sized
      <4> QED BY <1>1, <4>1, ReceivedQueues DEF e, s
    <3>3. StaysIn(queue', p, p \in DOMAIN terms')
      BY <1>6, <3>2
    <3>4. ASSUME p \notin DOMAIN terms
          PROVE  /\ \A r \in ToSet(outbox') : ~Resizes(r, p)
                 /\ \A t \in Publishers :
                       copies[t] # None /\ p \in DOMAIN copies[t].panes =>
                          SizeOf(copies[t], p) = SizeOf(snapshot, p)
                 /\ \A d \in ToSet(queue) :
                       HasSnapshot(d) /\ p \in DOMAIN d.snap.panes =>
                          SizeOf(d.snap, p) = SizeOf(snapshot, p)
      <4>1. \A r \in ToSet(outbox) : ~Resizes(r, p)
        BY <3>1, <3>4 DEF Sized
      <4>2. \A r \in ToSet(outbox') : ~Resizes(r, p)
        BY <1>11, <4>1 DEF Resizes
      <4> QED BY <3>1, <3>4, <4>2 DEF Sized
    <3>5. ASSUME p \in DOMAIN s.panes
          PROVE  SizesTo(outbox', p, SizeOf(snapshot, p), terms'[p].size)
      <4>1. CASE p \in DOMAIN terms
        <5>1. SizesTo(outbox, p, SizeOf(snapshot, p), terms[p].size)
          BY <3>1, <4>1 DEF Sized
        <5>2. terms'[p].size = terms[p].size
          BY <1>7, <3>5, <4>1
        <5>3. SizesTo(outbox', p, SizeOf(snapshot, p), terms[p].size)
          BY <1>11, <5>1
        <5> QED BY <5>2, <5>3
      <4>2. CASE p \notin DOMAIN terms
        <5>1. terms'[p].size = SizeOf(s, p)
          BY <1>7, <3>5, <4>2
        <5>2. SizeOf(s, p) = SizeOf(snapshot, p)
          BY <1>1, <1>4, <3>4, <3>5, <4>2 DEF s
        <5> QED BY <3>4, <4>2, <5>1, <5>2 DEF SizesTo
      <4> QED BY <4>1, <4>2
    <3>6. p \in DOMAIN terms' => SizesTo(outbox', p, SizeOf(snapshot, p), terms'[p].size)
      BY <1>6, <3>5
    <3>7. p \notin DOMAIN terms' =>
             /\ \A r \in ToSet(outbox') : ~Resizes(r, p)
             /\ \A t \in Publishers :
                   copies[t] # None /\ p \in DOMAIN copies[t].panes =>
                      SizeOf(copies[t], p) = SizeOf(snapshot, p)
             /\ \A d \in ToSet(queue') :
                   HasSnapshot(d) /\ p \in DOMAIN d.snap.panes =>
                      SizeOf(d.snap, p) = SizeOf(snapshot, p)
      BY <1>4, <1>6, <3>2, <3>4
    <3> QED BY <1>2, <3>3, <3>6, <3>7 DEF Sized, SizeOf, Resizes, HasSnapshot, StaysIn, SizesTo
  <2> QED BY <1>1, <1>2, <2>1 DEF SizesKnown, Settles
<1> QED BY <1>12, <1>13, <1>14, <1>15, <1>16, <1>17 DEF Settles

----
(* Coming to rest: every reachable state *)

LEMMA InitSettles == ASSUME Init PROVE Settles
<1> DEFINE w == CHOOSE w \in WorkspaceIds : TRUE
           p == CHOOSE p \in PaneIds : TRUE
<1>1. p \in PaneIds /\ w \in WorkspaceIds
  BY Constants
<1> HIDE DEF w, p
<1>2. /\ holder = "none" /\ exiting = {} /\ queue = <<>> /\ published = None /\ skipped = FALSE
      /\ outbox = <<[kind |-> "Attach"]>> /\ copies = [t \in Publishers |-> None]
      /\ view = [order |-> <<>>, ws |-> [v \in {} |-> None], index |-> 0]
      /\ terms = [q \in {} |-> None]
  BY DEF Init
<1>3. DOMAIN terms = {} /\ DOMAIN view.ws = {}
  BY <1>2
<1>4. ToSet(queue) = {} /\ ToSet(outbox) = {[kind |-> "Attach"]}
  BY <1>2 DEF ToSet
<1>5. \A r \in ToSet(outbox) : r.kind # "Resize"
  BY <1>4
<1>6. \A q \in DOMAIN snapshot.panes : snapshot.panes[q].status = "Running"
  <2>1. CASE snapshot = EmptySnapshot
    BY <2>1 DEF EmptySnapshot
  <2>2. CASE \E name \in Names, root \in Dirs :
                snapshot = SetPaneStatus(
                    CreateWorkspace(EmptySnapshot, w, p, name, root), p, "Running")
    <3>1. PICK name \in Names, root \in Dirs :
             snapshot = SetPaneStatus(CreateWorkspace(EmptySnapshot, w, p, name, root), p, "Running")
      BY <2>2
    <3> DEFINE s == CreateWorkspace(EmptySnapshot, w, p, name, root)
    <3>2. w \in WorkspaceIds \ DOMAIN EmptySnapshot.ws /\ p \in PaneIds \ DOMAIN EmptySnapshot.panes
      BY <1>1 DEF EmptySnapshot
    <3>3. WellFormed(s)
      BY <3>2, EmptyWF, CreateWorkspaceWF
    <3>4. DOMAIN s.panes = {p}
      BY DEF EmptySnapshot, CreateWorkspace, WithPane
    <3> HIDE DEF s
    <3> QED BY <3>1, <3>3, <3>4, SetPaneField DEF s
  <2> QED BY <2>1, <2>2 DEF Init, w, p
<1>7. Named
  BY <1>2, <1>3, <1>4, <1>5 DEF Named
<1>8. Told /\ Focused /\ Closed
  BY <1>2, <1>3 DEF Told, Focused, Shows, Closed
<1>9. Alive
  BY <1>2, <1>4, <1>6 DEF Alive
<1>10. \A q \in DOMAIN snapshot.panes : Sized(q)
  BY <1>2, <1>3, <1>4, <1>5 DEF Sized, StaysIn, Resizes
<1>11. SizesKnown
  BY <1>2, <1>10 DEF SizesKnown
<1> QED BY <1>7, <1>8, <1>9, <1>11 DEF Settles

LEMMA NextSettles == ASSUME IInv, Settles, [Next]_vars PROVE Settles'
<1>1. Daemon'
  BY NextHolds DEF IInv
<1>2. CASE UNCHANGED vars
  <2>1. UNCHANGED <<snapshot, usedPanes, usedWs, holder, copies, exiting, queue, published, skipped,
                    outbox, view, terms>>
    BY <1>2 DEF vars, daemonVars, uiVars
  <2>2. Outside
    BY <2>1 DEF Outside
  <2> QED BY <2>2, OutsideSettles
<1>3. CASE UserActs
  BY <1>3, UserOutside, OutsideSettles
<1>4. CASE Frame
  BY <1>4, ReceiveSnapshotSettles, ReceiveForPaneSettles, ReceiveErrorSettles DEF Frame
<1>5. CASE \E p \in PaneIds : FinishClose(p) \/ Fit(p)
  BY <1>5, FinishCloseOutside, FitOutside, OutsideSettles
<1>6. CASE \E t \in Publishers : Publish(t)
  BY <1>6, PublishSettles
<1>7. CASE AttachActivates
  BY <1>7, ActivateSettles
<1>8. CASE \/ \E t \in Publishers : CopyToPublish(t)
           \/ ObserveLabel
           \/ \E p \in PaneIds : Output(p) \/ Exit(p) \/ CloseExited(p)
           \/ Serve \/ AttachCopies
  <2>1. Inside
    BY <1>8, DaemonInside DEF Settles
  <2> QED BY <1>1, <2>1, InsideSettles
<1> QED BY <1>2, <1>3, <1>4, <1>5, <1>6, <1>7, <1>8 DEF Next, Publishing, Attach

LEMMA SettlesAlways == Spec => [](IInv /\ Settles)
<1>1. Init => IInv /\ Settles
  BY InitHolds, InitSettles
<1>2. IInv /\ Settles /\ [Next]_vars => IInv' /\ Settles'
  BY NextHolds, NextSettles
<1> QED BY <1>1, <1>2, PTL DEF Spec

\* With nothing under way, nothing has been asked for.
LEMMA NothingUnderWay ==
    ASSUME Quiet, Current, IInv, Settles
    PROVE  /\ Shows /\ Told /\ (\A r : ~Asked(r)) /\ published # None
           /\ \A p \in DOMAIN snapshot.panes : Runs(p)
<1>1. queue = <<>> /\ outbox = <<>> /\ holder = "none" /\ exiting = {}
  BY DEF Quiet
<1>2. ToSet(outbox) = {} /\ ToSet(queue) = {}
  BY <1>1 DEF ToSet
<1>3. published # None
  BY DEF Current
<1> QED BY <1>1, <1>2, <1>3 DEF Shows, NoSnapshotIn, Asked, Runs, Settles

LEMMA ComesToRestHere == ASSUME IInv, Settles PROVE ComesToRest
<1> SUFFICES ASSUME Quiet, Current
             PROVE  ViewSettles /\ ClosesSettle /\ (skipped \/ SizesSettle)
  BY DEF ComesToRest
<1>1. /\ Shows /\ Told /\ (\A r : ~Asked(r)) /\ published # None /\ published = snapshot
      /\ \A p \in DOMAIN snapshot.panes : Runs(p)
  BY NothingUnderWay DEF Current
<1>2. WellFormed(snapshot) /\ Shown(view) /\ NoSnapshotIn(queue)
  BY <1>1 DEF IInv, Daemon, Window, Shows
<1>3. /\ view.order = snapshot.order /\ DOMAIN view.ws = DOMAIN snapshot.ws
      /\ \A w \in DOMAIN view.ws :
            /\ view.ws[w].layout = snapshot.ws[w].layout
            /\ IF view.ws[w].layout = <<>>
               THEN view.ws[w].active = None /\ snapshot.ws[w].active = None
               ELSE view.ws[w].active \in DOMAIN terms
      /\ DOMAIN terms = DOMAIN snapshot.panes
  BY <1>1, <1>2, ToldInView
<1>4. \A w \in DOMAIN view.ws : view.ws[w].active = snapshot.ws[w].active
  <2>1. ASSUME NEW w \in DOMAIN view.ws
        PROVE  \/ view.ws[w].active = snapshot.ws[w].active
               \/ view.ws[w].active \notin DOMAIN snapshot.panes
    BY <1>1 DEF Settles, Focused
  <2> QED BY <1>3, <2>1
<1>5. view.index = ViewOf(snapshot).index
  <2>1. CASE HasWorkspace
    <3>1. ActiveWs \in DOMAIN snapshot.ws
      BY <1>2, <1>3, <2>1, ActiveIsListed
    <3> QED BY <1>1, <2>1, <3>1 DEF Settles, Focused
  <2>2. CASE ~HasWorkspace
    <3>1. view.order = <<>> /\ view.index = 0
      BY <1>2, <2>2 DEF Shown, HasWorkspace
    <3>2. ToSet(snapshot.order) = {}
      BY <1>3, <3>1 DEF ToSet
    <3>3. ViewOf(snapshot).index = 0
      BY <3>2 DEF ViewOf
    <3> QED BY <3>1, <3>3
  <2> QED BY <2>1, <2>2
<1>6. view = ViewOf(snapshot)
  <2> DEFINE new == [w \in DOMAIN snapshot.ws |->
                       [layout |-> snapshot.ws[w].layout, active |-> snapshot.ws[w].active]]
  <2>1. ASSUME NEW w \in DOMAIN view.ws PROVE view.ws[w] = new[w]
    <3>1. view.ws[w] = [layout |-> view.ws[w].layout, active |-> view.ws[w].active]
      BY <1>2 DEF Shown
    <3>2. new[w] = [layout |-> snapshot.ws[w].layout, active |-> snapshot.ws[w].active]
      BY <1>3
    <3> HIDE DEF new
    <3> QED BY <1>3, <1>4, <3>1, <3>2
  <2>2. view.ws = [w \in DOMAIN view.ws |-> view.ws[w]] /\ new = [w \in DOMAIN new |-> new[w]]
        /\ DOMAIN new = DOMAIN snapshot.ws
    BY <1>2 DEF Shown
  <2>3. ViewOf(snapshot) = [order |-> snapshot.order, ws |-> new, index |-> ViewOf(snapshot).index]
    BY DEF ViewOf
  <2>4. view = [order |-> view.order, ws |-> view.ws, index |-> view.index]
    BY <1>2 DEF Shown
  <2> HIDE DEF new
  <2>5. view.ws = new
    BY <1>3, <2>1, <2>2
  <2> QED BY <1>3, <1>5, <2>3, <2>4, <2>5
<1>7. \A p \in DOMAIN terms : terms[p].status = snapshot.panes[p].status
  <2>1. ASSUME NEW p \in DOMAIN terms PROVE terms[p].status = snapshot.panes[p].status
    <3>1. Runs(p)
      BY <1>1, <1>3
    <3>2. snapshot.panes[p].status = "Running"
      BY <3>1 DEF Settles, Alive, Runs
    <3>3. terms[p].status \in {snapshot.panes[p].status, "Running"}
      BY <1>1, <1>2, <3>1 DEF Settles, Alive
    <3> QED BY <3>2, <3>3
  <2> QED BY <2>1
<1>8. ClosesSettle
  <2>1. ASSUME NEW p \in DOMAIN terms PROVE terms[p].closing = "no"
    <3>1. terms[p].closing # "started"
      BY DEF Quiet
    <3>2. terms[p].closing # "sent"
      BY <1>1, <1>3 DEF Settles, Closed
    <3>3. terms[p].closing \in Closing
      BY DEF IInv, Window, TerminalOK
    <3> QED BY <3>1, <3>2, <3>3 DEF Closing
  <2> QED BY <2>1 DEF ClosesSettle
<1>9. ASSUME ~skipped PROVE SizesSettle
  <2>1. ASSUME NEW p \in DOMAIN terms PROVE terms[p].size = snapshot.panes[p].size
    <3>1. SizesTo(outbox, p, SizeOf(snapshot, p), terms[p].size)
      BY <1>3, <1>9, <2>1 DEF Settles, SizesKnown, Sized
    <3>2. outbox = <<>>
      BY DEF Quiet
    <3> QED BY <3>1, <3>2 DEF SizesTo, SizeOf
  <2> QED BY <2>1 DEF SizesSettle
<1> QED BY <1>6, <1>7, <1>8, <1>9 DEF ViewSettles

\* Whatever was sent, dropped, refused or overtaken on the way: when the last
\* snapshot client_loop and the daemon's other threads sent found room and is
\* still what the daemon has, and nothing is under way, the application shows
\* that snapshot and no trace of what the user did ahead of it; its terminals
\* have the status and, unless a snapshot was overtaken, the size the daemon
\* has; and no pane is left in the middle of closing.
THEOREM ViewComesToRest == Spec => []ComesToRest
<1>1. IInv /\ Settles => ComesToRest
  BY ComesToRestHere
<1> QED BY <1>1, SettlesAlways, PTL
====
