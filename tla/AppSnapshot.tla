---- MODULE AppSnapshot ----
(***************************************************************************)
(* The daemon's document: the workspaces, their panes and what has focus,  *)
(* and what every request does to it (ade-daemon/src/lib.rs).  The module  *)
(* has no state: each operator maps one snapshot to the next, so that the  *)
(* sequential model (DaemonState) and the threaded one (DaemonRuntime) run *)
(* the same handlers.                                                      *)
(*                                                                         *)
(* A layout tree is abstracted to the sequence of its leaves, what         *)
(* LayoutNode::pane_ids returns; its shape is the subject of module        *)
(* LayoutTree, which checks that managed_terminal_layout keeps that        *)
(* sequence.  The vector of panes is a function from pane identifiers: the *)
(* code only looks panes up by identifier.                                 *)
(***************************************************************************)
EXTENDS Integers, Sequences, SequencesExt

CONSTANTS PaneIds,       \* pane identifiers (uuid v4 in the code)
          WorkspaceIds,  \* workspace identifiers
          Names,         \* workspace names
          BlankNames,    \* the names that are empty once trimmed
          Dirs,          \* directories
          Labels,        \* process labels
          ShellLabel,    \* the label of a pane that runs no agent
          Sizes,         \* terminal sizes, pairs <<cols, rows>>
          MaxTerminals,  \* MAX_TERMINALS_PER_WORKSPACE
          None           \* Option::None

DefaultSize == <<80, 24>>

ASSUME SnapshotAssumption ==
    /\ None \notin PaneIds \cup WorkspaceIds
    /\ BlankNames \subseteq Names
    /\ ShellLabel \in Labels
    /\ Sizes \subseteq Nat \X Nat
    /\ DefaultSize \in Sizes
    /\ MaxTerminals \in Nat \ {0}

Statuses == {"Starting", "Running", "Exited", "FailedToStart"}

Workspace == [name : Names, root : Dirs,
              layout : Seq(PaneIds), active : PaneIds \cup {None}]

Pane == [ws : WorkspaceIds, status : Statuses, cwd : Dirs,
         label : Labels, size : Sizes]

\* Is s a snapshot, in the types alone?
IsSnapshot(s) ==
    /\ s = [order |-> s.order, ws |-> s.ws,
            activeWs |-> s.activeWs, panes |-> s.panes]
    /\ s.order \in Seq(WorkspaceIds)
    /\ DOMAIN s.ws \subseteq WorkspaceIds
    /\ s.ws \in [DOMAIN s.ws -> Workspace]
    /\ s.activeWs \in WorkspaceIds \cup {None}
    /\ DOMAIN s.panes \subseteq PaneIds
    /\ s.panes \in [DOMAIN s.panes -> Pane]

EmptySnapshot == [order |-> <<>>, ws |-> [w \in {} |-> None],
                  activeWs |-> None, panes |-> [p \in {} |-> None]]

----
(* Helpers *)

IndexOf(seq, e) == CHOOSE i \in 1..Len(seq) : seq[i] = e

\* Vec::retain(|x| x != e) on a vector that holds e once.
Without(seq, e) == RemoveAt(seq, IndexOf(seq, e))

NewPane(w, dir, size) ==
    [ws |-> w, status |-> "Starting", cwd |-> dir,
     label |-> ShellLabel, size |-> size]

WithPane(panes, p, pane) ==
    [q \in DOMAIN panes \cup {p} |-> IF q = p THEN pane ELSE panes[q]]

PanesOf(s, w) == {p \in DOMAIN s.panes : s.panes[p].ws = w}

\* s with other workspaces, focus and panes, the list of workspaces kept.
Update(s, ws, activeWs, panes) ==
    [order |-> s.order, ws |-> ws, activeWs |-> activeWs, panes |-> panes]

HasLiveSession(pane) == pane.status \in {"Starting", "Running"}

ValidName(name) == name \notin BlankNames

----
(* The handlers.  CanX is the condition under which the code does not      *)
(* return an error or Ok(None); X is the snapshot it leaves.               *)

CanCreateWorkspace(name) == ValidName(name)

CreateWorkspace(s, w, p, name, root) ==
    LET workspace == [name |-> name, root |-> root,
                      layout |-> <<p>>, active |-> p]
    IN  [order    |-> Append(s.order, w),
         ws       |-> [v \in DOMAIN s.ws \cup {w} |->
                          IF v = w THEN workspace ELSE s.ws[v]],
         activeWs |-> w,
         panes    |-> WithPane(s.panes, p, NewPane(w, root, DefaultSize))]

CanRenameWorkspace(s, w, name) == ValidName(name) /\ w \in DOMAIN s.ws

RenameWorkspace(s, w, name) ==
    Update(s, [s.ws EXCEPT ![w].name = name], s.activeWs, s.panes)

CanCloseWorkspace(s, w) == w \in DOMAIN s.ws

\* Mutant: the focus goes to the first workspace instead of a neighbour.
CloseWorkspaceFocusFirst(s, w) ==
    LET rest == Without(s.order, w)
    IN  [order    |-> rest,
         ws       |-> [v \in DOMAIN s.ws \ {w} |-> s.ws[v]],
         activeWs |-> IF s.activeWs # w THEN s.activeWs
                      ELSE IF rest = <<>> THEN None ELSE rest[1],
         panes    |-> [p \in DOMAIN s.panes \ PanesOf(s, w) |-> s.panes[p]]]

CloseWorkspace(s, w) ==
    LET index == IndexOf(s.order, w)
        rest  == Without(s.order, w)
        heir  == IF rest = <<>> THEN None
                 ELSE rest[IF index <= Len(rest) THEN index ELSE Len(rest)]
    IN  [order    |-> rest,
         ws       |-> [v \in DOMAIN s.ws \ {w} |-> s.ws[v]],
         activeWs |-> IF s.activeWs = w THEN heir ELSE s.activeWs,
         panes    |-> [p \in DOMAIN s.panes \ PanesOf(s, w) |-> s.panes[p]]]

CanCreatePane(s, w) == w \in DOMAIN s.ws /\ s.ws[w].active = None

CreatePane(s, w, p) ==
    LET new == [s.ws[w] EXCEPT !.layout = <<p>>, !.active = p]
    IN  Update(s, [s.ws EXCEPT ![w] = new], s.activeWs,
               WithPane(s.panes, p, NewPane(w, new.root, DefaultSize)))

CanSplitPane(s, w, target) ==
    /\ target \in DOMAIN s.panes
    /\ s.panes[target].ws = w
    /\ w \in DOMAIN s.ws
    /\ Len(s.ws[w].layout) < MaxTerminals

SplitPane(s, w, target, p) ==
    LET new == [s.ws[w] EXCEPT !.layout = Append(@, p), !.active = p]
        from == s.panes[target]
    IN  Update(s, [s.ws EXCEPT ![w] = new], s.activeWs,
               WithPane(s.panes, p, NewPane(w, from.cwd, from.size)))

\* The pane is known and so is its workspace.
CanClosePane(s, p) == p \in DOMAIN s.panes /\ s.panes[p].ws \in DOMAIN s.ws

\* Mutant: the workspace keeps the closed pane as its active one.
ClosePaneKeepFocus(s, p) ==
    LET w == s.panes[p].ws
    IN  Update(s, [s.ws EXCEPT ![w].layout = Without(@, p)], s.activeWs,
               [q \in DOMAIN s.panes \ {p} |-> s.panes[q]])

ClosePane(s, p) ==
    LET w    == s.panes[p].ws
        old  == s.ws[w]
        rest == Without(old.layout, p)
        new  == IF Len(old.layout) = 1
                THEN [old EXCEPT !.layout = <<>>, !.active = None]
                ELSE [old EXCEPT !.layout = rest,
                                 !.active = IF @ = p THEN rest[1] ELSE @]
    IN  Update(s, [s.ws EXCEPT ![w] = new], s.activeWs,
               [q \in DOMAIN s.panes \ {p} |-> s.panes[q]])

CanFocusWorkspace(s, w) == w \in DOMAIN s.ws

FocusWorkspace(s, w) == Update(s, s.ws, w, s.panes)

CanFocusPane(s, p) == p \in DOMAIN s.panes /\ s.panes[p].ws \in DOMAIN s.ws

FocusPane(s, p) ==
    LET w == s.panes[p].ws
    IN  Update(s, [s.ws EXCEPT ![w].active = p], w, s.panes)

\* leaves: the leaves of the tree the client sent.  validate() refuses a
\* repeated leaf; two vectors without repetitions are equal once sorted when
\* they have the same elements.
CanUpdateLayout(s, w, leaves) ==
    /\ IsInjective(leaves)
    /\ w \in DOMAIN s.ws
    /\ ToSet(leaves) = ToSet(s.ws[w].layout)

UpdateLayout(s, w, leaves) ==
    Update(s, [s.ws EXCEPT ![w].layout = leaves], s.activeWs, s.panes)

\* An unknown pane is not an error: Ok(None), and nothing changes.
CanResize(s, p, size) ==
    /\ size[1] # 0 /\ size[2] # 0
    /\ p \in DOMAIN s.panes

Resize(s, p, size) ==
    Update(s, s.ws, s.activeWs, [s.panes EXCEPT ![p].size = size])

SetPaneStatus(s, p, status) ==
    Update(s, s.ws, s.activeWs, [s.panes EXCEPT ![p].status = status])

SetPaneCwd(s, p, cwd) ==
    Update(s, s.ws, s.activeWs, [s.panes EXCEPT ![p].cwd = cwd])

SetPaneProcessLabel(s, p, label) ==
    Update(s, s.ws, s.activeWs, [s.panes EXCEPT ![p].label = label])

\* DaemonState::new: no process outlives the daemon that ran it.
Restarted(s) ==
    Update(s, s.ws, s.activeWs,
           [p \in DOMAIN s.panes |->
               [s.panes[p] EXCEPT !.status = "Starting"]])

----
(* What makes a snapshot one that the UI can draw and the runtime can run.  *)

WorkspacesListed(s) ==
    /\ IsInjective(s.order)
    /\ ToSet(s.order) = DOMAIN s.ws

\* Every pane is a leaf of the layout of its workspace, once, and every leaf
\* is a pane of that workspace.
LayoutsMatchPanes(s) ==
    /\ \A w \in DOMAIN s.ws :
          /\ IsInjective(s.ws[w].layout)
          /\ Len(s.ws[w].layout) <= MaxTerminals
          /\ ToSet(s.ws[w].layout) = PanesOf(s, w)
    /\ \A p \in DOMAIN s.panes : s.panes[p].ws \in DOMAIN s.ws

\* There is a focused workspace when there is a workspace, and a focused pane
\* in each workspace that has one.
FocusInside(s) ==
    /\ IF s.order = <<>> THEN s.activeWs = None ELSE s.activeWs \in DOMAIN s.ws
    /\ \A w \in DOMAIN s.ws :
          IF s.ws[w].layout = <<>> THEN s.ws[w].active = None
          ELSE s.ws[w].active \in ToSet(s.ws[w].layout)

WellFormed(s) ==
    /\ IsSnapshot(s)
    /\ WorkspacesListed(s)
    /\ LayoutsMatchPanes(s)
    /\ FocusInside(s)

\* What of a snapshot a restart of the daemon must bring back: everything
\* but what it observes of the running processes.
Lasting(s) ==
    Update(s, s.ws, s.activeWs,
           [p \in DOMAIN s.panes |->
               [ws |-> s.panes[p].ws, cwd |-> s.panes[p].cwd,
                size |-> s.panes[p].size]])
====
