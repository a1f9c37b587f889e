---- MODULE LayoutTree ----
(***************************************************************************)
(* The layout tree of a workspace (ade-core/src/layout.rs): the arrangement *)
(* the daemon builds, the edits LayoutNode offers, and the search for the   *)
(* pane next to another.                                                    *)
(*                                                                          *)
(* A managed tree is the one the daemon and the UI use: rebuilt by          *)
(* managed_terminal_layout whenever a pane comes or goes, its dividers      *)
(* dragged in between.  A free tree is edited with the methods LayoutNode   *)
(* exports.  Ratios are fractions <<numerator, denominator>>.  The module   *)
(* uses RECURSIVE operators and is only model-checked.                      *)
(***************************************************************************)
EXTENDS Integers, Sequences, FiniteSets, SequencesExt

CONSTANTS PaneIds,
          MaxTerminals,  \* MAX_TERMINALS_PER_WORKSPACE
          Ratios,        \* the ratios a caller may ask for
          MaxFree,       \* bound: the panes of a free tree
          None

ASSUME LayoutAssumption ==
    /\ MaxTerminals \in Nat \ {0}
    /\ MaxFree \in Nat
    /\ \A ratio \in Ratios : ratio[1] \in Nat /\ ratio[2] \in Nat \ {0}

VARIABLES tree,     \* Workspace::layout
          shown,    \* history: the panes in the order the caller placed them
          managed   \* whether the daemon and the UI make the edits

vars == <<tree, shown, managed>>

Empty == [kind |-> "Empty"]

Leaf(p) == [kind |-> "Pane", pane |-> p]

Split(axis, ratio, first, second) ==
    [kind |-> "Split", axis |-> axis, ratio |-> ratio,
     child |-> <<first, second>>]

Half == <<1, 2>>

Directions == {"Right", "Down", "Left", "Up"}

Axis(dir) == IF dir \in {"Right", "Left"} THEN "Columns" ELSE "Rows"

\* Between MIN_SPLIT_RATIO and MAX_SPLIT_RATIO.
ValidRatio(ratio) == 10 * ratio[1] >= ratio[2] /\ 10 * ratio[1] <= 9 * ratio[2]

\* LayoutNode::pane_ids
RECURSIVE Leaves(_)
Leaves(node) ==
    CASE node.kind = "Empty" -> <<>>
      [] node.kind = "Pane"  -> <<node.pane>>
      [] node.kind = "Split" -> Leaves(node.child[1]) \o Leaves(node.child[2])

Shows(node, p) == p \in ToSet(Leaves(node))

RECURSIVE RatiosOf(_)
RatiosOf(node) ==
    IF node.kind # "Split" THEN {}
    ELSE {node.ratio} \cup RatiosOf(node.child[1]) \cup RatiosOf(node.child[2])

\* LayoutNode::validate
Validates(node) == /\ IsInjective(Leaves(node))
                   /\ \A ratio \in RatiosOf(node) : ValidRatio(ratio)

----
(* Paths: sequences of children, 1 the first and 2 the second *)

RECURSIVE SplitPaths(_)
SplitPaths(node) ==
    IF node.kind # "Split" THEN {}
    ELSE {<<>>} \cup {<<i>> \o path : i \in {1}, path \in SplitPaths(node.child[1])}
                \cup {<<i>> \o path : i \in {2}, path \in SplitPaths(node.child[2])}

RECURSIVE NodeAt(_, _)
NodeAt(node, path) ==
    IF path = <<>> THEN node ELSE NodeAt(node.child[Head(path)], Tail(path))

\* collect_path; p is in the tree.
RECURSIVE PathTo(_, _)
PathTo(node, p) ==
    IF node.kind = "Pane" THEN <<>>
    ELSE LET i == IF Shows(node.child[1], p) THEN 1 ELSE 2
         IN  <<i>> \o PathTo(node.child[i], p)

RECURSIVE Graft(_, _, _)
Graft(node, path, new) ==
    IF path = <<>> THEN new
    ELSE [node EXCEPT !.child[Head(path)] = Graft(@, Tail(path), new)]

----
(* The edits LayoutNode offers *)

SplitAt(node, target, new, dir) ==
    Graft(node, PathTo(node, target),
              Split(Axis(dir), Half, Leaf(target), Leaf(new)))

\* The parent of the target becomes the target's sibling.
Without(node, target) ==
    LET path   == PathTo(node, target)
        parent == Front(path)
    IN  Graft(node, parent, NodeAt(node, parent).child[3 - Last(path)])

WithRatio(node, path, ratio) == Graft(node, path, [NodeAt(node, path) EXCEPT !.ratio = ratio])

----
(* managed_terminal_layout *)

RECURSIVE PaneRow(_)
PaneRow(panes) ==
    CASE Len(panes) = 0 -> Empty
      [] Len(panes) = 1 -> Leaf(Head(panes))
      [] OTHER -> Split("Columns", <<1, Len(panes)>>, Leaf(Head(panes)), PaneRow(Tail(panes)))

FirstRow(n) == IF n <= 3 THEN n
               ELSE IF (n + 1) \div 2 > 3 THEN 3 ELSE (n + 1) \div 2

Managed(panes) ==
    IF Len(panes) <= 3 THEN PaneRow(panes)
    ELSE LET k == FirstRow(Len(panes))
         IN  Split("Rows", Half, PaneRow(SubSeq(panes, 1, k)),
                   PaneRow(SubSeq(panes, k + 1, Len(panes))))

----
(* find_adjacent *)

Smaller(i, j) == IF i < j THEN i ELSE j

PositionOf(p, panes) == CHOOSE i \in DOMAIN panes : panes[i] = p

\* Mutant: what the comment says, the first leaf of the sibling.
RECURSIVE ClimbFirstLeaf(_, _, _, _)
ClimbFirstLeaf(node, path, p, dir) ==
    IF path = <<>> THEN None
    ELSE LET parent  == NodeAt(node, Front(path))
             child   == Last(path)
             forward == dir \in {"Right", "Down"}
         IN  IF parent.axis # Axis(dir) \/ (~forward /\ child = 1)
             THEN ClimbFirstLeaf(node, Front(path), p, dir)
             ELSE IF forward /\ child = 2 THEN None
             ELSE Head(Leaves(parent.child[3 - child]))

\* Mutant: the same early return in both directions, for the wrong child.
RECURSIVE ClimbMirrored(_, _, _, _)
ClimbMirrored(node, path, p, dir) ==
    IF path = <<>> THEN None
    ELSE LET parent  == NodeAt(node, Front(path))
             child   == Last(path)
         IN  IF parent.axis # Axis(dir)
             THEN ClimbMirrored(node, Front(path), p, dir)
             ELSE Head(Leaves(parent.child[3 - child]))

\* The loop of find_adjacent: path leads from the root to a node above p.
RECURSIVE Climb(_, _, _, _)
Climb(node, path, p, dir) ==
    IF path = <<>> THEN None
    ELSE LET parent  == NodeAt(node, Front(path))
             child   == Last(path)
             forward == dir \in {"Right", "Down"}
         IN  IF parent.axis # Axis(dir) \/ (~forward /\ child = 1)
             THEN Climb(node, Front(path), p, dir)
             ELSE IF forward /\ child = 2 THEN None
             ELSE LET own     == Leaves(parent.child[child])
                      sibling == Leaves(parent.child[3 - child])
                  IN  sibling[Smaller(PositionOf(p, own), Len(sibling))]

FindAdjacent(node, p, dir) == Climb(node, PathTo(node, p), p, dir)

----
(* The tree of the daemon and the UI *)

InitManaged == managed = TRUE /\ tree = Empty /\ shown = <<>>

AddPane(p) ==
    /\ managed
    /\ ~Shows(tree, p)
    /\ Len(Leaves(tree)) < MaxTerminals
    /\ tree' = Managed(Append(Leaves(tree), p))
    /\ shown' = Append(shown, p)
    /\ UNCHANGED managed

ClosePane(p) ==
    /\ managed
    /\ Shows(tree, p)
    /\ tree' = IF Len(Leaves(tree)) = 1 THEN Empty ELSE Managed(Remove(Leaves(tree), p))
    /\ shown' = Remove(shown, p)
    /\ UNCHANGED managed

\* render_layout gives a dragged divider a ratio it has clamped, and the
\* daemon validates the layout it is sent.
DragDivider(path, ratio) ==
    /\ managed
    /\ path \in SplitPaths(tree)
    /\ ValidRatio(ratio)
    /\ tree' = WithRatio(tree, path, ratio)
    /\ UNCHANGED <<shown, managed>>

NextManaged ==
    \/ \E p \in PaneIds : AddPane(p) \/ ClosePane(p)
    \/ \E path \in SplitPaths(tree), ratio \in Ratios : DragDivider(path, ratio)

----
(* The tree under LayoutNode's own methods; a refused call changes nothing *)

InitFree == managed = FALSE /\ \E p \in PaneIds : tree = Leaf(p) /\ shown = <<p>>

SplitPane(target, new, dir) ==
    /\ ~managed
    /\ Len(shown) < MaxFree
    /\ ~Shows(tree, new)
    /\ Shows(tree, target)
    /\ tree' = SplitAt(tree, target, new, dir)
    /\ shown' = InsertAt(shown, PositionOf(target, shown) + 1, new)
    /\ UNCHANGED managed

RemovePane(target) ==
    /\ ~managed
    /\ tree # Leaf(target)
    /\ Shows(tree, target)
    /\ tree' = Without(tree, target)
    /\ shown' = Remove(shown, target)
    /\ UNCHANGED managed

\* Mutant: any ratio is taken.
SetRatioUnchecked(path, ratio) ==
    /\ ~managed
    /\ path \in SplitPaths(tree)
    /\ tree' = WithRatio(tree, path, ratio)
    /\ UNCHANGED <<shown, managed>>

SetRatio(path, ratio) ==
    /\ ~managed
    /\ ValidRatio(ratio)
    /\ path \in SplitPaths(tree)
    /\ tree' = WithRatio(tree, path, ratio)
    /\ UNCHANGED <<shown, managed>>

NextFree ==
    \/ \E p, q \in PaneIds, dir \in Directions : SplitPane(p, q, dir)
    \/ \E p \in PaneIds : RemovePane(p)
    \/ \E path \in SplitPaths(tree), ratio \in Ratios : SetRatio(path, ratio)

Init == InitManaged \/ InitFree

Next == NextManaged \/ NextFree

Spec == Init /\ [][Next]_vars

----
(* Properties *)

\* Every pane is shown once, in the order the calls placed it, whatever shape
\* the edits gave the tree: what AppSnapshot takes for granted when it keeps
\* only the leaves.
LeavesInOrder == Leaves(tree) = shown

\* Is there an Empty below a split, which would be drawn as a blank area?
HasBlankArea ==
    \E path \in SplitPaths(tree) : \E i \in {1, 2} :
        NodeAt(tree, path).child[i].kind = "Empty"

\* Whatever order panes come, go and dividers are dragged in, the tree shows
\* every pane once and in order, and is one the daemon accepts in an
\* UpdateLayout, without a blank area.
TreeSound == LeavesInOrder /\ Validates(tree) /\ ~HasBlankArea

\* The grid of managed_terminal_layout, stated without the tree: one row up to
\* three panes, then two with the larger one first.
GridPosition(p) ==
    LET i == PositionOf(p, shown)
        k == FirstRow(Len(shown))
    IN  IF i <= k THEN <<1, i>> ELSE <<2, i - k>>

GridRow(row) == {p \in ToSet(shown) : GridPosition(p)[1] = row}

GridNeighbour(p, dir) ==
    LET row == GridPosition(p)[1]
        col == GridPosition(p)[2]
        at(r, c) == {q \in ToSet(shown) : GridPosition(q) = <<r, c>>}
        found == CASE dir = "Right" -> at(row, col + 1)
                   [] dir = "Left"  -> at(row, col - 1)
                   [] dir = "Down"  -> at(row + 1, Smaller(col, Cardinality(GridRow(row + 1))))
                   [] dir = "Up"    -> at(row - 1, col)
    IN  IF found = {} THEN None ELSE CHOOSE q \in found : TRUE

\* In a workspace the arrow shortcuts move the focus to the pane one sees
\* there, whichever dividers were dragged and panes closed before.
FocusFollowsGrid ==
    managed => \A p \in ToSet(shown), dir \in Directions :
        FindAdjacent(tree, p, dir) = GridNeighbour(p, dir)

\* q lies in direction dir of p: the split that separates them has that axis
\* and the right order.
LiesBeyond(p, q, dir) ==
    LET a == PathTo(tree, p)
        b == PathTo(tree, q)
        k == CHOOSE i \in DOMAIN a : i \in DOMAIN b /\ a[i] # b[i]
                                     /\ SubSeq(a, 1, i - 1) = SubSeq(b, 1, i - 1)
    IN  /\ NodeAt(tree, SubSeq(a, 1, k - 1)).axis = Axis(dir)
        /\ (a[k] < b[k]) <=> (dir \in {"Right", "Down"})

\* In any tree, the pane find_adjacent names is really on that side.
AdjacentLiesBeyond ==
    \A p \in ToSet(shown), dir \in Directions :
        LET q == FindAdjacent(tree, p, dir)
        IN  q # None => q # p /\ LiesBeyond(p, q, dir)

\* Both, the second also where only ade-core's own methods lead.
FocusMovesAsSeen == FocusFollowsGrid /\ AdjacentLiesBeyond
====
