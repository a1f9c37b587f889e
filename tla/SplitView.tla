---- MODULE SplitView ----
(***************************************************************************)
(* How the window draws a layout tree (render_layout and the functions on  *)
(* ratios it uses, ade-app/src/main.rs): where each divider and pane goes   *)
(* in a view, and what a dragged divider makes of its ratio.                *)
(*                                                                          *)
(* The lengths of a view are whole numbers of a unit that divides a point   *)
(* and a pixel of its screen.  A ratio of the code times the length it      *)
(* divides is here a length, a fraction over the d of its split, so that    *)
(* nothing is rounded but what snap_to_pixel rounds; what f32 rounds besides*)
(* matters in one place, ClampPanics.                                       *)
(***************************************************************************)
EXTENDS LayoutTree

CONSTANT Views  \* [width, height: in pixels, point, pixel: in units]

ASSUME SplitViewAssumption ==
    \A view \in Views : view.width > 0 /\ view.height > 0 /\ view.point > 0 /\ view.pixel > 0

DividerSize == 6
MinPane == [Columns |-> 220, Rows |-> 120]  \* MIN_PANE_WIDTH, MIN_PANE_HEIGHT

Larger(i, j) == IF i < j THEN j ELSE i
Clamp(x, low, high) == IF x < low THEN low ELSE IF x > high THEN high ELSE x

\* The extent along an axis of a tree whose panes have the extent pane.
RECURSIVE Extent(_, _, _)
Extent(node, axis, pane) ==
    IF node.kind # "Split" THEN IF node.kind = "Empty" THEN 0 ELSE pane
    ELSE LET first  == Extent(node.child[1], axis, pane)
             second == Extent(node.child[2], axis, pane)
         IN  IF node.axis = axis THEN first + DividerSize + second ELSE Larger(first, second)

\* Mutant: a nested row needs no more than one pane.
MinimumOfOne(node, axis) == MinPane[axis]

MinimumExtent(node, axis) == Extent(node, axis, MinPane[axis])

InternalDividers(node, axis) == Extent(node, axis, 0)

----
(* A split of the length available, in units of view; panes and dividers of  *)
(* its children in points                                                   *)

D(ratio) == 10 * ratio[2]

\* Mutant: the ratio divides panes and dividers alike.
AllocatedOfAll(split, available, view) == 10 * available * split.ratio[1]

\* allocation_ratio_for_layout: the ratio divides what the panes get, without
\* the dividers among them.
Allocated(split, available, view) ==
    LET dividers(i) == InternalDividers(split.child[i], split.axis) * view.point
        content     == Larger(available - dividers(1) - dividers(2), 0)
    IN  10 * (dividers(1) * split.ratio[2] + content * split.ratio[1])

Minimum(split, i, view) == MinimumExtent(split.child[i], split.axis) * view.point

HasRoom(split, available, view) == Minimum(split, 1, view) + Minimum(split, 2, view) <= available

\* constrained_split_ratio, for a desired length over d
Constrained(split, desired, d, available, view) ==
    LET low        == available * (d \div 10)
        high       == 9 * low
        tenths(x)  == Clamp(x, low, high)
        least      == tenths(Minimum(split, 1, view) * d)
        greatest   == tenths((available - Minimum(split, 2, view)) * d)
    IN  IF HasRoom(split, available, view) THEN Clamp(tenths(desired), least, greatest)
        ELSE tenths(desired)

\* snap_to_pixel of n / d: the nearest pixel, a half away from zero.
Snap(n, d, view) ==
    LET p == d * view.pixel
    IN  (n \div p + (IF 2 * (n % p) >= p THEN 1 ELSE 0)) * view.pixel

Available(span, view) == span[2] - span[1] - DividerSize * view.point

\* Where the first child ends in a span <<from, to>> along the split's axis.
DividerAt(split, span, view) ==
    LET available == Available(span, view)
        d         == D(split.ratio)
        desired   == Allocated(split, available, view)
        extent    == IF available <= 0 THEN available * (d \div 2)
                     ELSE Constrained(split, desired, d, available, view)
    IN  Snap(span[1] * d + extent, d, view)

\* Mutant: the inverse of AllocatedOfAll.
DraggedOfAll(split, span, pointer, view) ==
    LET available == Available(span, view)
        requested == Constrained(split, 10 * (pointer - span[1]), 10, available, view)
    IN  <<requested, 10 * available>>

\* render_layout, when the divider is dragged to pointer: the ratio that puts
\* it there, by layout_ratio_for_allocation.
DraggedRatio(split, span, pointer, view) ==
    LET available   == Available(span, view)
        dividers(i) == InternalDividers(split.child[i], split.axis) * view.point
        content     == available - dividers(1) - dividers(2)
        requested   == Constrained(split, 10 * (pointer - span[1]), 10, available, view)
    IN  IF content <= 0 THEN <<requested, 10 * available>>
        ELSE <<Clamp(requested - 10 * dividers(1), content, 9 * content), 10 * content>>

----
(* render_layout *)

Whole(view) == [Columns |-> <<0, view.width * view.pixel>>, Rows |-> <<0, view.height * view.pixel>>]

\* The rectangles of the two children.
ChildRect(split, rect, i, view) ==
    LET at == DividerAt(split, rect[split.axis], view)
    IN  [rect EXCEPT ![split.axis] =
            IF i = 1 THEN <<@[1], at>> ELSE <<at + DividerSize * view.point, @[2]>>]

RECURSIVE RectAt(_, _, _, _)
RectAt(node, path, rect, view) ==
    IF path = <<>> THEN rect
    ELSE RectAt(node.child[Head(path)], Tail(path), ChildRect(node, rect, Head(path), view), view)

PaneRect(p, view) == RectAt(tree, PathTo(tree, p), Whole(view), view)

\* The length of a pane along an axis, in units.
Length(p, axis, view) == LET span == PaneRect(p, view)[axis] IN span[2] - span[1]

----
(* f32 *)

One == 2^29

\* n of One, a sixteenth of it at least, rounded to 24 bits, to even where it
\* lies between two.
RoundedTo24(n) ==
    LET step == CASE n < 2^26 -> 4 [] n < 2^27 -> 8 [] n < 2^28 -> 16 [] OTHER -> 32
        q == n \div step
        r == 2 * (n % step)
    IN  (IF r > step \/ (r = step /\ q % 2 = 1) THEN q + 1 ELSE q) * step

\* The next k bits of n / d, for n below d, behind those of q; the last bit also
\* stands for a remainder, which no tie then has.
RECURSIVE Divided(_, _, _, _)
Divided(n, d, q, k) ==
    IF k = 0 THEN IF n # 0 /\ q % 2 = 0 THEN q + 1 ELSE q
    ELSE Divided((2 * n) % d, d, 2 * q + (2 * n) \div d, k - 1)

\* n / d in f32, times One, for a sixteenth of d to d.
Quotient(n, d) == IF n = d THEN One ELSE RoundedTo24(Divided(n, d, 0, 29))

Tenth == Quotient(1, 10)
NineTenths == Quotient(9, 10)

\* constrained_split_ratio ends in a clamp, which panics when its bounds are
\* the wrong way round.
ClampPanics(split, available, view) ==
    LET least    == Clamp(Quotient(Minimum(split, 1, view), available), Tenth, NineTenths)
        greatest == Clamp(RoundedTo24(One - Quotient(Minimum(split, 2, view), available)),
                          Tenth, NineTenths)
    IN  HasRoom(split, available, view) /\ least > greatest

----
(* Properties *)

Splits == {[node |-> NodeAt(tree, path), path |-> path] : path \in SplitPaths(tree)}

SpanOf(s, view) == RectAt(tree, s.path, Whole(view), view)[s.node.axis]

Fits(view) ==
    \A axis \in {"Columns", "Rows"} :
        MinimumExtent(tree, axis) * view.point <= Whole(view)[axis][2]

\* The comments in render_layout and constrained_split_ratio: a rebuilt layout is
\* even in every window, wide or too narrow for the minimums, but for the
\* pixels its dividers are snapped to: the panes of a row are equally wide, and
\* all panes equally high.
EvenAtEverySize ==
    managed /\ tree = Managed(shown) =>
        \A view \in Views : \A p, q \in ToSet(shown) :
            /\ GridPosition(p)[1] = GridPosition(q)[1] =>
                   Length(p, "Columns", view) - Length(q, "Columns", view) \in -view.pixel..view.pixel
            /\ Length(p, "Rows", view) - Length(q, "Rows", view) \in -view.pixel..view.pixel

\* docs/features.md:174: in a window that has room for them, every pane keeps
\* its minimum to within a pixel, whichever dividers were dragged before in
\* whichever window.
MinimumsKept ==
    managed => \A view \in Views : Fits(view) =>
        \A p \in ToSet(shown), axis \in {"Columns", "Rows"} :
            Length(p, axis, view) >= MinPane[axis] * view.point - view.pixel

\* docs/features.md:173: a divider that is dragged is drawn where the pointer
\* is, or as close to it as the minimums of the panes on both sides admit.
DividerFollows ==
    managed => \A view \in Views, s \in Splits :
        LET span      == SpanOf(s, view)
            available == Available(span, view)
        IN  HasRoom(s.node, available, view) => \A k \in 0..4 :
                LET pointer == span[1] + ((span[2] - span[1]) * k) \div 4
                    ratio   == DraggedRatio(s.node, span, pointer, view)
                    drawn   == DividerAt([s.node EXCEPT !.ratio = ratio], span, view)
                    least   == Larger(Minimum(s.node, 1, view), available \div 10)
                    most    == Larger(available \div 10,
                                      available - Larger(Minimum(s.node, 2, view), available \div 10))
                IN  drawn - Clamp(pointer, span[1] + least, span[1] + most)
                        \in -view.pixel..view.pixel

\* docs/features.md:174, for f32: no size of the window makes render_layout
\* panic while it keeps the minimums.
DrawsAtEverySize ==
    managed => \A view \in Views, s \in Splits :
        ~ClampPanics(s.node, Available(SpanOf(s, view), view), view)
====
