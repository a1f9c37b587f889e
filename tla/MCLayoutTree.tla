---- MODULE MCLayoutTree ----
(***************************************************************************)
(* Instances of LayoutTree for TLC.                                        *)
(***************************************************************************)
EXTENDS SplitView, TLC

CONSTANTS p1, p2, p3, p4, p5, p6, none

\* Just outside and on the bounds of a valid ratio.
EdgeRatios == {<<0, 1>>, <<1, 10>>, <<9, 10>>, <<91, 100>>}

\* So many points on a screen of so many percent, in whole pixels.
View(width, height, percent) ==
    LET point == percent[1]
        pixel == percent[2]
    IN  [width |-> (width * point + pixel - 1) \div pixel,
         height |-> (height * point + pixel - 1) \div pixel, point |-> point, pixel |-> pixel]

\* The smallest window with its sidebar and without, one with room for three
\* panes and two rows, exactly and a little more, and a large one, on screens of
\* 100, 125 and 150 percent.
SomeViews == {View(size[1], size[2], percent) :
                 size \in {<<224, 324>>, <<480, 360>>, <<672, 246>>, <<673, 247>>, <<900, 700>>},
                 percent \in {<<1, 1>>, <<5, 4>>, <<3, 2>>}}

ExactView == {View(672, 246, <<1, 1>>)}

PaneSymmetry == Permutations(PaneIds)
====
