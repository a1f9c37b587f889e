---- MODULE Selection ----
(***************************************************************************)
(* The selection of a terminal (TerminalPane in ade-app/src/main.rs): two  *)
(* cells of the screen, set by dragging.  It is read twice, by the text    *)
(* job that draws it and by the one that copies it, each with the width    *)
(* the terminal has by then.                                               *)
(***************************************************************************)
EXTENDS Integers, FiniteSets

CONSTANTS GridSizes,   \* <<rows, columns>> a terminal may have
          Unmarked     \* None

ASSUME SelectionAssumption == GridSizes \subseteq (Nat \ {0}) \X (Nat \ {0})

VARIABLES grid,        \* rows and columns
          marked,      \* TerminalPane.selection
          reporting,   \* the program has turned mouse reports on
          dragging,    \* a drag that began here goes on
          closing      \* close_started_at is Some

markVars == <<grid, marked, reporting, dragging, closing>>

Cells == (0..grid[1] - 1) \X (0..grid[2] - 1)

Marks == [start : Nat \X Nat, end : Nat \X Nat]

InitSelection ==
    /\ grid \in GridSizes /\ marked = Unmarked
    /\ reporting = FALSE /\ dragging = FALSE /\ closing = FALSE

TypeSelection ==
    /\ grid \in GridSizes /\ marked \in Marks \cup {Unmarked}
    /\ {reporting, dragging, closing} \subseteq BOOLEAN

----
(* What is drawn and what is copied *)

Index(cell) == cell[1] * grid[2] + cell[2]

\* ordered_selection, with the width of today.
Ordered(m) == IF Index(m.start) <= Index(m.end) THEN m ELSE [start |-> m.end, end |-> m.start]

\* Mutant: the cell under the pointer is left out.
CopiedExclusive(m) ==
    LET o == Ordered(m)
    IN  {c \in Cells :
            /\ c[1] \in o.start[1]..o.end[1]
            /\ c[1] = o.start[1] => c[2] >= o.start[2]
            /\ c[1] = o.end[1] => c[2] < o.end[2]}

\* selected_text: contents_between gives the rest of the first row, the rows
\* between and the beginning of the last, and nothing if the last comes first.
Copied(m) ==
    LET o == Ordered(m)
    IN  {c \in Cells :
            /\ c[1] \in o.start[1]..o.end[1]
            /\ c[1] = o.start[1] => c[2] >= o.start[2]
            /\ c[1] = o.end[1] => c[2] < o.end[2] + 1}

\* terminal_layout_job.
Highlighted(m) ==
    LET o == Ordered(m) IN {c \in Cells : Index(c) \in Index(o.start)..Index(o.end)}

----
(* The pointer in a frame *)

\* It selects unless the program has asked for it, which shift overrides.
Selects(shift) == ~reporting \/ shift

Click ==
    /\ ~dragging
    /\ \E shift \in BOOLEAN :
          marked' = IF Selects(shift) /\ ~closing THEN Unmarked ELSE marked
    /\ UNCHANGED <<grid, reporting, dragging, closing>>

\* The end moves, also the one of a selection that was there before.
Extended(cell) == IF marked = Unmarked THEN Unmarked ELSE [marked EXCEPT !.end = cell]

\* cell_at_pointer gives a cell of the present grid, or none beside it.
DragStarts ==
    /\ ~dragging /\ dragging' = TRUE
    /\ \/ UNCHANGED marked
       \/ \E cell \in Cells :
             marked' = IF closing THEN Extended(cell) ELSE [start |-> cell, end |-> cell]
    /\ UNCHANGED <<grid, reporting, closing>>

Drag ==
    /\ dragging
    /\ \E cell \in Cells : marked' = Extended(cell)
    /\ UNCHANGED <<grid, reporting, dragging, closing>>

DragEnds == dragging /\ dragging' = FALSE /\ UNCHANGED <<grid, marked, reporting, closing>>

----
(* What happens to the terminal *)

\* TerminalPane::resize leaves the selection as it is.
ResizeGrid == grid' \in GridSizes /\ UNCHANGED <<marked, reporting, dragging, closing>>

ProgramReports == reporting' = ~reporting /\ UNCHANGED <<grid, marked, dragging, closing>>

\* The close animation begins; nothing takes it back.
CloseStarts == ~closing /\ closing' = TRUE /\ UNCHANGED <<grid, marked, reporting, dragging>>

NextSelection == Click \/ DragStarts \/ Drag \/ DragEnds \/ ResizeGrid \/ ProgramReports \/ CloseStarts

----
(* Properties *)

ColumnsExist(m) == m.start[2] < grid[2] /\ m.end[2] < grid[2]

\* "Selected cells are highlighted in blue.  Ctrl+C copies the selected text"
\* (docs/features.md:250): what is copied is what is highlighted, whichever way
\* it was dragged and whatever the terminal's size has become, as long as it has
\* the columns of the two cells.
CopiesWhatIsMarked ==
    /\ TypeSelection
    /\ marked # Unmarked /\ ColumnsExist(marked) => Copied(marked) = Highlighted(marked)
====
