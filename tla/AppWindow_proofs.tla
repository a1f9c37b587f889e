---- MODULE AppWindow_proofs ----
(***************************************************************************)
(* The parts of the application's window, each by itself and for every     *)
(* value of its constants: a step of the window is one of the part's or    *)
(* leaves it alone (StepsOfParts), so the invariant of a part is one of    *)
(* the window.                                                             *)
(***************************************************************************)
EXTENDS AppWindow, SequenceTheorems, FiniteSetTheorems, WellFoundedInduction, TLAPS

LEMMA StepsOfParts ==
    ASSUME [WindowNext]_windowVars
    PROVE  /\ [NextUpdates]_updateVars /\ [NextDialogs]_dialogVars /\ [NextSelection]_markVars
           /\ [NextLink]_linkVars /\ [WindowStep \/ TodoStep \/ TimerStep]_toolVars
           /\ [ReadOutput]_reportVars /\ [NextGit]_gitVars /\ [NextUsage]_usageVars
           /\ [NextOutput]_outputVars
  BY DEF WindowNext, windowVars

----
(* The selection *)

\* The position of a cell in a grid of a width orders cells by row, and within
\* a row by column: what ordered_selection and terminal_layout_job compare.
LEMMA PositionsAreLexicographic ==
    ASSUME NEW width \in Nat, NEW r \in Nat, NEW s \in Nat, NEW c \in Nat, NEW d \in Nat,
           c < width, d < width
    PROVE  r * width + c <= s * width + d <=> (r < s \/ (r = s /\ c <= d))
<1>1. ASSUME NEW k \in Nat PROVE k * width \in Nat
  BY <1>1
<1>2. CASE r < s
  <2>1. PICK k \in Nat : s = r + 1 + k
    <3>1. s - r - 1 \in Nat
      BY <1>2
    <3>2. s = r + 1 + (s - r - 1)
      OBVIOUS
    <3> QED BY <3>1, <3>2
  <2>2. s * width = r * width + width + k * width
    BY <2>1
  <2> QED BY <1>1, <1>2, <2>2
<1>3. CASE r = s
  BY <1>1, <1>3
<1>4. CASE s < r
  <2>1. PICK k \in Nat : r = s + 1 + k
    <3>1. r - s - 1 \in Nat
      BY <1>4
    <3>2. r = s + 1 + (r - s - 1)
      OBVIOUS
    <3> QED BY <3>1, <3>2
  <2>2. r * width = s * width + width + k * width
    BY <2>1
  <2> QED BY <1>1, <1>4, <2>2
<1> QED BY <1>2, <1>3, <1>4

\* The invariant: the program, the pointer and the window leave a grid a
\* terminal may have, and two cells of some grid.
LEMMA TypeSelectionHolds == WindowSpec => []TypeSelection
<1>1. WindowInit => TypeSelection
  BY DEF WindowInit, InitSelection, TypeSelection
<1>2. TypeSelection /\ [WindowNext]_windowVars => TypeSelection'
  <2> SUFFICES ASSUME TypeSelection, [NextSelection]_markVars PROVE TypeSelection'
    BY StepsOfParts
  <2> USE SelectionAssumption DEF TypeSelection
  <2>1. grid[1] \in Nat /\ grid[2] \in Nat
    OBVIOUS
  <2>2. Cells \subseteq Nat \X Nat
    BY <2>1 DEF Cells
  <2>3. ASSUME NEW cell \in Cells PROVE Extended(cell) \in Marks \cup {Unmarked}
    BY <2>2, <2>3 DEF Extended, Marks
  <2>4. CASE Click
    BY <2>4 DEF Click
  <2>5. CASE DragStarts
    <3>1. CASE UNCHANGED marked
      BY <2>5, <3>1 DEF DragStarts
    <3>2. ASSUME NEW cell \in Cells,
                 marked' = IF closing THEN Extended(cell) ELSE [start |-> cell, end |-> cell]
          PROVE  marked' \in Marks \cup {Unmarked}
      BY <2>2, <2>3, <3>2 DEF Marks
    <3> QED BY <2>5, <3>1, <3>2 DEF DragStarts
  <2>6. CASE Drag
    BY <2>3, <2>6 DEF Drag
  <2>7. CASE DragEnds
    BY <2>7 DEF DragEnds
  <2>8. CASE ResizeGrid
    BY <2>8 DEF ResizeGrid
  <2>9. CASE ProgramReports
    BY <2>9 DEF ProgramReports
  <2>10. CASE CloseStarts
    BY <2>10 DEF CloseStarts
  <2>11. CASE UNCHANGED markVars
    BY <2>11 DEF markVars
  <2> QED BY <2>4, <2>5, <2>6, <2>7, <2>8, <2>9, <2>10, <2>11 DEF NextSelection
<1> QED BY <1>1, <1>2, PTL DEF WindowSpec

\* The same for cells, by the width of the present grid.
LEMMA IndexOrdersCells ==
    ASSUME TypeSelection, NEW a \in Nat \X Nat, NEW b \in Nat \X Nat,
           a[2] < grid[2], b[2] < grid[2]
    PROVE  /\ Index(a) \in Nat
           /\ Index(a) <= Index(b) <=> (a[1] < b[1] \/ (a[1] = b[1] /\ a[2] <= b[2]))
<1>1. grid[2] \in Nat
  BY SelectionAssumption DEF TypeSelection
<1>2. a[1] \in Nat /\ a[2] \in Nat /\ b[1] \in Nat /\ b[2] \in Nat
  OBVIOUS
<1>3. PICK width \in Nat : width = grid[2]
  BY <1>1
<1>4. PICK r \in Nat, c \in Nat : r = a[1] /\ c = a[2]
  BY <1>2
<1>5. PICK s \in Nat, d \in Nat : s = b[1] /\ d = b[2]
  BY <1>2
<1>6. r * width + c <= s * width + d <=> (r < s \/ (r = s /\ c <= d))
  <2>1. c < width /\ d < width
    BY <1>3, <1>4, <1>5
  <2> QED BY <2>1, PositionsAreLexicographic, Zenon
<1>7. Index(a) = r * width + c /\ Index(b) = s * width + d
  BY <1>3, <1>4, <1>5 DEF Index
<1>8. r * width + c \in Nat
  OBVIOUS
<1> QED BY <1>4, <1>5, <1>6, <1>7, <1>8

\* Drawing (terminal_layout_job) and copying (selected_text) agree on every
\* selection whose columns exist, also when its rows do not any more.
LEMMA CopiedIsHighlighted ==
    ASSUME TypeSelection, marked # Unmarked, ColumnsExist(marked)
    PROVE  Copied(marked) = Highlighted(marked)
<1> DEFINE o == Ordered(marked)
<1>1. /\ marked.start \in Nat \X Nat /\ marked.start[2] < grid[2]
      /\ marked.end \in Nat \X Nat /\ marked.end[2] < grid[2]
  BY DEF TypeSelection, Marks, ColumnsExist
<1>2. /\ o.start \in Nat \X Nat /\ o.start[2] < grid[2]
      /\ o.end \in Nat \X Nat /\ o.end[2] < grid[2]
  BY <1>1 DEF Ordered
<1>3. ASSUME NEW cell \in Cells
      PROVE  Index(cell) \in Index(o.start)..Index(o.end) <=>
                 /\ cell[1] \in o.start[1]..o.end[1]
                 /\ cell[1] = o.start[1] => cell[2] >= o.start[2]
                 /\ cell[1] = o.end[1] => cell[2] < o.end[2] + 1
  <2> HIDE DEF o
  <2>1. cell \in Nat \X Nat /\ cell[2] < grid[2]
    BY SelectionAssumption DEF Cells, TypeSelection
  <2>2. /\ Index(o.start) \in Nat
        /\ Index(o.start) <= Index(cell) <=>
              (o.start[1] < cell[1] \/ (o.start[1] = cell[1] /\ o.start[2] <= cell[2]))
    BY <1>2, <2>1, IndexOrdersCells
  <2>3. /\ Index(cell) \in Nat
        /\ Index(cell) <= Index(o.end) <=>
              (cell[1] < o.end[1] \/ (cell[1] = o.end[1] /\ cell[2] <= o.end[2]))
    BY <1>2, <2>1, IndexOrdersCells
  <2>4. Index(o.end) \in Nat
    BY <1>2, IndexOrdersCells
  <2> QED BY <1>2, <2>1, <2>2, <2>3, <2>4
<1> QED BY <1>3 DEF Copied, Highlighted

\* What the user sees marked is what Ctrl+C copies, in every grid, whichever way
\* it was dragged and however the terminal was resized since, as long as both
\* columns exist (docs/features.md:250).
THEOREM CopiesAsMarked == WindowSpec => []CopiesWhatIsMarked
<1>1. TypeSelection => CopiesWhatIsMarked
  BY CopiedIsHighlighted DEF CopiesWhatIsMarked
<1> QED BY <1>1, TypeSelectionHolds, PTL

----
(* Updates *)

\* There is one thread at a time and its result comes when it is done, and an
\* installation that is to restart the window is one the user has asked for.
UpdatesInv ==
    /\ TypeUpdates
    /\ worker = "check" => app.state = "Checking" /\ results = <<>>
    /\ worker = "install" => app.state = "Installing" /\ results = <<>>
    /\ app.state = "Installing" /\ app.restartAfter => asked = "now"
    /\ \A i \in DOMAIN results : results[i] = "Installed" => staged
    /\ RestartsWhenAsked

LEMMA FramesKeepUpdates == ASSUME UpdatesInv, FrameUpdates PROVE UpdatesInv'
<1> USE DEF UpdatesInv, TypeUpdates, RestartsWhenAsked
<1> PICK active \in {FALSE, ~gone}, launched \in BOOLEAN, click \in {"none", "now", "later"} :
        LET drained == Drained(launched)
            idle    == away /\ ~active
        IN  /\ ~app.restarting
            /\ results' = <<>>
            /\ away' = (idle /\ click # "later")
            /\ asked' = IF click = "none" THEN asked ELSE click
            /\ IF Due(drained, idle)
               THEN click = "none" /\ Install(drained, FALSE)
               ELSE \/ /\ click = "none"
                       /\ app' = drained
                       /\ UNCHANGED <<worker, installs>>
                    \/ /\ click = "now" /\ active /\ drained.state = "Available"
                       /\ Install(drained, TRUE)
                    \/ /\ click = "later" /\ active /\ drained.state = "Available"
                       /\ app' = Postponed(drained)
                       /\ UNCHANGED <<worker, installs>>
            /\ UNCHANGED <<gone, staged>>
  BY DEF FrameUpdates
<1> DEFINE drained == Drained(launched)
<1>1. /\ drained \in AppRecord
      /\ drained.state = "Installing" /\ drained.restartAfter => asked = "now"
      /\ drained.restarting => asked = "now" /\ staged /\ drained.state = "Idle" /\ ~drained.deferred
      /\ worker # "none" => drained = app
  <2>1. CASE results = <<>>
    BY <2>1 DEF Drained
  <2>2. CASE results # <<>>
    <3>1. Head(results) \in Events /\ (Head(results) = "Installed" => staged)
      BY <2>2
    <3> QED BY <2>2, <3>1 DEF Drained, DrainUpdateResult, AppRecord, Events
  <2> QED BY <2>1, <2>2
<1> HIDE DEF drained
<1>2. ASSUME NEW restart \in BOOLEAN, Install(drained, restart), drained.state \in {"Idle", "Available"},
             ~drained.restarting, restart => asked' = "now"
      PROVE  UpdatesInv'
  <2>1. PICK spawned \in BOOLEAN :
           /\ app' = Started(drained, restart, spawned)
           /\ worker' = IF spawned THEN "install" ELSE worker
           /\ installs < MaxInstalls /\ installs' = installs + 1
    BY <1>2 DEF Install
  <2>2. worker = "none"
    BY <1>1, <1>2
  <2>3. /\ app' \in AppRecord /\ ~app'.restarting /\ app'.restartAfter = restart
        /\ spawned => app'.state = "Installing"
    BY <1>1, <1>2, <2>1 DEF Started, AppRecord
  <2> QED BY <1>2, <2>1, <2>2, <2>3, UpdatesAssumption DEF Events
<1>3. CASE Due(drained, away /\ ~active)
  <2>1. Install(drained, FALSE) /\ drained.state = "Idle" /\ drained.deferred
    BY <1>3 DEF drained, Due
  <2> QED BY <1>1, <1>2, <2>1
<1>4. CASE ~Due(drained, away /\ ~active) /\ click = "none"
  <2>1. app' = drained /\ UNCHANGED <<worker, installs>> /\ asked' = asked
    BY <1>4 DEF drained
  <2> QED BY <1>1, <2>1
<1>5. CASE ~Due(drained, away /\ ~active) /\ click = "now"
  <2>1. Install(drained, TRUE) /\ drained.state = "Available" /\ asked' = "now"
    BY <1>5 DEF drained
  <2> QED BY <1>1, <1>2, <2>1
<1>6. CASE ~Due(drained, away /\ ~active) /\ click = "later"
  <2>1. drained.state = "Available" /\ app' = Postponed(drained) /\ UNCHANGED <<worker, installs>>
    BY <1>6 DEF drained
  <2>2. app' \in AppRecord /\ app'.state = "Idle" /\ app'.restarting = drained.restarting
    BY <1>1, <2>1 DEF Postponed, AppRecord
  <2>3. worker = "none" /\ ~drained.restarting
    BY <1>1, <2>1
  <2> QED BY <2>1, <2>2, <2>3
<1> QED BY <1>3, <1>4, <1>5, <1>6

LEMMA UpdatesInvHolds == WindowSpec => []UpdatesInv
<1>1. WindowInit => UpdatesInv
  <2> SUFFICES ASSUME InitUpdates PROVE UpdatesInv
    BY DEF WindowInit
  <2>1. \E state, job :
           /\ app = [state |-> state, restartAfter |-> FALSE, deferred |-> FALSE, restarting |-> FALSE]
           /\ worker = job /\ <<state, job>> \in {<<"Checking", "check">>, <<"Idle", "none">>}
    BY Zenon DEF InitUpdates
  <2>2. /\ app \in AppRecord /\ worker \in {"none", "check", "install"} /\ app.state # "Installing"
        /\ worker = "check" => app.state = "Checking"
        /\ worker # "install" /\ ~app.restarting
    BY <2>1 DEF AppRecord
  <2>3. results = <<>> /\ results \in Seq(Events) /\ Len(results) = 0
    BY DEF InitUpdates
  <2>4. away \in BOOLEAN /\ gone \in BOOLEAN /\ staged \in BOOLEAN /\ asked = "none" /\ installs = 0
    BY Zenon DEF InitUpdates
  <2> QED BY <2>2, <2>3, <2>4, UpdatesAssumption DEF UpdatesInv, TypeUpdates, RestartsWhenAsked
<1>2. UpdatesInv /\ [WindowNext]_windowVars => UpdatesInv'
  <2> SUFFICES ASSUME UpdatesInv, [NextUpdates]_updateVars PROVE UpdatesInv'
    BY StepsOfParts
  <2> USE DEF UpdatesInv, TypeUpdates, RestartsWhenAsked
  <2>1. CASE FrameUpdates
    BY <2>1, FramesKeepUpdates
  <2>2. CASE CheckEnds
    <3>1. PICK event \in Events : event # "Installed" /\ results' = <<event>>
      BY <2>2 DEF CheckEnds
    <3>2. results' \in Seq(Events) /\ Len(results') = 1 /\ DOMAIN results' = {1}
      BY <3>1
    <3> QED BY <2>2, <3>1, <3>2 DEF CheckEnds
  <2>3. CASE InstallEnds
    <3>1. PICK event \in {"Installed", "Failed"} :
             results' = <<event>> /\ staged' = (staged \/ event = "Installed")
      BY <2>3 DEF InstallEnds
    <3>2. results' \in Seq(Events) /\ Len(results') = 1 /\ DOMAIN results' = {1}
      BY <3>1 DEF Events
    <3>3. {away', gone', staged'} \subseteq BOOLEAN /\ (staged => staged')
      BY <2>3, <3>1 DEF InstallEnds
    <3>4. worker' = "none" /\ UNCHANGED <<app, away, gone, asked, installs>>
      BY <2>3 DEF InstallEnds
    <3>5. (app.restarting => asked = "now" /\ staged)'
      BY <3>3, <3>4, Zenon
    <3>6. \A i \in DOMAIN results' : results'[i] = "Installed" => staged'
      <4>1. event = "Installed" => staged'
        BY <3>1, Zenon
      <4>2. \A i \in DOMAIN results' : results'[i] = event
        BY <3>1
      <4> QED BY <4>1, <4>2, Zenon
    <3> QED BY <3>2, <3>3, <3>4, <3>5, <3>6
  <2>4. CASE IdlePasses \/ UserLeaves
    <3>1. {away', gone', staged'} \subseteq BOOLEAN
      BY <2>4 DEF IdlePasses, UserLeaves
    <3> QED BY <2>4, <3>1 DEF IdlePasses, UserLeaves
  <2>5. CASE UNCHANGED updateVars
    BY <2>5 DEF updateVars
  <2> QED BY <2>1, <2>2, <2>3, <2>4, <2>5 DEF NextUpdates
<1> QED BY <1>1, <1>2, PTL DEF WindowSpec

\* The window restarts only for an installation that is in place and that the
\* user asked to restart for (start_update, drain_update_results).
THEOREM RestartsOnlyWhenAsked == WindowSpec => []RestartsWhenAsked
<1>1. UpdatesInv => RestartsWhenAsked
  BY DEF UpdatesInv
<1> QED BY <1>1, UpdatesInvHolds, PTL

----
(* Keys *)

\* What acts on keys makes the terminals deaf, but for a palette that fades out.
LEMMA NoKeyIsDoubled ==
    ASSUME NEW o, NEW k
    PROVE  Typed(o, k) \cap Acts(o, "palette" \in o) = {}
<1>1. CASE o \cap Deafening # {}
  BY <1>1 DEF Typed
<1>2. CASE o \cap Deafening = {}
  <2>1. "palette" \notin o /\ "rename" \notin o /\ o \cap {"settings", "palette"} = {}
    BY <1>2 DEF Deafening
  <2> QED BY <2>1 DEF Acts
<1> QED BY <1>1, <1>2

\* The keys that paste are remembered as down as long as they are.
KeysInv ==
    /\ KeysActOnce /\ pasteDown \in BOOLEAN /\ pressed \in 0..2
    /\ pasteDown <=> pressed # 0

LEMMA KeysInvHolds == WindowSpec => []KeysInv
<1>1. WindowInit => KeysInv
  <2>1. 0 \in 0..2
    OBVIOUS
  <2> QED BY <2>1, Zenon DEF WindowInit, InitDialogs, KeysInv, KeysActOnce
<1>2. KeysInv /\ [WindowNext]_windowVars => KeysInv'
  <2> SUFFICES ASSUME KeysInv, [NextDialogs]_dialogVars PROVE KeysInv'
    BY StepsOfParts
  <2> USE DEF KeysInv, KeysActOnce
  <2>1. CASE RawInput
    <3>1. PICK down \in BOOLEAN, textPaste \in BOOLEAN, image \in BOOLEAN :
             HookSees(down, textPaste, image) /\ UNCHANGED doubled
      BY <2>1 DEF RawInput
    <3>2. pasteDown' = down /\ pressed' = IF ~down THEN 0 ELSE IF pressed = 2 THEN 2 ELSE pressed + 1
      BY <3>1 DEF HookSees, CountPressed
    <3>3. pasted' => down /\ ~pasteDown
      BY <3>1 DEF HookSees, HookPastes
    <3> QED BY <3>1, <3>2, <3>3
  <2>2. CASE Frame
    <3>1. /\ \E o, k : doubled' = (~fading /\ Typed(o, k) \cap Acts(o, "palette" \in o) # {})
          /\ UNCHANGED pasteVars
      BY <2>2 DEF Frame
    <3>2. ~doubled'
      BY <3>1, NoKeyIsDoubled
    <3> QED BY <3>1, <3>2 DEF pasteVars
  <2>3. CASE UNCHANGED dialogVars
    BY <2>3 DEF dialogVars, pasteVars
  <2> QED BY <2>1, <2>2, <2>3 DEF NextDialogs
<1> QED BY <1>1, <1>2, PTL DEF WindowSpec

\* A key never acts in a dialog and is typed into a terminal in the same frame,
\* and Ctrl+V pastes one image, in the frame in which it goes down, however long
\* it is held and whatever opens or closes meanwhile (AdeApp::ui, raw_input_hook).
THEOREM EachKeyActsOnce == WindowSpec => []KeysActOnce
<1>1. KeysInv => KeysActOnce
  BY DEF KeysInv
<1> QED BY <1>1, KeysInvHolds, PTL

----
(* Frames and units *)

UnitsOfFrames == [frame : Frames, rest : Nat]

\* One unit follows the other.
Chained(w) == \A i \in 1..Len(w) - 1 : Follows(w[i], w[i + 1])

LEMMA LastIs == ASSUME NEW w PROVE Last(w) = w[Len(w)]
  BY DEF Last

LEMMA ChainTail ==
    ASSUME NEW S, NEW w \in Seq(S), w # <<>>, Chained(w)
    PROVE  /\ Chained(Tail(w))
           /\ Tail(w) # <<>> => Follows(w[1], Tail(w)[1]) /\ Last(Tail(w)) = Last(w)
           /\ Tail(w) = <<>> => Last(w) = w[1]
<1>1. PICK n \in Nat : /\ Len(w) = n + 1 /\ Tail(w) \in Seq(S) /\ Len(Tail(w)) = n
                       /\ \A i \in 1..n : Tail(w)[i] = w[i + 1]
  <2>1. Len(w) \in Nat /\ Len(w) # 0 /\ Tail(w) \in Seq(S) /\ Len(Tail(w)) = Len(w) - 1
        /\ \A i \in 1..Len(w) - 1 : Tail(w)[i] = w[i + 1]
    BY HeadTailProperties, EmptySeq
  <2>2. Len(w) - 1 \in Nat /\ Len(w) = (Len(w) - 1) + 1
    BY <2>1
  <2> QED BY <2>1, <2>2
<1>2. Tail(w) = <<>> <=> n = 0
  BY <1>1, EmptySeq
<1>3. ASSUME NEW i \in 1..n - 1 PROVE Follows(Tail(w)[i], Tail(w)[i + 1])
  <2>1. i \in 1..n /\ i + 1 \in 1..n /\ i + 1 \in 1..(n + 1) - 1
    BY <1>1
  <2>2. Follows(w[i + 1], w[(i + 1) + 1])
    BY <1>1, <2>1 DEF Chained
  <2> QED BY <1>1, <2>1, <2>2
<1>4. ASSUME n # 0 PROVE Follows(w[1], Tail(w)[1]) /\ Last(Tail(w)) = Last(w)
  <2>1. 1 \in 1..n /\ n \in 1..n /\ 1 \in 1..(n + 1) - 1
    BY <1>4
  <2>2. Follows(w[1], w[1 + 1])
    BY <1>1, <2>1 DEF Chained
  <2> QED BY <1>1, <2>1, <2>2, LastIs
<1> QED BY <1>1, <1>2, <1>3, <1>4, LastIs DEF Chained

LEMMA ChainPrefix ==
    ASSUME NEW S, NEW p \in Seq(S), NEW o \in Seq(S), Chained(p \o o)
    PROVE  Chained(p) /\ (p # <<>> => p \o o # <<>> /\ (p \o o)[1] = p[1])
<1>1. /\ Len(p \o o) = Len(p) + Len(o) /\ Len(p) \in Nat /\ Len(o) \in Nat /\ p \o o \in Seq(S)
      /\ \A i \in 1..Len(p) : (p \o o)[i] = p[i]
  BY ConcatProperties
<1>2. ASSUME NEW i \in 1..Len(p) - 1 PROVE Follows(p[i], p[i + 1])
  <2>1. i \in 1..Len(p) /\ i + 1 \in 1..Len(p) /\ i \in 1..Len(p \o o) - 1
    BY <1>1
  <2> QED BY <1>1, <2>1 DEF Chained
<1>3. ASSUME p # <<>> PROVE p \o o # <<>> /\ (p \o o)[1] = p[1]
  <2>1. 1 \in 1..Len(p) /\ Len(p \o o) # 0
    BY <1>1, <1>3, EmptySeq
  <2> QED BY <1>1, <2>1, EmptySeq
<1> QED BY <1>2, <1>3 DEF Chained

\* A whole frame joins the units that are on the way.
LEMMA ChainFrame ==
    ASSUME NEW w \in Seq(UnitsOfFrames), Chained(w), NEW f \in Frames, f.size \in Nat \ {0},
           w # <<>> => Last(w).rest = 0 /\ f.n = Successor(Last(w).frame.n)
    PROVE  /\ Units(f) \in Seq(UnitsOfFrames) /\ Units(f) # <<>> /\ w \o Units(f) # <<>>
           /\ Chained(w \o Units(f))
           /\ Last(w \o Units(f)) = [frame |-> f, rest |-> 0]
           /\ IF w = <<>> THEN (w \o Units(f))[1] = [frame |-> f, rest |-> f.size - 1]
              ELSE (w \o Units(f))[1] = w[1]
<1> DEFINE u == Units(f)
<1>1. PICK m \in Nat : f.size = m + 1
  <2>1. f.size - 1 \in Nat /\ f.size = (f.size - 1) + 1
    OBVIOUS
  <2> QED BY <2>1
<1>2. /\ u \in Seq(UnitsOfFrames) /\ Len(u) = m + 1
      /\ \A i \in 1..m + 1 : u[i] = [frame |-> f, rest |-> (m + 1) - i]
  <2>1. \A i \in 1..m + 1 : (m + 1) - i \in Nat
    BY <1>1
  <2> QED BY <1>1, <2>1 DEF Units, UnitsOfFrames
<1> HIDE DEF u
<1>3. PICK n \in Nat : n = Len(w)
  OBVIOUS
<1>4. /\ w \o u \in Seq(UnitsOfFrames) /\ Len(w \o u) = n + (m + 1)
      /\ \A i \in 1..n : (w \o u)[i] = w[i]
      /\ \A i \in n + 1..n + (m + 1) : (w \o u)[i] = u[i - n]
  <2>1. u \in Seq(UnitsOfFrames) /\ Len(u) = m + 1
    BY <1>2
  <2>2. /\ w \o u \in Seq(UnitsOfFrames) /\ Len(w \o u) = n + (m + 1)
        /\ \A i \in 1..n + (m + 1) : (w \o u)[i] = IF i <= n THEN w[i] ELSE u[i - n]
    <3>1. /\ w \o u \in Seq(UnitsOfFrames) /\ Len(w \o u) = Len(w) + Len(u)
          /\ \A i \in 1..Len(w) + Len(u) : (w \o u)[i] = IF i <= Len(w) THEN w[i] ELSE u[i - Len(w)]
      BY <2>1, ConcatProperties
    <3>2. Len(w) = n /\ Len(u) = m + 1
      BY <1>3, <2>1
    <3> QED BY <3>1, <3>2
  <2> QED BY <2>2, <1>1, <1>3
<1>5. ASSUME NEW i \in 1..(n + (m + 1)) - 1 PROVE Follows((w \o u)[i], (w \o u)[i + 1])
  <2>1. CASE i < n
    <3>1. i \in 1..n - 1 /\ i \in 1..n /\ i + 1 \in 1..n
      BY <2>1, <1>3
    <3> QED BY <1>3, <1>4, <3>1 DEF Chained
  <2>2. CASE i = n
    <3>1. n \in 1..n /\ n + 1 \in n + 1..n + (m + 1) /\ (n + 1) - n = 1 /\ 1 \in 1..m + 1 /\ n # 0
      BY <2>2
    <3>2. (w \o u)[n] = Last(w) /\ (w \o u)[n + 1] = u[1]
      BY <1>3, <1>4, <3>1, LastIs
    <3>3. u[1] = [frame |-> f, rest |-> (m + 1) - 1]
      BY <1>2, <3>1
    <3>4. w # <<>>
      BY <1>3, <3>1
    <3>5. u[1].rest = u[1].frame.size - 1 /\ u[1].frame.n = f.n
      BY <1>1, <3>3
    <3> QED BY <2>2, <3>2, <3>4, <3>5 DEF Follows
  <2>3. CASE i > n
    <3>1. PICK k \in 1..m : i = n + k
      <4>1. i - n \in 1..m /\ i = n + (i - n)
        BY <2>3
      <4> QED BY <4>1
    <3>2. /\ i \in n + 1..n + (m + 1) /\ i + 1 \in n + 1..n + (m + 1)
          /\ i - n = k /\ (i + 1) - n = k + 1 /\ k \in 1..m + 1 /\ k + 1 \in 1..m + 1
      BY <3>1
    <3>3. (w \o u)[i] = u[k] /\ (w \o u)[i + 1] = u[k + 1]
      BY <1>4, <3>2
    <3>4. u[k] = [frame |-> f, rest |-> (m + 1) - k] /\ u[k + 1] = [frame |-> f, rest |-> (m + 1) - (k + 1)]
      BY <1>2, <3>2
    <3>5. (m + 1) - k # 0 /\ (m + 1) - (k + 1) = ((m + 1) - k) - 1
      BY <3>1
    <3>6. /\ (w \o u)[i].rest = (m + 1) - k /\ (w \o u)[i].frame = f
          /\ (w \o u)[i + 1] = [frame |-> f, rest |-> ((m + 1) - k) - 1]
      BY <3>3, <3>4, <3>5
    <3> QED BY <3>5, <3>6 DEF Follows
  <2>4. i < n \/ i = n \/ i > n
    BY <1>1, <1>3, <1>5
  <2> QED BY <2>1, <2>2, <2>3, <2>4, Zenon
<1>6. Last(w \o u) = [frame |-> f, rest |-> 0]
  <2>1. n + (m + 1) \in n + 1..n + (m + 1) /\ (n + (m + 1)) - n = m + 1 /\ m + 1 \in 1..m + 1
        /\ (m + 1) - (m + 1) = 0
    OBVIOUS
  <2> QED BY <1>2, <1>4, <2>1, LastIs
<1>7. IF w = <<>> THEN (w \o u)[1] = [frame |-> f, rest |-> f.size - 1] ELSE (w \o u)[1] = w[1]
  <2>1. CASE w = <<>>
    <3>1. w \o u = u /\ 1 \in 1..m + 1
      BY <1>2, <2>1, ConcatEmptySeq
    <3> QED BY <1>1, <1>2, <2>1, <3>1
  <2>2. CASE w # <<>>
    <3>1. 1 \in 1..n
      BY <1>3, <2>2, EmptySeq
    <3> QED BY <1>4, <2>2, <3>1
  <2> QED BY <2>1, <2>2
<1>8. u # <<>> /\ w \o u # <<>>
  BY <1>2, <1>4
<1> QED BY <1>2, <1>4, <1>5, <1>6, <1>7, <1>8 DEF Chained, u

\* A unit passes from the front of one sequence to the back of another.
LEMMA Handed ==
    ASSUME NEW p \in Seq(UnitsOfFrames), NEW u \in Seq(UnitsOfFrames), u # <<>>
    PROVE  /\ Append(p, Head(u)) \in Seq(UnitsOfFrames) /\ Tail(u) \in Seq(UnitsOfFrames)
           /\ Append(p, Head(u)) \o Tail(u) = p \o u
<1>1. PICK h \in UnitsOfFrames, t \in Seq(UnitsOfFrames) : h = Head(u) /\ t = Tail(u)
  BY HeadTailProperties
<1>2. u = <<h>> \o t
  BY <1>1, HeadTailAppend
<1>3. Append(p, h) = p \o <<h>> /\ <<h>> \in Seq(UnitsOfFrames)
  BY AppendIsConcat
<1>4. (p \o <<h>>) \o t = p \o (<<h>> \o t)
  BY <1>3, ConcatAssociative
<1>5. Append(p, h) \in Seq(UnitsOfFrames)
  BY AppendProperties
<1> QED BY <1>1, <1>2, <1>3, <1>4, <1>5

\* The first unit is taken from the front of two joined sequences.
LEMMA Taken ==
    ASSUME NEW p \in Seq(UnitsOfFrames), NEW u \in Seq(UnitsOfFrames), p # <<>>
    PROVE  /\ p \o u # <<>> /\ (p \o u)[1] = Head(p) /\ Tail(p \o u) = Tail(p) \o u
           /\ Tail(p) \in Seq(UnitsOfFrames)
<1>1. PICK h \in UnitsOfFrames, t \in Seq(UnitsOfFrames) : h = Head(p) /\ t = Tail(p)
  BY HeadTailProperties
<1>2. p = <<h>> \o t
  BY <1>1, HeadTailProperties
<1>3. <<h>> \in Seq(UnitsOfFrames) /\ t \o u \in Seq(UnitsOfFrames)
  BY ConcatProperties
<1>4. p \o u = <<h>> \o (t \o u)
  BY <1>2, <1>3, ConcatAssociative
<1> QED BY <1>1, <1>3, <1>4

LEMMA TurnTail ==
    ASSUME NEW q \in Seq(Frames), q # <<>>, NEW from, NEW to, InTurn(q, from, to)
    PROVE  Head(q) \in Frames /\ Head(q).n = from /\ Tail(q) \in Seq(Frames)
           /\ InTurn(Tail(q), Successor(from), to)
<1>1. PICK n \in Nat : /\ Len(q) = n + 1 /\ Tail(q) \in Seq(Frames) /\ Len(Tail(q)) = n
                       /\ Head(q) = q[1] /\ Head(q) \in Frames
                       /\ \A i \in 1..n : Tail(q)[i] = q[i + 1]
  <2>1. Len(q) \in Nat /\ Len(q) # 0 /\ Tail(q) \in Seq(Frames) /\ Len(Tail(q)) = Len(q) - 1
        /\ Head(q) = q[1] /\ Head(q) \in Frames
        /\ \A i \in 1..Len(q) - 1 : Tail(q)[i] = q[i + 1]
    BY HeadTailProperties, EmptySeq
  <2>2. Len(q) - 1 \in Nat /\ Len(q) = (Len(q) - 1) + 1
    BY <2>1
  <2> QED BY <2>1, <2>2
<1>2. Tail(q) = <<>> <=> n = 0
  BY <1>1, EmptySeq
<1>3. Head(q).n = from /\ to = Successor(Last(q).n)
      /\ \A i \in 1..(n + 1) - 1 : q[i + 1].n = Successor(q[i].n)
  BY <1>1 DEF InTurn
<1>4. \A i \in 1..n - 1 : Tail(q)[i + 1].n = Successor(Tail(q)[i].n)
  <2>1. ASSUME NEW i \in 1..n - 1 PROVE Tail(q)[i + 1].n = Successor(Tail(q)[i].n)
    <3>1. i \in 1..n /\ i + 1 \in 1..n /\ i + 1 \in 1..(n + 1) - 1
      OBVIOUS
    <3> QED BY <1>1, <1>3, <3>1
  <2> QED BY <2>1
<1>5. CASE n = 0
  <2>1. Last(q) = Head(q)
    BY <1>1, <1>5, LastIs
  <2> QED BY <1>1, <1>2, <1>3, <1>4, <1>5, <2>1 DEF InTurn
<1>6. CASE n # 0
  <2>1. 1 \in 1..n /\ n \in 1..n /\ 1 \in 1..(n + 1) - 1
    BY <1>6
  <2>2. Last(Tail(q)) = Last(q)
    BY <1>1, <2>1, LastIs
  <2>3. Head(Tail(q)) = Tail(q)[1] /\ Tail(q)[1] = q[1 + 1] /\ q[1 + 1].n = Successor(q[1].n)
    BY <1>1, <1>2, <1>3, <2>1
  <2> QED BY <1>1, <1>2, <1>3, <1>4, <1>6, <2>2, <2>3 DEF InTurn
<1> QED BY <1>5, <1>6

LEMMA TurnAppend ==
    ASSUME NEW q \in Seq(Frames), NEW from, NEW to, InTurn(q, from, to), NEW f \in Frames, f.n = to
    PROVE  InTurn(Append(q, f), from, Successor(to))
<1>1. PICK n \in Nat : n = Len(q)
  OBVIOUS
<1>2. /\ Append(q, f) \in Seq(Frames) /\ Len(Append(q, f)) = n + 1 /\ Append(q, f)[n + 1] = f
      /\ \A i \in 1..n : Append(q, f)[i] = q[i]
  BY <1>1, AppendProperties
<1>3. Append(q, f) # <<>> /\ Last(Append(q, f)) = f /\ Head(Append(q, f)) = Append(q, f)[1]
  <2>1. Append(q, f) # <<>>
    BY <1>1, <1>2, EmptySeq
  <2>2. Head(Append(q, f)) = Append(q, f)[1]
    BY <1>2, <2>1, HeadTailProperties
  <2> QED BY <1>2, <2>1, <2>2, LastIs
<1>4. CASE n = 0
  <2>1. q = <<>> /\ from = to
    BY <1>1, <1>4, EmptySeq DEF InTurn
  <2>2. \A i \in 1..(n + 1) - 1 : FALSE
    BY <1>4
  <2> QED BY <1>2, <1>3, <1>4, <2>1, <2>2 DEF InTurn
<1>5. CASE n # 0
  <2>1. q # <<>> /\ 1 \in 1..n /\ n \in 1..n
    BY <1>1, <1>5
  <2>2. Head(q).n = from /\ to = Successor(Last(q).n) /\ Head(q) = q[1] /\ Last(q) = q[n]
        /\ \A i \in 1..n - 1 : q[i + 1].n = Successor(q[i].n)
    BY <1>1, <2>1, LastIs DEF InTurn
  <2>3. ASSUME NEW i \in 1..(n + 1) - 1
        PROVE  Append(q, f)[i + 1].n = Successor(Append(q, f)[i].n)
    <3>1. CASE i = n
      BY <1>2, <2>1, <2>2, <3>1
    <3>2. CASE i # n
      <4>1. i \in 1..n - 1 /\ i \in 1..n /\ i + 1 \in 1..n
        BY <3>2
      <4> QED BY <1>2, <2>2, <4>1
    <3> QED BY <3>1, <3>2
  <2> QED BY <1>2, <1>3, <2>1, <2>2, <2>3 DEF InTurn
<1> QED BY <1>4, <1>5

----
(* One direction of a connection *)

LEMMA TheOther ==
    ASSUME NEW e \in Ends
    PROVE  /\ Other(e) \in Ends /\ Other(e) # e /\ Other(Other(e)) = e
           /\ \A d \in Ends : d = e \/ d = Other(e)
<1>1. \E o \in Ends : o # e
  BY DEF Ends
<1>2. Other(e) \in Ends /\ Other(e) # e
  BY <1>1 DEF Other
<1>3. Other(Other(e)) \in Ends /\ Other(Other(e)) # Other(e)
  <2>1. \E o \in Ends : o # Other(e)
    BY DEF Ends
  <2> QED BY <2>1 DEF Other
<1> QED BY <1>2, <1>3 DEF Ends

\* What d has written and is to write, and what the other end makes of it.
Direction(d) ==
    LET way == Way(d)
        o   == Other(d)
    IN  /\ queue[d] \in Seq(Frames) /\ out[d] \in Seq(UnitsOfFrames) /\ pipe[d] \in Seq(UnitsOfFrames)
        /\ queued[d] \in Numbers /\ received[d] \in Numbers
        /\ Chained(way)
        /\ way # <<>> => /\ way[1].frame.n = received[d]
                         /\ \/ at[o] \in {"reading", "gone"}
                            \/ way[1].rest = way[1].frame.size - 1
        /\ at[d] # "gone" =>
              IF way = <<>> THEN InTurn(queue[d], received[d], queued[d])
              ELSE /\ Last(way).rest = 0
                   /\ InTurn(queue[d], Successor(Last(way).frame.n), queued[d])
        /\ at[d] = "gone" => queue[d] = <<>> /\ out[d] = <<>>
        /\ out[d] # <<>> => at[d] = "writing"
        /\ why[o] = "peer" => way = <<>> /\ at[d] = "gone" /\ at[o] = "gone"

\* What the writing end may do: queue, begin a frame, write a unit, close.
Queues(d) ==
    /\ at[d] # "gone" /\ at'[d] # "gone" /\ (out[d] # <<>> => at'[d] = "writing")
    /\ out'[d] = out[d] /\ pipe'[d] = pipe[d]
    /\ \/ queue'[d] = queue[d] /\ queued'[d] = queued[d]
       \/ \E f \in Frames : /\ f.n = queued[d] /\ queue'[d] = Append(queue[d], f)
                            /\ queued'[d] = Successor(queued[d])

Begins(d) ==
    /\ at[d] = "writing" /\ at'[d] = "writing" /\ pipe'[d] = pipe[d]
    /\ out[d] = <<>> /\ queue[d] # <<>> /\ Head(queue[d]).size # TooLarge
    /\ out'[d] = Units(Head(queue[d])) /\ queue'[d] = Tail(queue[d]) /\ queued'[d] = queued[d]

Writes(d) ==
    /\ at[d] = "writing" /\ at'[d] = "writing" /\ out[d] # <<>>
    /\ pipe'[d] = Append(pipe[d], Head(out[d])) /\ out'[d] = Tail(out[d])
    /\ queue'[d] = queue[d] /\ queued'[d] = queued[d]

Stops(d) ==
    /\ at'[d] = "gone" /\ queue'[d] = <<>> /\ out'[d] = <<>>
    /\ pipe'[d] = pipe[d] /\ queued'[d] = queued[d]

WriterMoves(d) ==
    /\ received'[d] = received[d] /\ at'[Other(d)] = at[Other(d)] /\ why'[Other(d)] = why[Other(d)]
    /\ Queues(d) \/ Begins(d) \/ Writes(d) \/ Stops(d)

\* What the reading end may do: something else, read a unit, read the last one
\* of a frame, find the pipe closed.
Elsewhere(d) ==
    /\ pipe'[d] = pipe[d] /\ received'[d] = received[d]
    /\ \/ at'[Other(d)] = "gone" \/ at'[Other(d)] = at[Other(d)]
       \/ at[Other(d)] \notin {"reading", "gone"}
    /\ why'[Other(d)] = why[Other(d)] \/ why'[Other(d)] # "peer"

ReadsPart(d) ==
    /\ pipe[d] # <<>> /\ pipe'[d] = Tail(pipe[d]) /\ Head(pipe[d]).rest # 0
    /\ at[Other(d)] = "reading" /\ at'[Other(d)] = "reading"
    /\ received'[d] = received[d] /\ why'[Other(d)] = why[Other(d)]

ReadsLast(d) ==
    /\ pipe[d] # <<>> /\ pipe'[d] = Tail(pipe[d]) /\ Head(pipe[d]).rest = 0
    /\ at[Other(d)] = "reading"
    /\ received'[d] = Successor(received[d]) /\ why'[Other(d)] # "peer"

FindsClosed(d) ==
    /\ pipe[d] = <<>> /\ pipe'[d] = <<>> /\ at[d] = "gone" /\ at'[Other(d)] = "gone"
    /\ received'[d] = received[d]

ReaderMoves(d) ==
    /\ at'[d] = at[d] /\ queue'[d] = queue[d] /\ out'[d] = out[d] /\ queued'[d] = queued[d]
    /\ Elsewhere(d) \/ ReadsPart(d) \/ ReadsLast(d) \/ FindsClosed(d)

LEMMA Numbered ==
    ASSUME NEW n \in Numbers
    PROVE  Successor(n) \in Numbers
  BY DEF Successor, Numbers

LEMMA WriterKeeps ==
    ASSUME NEW d \in Ends, Direction(d), WriterMoves(d)
    PROVE  Direction(d)'
<1> USE ConnectionAssumption
<1> DEFINE o == Other(d)
           way == Way(d)
<1>1. /\ queue[d] \in Seq(Frames) /\ out[d] \in Seq(UnitsOfFrames) /\ pipe[d] \in Seq(UnitsOfFrames)
      /\ queued[d] \in Numbers /\ received[d] \in Numbers
      /\ Chained(way)
      /\ way # <<>> => /\ way[1].frame.n = received[d]
                       /\ at[o] \in {"reading", "gone"} \/ way[1].rest = way[1].frame.size - 1
      /\ at[d] # "gone" => (IF way = <<>> THEN InTurn(queue[d], received[d], queued[d])
                            ELSE Last(way).rest = 0 /\ InTurn(queue[d], Successor(Last(way).frame.n), queued[d]))
      /\ at[d] = "gone" => queue[d] = <<>> /\ out[d] = <<>>
      /\ out[d] # <<>> => at[d] = "writing"
      /\ why[o] = "peer" => way = <<>> /\ at[d] = "gone" /\ at[o] = "gone"
  BY Zenon DEF Direction
<1>2. received'[d] = received[d] /\ at'[o] = at[o] /\ why'[o] = why[o]
  BY DEF WriterMoves
<1>3. way = pipe[d] \o out[d] /\ way' = pipe'[d] \o out'[d] /\ way \in Seq(UnitsOfFrames)
  BY <1>1 DEF Way
<1> HIDE DEF way, o
<1>4. CASE Queues(d)
  <2>1. way' = way /\ pipe'[d] \in Seq(UnitsOfFrames) /\ out'[d] \in Seq(UnitsOfFrames)
    BY <1>1, <1>3, <1>4 DEF Queues
  <2>2. /\ queue'[d] \in Seq(Frames) /\ queued'[d] \in Numbers
        /\ \A n : InTurn(queue[d], n, queued[d]) => InTurn(queue'[d], n, queued'[d])
    <3>1. CASE queue'[d] = queue[d] /\ queued'[d] = queued[d]
      BY <1>1, <3>1
    <3>2. ASSUME NEW f \in Frames, f.n = queued[d], queue'[d] = Append(queue[d], f),
                 queued'[d] = Successor(queued[d])
          PROVE  /\ queue'[d] \in Seq(Frames) /\ queued'[d] \in Numbers
                 /\ \A n : InTurn(queue[d], n, queued[d]) => InTurn(queue'[d], n, queued'[d])
      BY <1>1, <3>2, TurnAppend, Numbered, AppendProperties
    <3> QED BY <1>4, <3>1, <3>2 DEF Queues
  <2>3. at[d] # "gone" /\ at'[d] # "gone" /\ (out'[d] # <<>> => at'[d] = "writing")
    BY <1>4 DEF Queues
  <2>4. IF way = <<>> THEN InTurn(queue'[d], received[d], queued'[d])
        ELSE Last(way).rest = 0 /\ InTurn(queue'[d], Successor(Last(way).frame.n), queued'[d])
    BY <1>1, <2>2, <2>3
  <2> QED BY <1>1, <1>2, <2>1, <2>2, <2>3, <2>4 DEF Direction, way, o
<1>5. CASE Begins(d)
  <2>1. /\ at[d] # "gone" /\ at'[d] = "writing" /\ out[d] = <<>> /\ queue[d] # <<>>
        /\ pipe'[d] = pipe[d] /\ out'[d] = Units(Head(queue[d]))
        /\ queue'[d] = Tail(queue[d]) /\ queued'[d] = queued[d]
    BY <1>5 DEF Begins
  <2>2. PICK f \in Frames : f = Head(queue[d]) /\ f.size \in Nat \ {0}
    <3>1. Head(queue[d]) \in Frames /\ Head(queue[d]).size # TooLarge
      BY <1>1, <1>5, <2>1, HeadTailProperties DEF Begins
    <3> QED BY <3>1 DEF Frames
  <2>3. PICK from : /\ InTurn(queue[d], from, queued[d])
                    /\ way = <<>> => from = received[d]
                    /\ way # <<>> => Last(way).rest = 0 /\ from = Successor(Last(way).frame.n)
    BY <1>1, <2>1
  <2>4. f.n = from /\ queue'[d] \in Seq(Frames) /\ InTurn(queue'[d], Successor(from), queued[d])
    BY <1>1, <2>1, <2>2, <2>3, TurnTail
  <2>5. way = pipe[d] /\ way' = way \o Units(f)
    <3>1. pipe[d] \o <<>> = pipe[d]
      BY <1>1, ConcatEmptySeq
    <3> QED BY <1>3, <2>1, <2>2, <3>1
  <2>6. /\ Units(f) \in Seq(UnitsOfFrames) /\ way' # <<>> /\ Chained(way')
        /\ Last(way') = [frame |-> f, rest |-> 0]
        /\ IF way = <<>> THEN way'[1] = [frame |-> f, rest |-> f.size - 1] ELSE way'[1] = way[1]
    <3>1. PICK w \in Seq(UnitsOfFrames) : w = way
      BY <1>3
    <3>2. Chained(w) /\ (w # <<>> => Last(w).rest = 0 /\ f.n = Successor(Last(w).frame.n))
      BY <1>1, <2>3, <2>4, <3>1
    <3> QED BY <2>2, <2>5, <3>1, <3>2, ChainFrame
  <2>7. way'[1].frame.n = received[d]
        /\ (at[o] \in {"reading", "gone"} \/ way'[1].rest = way'[1].frame.size - 1)
    BY <1>1, <2>3, <2>4, <2>6
  <2>8. Last(way').rest = 0 /\ Successor(Last(way').frame.n) = Successor(from)
    BY <2>4, <2>6
  <2>9. why[o] # "peer"
    BY <1>1, <2>1
  <2> QED BY <1>1, <1>2, <2>1, <2>2, <2>4, <2>6, <2>7, <2>8, <2>9 DEF Direction, way, o
<1>6. CASE Writes(d)
  <2>1. /\ at[d] = "writing" /\ at'[d] = "writing" /\ out[d] # <<>>
        /\ pipe'[d] = Append(pipe[d], Head(out[d])) /\ out'[d] = Tail(out[d])
        /\ queue'[d] = queue[d] /\ queued'[d] = queued[d]
    BY <1>6 DEF Writes
  <2>2. /\ pipe'[d] \in Seq(UnitsOfFrames) /\ out'[d] \in Seq(UnitsOfFrames) /\ way' = way
    <3>1. PICK p \in Seq(UnitsOfFrames), u \in Seq(UnitsOfFrames) :
             p = pipe[d] /\ u = out[d] /\ u # <<>>
      BY <1>1, <2>1
    <3>2. Head(u) \in UnitsOfFrames /\ Tail(u) \in Seq(UnitsOfFrames)
      BY <3>1, HeadTailProperties
    <3>3. Append(p, Head(u)) \in Seq(UnitsOfFrames) /\ Append(p, Head(u)) \o Tail(u) = p \o u
      BY <3>1, Handed
    <3> QED BY <1>3, <2>1, <3>1, <3>2, <3>3
  <2> QED BY <1>1, <1>2, <2>1, <2>2 DEF Direction, way, o
<1>7. CASE Stops(d)
  <2>1. /\ at'[d] = "gone" /\ queue'[d] = <<>> /\ out'[d] = <<>>
        /\ pipe'[d] = pipe[d] /\ queued'[d] = queued[d]
    BY <1>7 DEF Stops
  <2>2. way' = pipe[d]
    BY <1>1, <1>3, <2>1, ConcatEmptySeq
  <2>3. Chained(way') /\ (way' # <<>> => way # <<>> /\ way[1] = way'[1])
    <3>1. PICK p \in Seq(UnitsOfFrames), u \in Seq(UnitsOfFrames) : p = pipe[d] /\ u = out[d]
      BY <1>1
    <3>2. Chained(p \o u)
      BY <1>1, <1>3, <3>1
    <3>3. Chained(p) /\ (p # <<>> => p \o u # <<>> /\ (p \o u)[1] = p[1])
      BY <3>1, <3>2, ChainPrefix
    <3> QED BY <1>3, <2>2, <3>1, <3>3
  <2>4. queue'[d] \in Seq(Frames) /\ out'[d] \in Seq(UnitsOfFrames)
    BY <2>1
  <2> QED BY <1>1, <1>2, <2>1, <2>3, <2>4 DEF Direction, way, o
<1> QED BY <1>4, <1>5, <1>6, <1>7 DEF WriterMoves

LEMMA ReaderKeeps ==
    ASSUME NEW d \in Ends, Direction(d), ReaderMoves(d)
    PROVE  Direction(d)'
<1> USE ConnectionAssumption
<1> DEFINE o == Other(d)
           way == Way(d)
<1>1. /\ queue[d] \in Seq(Frames) /\ out[d] \in Seq(UnitsOfFrames) /\ pipe[d] \in Seq(UnitsOfFrames)
      /\ queued[d] \in Numbers /\ received[d] \in Numbers
      /\ Chained(way)
      /\ way # <<>> => /\ way[1].frame.n = received[d]
                       /\ at[o] \in {"reading", "gone"} \/ way[1].rest = way[1].frame.size - 1
      /\ at[d] # "gone" => (IF way = <<>> THEN InTurn(queue[d], received[d], queued[d])
                            ELSE Last(way).rest = 0 /\ InTurn(queue[d], Successor(Last(way).frame.n), queued[d]))
      /\ at[d] = "gone" => queue[d] = <<>> /\ out[d] = <<>>
      /\ out[d] # <<>> => at[d] = "writing"
      /\ why[o] = "peer" => way = <<>> /\ at[d] = "gone" /\ at[o] = "gone"
  BY Zenon DEF Direction
<1>2. at'[d] = at[d] /\ queue'[d] = queue[d] /\ out'[d] = out[d] /\ queued'[d] = queued[d]
  BY DEF ReaderMoves
<1>3. way = pipe[d] \o out[d] /\ way' = pipe'[d] \o out[d] /\ way \in Seq(UnitsOfFrames)
  BY <1>1, <1>2 DEF Way
<1> HIDE DEF way, o
<1>4. CASE Elsewhere(d)
  <2>1. way' = way /\ pipe'[d] = pipe[d] /\ received'[d] = received[d]
    BY <1>3, <1>4 DEF Elsewhere
  <2>2. /\ at'[o] = "gone" \/ at'[o] = at[o] \/ at[o] \notin {"reading", "gone"}
        /\ why'[o] = why[o] \/ why'[o] # "peer"
    BY <1>4 DEF Elsewhere, o
  <2> QED BY <1>1, <1>2, <2>1, <2>2 DEF Direction, way, o
<1>5. ASSUME pipe[d] # <<>>, pipe'[d] = Tail(pipe[d])
      PROVE  /\ pipe'[d] \in Seq(UnitsOfFrames) /\ way # <<>> /\ way[1] = Head(pipe[d])
             /\ Chained(way')
             /\ way' # <<>> => Follows(way[1], way'[1]) /\ Last(way') = Last(way)
             /\ way' = <<>> => Last(way) = way[1]
  <2>1. PICK p \in Seq(UnitsOfFrames), u \in Seq(UnitsOfFrames) : p = pipe[d] /\ u = out[d] /\ p # <<>>
    BY <1>1, <1>5
  <2>2. /\ p \o u # <<>> /\ (p \o u)[1] = Head(p) /\ Tail(p \o u) = Tail(p) \o u
        /\ Tail(p) \in Seq(UnitsOfFrames)
    BY <2>1, Taken
  <2>3. PICK w \in Seq(UnitsOfFrames) : w = way /\ w # <<>> /\ Chained(w) /\ way' = Tail(w)
    BY <1>1, <1>3, <1>5, <2>1, <2>2
  <2>4. /\ Chained(Tail(w))
        /\ Tail(w) # <<>> => Follows(w[1], Tail(w)[1]) /\ Last(Tail(w)) = Last(w)
        /\ Tail(w) = <<>> => Last(w) = w[1]
    BY <2>3, ChainTail
  <2> QED BY <1>3, <1>5, <2>1, <2>2, <2>3, <2>4
<1>6. CASE ReadsPart(d)
  <2>1. /\ pipe[d] # <<>> /\ pipe'[d] = Tail(pipe[d]) /\ Head(pipe[d]).rest # 0
        /\ at'[o] = "reading" /\ received'[d] = received[d] /\ why'[o] = why[o]
    BY <1>6 DEF ReadsPart, o
  <2>2. way' # <<>> => way'[1].frame.n = received[d]
    BY <1>1, <1>5, <2>1 DEF Follows
  <2>3. at[d] # "gone" => way' # <<>>
    BY <1>1, <1>5, <2>1
  <2> QED BY <1>1, <1>2, <1>5, <2>1, <2>2, <2>3 DEF Direction, way, o
<1>7. CASE ReadsLast(d)
  <2>1. /\ pipe[d] # <<>> /\ pipe'[d] = Tail(pipe[d]) /\ Head(pipe[d]).rest = 0
        /\ received'[d] = Successor(received[d]) /\ why'[o] # "peer"
    BY <1>7 DEF ReadsLast, o
  <2>2. way' # <<>> => way'[1].frame.n = received'[d] /\ way'[1].rest = way'[1].frame.size - 1
    BY <1>1, <1>5, <2>1 DEF Follows
  <2>3. received'[d] \in Numbers
    BY <1>1, <2>1, Numbered
  <2>4. at[d] # "gone" => IF way' = <<>> THEN InTurn(queue[d], received'[d], queued[d])
                          ELSE /\ Last(way').rest = 0
                               /\ InTurn(queue[d], Successor(Last(way').frame.n), queued[d])
    BY <1>1, <1>5, <2>1
  <2> QED BY <1>1, <1>2, <1>5, <2>1, <2>2, <2>3, <2>4 DEF Direction, way, o
<1>8. CASE FindsClosed(d)
  <2>1. /\ pipe[d] = <<>> /\ pipe'[d] = <<>> /\ at[d] = "gone" /\ at'[o] = "gone"
        /\ received'[d] = received[d]
    BY <1>8 DEF FindsClosed, o
  <2>2. way' = way /\ way = <<>>
    BY <1>1, <1>3, <2>1
  <2> QED BY <1>1, <1>2, <2>1, <2>2 DEF Direction, way, o
<1> QED BY <1>4, <1>6, <1>7, <1>8 DEF ReaderMoves

----
(* The connection *)

\* TypeLink, with the functions as functions.
LinkTypes ==
    /\ peer \in {"window", "list", "exec", "send"} /\ sameVersion \in BOOLEAN /\ attached \in BOOLEAN
    /\ at \in [Ends -> Doing]
    /\ queue \in [Ends -> Seq(Frames)] /\ out \in [Ends -> Seq(UnitsOfFrames)]
    /\ pipe \in [Ends -> Seq(UnitsOfFrames)]
    /\ queued \in [Ends -> Numbers] /\ received \in [Ends -> Numbers]
    /\ why \in [Ends -> {"none", "peer", "other"}]
    /\ sends \in 0..MaxRequests
    /\ attached => at["daemon"] # "gone"

\* No buffer and no queue holds more than it may.
LinkBounds ==
    /\ \A e \in Ends : Len(pipe[e]) <= PipeSize
    /\ Len(queue["daemon"]) <= EventLimit /\ quota \in 0..EventLimit

LinkInv == LinkTypes /\ LinkBounds /\ \A d \in Ends : Direction(d)

\* What a step that is one end's does to both directions.
LEMMA BothDirections ==
    ASSUME NEW e \in Ends, \A d \in Ends : Direction(d), WriterMoves(e), ReaderMoves(Other(e))
    PROVE  \A d \in Ends : Direction(d)'
<1>1. Direction(e)'
  BY WriterKeeps
<1>2. Direction(Other(e))'
  BY TheOther, ReaderKeeps
<1> QED BY <1>1, <1>2, TheOther

LEMMA Closing ==
    ASSUME LinkTypes, LinkBounds, NEW e \in Ends, NEW cause \in {"peer", "other"}, Closes(e, cause)
    PROVE  /\ at' \in [Ends -> Doing]
           /\ queue' \in [Ends -> Seq(Frames)] /\ out' \in [Ends -> Seq(UnitsOfFrames)]
           /\ why' \in [Ends -> {"none", "peer", "other"}]
           /\ attached' \in BOOLEAN /\ (attached' => at'["daemon"] # "gone")
           /\ Len(queue'["daemon"]) <= EventLimit /\ quota' \in 0..EventLimit
           /\ at'[e] = "gone" /\ queue'[e] = <<>> /\ out'[e] = <<>> /\ why'[e] = cause
           /\ at'[Other(e)] = at[Other(e)] /\ queue'[Other(e)] = queue[Other(e)]
           /\ out'[Other(e)] = out[Other(e)] /\ why'[Other(e)] = why[Other(e)]
<1> USE ConnectionAssumption
<1>1. /\ at' = [at EXCEPT ![e] = "gone"] /\ why' = [why EXCEPT ![e] = cause]
      /\ queue' = [queue EXCEPT ![e] = <<>>] /\ out' = [out EXCEPT ![e] = <<>>]
      /\ attached' = (attached /\ e # "daemon") /\ quota' = quota
  BY DEF Closes
<1>2. Other(e) \in Ends /\ Other(e) # e
  BY TheOther
<1>3. /\ at' \in [Ends -> Doing]
      /\ at'[e] = "gone" /\ at'[Other(e)] = at[Other(e)]
  BY <1>1, <1>2 DEF LinkTypes, Doing
<1>4. /\ why' \in [Ends -> {"none", "peer", "other"}]
      /\ why'[e] = cause /\ why'[Other(e)] = why[Other(e)]
  BY <1>1, <1>2 DEF LinkTypes
<1>5. /\ queue' \in [Ends -> Seq(Frames)] /\ queue'[e] = <<>> /\ queue'[Other(e)] = queue[Other(e)]
      /\ (queue'["daemon"] = queue["daemon"] \/ queue'["daemon"] = <<>>)
  BY <1>1, <1>2 DEF LinkTypes, Ends
<1>6. /\ out' \in [Ends -> Seq(UnitsOfFrames)] /\ out'[e] = <<>> /\ out'[Other(e)] = out[Other(e)]
  BY <1>1, <1>2 DEF LinkTypes
<1>7. attached' \in BOOLEAN /\ (attached' => at'["daemon"] # "gone")
  BY <1>1 DEF LinkTypes, Ends
<1>8. Len(queue'["daemon"]) <= EventLimit /\ quota' \in 0..EventLimit
  BY <1>1, <1>5 DEF LinkBounds
<1> QED BY <1>3, <1>4, <1>5, <1>6, <1>7, <1>8

LEMMA Going ==
    ASSUME LinkTypes, LinkBounds, NEW e \in Ends, at[e] # "gone",
           NEW there \in Doing \ {"gone"}, Goes(e, there)
    PROVE  /\ at' \in [Ends -> Doing]
           /\ out' = out /\ why' = why /\ quota' \in 0..EventLimit
           /\ at'[e] = there /\ at'[Other(e)] = at[Other(e)]
           /\ at'["daemon"] = "gone" => at["daemon"] = "gone"
<1> USE ConnectionAssumption
<1>1. /\ at' = [at EXCEPT ![e] = there] /\ out' = out /\ why' = why
      /\ quota' = quota \/ quota' = EventLimit
  BY DEF Goes
<1>2. Other(e) \in Ends /\ Other(e) # e
  BY TheOther
<1>3. /\ at' \in [Ends -> Doing]
      /\ at'[e] = there /\ at'[Other(e)] = at[Other(e)]
      /\ at'["daemon"] = "gone" => at["daemon"] = "gone"
  BY <1>1, <1>2 DEF LinkTypes, Ends
<1>4. quota' \in 0..EventLimit
  BY <1>1 DEF LinkBounds
<1> QED BY <1>1, <1>3, <1>4

LEMMA Queueing ==
    ASSUME LinkTypes, LinkBounds, NEW e \in Ends,
           NEW kind \in {"attach", "get", "request", "attached", "event"},
           NEW size \in FrameSizes \cup {TooLarge}, Queue(e, kind, size),
           e = "daemon" => Len(queue["daemon"]) < EventLimit
    PROVE  /\ queue' \in [Ends -> Seq(Frames)] /\ queued' \in [Ends -> Numbers]
           /\ Len(queue'["daemon"]) <= EventLimit
           /\ \E f \in Frames : /\ f.n = queued[e] /\ queue'[e] = Append(queue[e], f)
                                /\ queued'[e] = Successor(queued[e])
           /\ queue'[Other(e)] = queue[Other(e)] /\ queued'[Other(e)] = queued[Other(e)]
<1> USE ConnectionAssumption
<1>1. PICK f \in Frames : f = [kind |-> kind, size |-> size, n |-> queued[e]]
  BY DEF Frames, LinkTypes
<1>2. /\ queue' = [queue EXCEPT ![e] = Append(queue[e], f)]
      /\ queued' = [queued EXCEPT ![e] = Successor(queued[e])]
  BY <1>1 DEF Queue
<1>3. Other(e) \in Ends /\ Other(e) # e
  BY TheOther
<1>4. queue[e] \in Seq(Frames) /\ Append(queue[e], f) \in Seq(Frames)
      /\ Len(Append(queue[e], f)) = Len(queue[e]) + 1
  BY <1>1, AppendProperties DEF LinkTypes
<1>5. /\ queue' \in [Ends -> Seq(Frames)] /\ queue'[e] = Append(queue[e], f)
      /\ queue'[Other(e)] = queue[Other(e)]
      /\ e # "daemon" => queue'["daemon"] = queue["daemon"]
  BY <1>2, <1>3, <1>4 DEF LinkTypes, Ends
<1>6. queued[e] \in Numbers /\ Successor(queued[e]) \in Numbers
  BY Numbered DEF LinkTypes
<1>7. /\ queued' \in [Ends -> Numbers] /\ queued'[e] = Successor(queued[e])
      /\ queued'[Other(e)] = queued[Other(e)]
  BY <1>2, <1>3, <1>6 DEF LinkTypes
<1>8. Len(queue'["daemon"]) <= EventLimit
  <2>1. CASE e = "daemon"
    <3>1. Len(queue["daemon"]) \in Nat /\ Len(queue["daemon"]) < EventLimit
      BY <1>4, <2>1
    <3> QED BY <1>4, <1>5, <2>1, <3>1
  <2>2. CASE e # "daemon"
    BY <1>5, <2>2 DEF LinkBounds
  <2> QED BY <2>1, <2>2
<1>9. f.n = queued[e]
  BY <1>1
<1> QED BY <1>5, <1>7, <1>8, <1>9

\* The other end as it was, and e reading nothing.
Stays(e) ==
    /\ at'[Other(e)] = at[Other(e)] /\ queue'[Other(e)] = queue[Other(e)]
    /\ out'[Other(e)] = out[Other(e)] /\ queued'[Other(e)] = queued[Other(e)]
    /\ pipe'[Other(e)] = pipe[Other(e)] /\ received' = received /\ why'[Other(e)] = why[Other(e)]
    /\ at'[e] = "gone" \/ at'[e] = at[e] \/ at[e] \notin {"reading", "gone"}
    /\ why'[e] = why[e] \/ why'[e] # "peer"

LEMMA StaysMoves ==
    ASSUME NEW e \in Ends, Stays(e), Queues(e) \/ Begins(e) \/ Writes(e) \/ Stops(e)
    PROVE  WriterMoves(e) /\ ReaderMoves(Other(e))
<1>1. WriterMoves(e)
  BY DEF WriterMoves, Stays
<1>2. Other(Other(e)) = e
  BY TheOther
<1>3. Elsewhere(Other(e))
  BY <1>2 DEF Elsewhere, Stays
<1> QED BY <1>1, <1>3 DEF ReaderMoves, Stays

\* An end that closes of itself.
LEMMA CloseMoves ==
    ASSUME LinkInv, NEW e \in Ends, Closes(e, "other"),
           UNCHANGED <<peer, sameVersion, pipe, queued, received, sends>>
    PROVE  LinkTypes' /\ LinkBounds' /\ WriterMoves(e) /\ ReaderMoves(Other(e))
<1> USE ConnectionAssumption
<1>1. LinkTypes /\ LinkBounds
  BY DEF LinkInv
<1>2. /\ at' \in [Ends -> Doing]
      /\ queue' \in [Ends -> Seq(Frames)] /\ out' \in [Ends -> Seq(UnitsOfFrames)]
      /\ why' \in [Ends -> {"none", "peer", "other"}]
      /\ attached' \in BOOLEAN /\ (attached' => at'["daemon"] # "gone")
      /\ Len(queue'["daemon"]) <= EventLimit /\ quota' \in 0..EventLimit
      /\ at'[e] = "gone" /\ queue'[e] = <<>> /\ out'[e] = <<>> /\ why'[e] = "other"
      /\ at'[Other(e)] = at[Other(e)] /\ queue'[Other(e)] = queue[Other(e)]
      /\ out'[Other(e)] = out[Other(e)] /\ why'[Other(e)] = why[Other(e)]
  BY <1>1, Closing
<1>3. LinkTypes' /\ LinkBounds'
  BY <1>1, <1>2 DEF LinkTypes, LinkBounds
<1>4. Stops(e) /\ Stays(e)
  BY <1>2 DEF Stops, Stays
<1> QED BY <1>3, <1>4, StaysMoves

\* An end that goes on to something else, with nothing it has begun to write.
LEMMA GoMoves ==
    ASSUME LinkInv, NEW e \in Ends, at[e] \notin {"reading", "gone"}, out[e] = <<>>,
           NEW there \in Doing \ {"gone"}, Goes(e, there),
           UNCHANGED <<peer, sameVersion, pipe, queue, attached, queued, received, sends>>
    PROVE  LinkTypes' /\ LinkBounds' /\ WriterMoves(e) /\ ReaderMoves(Other(e))
<1> USE ConnectionAssumption
<1>1. LinkTypes /\ LinkBounds
  BY DEF LinkInv
<1>2. /\ at' \in [Ends -> Doing]
      /\ out' = out /\ why' = why /\ quota' \in 0..EventLimit
      /\ at'[e] = there /\ at'[Other(e)] = at[Other(e)]
      /\ at'["daemon"] = "gone" => at["daemon"] = "gone"
  BY <1>1, Going
<1>3. LinkTypes' /\ LinkBounds'
  BY <1>1, <1>2 DEF LinkTypes, LinkBounds
<1>4. Queues(e) /\ Stays(e)
  BY <1>2 DEF Queues, Stays
<1> QED BY <1>3, <1>4, StaysMoves

LEMMA BeginFrameMoves ==
    ASSUME LinkInv, NEW e \in Ends, BeginFrame(e)
    PROVE  LinkTypes' /\ LinkBounds' /\ WriterMoves(e) /\ ReaderMoves(Other(e))
<1> USE ConnectionAssumption
<1>1. LinkTypes /\ LinkBounds /\ Direction(e) /\ Other(e) \in Ends /\ Other(e) # e
  BY TheOther DEF LinkInv
<1>2. /\ at[e] = "writing" /\ out[e] = <<>> /\ queue[e] # <<>> /\ (e = "daemon" => quota > 0)
      /\ UNCHANGED <<peer, sameVersion, pipe, queued, received, sends>>
  BY DEF BeginFrame, MoreToWrite
<1>3. CASE Head(queue[e]).size = TooLarge /\ Closes(e, "other")
  BY <1>2, <1>3, CloseMoves
<1>4. CASE /\ Head(queue[e]).size # TooLarge
           /\ out' = [out EXCEPT ![e] = Units(Head(queue[e]))]
           /\ queue' = [queue EXCEPT ![e] = Tail(@)]
           /\ Counted(e)
           /\ UNCHANGED <<at, attached, why>>
  <2>1. PICK q \in Seq(Frames) : q = queue[e] /\ q # <<>>
    BY <1>1, <1>2 DEF LinkTypes
  <2>2. PICK f \in Frames : f = Head(q) /\ f.size \in Nat \ {0}
    <3>1. Head(q) \in Frames /\ Head(q).size # TooLarge
      BY <1>4, <2>1, HeadTailProperties
    <3> QED BY <3>1 DEF Frames
  <2>3. Units(f) \in Seq(UnitsOfFrames)
    <3>1. <<>> \in Seq(UnitsOfFrames) /\ Chained(<<>>)
      BY DEF Chained
    <3> QED BY <2>2, <3>1, ChainFrame
  <2>4. Tail(q) \in Seq(Frames) /\ Len(Tail(q)) = Len(q) - 1 /\ Len(q) \in Nat
    BY <2>1, HeadTailProperties
  <2>5. out' = [out EXCEPT ![e] = Units(f)] /\ queue' = [queue EXCEPT ![e] = Tail(q)]
    BY <1>4, <2>1, <2>2
  <2>6. /\ out' \in [Ends -> Seq(UnitsOfFrames)] /\ out'[e] = Units(f) /\ out'[Other(e)] = out[Other(e)]
    BY <1>1, <2>3, <2>5 DEF LinkTypes
  <2>7. /\ queue' \in [Ends -> Seq(Frames)] /\ queue'[e] = Tail(q) /\ queue'[Other(e)] = queue[Other(e)]
        /\ e # "daemon" => queue'["daemon"] = queue["daemon"]
    BY <1>1, <2>4, <2>5 DEF LinkTypes, Ends
  <2>8. quota' \in 0..EventLimit /\ Len(queue'["daemon"]) <= EventLimit
    <3>1. CASE e = "daemon"
      <4>1. quota' = quota - 1 /\ quota > 0
        BY <1>2, <1>4, <3>1 DEF Counted
      <4>2. Len(queue'["daemon"]) = Len(q) - 1 /\ Len(q) <= EventLimit
        BY <1>1, <2>1, <2>4, <2>7, <3>1 DEF LinkBounds
      <4>3. quota \in 0..EventLimit /\ EventLimit \in Nat
        BY <1>1 DEF LinkBounds
      <4>4. quota - 1 \in 0..EventLimit
        BY <4>1, <4>3
      <4>5. Len(queue'["daemon"]) <= EventLimit
        <5>1. PICK n \in Nat : n = Len(q)
          BY <2>4
        <5>2. n <= EventLimit /\ Len(queue'["daemon"]) = n - 1
          BY <4>2, <5>1
        <5> QED BY <4>3, <5>1, <5>2
      <4> QED BY <4>1, <4>4, <4>5
    <3>2. CASE e # "daemon"
      BY <1>1, <1>4, <2>7, <3>2 DEF LinkBounds, Counted
    <3> QED BY <3>1, <3>2
  <2>9. LinkTypes' /\ LinkBounds'
    BY <1>1, <1>2, <1>4, <2>6, <2>7, <2>8 DEF LinkTypes, LinkBounds
  <2>10. Begins(e)
    BY <1>2, <1>4, <2>1, <2>2, <2>6, <2>7 DEF Begins
  <2>11. Stays(e)
    BY <1>2, <1>4, <2>6, <2>7 DEF Stays
  <2> QED BY <2>9, <2>10, <2>11, StaysMoves
<1> QED BY <1>3, <1>4 DEF BeginFrame

LEMMA WriteUnitMoves ==
    ASSUME LinkInv, NEW e \in Ends, WriteUnit(e)
    PROVE  LinkTypes' /\ LinkBounds' /\ WriterMoves(e) /\ ReaderMoves(Other(e))
<1> USE ConnectionAssumption
<1>1. LinkTypes /\ LinkBounds /\ Direction(e) /\ Other(e) \in Ends /\ Other(e) # e
  BY TheOther DEF LinkInv
<1>2. /\ at[e] = "writing" /\ out[e] # <<>>
      /\ UNCHANGED <<peer, sameVersion, queued, received, sends>>
  BY DEF WriteUnit
<1>3. CASE Closes(e, "other") /\ UNCHANGED pipe
  BY <1>2, <1>3, CloseMoves
<1>4. CASE /\ at[Other(e)] # "gone" /\ Len(pipe[e]) < PipeSize
           /\ pipe' = [pipe EXCEPT ![e] = Append(@, Head(out[e]))]
           /\ out' = [out EXCEPT ![e] = Tail(@)]
           /\ UNCHANGED <<at, queue, quota, attached, why>>
  <2>1. PICK p \in Seq(UnitsOfFrames), u \in Seq(UnitsOfFrames) : p = pipe[e] /\ u = out[e] /\ u # <<>>
    BY <1>1, <1>2 DEF LinkTypes
  <2>2. Head(u) \in UnitsOfFrames /\ Tail(u) \in Seq(UnitsOfFrames)
    BY <2>1, HeadTailProperties
  <2>3. Append(p, Head(u)) \in Seq(UnitsOfFrames) /\ Len(Append(p, Head(u))) = Len(p) + 1 /\ Len(p) \in Nat
    BY <2>1, <2>2, AppendProperties
  <2>4. pipe' = [pipe EXCEPT ![e] = Append(p, Head(u))] /\ out' = [out EXCEPT ![e] = Tail(u)]
    BY <1>4, <2>1
  <2>5. /\ pipe' \in [Ends -> Seq(UnitsOfFrames)] /\ pipe'[e] = Append(p, Head(u))
        /\ pipe'[Other(e)] = pipe[Other(e)]
        /\ \A d \in Ends : d # e => pipe'[d] = pipe[d]
    BY <1>1, <2>3, <2>4 DEF LinkTypes
  <2>6. /\ out' \in [Ends -> Seq(UnitsOfFrames)] /\ out'[e] = Tail(u) /\ out'[Other(e)] = out[Other(e)]
    BY <1>1, <2>2, <2>4 DEF LinkTypes
  <2>7. ASSUME NEW d \in Ends PROVE Len(pipe'[d]) <= PipeSize
    <3>1. CASE d = e
      <4>1. Len(p) < PipeSize /\ Len(pipe'[d]) = Len(p) + 1
        BY <1>4, <2>1, <2>3, <2>5, <3>1
      <4> QED BY <2>3, <4>1
    <3>2. CASE d # e
      BY <1>1, <2>5, <3>2 DEF LinkBounds
    <3> QED BY <3>1, <3>2
  <2>8. LinkTypes' /\ LinkBounds'
    BY <1>1, <1>2, <1>4, <2>5, <2>6, <2>7 DEF LinkTypes, LinkBounds
  <2>9. Writes(e)
    BY <1>2, <1>4, <2>1, <2>5, <2>6 DEF Writes
  <2>10. Stays(e)
    BY <1>2, <1>4, <2>5, <2>6 DEF Stays
  <2> QED BY <2>8, <2>9, <2>10, StaysMoves
<1> QED BY <1>3, <1>4 DEF WriteUnit

LEMMA AllWrittenMoves ==
    ASSUME LinkInv, NEW e \in Ends, AllWritten(e)
    PROVE  LinkTypes' /\ LinkBounds' /\ WriterMoves(e) /\ ReaderMoves(Other(e))
<1>1. /\ at[e] = "writing" /\ out[e] = <<>>
      /\ UNCHANGED <<peer, sameVersion, pipe, queued, received, sends>>
  BY DEF AllWritten
<1>2. \/ \E there \in {"peeking", "reading"} : Goes(e, there) /\ UNCHANGED <<queue, attached>>
      \/ Closes(e, "other")
  <2>1. peer \in {"window", "list", "exec", "send"} /\ (e = "app" \/ e = "daemon")
    BY DEF LinkInv, LinkTypes, Ends
  <2>2. CASE e = "daemon" \/ peer = "window"
    <3>1. Goes(e, "peeking") /\ UNCHANGED <<queue, attached>>
      BY <2>1, <2>2, Zenon DEF AllWritten
    <3> QED BY <3>1
  <2>3. CASE e = "app" /\ peer \in {"list", "exec"}
    <3>1. Goes(e, "reading") /\ UNCHANGED <<queue, attached>>
      BY <2>1, <2>3, Zenon DEF AllWritten
    <3> QED BY <3>1
  <2>4. CASE e = "app" /\ peer = "send"
    BY <2>1, <2>4, Zenon DEF AllWritten
  <2> QED BY <2>1, <2>2, <2>3, <2>4
<1>3. \A there \in {"peeking", "reading"} : there \in Doing \ {"gone"}
  BY DEF Doing
<1> QED BY <1>1, <1>2, <1>3, GoMoves, CloseMoves

LEMMA PeekMoves ==
    ASSUME LinkInv, NEW e \in Ends, Peek(e)
    PROVE  LinkTypes' /\ LinkBounds' /\ WriterMoves(e) /\ ReaderMoves(Other(e))
<1> USE ConnectionAssumption
<1>1. LinkTypes /\ LinkBounds /\ Direction(e) /\ Other(e) \in Ends /\ Other(e) # e /\ Other(Other(e)) = e
  BY TheOther DEF LinkInv
<1>2. /\ at[e] = "peeking" /\ out[e] = <<>>
      /\ UNCHANGED <<peer, sameVersion, pipe, queued, received, sends>>
  <2>1. out[e] # <<>> => at[e] = "writing"
    BY <1>1, Zenon DEF Direction
  <2> QED BY <2>1 DEF Peek
<1>3. CASE \E there \in {"reading", "writing"} : Goes(e, there) /\ UNCHANGED <<queue, attached>>
  <2>1. PICK there \in Doing \ {"gone"} : Goes(e, there) /\ UNCHANGED <<queue, attached>>
    BY <1>3 DEF Doing
  <2> QED BY <1>2, <2>1, GoMoves
<1>4. CASE pipe[Other(e)] = <<>> /\ at[Other(e)] = "gone" /\ Closes(e, "peer")
  <2>1. /\ at' \in [Ends -> Doing]
        /\ queue' \in [Ends -> Seq(Frames)] /\ out' \in [Ends -> Seq(UnitsOfFrames)]
        /\ why' \in [Ends -> {"none", "peer", "other"}]
        /\ attached' \in BOOLEAN /\ (attached' => at'["daemon"] # "gone")
        /\ Len(queue'["daemon"]) <= EventLimit /\ quota' \in 0..EventLimit
        /\ at'[e] = "gone" /\ queue'[e] = <<>> /\ out'[e] = <<>> /\ why'[e] = "peer"
        /\ at'[Other(e)] = at[Other(e)] /\ queue'[Other(e)] = queue[Other(e)]
        /\ out'[Other(e)] = out[Other(e)] /\ why'[Other(e)] = why[Other(e)]
    BY <1>1, <1>4, Closing
  <2>2. LinkTypes' /\ LinkBounds'
    BY <1>1, <1>2, <2>1 DEF LinkTypes, LinkBounds
  <2>3. WriterMoves(e)
    BY <1>2, <2>1 DEF WriterMoves, Stops
  <2>4. ReaderMoves(Other(e))
    BY <1>1, <1>2, <1>4, <2>1 DEF ReaderMoves, FindsClosed
  <2> QED BY <2>2, <2>3, <2>4
<1> QED BY <1>3, <1>4 DEF Peek

LEMMA OutsideMoves ==
    ASSUME LinkInv, NEW e \in Ends,
           \/ Dies(e)
           \/ e = "daemon" /\ (Reply \/ ReplyAttached \/ Replay \/ InputTaken \/ OthersEmit)
           \/ e = "app" /\ UserSends
    PROVE  LinkTypes' /\ LinkBounds' /\ WriterMoves(e) /\ ReaderMoves(Other(e))
<1> USE ConnectionAssumption
<1>1. LinkTypes /\ LinkBounds /\ Other(e) \in Ends /\ Other(e) # e
      /\ (out[e] # <<>> => at[e] = "writing")
  <2>1. Direction(e)
    BY DEF LinkInv
  <2>2. out[e] # <<>> => at[e] = "writing"
    BY <2>1, Zenon DEF Direction
  <2> QED BY <2>2, TheOther DEF LinkInv
<1>2. CASE Dies(e)
  BY <1>2, CloseMoves DEF Dies
<1>3. ASSUME at[e] # "gone", NEW kind \in {"request", "attached", "event"},
             NEW size \in FrameSizes \cup {TooLarge}, Queue(e, kind, size),
             e = "daemon" => Len(queue["daemon"]) < EventLimit,
             UNCHANGED <<peer, sameVersion, out, pipe, received, why>>,
             attached' \in BOOLEAN, attached' => e = "daemon" \/ attached,
             sends' \in 0..MaxRequests, quota' \in 0..EventLimit,
             at' \in [Ends -> Doing], at'[e] # "gone", at'[e] = at[e] \/ at[e] \notin {"reading", "writing"},
             at'[Other(e)] = at[Other(e)]
      PROVE  LinkTypes' /\ LinkBounds' /\ WriterMoves(e) /\ ReaderMoves(Other(e))
  <2>1. /\ queue' \in [Ends -> Seq(Frames)] /\ queued' \in [Ends -> Numbers]
        /\ Len(queue'["daemon"]) <= EventLimit
        /\ \E f \in Frames : /\ f.n = queued[e] /\ queue'[e] = Append(queue[e], f)
                             /\ queued'[e] = Successor(queued[e])
        /\ queue'[Other(e)] = queue[Other(e)] /\ queued'[Other(e)] = queued[Other(e)]
    BY <1>1, <1>3, Queueing
  <2>2. LinkTypes' /\ LinkBounds'
    <3>1. attached' => at'["daemon"] # "gone"
      BY <1>1, <1>3, TheOther DEF LinkTypes, Ends
    <3> QED BY <1>1, <1>3, <2>1, <3>1 DEF LinkTypes, LinkBounds
  <2>3. Queues(e) /\ Stays(e)
    BY <1>1, <1>3, <2>1 DEF Queues, Stays
  <2> QED BY <2>2, <2>3, StaysMoves
<1>4. CASE e = "daemon" /\ (Reply \/ ReplyAttached \/ Replay)
  <2>1. PICK kind \in {"attached", "event"}, size \in FrameSizes : Queue(e, kind, size)
    BY <1>4 DEF Reply, ReplyAttached, Replay, Answer
  <2>2. /\ at[e] \in {"replying", "attaching", "replaying"} /\ Len(queue["daemon"]) < EventLimit
        /\ UNCHANGED <<peer, sameVersion, pipe, received, sends>>
    BY <1>4 DEF Reply, ReplyAttached, Replay, Answer
  <2>3. PICK there \in Doing \ {"gone"} : Goes(e, there)
    BY <1>4 DEF Reply, ReplyAttached, Replay, Replayed, Doing
  <2>4. attached' \in BOOLEAN
    BY <1>1, <1>4 DEF Reply, ReplyAttached, Replay, Replayed, LinkTypes
  <2>5. /\ at' \in [Ends -> Doing]
        /\ out' = out /\ why' = why /\ quota' \in 0..EventLimit
        /\ at'[e] = there /\ at'[Other(e)] = at[Other(e)]
    BY <1>1, <2>2, <2>3, Going
  <2>6. sends' \in 0..MaxRequests
    BY <1>1, <2>2 DEF LinkTypes
  <2> QED BY <1>3, <1>4, <2>1, <2>2, <2>3, <2>4, <2>5, <2>6
<1>7. CASE e = "daemon" /\ InputTaken
  <2>1. /\ at[e] = "sending" /\ Goes(e, "writing")
        /\ UNCHANGED <<peer, sameVersion, pipe, queue, attached, queued, received, sends>>
    BY <1>7 DEF InputTaken
  <2>2. PICK there \in Doing \ {"gone"} : Goes(e, there)
    BY <2>1 DEF Doing
  <2>3. out[e] = <<>> /\ at[e] \notin {"reading", "gone"}
    BY <1>1, <2>1
  <2> QED BY <2>1, <2>2, <2>3, GoMoves
<1>5. CASE e = "daemon" /\ OthersEmit
  <2>1. PICK kind \in {"request", "attached", "event"}, size \in FrameSizes : Queue(e, kind, size)
    BY <1>5 DEF OthersEmit
  <2>2. /\ at[e] # "gone" /\ Len(queue["daemon"]) < EventLimit
        /\ UNCHANGED <<peer, sameVersion, at, out, pipe, quota, attached, received, sends, why>>
    BY <1>1, <1>5 DEF OthersEmit, LinkTypes
  <2>3. /\ at' \in [Ends -> Doing]
        /\ sends' \in 0..MaxRequests /\ quota' \in 0..EventLimit
    BY <1>1, <2>2 DEF LinkTypes, LinkBounds
  <2>4. /\ at'[e] = at[e] /\ at'[Other(e)] = at[Other(e)]
        /\ UNCHANGED <<peer, sameVersion, out, pipe, attached, received, why>>
        /\ attached' \in BOOLEAN /\ (attached' => attached)
    BY <1>1, <2>2 DEF LinkTypes
  <2>5. at[e] # "gone" /\ (e = "daemon" => Len(queue["daemon"]) < EventLimit)
    BY <2>2
  <2>6. size \in FrameSizes \cup {TooLarge}
    BY <2>1
  <2> QED BY <1>3, <2>1, <2>3, <2>4, <2>5, <2>6
<1>6. CASE e = "app" /\ UserSends
  <2>1. PICK kind \in {"request", "attached", "event"}, size \in FrameSizes \cup {TooLarge} :
           Queue(e, kind, size)
    BY <1>6 DEF UserSends
  <2>2. /\ at[e] # "gone" /\ sends < MaxRequests /\ sends' = sends + 1
        /\ UNCHANGED <<peer, sameVersion, at, out, pipe, quota, attached, received, why>>
    BY <1>6 DEF UserSends
  <2>3. /\ at' \in [Ends -> Doing]
        /\ sends' \in 0..MaxRequests /\ quota' \in 0..EventLimit
    BY <1>1, <2>2 DEF LinkTypes, LinkBounds
  <2>4. /\ at'[e] = at[e] /\ at'[Other(e)] = at[Other(e)]
        /\ UNCHANGED <<peer, sameVersion, out, pipe, attached, received, why>>
        /\ attached' \in BOOLEAN /\ (attached' => attached)
    BY <1>1, <2>2 DEF LinkTypes
  <2>5. at[e] # "gone" /\ (e = "daemon" => Len(queue["daemon"]) < EventLimit)
    BY <1>6, <2>2
  <2> QED BY <1>3, <2>1, <2>3, <2>4, <2>5
<1> QED BY <1>2, <1>4, <1>5, <1>6, <1>7

\* What a thread does with a frame it has read.
Taking(e) ==
    /\ peer' \in {"window", "list", "exec", "send"}
    /\ LinkTypes' /\ Len(queue'["daemon"]) <= EventLimit /\ quota' \in 0..EventLimit
    /\ at'[Other(e)] = at[Other(e)] /\ queue'[Other(e)] = queue[Other(e)]
    /\ out'[Other(e)] = out[Other(e)] /\ queued'[Other(e)] = queued[Other(e)]
    /\ why'[Other(e)] = why[Other(e)] /\ why'[e] # "peer"
    /\ \/ at'[e] = "gone" /\ queue'[e] = <<>> /\ out'[e] = <<>> /\ queued' = queued
       \/ /\ at'[e] # "gone" /\ out'[e] = out[e]
          /\ \/ queue'[e] = queue[e] /\ queued'[e] = queued[e]
             \/ \E f \in Frames : /\ f.n = queued[e] /\ queue'[e] = Append(queue[e], f)
                                  /\ queued'[e] = Successor(queued[e])

LEMMA TakingCloses ==
    ASSUME LinkInv, NEW e \in Ends, Closes(e, "other"), at[e] = "reading",
           UNCHANGED <<peer, sameVersion, queued, sends>>,
           pipe' \in [Ends -> Seq(UnitsOfFrames)], received' \in [Ends -> Numbers]
    PROVE  Taking(e)
<1>1. LinkTypes /\ LinkBounds
  BY DEF LinkInv
<1>2. /\ at' \in [Ends -> Doing]
      /\ queue' \in [Ends -> Seq(Frames)] /\ out' \in [Ends -> Seq(UnitsOfFrames)]
      /\ why' \in [Ends -> {"none", "peer", "other"}]
      /\ attached' \in BOOLEAN /\ (attached' => at'["daemon"] # "gone")
      /\ Len(queue'["daemon"]) <= EventLimit /\ quota' \in 0..EventLimit
      /\ at'[e] = "gone" /\ queue'[e] = <<>> /\ out'[e] = <<>> /\ why'[e] = "other"
      /\ at'[Other(e)] = at[Other(e)] /\ queue'[Other(e)] = queue[Other(e)]
      /\ out'[Other(e)] = out[Other(e)] /\ why'[Other(e)] = why[Other(e)]
  BY <1>1, Closing
<1> QED BY <1>1, <1>2 DEF Taking, LinkTypes

\* It goes on, and may have queued something and begun to be attached.
LEMMA TakingGoes ==
    ASSUME LinkInv, NEW e \in Ends, at[e] = "reading",
           NEW there \in Doing \ {"gone"}, Goes(e, there),
           \/ UNCHANGED <<queue, queued>>
           \/ /\ e = "daemon" => Len(queue["daemon"]) < EventLimit
              /\ \E kind \in {"request", "event"} : \E size \in FrameSizes : Queue(e, kind, size),
           peer' \in {"window", "list", "exec", "send"}, UNCHANGED <<sameVersion, sends>>,
           attached' \in BOOLEAN, attached' => e = "daemon" \/ attached,
           pipe' \in [Ends -> Seq(UnitsOfFrames)], received' \in [Ends -> Numbers]
    PROVE  Taking(e)
<1>1. LinkTypes /\ LinkBounds /\ why[e] # "peer"
  <2>1. LinkTypes /\ LinkBounds /\ Direction(Other(e)) /\ Other(Other(e)) = e
    BY TheOther DEF LinkInv
  <2>2. why[Other(Other(e))] = "peer" => at[Other(Other(e))] = "gone"
    BY <2>1, Zenon DEF Direction
  <2> QED BY <2>1, <2>2
<1>2. /\ at' \in [Ends -> Doing]
      /\ out' = out /\ why' = why /\ quota' \in 0..EventLimit
      /\ at'[e] = there /\ at'[Other(e)] = at[Other(e)]
      /\ at'["daemon"] = "gone" => at["daemon"] = "gone"
  BY <1>1, Going
<1>3. attached' => at'["daemon"] # "gone"
  BY <1>1, <1>2 DEF LinkTypes
<1>4. /\ queue' \in [Ends -> Seq(Frames)] /\ queued' \in [Ends -> Numbers]
      /\ Len(queue'["daemon"]) <= EventLimit
      /\ queue'[Other(e)] = queue[Other(e)] /\ queued'[Other(e)] = queued[Other(e)]
      /\ \/ queue'[e] = queue[e] /\ queued'[e] = queued[e]
         \/ \E f \in Frames : /\ f.n = queued[e] /\ queue'[e] = Append(queue[e], f)
                              /\ queued'[e] = Successor(queued[e])
  <2>1. CASE UNCHANGED <<queue, queued>>
    BY <1>1, <2>1 DEF LinkTypes, LinkBounds
  <2>2. CASE /\ e = "daemon" => Len(queue["daemon"]) < EventLimit
             /\ \E kind \in {"request", "event"} : \E size \in FrameSizes : Queue(e, kind, size)
    <3>1. PICK kind \in {"attach", "get", "request", "attached", "event"},
               size \in FrameSizes \cup {TooLarge} : Queue(e, kind, size)
      BY <2>2
    <3>2. /\ queue' \in [Ends -> Seq(Frames)] /\ queued' \in [Ends -> Numbers]
          /\ Len(queue'["daemon"]) <= EventLimit
          /\ \E f \in Frames : /\ f.n = queued[e] /\ queue'[e] = Append(queue[e], f)
                               /\ queued'[e] = Successor(queued[e])
          /\ queue'[Other(e)] = queue[Other(e)] /\ queued'[Other(e)] = queued[Other(e)]
      BY <1>1, <2>2, <3>1, Queueing
    <3> QED BY <3>2
  <2> QED BY <2>1, <2>2
<1>5. LinkTypes'
  BY <1>1, <1>2, <1>3, <1>4 DEF LinkTypes
<1> QED BY <1>1, <1>2, <1>4, <1>5 DEF Taking

LEMMA ReceiveTakes ==
    ASSUME LinkInv, NEW e \in Ends, NEW frame \in Frames, at[e] = "reading", Receive(e, frame),
           UNCHANGED <<sameVersion, sends>>, pipe' \in [Ends -> Seq(UnitsOfFrames)]
    PROVE  Taking(e) /\ received' = [received EXCEPT ![Other(e)] = Successor(@)]
<1>1. LinkTypes /\ Other(e) \in Ends
  BY TheOther DEF LinkInv
<1>2. received' = [received EXCEPT ![Other(e)] = Successor(@)] /\ received' \in [Ends -> Numbers]
  BY <1>1, Numbered DEF LinkTypes, Receive
<1>3. CASE e = "app"
  <2>1. AppReceives(frame)
    BY <1>3 DEF Receive
  <2>2. CASE Closes(e, "other") /\ UNCHANGED <<peer, queued>>
    BY <1>2, <2>2, TakingCloses
  <2>3. ASSUME NEW there \in {"writing", "reading"}, Goes(e, there), UNCHANGED <<peer, queue, queued, attached>>
        PROVE  Taking(e)
    <3>1. peer' \in {"window", "list", "exec", "send"} /\ attached' \in BOOLEAN /\ (attached' => attached)
      BY <1>1, <2>3 DEF LinkTypes
    <3>2. there \in Doing \ {"gone"}
      BY DEF Doing
    <3> QED BY <1>2, <2>3, <3>1, <3>2, TakingGoes
  <2>4. CASE /\ peer' = "send" /\ Goes("app", "writing") /\ UNCHANGED attached
             /\ \E size \in FrameSizes : Queue("app", "request", size)
    <3>1. peer' \in {"window", "list", "exec", "send"} /\ attached' \in BOOLEAN /\ (attached' => attached)
      BY <1>1, <2>4 DEF LinkTypes
    <3>2. /\ e = "daemon" => Len(queue["daemon"]) < EventLimit
          /\ \E kind \in {"request", "event"} : \E size \in FrameSizes : Queue(e, kind, size)
      BY <1>3, <2>4
    <3>3. PICK there \in Doing \ {"gone"} : Goes(e, there)
      BY <1>3, <2>4 DEF Doing
    <3> QED BY <1>2, <3>1, <3>2, <3>3, TakingGoes
  <2> QED BY <1>2, <1>3, <2>1, <2>2, <2>3, <2>4 DEF AppReceives
<1>4. CASE e = "daemon"
  <2>1. DaemonReceives(frame) /\ peer' = peer /\ peer' \in {"window", "list", "exec", "send"}
    BY <1>1, <1>4 DEF Receive, DaemonReceives, LinkTypes
  <2>2. CASE Closes(e, "other") /\ UNCHANGED queued
    BY <1>2, <2>1, <2>2, TakingCloses
  <2>3. CASE \E there \in {"replying", "attaching", "sending", "writing"} :
                Goes(e, there) /\ UNCHANGED <<queue, queued, attached>>
    <3>1. PICK there \in Doing \ {"gone"} : Goes(e, there) /\ UNCHANGED <<queue, queued, attached>>
      BY <2>3 DEF Doing
    <3>2. attached' \in BOOLEAN
      BY <1>1, <3>1 DEF LinkTypes
    <3> QED BY <1>2, <1>4, <2>1, <3>1, <3>2, TakingGoes
  <2>5. CASE /\ Goes(e, "writing") /\ Len(queue["daemon"]) < EventLimit /\ UNCHANGED attached
             /\ \E size \in FrameSizes : Queue(e, "event", size)
    <3>1. PICK there \in Doing \ {"gone"} : Goes(e, there)
      BY <2>5 DEF Doing
    <3>2. attached' \in BOOLEAN
      BY <1>1, <2>5 DEF LinkTypes
    <3>3. \E kind \in {"request", "event"} : \E size \in FrameSizes : Queue(e, kind, size)
      BY <2>5
    <3> QED BY <1>2, <1>4, <2>1, <2>5, <3>1, <3>2, <3>3, TakingGoes
  <2> QED BY <1>2, <1>4, <2>1, <2>2, <2>3, <2>5 DEF DaemonReceives
<1> QED BY <1>3, <1>4 DEF Ends

LEMMA ReadUnitMoves ==
    ASSUME LinkInv, NEW e \in Ends, ReadUnit(e)
    PROVE  LinkTypes' /\ LinkBounds' /\ WriterMoves(e) /\ ReaderMoves(Other(e))
<1> USE ConnectionAssumption
<1>1. /\ LinkTypes /\ LinkBounds /\ Other(e) \in Ends /\ Other(e) # e /\ Other(Other(e)) = e
      /\ out[e] = <<>> /\ at[e] = "reading" /\ UNCHANGED <<sameVersion, sends>>
  <2>1. Direction(e) /\ at[e] = "reading"
    BY DEF LinkInv, ReadUnit
  <2>2. out[e] # <<>> => at[e] = "writing"
    BY <2>1, Zenon DEF Direction
  <2> QED BY <2>1, <2>2, TheOther DEF LinkInv, ReadUnit
<1>2. PICK d \in Ends : d = Other(e) /\ Other(d) = e /\ d # e
  BY <1>1
<1>3. ASSUME pipe[d] # <<>>, pipe' = [pipe EXCEPT ![d] = Tail(pipe[d])]
      PROVE  /\ pipe' \in [Ends -> Seq(UnitsOfFrames)] /\ pipe'[d] = Tail(pipe[d]) /\ pipe'[e] = pipe[e]
             /\ Head(pipe[d]) \in UnitsOfFrames
             /\ \A c \in Ends : Len(pipe'[c]) <= PipeSize
  <2>1. PICK p \in Seq(UnitsOfFrames) : p = pipe[d] /\ p # <<>>
    BY <1>1, <1>3 DEF LinkTypes
  <2>2. Head(p) \in UnitsOfFrames /\ Tail(p) \in Seq(UnitsOfFrames) /\ Len(Tail(p)) = Len(p) - 1
    BY <2>1, HeadTailProperties
  <2>3. /\ pipe' \in [Ends -> Seq(UnitsOfFrames)] /\ pipe'[d] = Tail(p)
        /\ \A c \in Ends : c # d => pipe'[c] = pipe[c]
    BY <1>1, <1>3, <2>1, <2>2 DEF LinkTypes
  <2>4. ASSUME NEW c \in Ends PROVE Len(pipe'[c]) <= PipeSize
    <3>1. CASE c = d
      <4>1. PICK n \in Nat : n = Len(p)
        BY <2>1
      <4>2. n <= PipeSize /\ Len(pipe'[c]) = n - 1 /\ PipeSize \in Nat
        BY <1>1, <2>1, <2>2, <2>3, <3>1, <4>1 DEF LinkBounds
      <4> QED BY <4>1, <4>2
    <3>2. CASE c # d
      BY <1>1, <2>3, <3>2 DEF LinkBounds
    <3> QED BY <3>1, <3>2
  <2> QED BY <1>2, <2>1, <2>2, <2>3, <2>4
<1>4. CASE /\ pipe[d] # <<>> /\ pipe' = [pipe EXCEPT ![d] = Tail(pipe[d])]
           /\ Head(pipe[d]).rest = 0 /\ Receive(e, Head(pipe[d]).frame)
  <2>1. PICK frame \in Frames : frame = Head(pipe[d]).frame /\ Receive(e, frame)
    BY <1>3, <1>4 DEF UnitsOfFrames
  <2>2. Taking(e) /\ received' = [received EXCEPT ![Other(e)] = Successor(@)]
    BY <1>1, <1>3, <1>4, <2>1, ReceiveTakes
  <2>3. received'[d] = Successor(received[d]) /\ received'[e] = received[e]
    BY <1>1, <1>2, <2>2 DEF LinkTypes
  <2>4. LinkTypes' /\ LinkBounds'
    BY <1>1, <1>3, <1>4, <2>2 DEF Taking, LinkBounds
  <2>5. ReadsLast(d)
    BY <1>1, <1>2, <1>3, <1>4, <2>2, <2>3 DEF Taking, ReadsLast
  <2>6. ReaderMoves(d)
    BY <1>2, <2>2, <2>5 DEF Taking, ReaderMoves
  <2>7. Queues(e) \/ Stops(e)
    BY <1>1, <1>3, <1>4, <2>2 DEF Taking, Queues, Stops
  <2>8. WriterMoves(e)
    BY <2>2, <2>3, <2>7 DEF Taking, WriterMoves
  <2> QED BY <1>2, <2>4, <2>6, <2>8
<1>5. CASE /\ pipe[d] # <<>> /\ pipe' = [pipe EXCEPT ![d] = Tail(pipe[d])]
           /\ Head(pipe[d]).rest # 0
           /\ UNCHANGED <<peer, at, queue, out, quota, attached, queued, received, why>>
  <2>1. LinkTypes' /\ LinkBounds'
    BY <1>1, <1>3, <1>5 DEF LinkTypes, LinkBounds
  <2>2. ReadsPart(d)
    BY <1>1, <1>2, <1>3, <1>5 DEF ReadsPart
  <2>3. ReaderMoves(d)
    BY <1>5, <2>2 DEF ReaderMoves
  <2>4. Queues(e)
    BY <1>1, <1>3, <1>5 DEF Queues
  <2>5. WriterMoves(e)
    BY <1>5, <2>4 DEF WriterMoves
  <2> QED BY <1>2, <2>1, <2>3, <2>5
<1>6. CASE /\ pipe[d] = <<>> /\ at[d] = "gone"
           /\ Closes(e, "peer") /\ UNCHANGED <<peer, pipe, queued, received>>
  <2>1. /\ at' \in [Ends -> Doing]
        /\ queue' \in [Ends -> Seq(Frames)] /\ out' \in [Ends -> Seq(UnitsOfFrames)]
        /\ why' \in [Ends -> {"none", "peer", "other"}]
        /\ attached' \in BOOLEAN /\ (attached' => at'["daemon"] # "gone")
        /\ Len(queue'["daemon"]) <= EventLimit /\ quota' \in 0..EventLimit
        /\ at'[e] = "gone" /\ queue'[e] = <<>> /\ out'[e] = <<>> /\ why'[e] = "peer"
        /\ at'[Other(e)] = at[Other(e)] /\ queue'[Other(e)] = queue[Other(e)]
        /\ out'[Other(e)] = out[Other(e)] /\ why'[Other(e)] = why[Other(e)]
    BY <1>1, <1>6, Closing
  <2>2. LinkTypes' /\ LinkBounds'
    BY <1>1, <1>6, <2>1 DEF LinkTypes, LinkBounds
  <2>3. WriterMoves(e)
    BY <1>6, <2>1 DEF WriterMoves, Stops
  <2>4. ReaderMoves(Other(e))
    BY <1>2, <1>6, <2>1 DEF ReaderMoves, FindsClosed
  <2> QED BY <2>2, <2>3, <2>4
<1> QED BY <1>2, <1>4, <1>5, <1>6 DEF ReadUnit

LEMMA LinkInvHolds == WindowSpec => []LinkInv
<1> USE ConnectionAssumption
<1>1. WindowInit => LinkInv
  <2> SUFFICES ASSUME InitLink PROVE LinkInv
    BY DEF WindowInit
  <2>1. /\ peer \in {"window", "list", "exec", "send"} /\ sameVersion \in BOOLEAN
        /\ at = [e \in Ends |-> "writing"]
        /\ queue = [e \in Ends |-> IF e = "app" THEN <<[kind |-> FirstKind, size |-> 1, n |-> 0]>> ELSE <<>>]
        /\ out = [e \in Ends |-> <<>>] /\ pipe = [e \in Ends |-> <<>>]
        /\ quota = EventLimit /\ attached = FALSE
        /\ queued = [e \in Ends |-> IF e = "app" THEN 1 ELSE 0]
        /\ received = [e \in Ends |-> 0] /\ sends = 0
        /\ why = [e \in Ends |-> "none"]
    BY Zenon DEF InitLink
  <2>2. PICK f \in Frames : f = [kind |-> FirstKind, size |-> 1, n |-> 0]
    <3>1. FirstKind \in {"attach", "get", "request", "attached", "event"}
      BY <2>1, Zenon DEF FirstKind
    <3>2. 1 \in FrameSizes \cup {TooLarge} /\ 0 \in Numbers
      BY DEF Numbers
    <3>3. [kind |-> FirstKind, size |-> 1, n |-> 0] \in Frames
      BY <3>1, <3>2 DEF Frames
    <3> QED BY <3>3
  <2>3. PICK q : q = <<f>> /\ q \in Seq(Frames) /\ Len(q) = 1 /\ q[1] = f
    <3>1. <<f>> \in Seq(Frames)
      BY <2>2
    <3>2. Len(<<f>>) = 1 /\ <<f>>[1] = f
      OBVIOUS
    <3> QED BY <3>1, <3>2, Zenon
  <2>4. /\ \A e \in Ends : queue[e] = IF e = "app" THEN q ELSE <<>>
        /\ queue \in [Ends -> Seq(Frames)]
    BY <2>1, <2>2, <2>3
  <2>5. LinkTypes
    <3>1. at \in [Ends -> Doing] /\ at["daemon"] # "gone"
      BY <2>1 DEF Ends, Doing
    <3>2. out \in [Ends -> Seq(UnitsOfFrames)] /\ pipe \in [Ends -> Seq(UnitsOfFrames)]
      BY <2>1
    <3>3. queued \in [Ends -> Numbers] /\ received \in [Ends -> Numbers]
      BY <2>1 DEF Numbers
    <3>4. why \in [Ends -> {"none", "peer", "other"}] /\ attached \in BOOLEAN
      BY <2>1
    <3>5. sends \in 0..MaxRequests
      BY <2>1
    <3> QED BY <2>1, <2>4, <3>1, <3>2, <3>3, <3>4, <3>5 DEF LinkTypes
  <2>6. LinkBounds
    BY <2>1, <2>4 DEF LinkBounds, Ends
  <2>7. ASSUME NEW d \in Ends PROVE Direction(d)
    <3>1. /\ Way(d) = <<>> /\ Chained(<<>>) /\ out[d] = <<>> /\ pipe[d] = <<>> /\ at[d] = "writing"
          /\ received[d] = 0 /\ why[Other(d)] = "none"
      BY <2>1, TheOther DEF Way, Chained
    <3>2. InTurn(queue[d], 0, queued[d])
      <4>1. CASE d = "app"
        <5>1. queue[d] = q /\ queued[d] = 1 /\ Head(q) = f /\ f.n = 0 /\ q # <<>>
          BY <2>1, <2>2, <2>3, <2>4, <4>1
        <5>2. Last(q) = f /\ Successor(0) = 1
          BY <2>3, LastIs DEF Successor
        <5> QED BY <2>3, <5>1, <5>2 DEF InTurn
      <4>2. CASE d # "app"
        BY <2>1, <2>4, <4>2 DEF InTurn
      <4> QED BY <4>1, <4>2
    <3>3. /\ queue[d] \in Seq(Frames) /\ out[d] \in Seq(UnitsOfFrames) /\ pipe[d] \in Seq(UnitsOfFrames)
          /\ queued[d] \in Numbers /\ received[d] \in Numbers
      BY <2>5 DEF LinkTypes
    <3> QED BY <3>1, <3>2, <3>3 DEF Direction
  <2> QED BY <2>5, <2>6, <2>7 DEF LinkInv
<1>2. LinkInv /\ [WindowNext]_windowVars => LinkInv'
  <2> SUFFICES ASSUME LinkInv, [NextLink]_linkVars PROVE LinkInv'
    BY StepsOfParts
  <2>1. ASSUME NEW e \in Ends, LinkTypes', LinkBounds', WriterMoves(e), ReaderMoves(Other(e)) PROVE LinkInv'
    BY <2>1, BothDirections DEF LinkInv
  <2>2. ASSUME NEW e \in Ends, Thread(e) \/ Dies(e) PROVE LinkInv'
    BY <2>1, <2>2, BeginFrameMoves, WriteUnitMoves, AllWrittenMoves, PeekMoves, ReadUnitMoves, OutsideMoves
       DEF Thread
  <2>3. CASE Reply \/ ReplyAttached \/ Replay \/ InputTaken \/ OthersEmit
    <3>1. PICK e \in Ends : e = "daemon"
      BY DEF Ends
    <3> QED BY <2>1, <2>3, <3>1, OutsideMoves
  <2>4. CASE UserSends
    <3>1. PICK e \in Ends : e = "app"
      BY DEF Ends
    <3> QED BY <2>1, <2>4, <3>1, OutsideMoves
  <2>5. CASE UNCHANGED linkVars
    <3>1. LinkTypes' = LinkTypes /\ LinkBounds' = LinkBounds
      BY <2>5 DEF linkVars, LinkTypes, LinkBounds
    <3>2. \A d \in Ends : Direction(d)' = Direction(d)
      BY <2>5 DEF linkVars, Direction, Way
    <3> QED BY <3>1, <3>2 DEF LinkInv
  <2> QED BY <2>2, <2>3, <2>4, <2>5 DEF NextLink
<1> QED BY <1>1, <1>2, PTL DEF WindowSpec

\* Both ends write and read the same pipe in pieces, and still what is on the
\* way is the rest of the oldest frame and then whole frames, in order, none
\* missing and none twice; what one end has written when it closes is read by
\* the other, unless something else ends that one (write_frame, read_frame of
\* ade-protocol; client_loop, daemon_io_loop).
THEOREM FramesStayWhole == WindowSpec => []FramesWholeAndInOrder
<1>1. ASSUME LinkInv PROVE FramesWholeAndInOrder
  <2>1. LinkTypes /\ LinkBounds
    BY <1>1 DEF LinkInv
  <2>2. TypeLink
    BY <2>1 DEF TypeLink, LinkTypes, LinkBounds, UnitsOfFrames
  <2>3. ASSUME NEW e \in Ends
        PROVE  /\ \A i \in 1..Len(Way(e)) - 1 : Follows(Way(e)[i], Way(e)[i + 1])
               /\ Way(e) # <<>> => /\ Way(e)[1].frame.n = received[e]
                                   /\ \/ at[Other(e)] \in {"reading", "gone"}
                                      \/ Way(e)[1].rest = Way(e)[1].frame.size - 1
               /\ at[e] # "gone" =>
                     IF Way(e) = <<>> THEN InTurn(queue[e], received[e], queued[e])
                     ELSE /\ Last(Way(e)).rest = 0
                          /\ InTurn(queue[e], Successor(Last(Way(e)).frame.n), queued[e])
               /\ why[Other(e)] = "peer" => Way(e) = <<>>
    <3>1. Direction(e)
      BY <1>1 DEF LinkInv
    <3> QED BY <3>1, Zenon DEF Direction, Chained
  <2> QED BY <2>2, <2>3, Zenon DEF FramesWholeAndInOrder
<1> QED BY <1>1, LinkInvHolds, PTL

----
(* What is left of a sequence *)

LEMMA LeastNumber ==
    ASSUME NEW T \in SUBSET Nat, T # {}
    PROVE  \E n \in T : \A m \in T : n <= m
<1>1. IsWellFoundedOn(OpToRel(<, Nat), Nat)
  BY NatLessThanWellFounded
<1>2. PICK n \in T : \A m \in T : ~(<<m, n>> \in OpToRel(<, Nat))
  BY <1>1, WFMin
<1>3. ASSUME NEW m \in T PROVE n <= m
  <2>1. ~(m < n)
    BY <1>2 DEF OpToRel
  <2> QED BY <2>1
<1> QED BY <1>3

LEMMA CountStep ==
    ASSUME NEW s, NEW S, NEW i \in Nat
    PROVE  /\ CountIn(s, S, i) \in Nat
           /\ CountIn(s, S, i + 1) = IF s[i + 1] \in S THEN CountIn(s, S, i) + 1 ELSE CountIn(s, S, i)
<1> DEFINE C(k) == {j \in 1..k : s[j] \in S}
<1>1. IsFiniteSet(C(i))
  <2>1. IsFiniteSet(1..i) /\ C(i) \subseteq 1..i
    BY FS_Interval
  <2> QED BY <2>1, FS_Subset
<1>2. Cardinality(C(i)) \in Nat
  BY <1>1, FS_CardinalityType
<1>3. CASE s[i + 1] \in S
  <2>1. C(i + 1) = C(i) \cup {i + 1} /\ i + 1 \notin C(i)
    BY <1>3
  <2>2. Cardinality(C(i) \cup {i + 1}) = Cardinality(C(i)) + 1
    BY <1>1, <2>1, FS_AddElement
  <2> QED BY <1>2, <1>3, <2>1, <2>2 DEF CountIn
<1>4. CASE s[i + 1] \notin S
  <2>1. C(i + 1) = C(i)
    BY <1>4
  <2> QED BY <1>2, <1>4, <2>1 DEF CountIn
<1> QED BY <1>3, <1>4

LEMMA CountNone == \A s, S : CountIn(s, S, 0) = 0
<1> SUFFICES ASSUME NEW s, NEW S PROVE CountIn(s, S, 0) = 0
  OBVIOUS
<1>1. {j \in 1..0 : s[j] \in S} = {}
  OBVIOUS
<1> QED BY <1>1, FS_EmptySet DEF CountIn

LEMMA CountGrows ==
    ASSUME NEW s, NEW S, NEW i \in Nat, NEW j \in Nat, i <= j
    PROVE  CountIn(s, S, i) \in Nat /\ CountIn(s, S, j) \in Nat /\ CountIn(s, S, i) <= CountIn(s, S, j)
           /\ CountIn(s, S, j) <= j
<1> DEFINE C(k) == {n \in 1..k : s[n] \in S}
<1>1. IsFiniteSet(1..j) /\ Cardinality(1..j) = j /\ C(j) \subseteq 1..j /\ C(i) \subseteq C(j)
  BY FS_Interval
<1>2. IsFiniteSet(C(j)) /\ Cardinality(C(j)) <= j
  BY <1>1, FS_Subset
<1>3. Cardinality(C(i)) <= Cardinality(C(j))
  BY <1>1, <1>2, FS_Subset
<1>4. CountIn(s, S, i) \in Nat /\ CountIn(s, S, j) \in Nat
  BY CountStep
<1> QED BY <1>2, <1>3, <1>4 DEF CountIn

\* Those in S are counted one after the other.
LEMMA CountPasses ==
    ASSUME NEW s, NEW S, NEW i \in Nat, NEW j \in Nat, i < j, s[j] \in S
    PROVE  CountIn(s, S, i) < CountIn(s, S, j)
<1>1. PICK h \in Nat : j = h + 1 /\ i <= h
  <2>1. j - 1 \in Nat /\ j = (j - 1) + 1 /\ i <= j - 1
    OBVIOUS
  <2> QED BY <2>1
<1>2. CountIn(s, S, i) <= CountIn(s, S, h) /\ CountIn(s, S, i) \in Nat /\ CountIn(s, S, h) \in Nat
  BY <1>1, CountGrows
<1>3. CountIn(s, S, j) = CountIn(s, S, h) + 1
  BY <1>1, CountStep
<1> QED BY <1>2, <1>3

LEMMA CountReaches ==
    ASSUME NEW s, NEW S, NEW n \in Nat, NEW k \in 1..CountIn(s, S, n)
    PROVE  \E i \in 1..n : s[i] \in S /\ CountIn(s, S, i) = k
<1> DEFINE T == {i \in Nat : k <= CountIn(s, S, i)}
<1>1. k \in Nat /\ k # 0 /\ n \in T
  BY CountStep
<1>2. PICK i \in T : \A j \in T : i <= j
  BY <1>1, LeastNumber
<1>3. i \in Nat /\ k <= CountIn(s, S, i) /\ i <= n
  BY <1>1, <1>2
<1>4. i # 0
  BY <1>1, <1>3, CountNone
<1>5. PICK h \in Nat : i = h + 1
  <2>1. i - 1 \in Nat /\ i = (i - 1) + 1
    BY <1>3, <1>4
  <2> QED BY <2>1
<1>6. ~(k <= CountIn(s, S, h))
  <2>1. h \notin T
    BY <1>2, <1>5
  <2> QED BY <2>1
<1>7. /\ CountIn(s, S, h) \in Nat
      /\ CountIn(s, S, i) = IF s[i] \in S THEN CountIn(s, S, h) + 1 ELSE CountIn(s, S, h)
  BY <1>5, CountStep
<1>8. s[i] \in S /\ CountIn(s, S, i) = k
  BY <1>1, <1>3, <1>6, <1>7
<1> QED BY <1>3, <1>4, <1>8

\* The same as far as they agree.
LEMMA CountSame ==
    ASSUME NEW s, NEW t, NEW S, NEW i \in Nat, \A j \in 1..i : s[j] \in S <=> t[j] \in S
    PROVE  CountIn(s, S, i) = CountIn(t, S, i)
  BY DEF CountIn

LEMMA AmongIs ==
    ASSUME NEW T, NEW s \in Seq(T), NEW S
    PROVE  /\ Among(s, S) \in Seq(T) /\ Len(Among(s, S)) = CountIn(s, S, Len(s))
           /\ \A k \in 1..CountIn(s, S, Len(s)) :
                 \E i \in 1..Len(s) : s[i] \in S /\ CountIn(s, S, i) = k /\ Among(s, S)[k] = s[i]
           /\ \A i \in 1..Len(s) : s[i] \in S =>
                 CountIn(s, S, i) \in 1..CountIn(s, S, Len(s)) /\ Among(s, S)[CountIn(s, S, i)] = s[i]
<1>1. PICK n \in Nat : n = Len(s)
  OBVIOUS
<1>2. PICK c \in Nat : c = CountIn(s, S, n)
  BY CountStep
<1> DEFINE Place(k) == CHOOSE i \in 1..n : s[i] \in S /\ CountIn(s, S, i) = k
<1>3. ASSUME NEW k \in 1..c PROVE Place(k) \in 1..n /\ s[Place(k)] \in S /\ CountIn(s, S, Place(k)) = k
  <2>1. \E i \in 1..n : s[i] \in S /\ CountIn(s, S, i) = k
    BY <1>2, CountReaches
  <2> QED BY <2>1
<1>4. Among(s, S) = [k \in 1..c |-> s[Place(k)]]
  BY <1>1, <1>2 DEF Among
<1> HIDE DEF Place
<1>5. /\ Among(s, S) \in Seq(T) /\ Len(Among(s, S)) = c
      /\ \A k \in 1..c : Among(s, S)[k] = s[Place(k)]
  <2>1. \A k \in 1..c : s[Place(k)] \in T
    BY <1>1, <1>3
  <2> QED BY <1>4, <2>1
<1>6. ASSUME NEW i \in 1..n, s[i] \in S
      PROVE  CountIn(s, S, i) \in 1..c /\ Among(s, S)[CountIn(s, S, i)] = s[i]
  <2>1. i \in Nat /\ i <= n /\ 0 < i /\ 0 \in Nat
    OBVIOUS
  <2>2. CountIn(s, S, i) \in Nat /\ CountIn(s, S, i) <= c /\ CountIn(s, S, 0) < CountIn(s, S, i)
    BY <1>2, <1>6, <2>1, CountGrows, CountPasses
  <2>3. CountIn(s, S, i) \in 1..c
    BY <2>2, CountNone
  <2>4. PICK k \in 1..c : k = CountIn(s, S, i)
    BY <2>3
  <2>5. PICK j \in 1..n : j = Place(k) /\ s[j] \in S /\ CountIn(s, S, j) = k
    BY <1>3
  <2>6. CountIn(s, S, i) = CountIn(s, S, j) /\ CountIn(s, S, i) \in Nat /\ j \in Nat
    BY <2>2, <2>4, <2>5
  <2>7. ~(i < j)
    <3>1. i < j => CountIn(s, S, i) < CountIn(s, S, j)
      BY <2>1, <2>5, <2>6, CountPasses
    <3> QED BY <2>6, <3>1
  <2>8. ~(j < i)
    <3>1. j < i => CountIn(s, S, j) < CountIn(s, S, i)
      BY <1>6, <2>1, <2>6, CountPasses
    <3> QED BY <2>6, <3>1
  <2>9. i = j
    BY <2>1, <2>6, <2>7, <2>8
  <2> QED BY <1>5, <2>3, <2>4, <2>5, <2>9
<1>7. ASSUME NEW k \in 1..c
      PROVE  \E i \in 1..n : s[i] \in S /\ CountIn(s, S, i) = k /\ Among(s, S)[k] = s[i]
  BY <1>3, <1>5
<1> QED BY <1>1, <1>2, <1>5, <1>6, <1>7

----
(* The palette *)

LEMMA RowsAre ==
    ASSUME NEW q
    PROVE  /\ Rows(q) \in Seq(DOMAIN Words) /\ Len(Rows(q)) <= Len(PaletteCommands)
           /\ ToSet(Rows(q)) \subseteq ToSet(PaletteCommands)
<1> USE DialogsAssumption
<1>0. PICK S : S = {command \in DOMAIN Words : PaletteMatches(command, q)}
  OBVIOUS
<1>1. PICK n \in Nat : n = Len(PaletteCommands)
  OBVIOUS
<1>2. /\ Among(PaletteCommands, S) \in Seq(DOMAIN Words)
      /\ Len(Among(PaletteCommands, S)) = CountIn(PaletteCommands, S, n)
      /\ \A k \in 1..CountIn(PaletteCommands, S, n) :
            \E i \in 1..n : Among(PaletteCommands, S)[k] = PaletteCommands[i]
  BY <1>1, AmongIs
<1>3. CountIn(PaletteCommands, S, n) <= n
  BY <1>1, CountGrows
<1>4. Rows(q) = Among(PaletteCommands, S)
  BY <1>0 DEF Rows
<1>5. ToSet(Rows(q)) \subseteq ToSet(PaletteCommands)
  <2>1. ASSUME NEW x \in ToSet(Rows(q)) PROVE x \in ToSet(PaletteCommands)
    <3>1. PICK k \in DOMAIN Rows(q) : x = Rows(q)[k]
      BY DEF ToSet
    <3>2. k \in 1..CountIn(PaletteCommands, S, n)
      BY <1>2, <1>4
    <3>3. PICK i \in 1..n : x = PaletteCommands[i]
      BY <1>2, <1>4, <3>1, <3>2
    <3> QED BY <1>1, <3>3 DEF ToSet
  <2> QED BY <2>1
<1> QED BY <1>1, <1>2, <1>3, <1>4, <1>5

LEMMA SelectedIsRow ==
    ASSUME NEW rows \in Seq(DOMAIN Words), NEW k, NEW row \in Nat
    PROVE  /\ rows = <<>> => Selected(rows, k, row) = 0
           /\ rows # <<>> => Selected(rows, k, row) \in 0..Len(rows) - 1
<1>1. PICK n \in Nat : n = Len(rows)
  OBVIOUS
<1>2. CASE rows = <<>>
  BY <1>2 DEF Selected, Moved
<1>3. CASE rows # <<>>
  <2>1. n # 0
    BY <1>1, <1>3, EmptySeq
  <2>2. PICK h \in 0..n - 1 : h = IF row > n - 1 THEN n - 1 ELSE row
    BY <2>1
  <2>3. Selected(rows, k, row) = Moved(rows, k, h)
    BY <1>1, <1>3, <2>2 DEF Selected
  <2>4. Moved(rows, k, h) \in 0..n - 1
    <3>1. (h + 1) % n \in 0..n - 1
      BY <2>1
    <3>2. Moved(rows, k, h) \in {IF h = 0 THEN n - 1 ELSE h - 1, (h + 1) % n, h}
      BY <1>1, <1>3 DEF Moved
    <3> QED BY <2>1, <2>2, <3>1, <3>2
  <2> QED BY <1>1, <1>3, <2>3, <2>4
<1> QED BY <1>2, <1>3

LEMMA PaletteDrawn ==
    ASSUME NEW o, NEW k, NEW pointer \in Pointers, NEW q \in Queries, NEW row \in 0..Len(PaletteCommands),
           DrawPalette(o, k, pointer, q, row)
    PROVE  /\ query' \in Queries /\ selection' \in 0..Len(PaletteCommands) /\ fading' \in BOOLEAN
           /\ taken'.command \in {Nothing, OutOfRange} \cup ToSet(PaletteCommands)
           /\ taken'.command # Nothing => taken'.command \in ToSet(taken'.rows)
           /\ open' \subseteq o \cup {"limit", "rename"}
<1> USE DialogsAssumption
<1>1. PICK rows \in Seq(DOMAIN Words) : rows = Rows(q)
  BY RowsAre
<1>2. PICK n \in Nat, max \in Nat : n = Len(rows) /\ max = Len(PaletteCommands) /\ n <= max
  BY <1>1, RowsAre
<1> DEFINE keep == Selected(rows, k, row)
           on(reset) == IF pointer \in RowPointers /\ pointer[2] < Len(rows) THEN pointer[2] ELSE reset
           what == Chosen(rows, k, pointer, selection')
<1>3. /\ \/ query' = q /\ selection' = on(keep)
         \/ query' \in Queries /\ selection' = on(0)
      /\ taken' = IF what = Nothing THEN NoneTaken ELSE [command |-> what, rows |-> rows]
      /\ open' = IF what # Nothing THEN Executed(o \ {"palette"}, what)
                 ELSE IF pointer = <<"away">> THEN o \ {"palette"} ELSE o
      /\ fading' = ("palette" \notin open')
  BY <1>1 DEF DrawPalette
<1>4. keep \in Nat /\ (rows = <<>> => keep = 0) /\ (rows # <<>> => keep < n)
  <2>1. row \in Nat
    BY <1>2
  <2> QED BY <1>1, <1>2, <2>1, SelectedIsRow
<1> HIDE DEF keep
<1>5. pointer \in RowPointers => pointer[2] \in Nat /\ pointer[2] < max
  BY <1>2 DEF RowPointers
<1>6. selection' \in 0..max /\ (rows # <<>> => selection' < n)
  <2>1. rows # <<>> => n # 0
    BY <1>2, EmptySeq
  <2> QED BY <1>2, <1>3, <1>4, <1>5, <2>1
<1>7. what # Nothing => what \in ToSet(rows)
  <2>1. CASE "enter" \in k /\ rows # <<>>
    <3>1. PICK m \in Nat : m = selection' /\ m < n
      BY <1>2, <1>6, <2>1
    <3>2. m + 1 \in 1..n
      <4>1. m \in Nat /\ n \in Nat /\ m < n
        BY <1>2, <3>1
      <4> QED BY <4>1
    <3>3. what = rows[m + 1]
      BY <1>2, <2>1, <3>1 DEF Chosen
    <3>4. m + 1 \in DOMAIN rows
      BY <1>1, <1>2, <3>2
    <3> QED BY <3>3, <3>4 DEF ToSet
  <2>2. CASE ~("enter" \in k /\ rows # <<>>) /\ pointer[1] = "click" /\ pointer[2] < Len(rows)
    <3>1. what = rows[pointer[2] + 1]
      BY <2>2 DEF Chosen
    <3>2. pointer[2] + 1 \in 1..n
      <4>1. pointer \in RowPointers
        BY <2>2 DEF Pointers
      <4> QED BY <1>2, <1>5, <2>2, <4>1
    <3> QED BY <1>1, <1>2, <3>1, <3>2 DEF ToSet
  <2>3. CASE ~("enter" \in k /\ rows # <<>>) /\ ~(pointer[1] = "click" /\ pointer[2] < Len(rows))
    BY <2>3 DEF Chosen
  <2> QED BY <2>1, <2>2, <2>3
<1>8. what # Nothing => what \in ToSet(PaletteCommands)
  BY <1>1, <1>7, RowsAre
<1> HIDE DEF what
<1>9. /\ taken'.command \in {Nothing, OutOfRange} \cup ToSet(PaletteCommands)
      /\ taken'.command # Nothing => taken'.command \in ToSet(taken'.rows)
  BY <1>3, <1>7, <1>8 DEF NoneTaken
<1>10. open' \subseteq o \cup {"limit", "rename"} /\ fading' \in BOOLEAN
  BY <1>3 DEF Executed
<1> QED BY <1>2, <1>3, <1>6, <1>9, <1>10

AllDialogs == {"palette", "rename", "settings", "limit", "question"}

LEMMA DialogsDrawn ==
    ASSUME NEW o \in SUBSET AllDialogs, NEW k, NEW pointer \in Pointers, NEW q \in Queries,
           NEW row \in 0..Len(PaletteCommands), DrawDialogs(o, k, pointer, q, row)
    PROVE  /\ query' \in Queries /\ selection' \in 0..Len(PaletteCommands) /\ fading' \in BOOLEAN
           /\ taken'.command \in {Nothing, OutOfRange} \cup ToSet(PaletteCommands)
           /\ taken'.command # Nothing => taken'.command \in ToSet(taken'.rows)
           /\ open' \subseteq AllDialogs
<1>1. PICK o4 \in SUBSET AllDialogs :
         (\E k4 : DrawPalette(o4, k4, pointer, q, row)) \/ LeavePalette(o4, q, row)
  <2>1. PICK top \in IF o \cap Modal = {} THEN {Nothing} ELSE o \cap Modal,
             focused \in IF "rename" \in o THEN BOOLEAN ELSE {FALSE} :
        LET k1 == IF LimitEscapes(o, k, pointer, top) THEN k \ {"esc"} ELSE k
            o1 == AfterQuestion(AfterLimit(o, k, pointer, top), k1, pointer, top)
            o2 == AfterRename(o1, k1, pointer, focused)
            o3 == AfterSettings(o2, k1, pointer, top)
            k2 == IF "settings" \in o2 THEN k1 \ {"esc"} ELSE k1
            o4 == IF "esc" \in k2 THEN o3 \ {"palette"} ELSE o3
        IN     \/ /\ "palette" \in o4 \/ fading \/ "palette" \in open
                  /\ DrawPalette(o4, k2 \ {"esc"}, pointer, q, row)
               \/ "palette" \notin o4 /\ LeavePalette(o4, q, row)
    BY DEF DrawDialogs
  <2> DEFINE k1 == IF LimitEscapes(o, k, pointer, top) THEN k \ {"esc"} ELSE k
             o1 == AfterQuestion(AfterLimit(o, k, pointer, top), k1, pointer, top)
             o2 == AfterRename(o1, k1, pointer, focused)
             o3 == AfterSettings(o2, k1, pointer, top)
             k2 == IF "settings" \in o2 THEN k1 \ {"esc"} ELSE k1
             o4 == IF "esc" \in k2 THEN o3 \ {"palette"} ELSE o3
  <2>2. DrawPalette(o4, k2 \ {"esc"}, pointer, q, row) \/ LeavePalette(o4, q, row)
    BY <2>1, Zenon
  <2>3. /\ \A d : AfterLimit(d, k, pointer, top) \subseteq d
        /\ \A d : AfterQuestion(d, k1, pointer, top) \subseteq d
        /\ \A d : AfterRename(d, k1, pointer, focused) \subseteq d
        /\ \A d : AfterSettings(d, k1, pointer, top) \subseteq d
    BY DEF AfterLimit, AfterQuestion, AfterRename, AfterSettings
  <2> HIDE DEF k1, k2
  <2>4. o1 \subseteq o /\ o2 \subseteq o1
    BY <2>3
  <2> HIDE DEF o1
  <2>5. o3 \subseteq o2
    BY <2>3
  <2> HIDE DEF o2, o3
  <2>6. o4 \in SUBSET AllDialogs
    BY <2>4, <2>5
  <2> HIDE DEF o4
  <2> QED BY <2>2, <2>6
<1>2. CASE \E k4 : DrawPalette(o4, k4, pointer, q, row)
  <2>1. PICK k4 : DrawPalette(o4, k4, pointer, q, row)
    BY <1>2
  <2>2. o4 \cup {"limit", "rename"} \subseteq AllDialogs
    BY DEF AllDialogs
  <2> QED BY <2>1, <2>2, PaletteDrawn
<1>3. CASE LeavePalette(o4, q, row)
  BY <1>3 DEF LeavePalette, NoneTaken
<1> QED BY <1>1, <1>2, <1>3

\* However the text, the arrows and the pointer move the selection and the rows
\* under it, Enter and a click run a command of the rows that are drawn, and no
\* index leaves them (command_palette).
THEOREM ChoiceStaysListed == WindowSpec => []ChoiceIsListed
<1> USE DialogsAssumption
<1>1. WindowInit => ChoiceIsListed
  <2> SUFFICES ASSUME InitDialogs PROVE ChoiceIsListed
    BY DEF WindowInit
  <2>1. 0 \in 0..Len(PaletteCommands) /\ 0 \in 0..2
    OBVIOUS
  <2> QED BY <2>1 DEF InitDialogs, ChoiceIsListed, TypeDialogs, NoneTaken
<1>2. ChoiceIsListed /\ [WindowNext]_windowVars => ChoiceIsListed'
  <2> SUFFICES ASSUME ChoiceIsListed, [NextDialogs]_dialogVars PROVE ChoiceIsListed'
    BY StepsOfParts
  <2>1. CASE RawInput
    <3>1. PICK down \in BOOLEAN, textPaste \in BOOLEAN, image \in BOOLEAN : HookSees(down, textPaste, image)
      BY <2>1 DEF RawInput
    <3>2. drawing' = TRUE /\ UNCHANGED <<open, fading, query, selection, ended, doubled, taken>>
      BY <2>1 DEF RawInput
    <3>3. pasted' \in BOOLEAN /\ pasteDown' = down
          /\ pressed' = IF ~down THEN 0 ELSE IF pressed = 2 THEN 2 ELSE pressed + 1
      BY <3>1, Zenon DEF HookSees, HookPastes, CountPressed
    <3>4. pressed' \in 0..2
      BY <3>3 DEF ChoiceIsListed, TypeDialogs
    <3> QED BY <3>2, <3>3, <3>4 DEF ChoiceIsListed, TypeDialogs
  <2>2. CASE Frame
    <3>1. PICK input \in Inputs :
        LET k  == input[1] \ Shortcuts
            o  == AfterSidebar(AfterRequest(AfterShortcuts(open, input[1]), input[2]), input[2])
            row == IF "P" \in input[1] THEN 0 ELSE selection
        IN  /\ DrawDialogs(o, k, input[2], IF "P" \in input[1] THEN NoQuery ELSE query, row)
            /\ ended' = (ShutsDown(input[2]) \/ Confirmed(o, k, input[2]))
            /\ doubled' = (~fading /\ Typed(o, k) \cap Acts(o, "palette" \in o) # {})
      BY <2>2 DEF Frame
    <3> DEFINE k  == input[1] \ Shortcuts
               o  == AfterSidebar(AfterRequest(AfterShortcuts(open, input[1]), input[2]), input[2])
               row == IF "P" \in input[1] THEN 0 ELSE selection
               q == IF "P" \in input[1] THEN NoQuery ELSE query
    <3>2. DrawDialogs(o, k, input[2], q, row)
      BY <3>1
    <3>3. ended' \in BOOLEAN /\ doubled' \in BOOLEAN
      BY <3>1, Zenon
    <3>4. drawing' = FALSE /\ UNCHANGED pasteVars
      BY <2>2 DEF Frame
    <3>5. input[2] \in Pointers /\ q \in Queries /\ row \in 0..Len(PaletteCommands)
      BY DEF Inputs, ChoiceIsListed, TypeDialogs
    <3>6. o \in SUBSET AllDialogs
      BY DEF AfterSidebar, AfterRequest, AfterShortcuts, AllDialogs, ChoiceIsListed, TypeDialogs
    <3> HIDE DEF o, k, q, row
    <3>7. /\ query' \in Queries /\ selection' \in 0..Len(PaletteCommands) /\ fading' \in BOOLEAN
          /\ taken'.command \in {Nothing, OutOfRange} \cup ToSet(PaletteCommands)
          /\ taken'.command # Nothing => taken'.command \in ToSet(taken'.rows)
          /\ open' \subseteq AllDialogs
      BY <3>2, <3>5, <3>6, DialogsDrawn
    <3> QED BY <3>3, <3>4, <3>7 DEF ChoiceIsListed, TypeDialogs, AllDialogs, pasteVars
  <2>3. CASE UNCHANGED dialogVars
    BY <2>3 DEF dialogVars, pasteVars, ChoiceIsListed, TypeDialogs
  <2> QED BY <2>1, <2>2, <2>3 DEF NextDialogs
<1> QED BY <1>1, <1>2, PTL DEF WindowSpec

----
(* The to-do list *)

\* What is to be done still.
View(items) == TextsOf(Among(items, Incomplete))

LEMMA ViewIs ==
    ASSUME NEW items \in Seq(Items)
    PROVE  /\ View(items) \in Seq(Texts) /\ Len(View(items)) = CountIn(items, Incomplete, Len(items))
           /\ \A i \in 1..Len(items) : items[i] \in Incomplete =>
                 CountIn(items, Incomplete, i) \in 1..Len(View(items))
                 /\ View(items)[CountIn(items, Incomplete, i)] = items[i].text
<1>1. PICK v \in Seq(Items) : v = Among(items, Incomplete)
  BY AmongIs
<1>2. PICK n \in Nat : n = Len(v)
  OBVIOUS
<1>3. /\ n = CountIn(items, Incomplete, Len(items))
      /\ \A i \in 1..Len(items) : items[i] \in Incomplete =>
            CountIn(items, Incomplete, i) \in 1..n /\ v[CountIn(items, Incomplete, i)] = items[i]
  BY <1>1, <1>2, AmongIs
<1>4. View(items) = [i \in 1..n |-> v[i].text]
  BY <1>1, <1>2 DEF View, TextsOf
<1>5. \A i \in 1..n : v[i].text \in Texts
  <2>1. \A i \in 1..n : v[i] \in Items
    BY <1>1, <1>2
  <2> QED BY <2>1 DEF Items
<1>6. View(items) \in Seq(Texts) /\ Len(View(items)) = n
  BY <1>4, <1>5
<1> QED BY <1>3, <1>4, <1>6

\* It is the only sequence with the texts of those that are to be done, each at
\* its count.
LEMMA OnlyView ==
    ASSUME NEW items \in Seq(Items), NEW texts \in Seq(Texts),
           Len(texts) = CountIn(items, Incomplete, Len(items)),
           \A i \in 1..Len(items) : items[i] \in Incomplete =>
              texts[CountIn(items, Incomplete, i)] = items[i].text
    PROVE  texts = View(items)
<1>1. PICK n \in Nat, l \in Nat : n = CountIn(items, Incomplete, Len(items)) /\ l = Len(items)
  BY CountStep
<1>2. PICK v \in Seq(Texts) :
         /\ v = View(items) /\ Len(v) = n
         /\ \A i \in 1..l : items[i] \in Incomplete => v[CountIn(items, Incomplete, i)] = items[i].text
  BY <1>1, ViewIs
<1>3. ASSUME NEW k \in 1..n PROVE texts[k] = v[k]
  <2>1. k \in 1..CountIn(items, Incomplete, l)
    BY <1>1
  <2>2. PICK i \in 1..l : items[i] \in Incomplete /\ CountIn(items, Incomplete, i) = k
    BY <1>1, <2>1, CountReaches
  <2> QED BY <1>1, <1>2, <2>2
<1>4. Len(texts) = n
  BY <1>1
<1> QED BY <1>2, <1>3, <1>4, SeqEqual

LEMMA ViewOfAdded ==
    ASSUME NEW items \in Seq(Items), NEW text \in Texts
    PROVE  /\ Append(items, [text |-> text, done |-> "no"]) \in Seq(Items)
           /\ View(Append(items, [text |-> text, done |-> "no"])) = Append(View(items), text)
<1>1. PICK item \in Items : item = [text |-> text, done |-> "no"] /\ item \in Incomplete
  <2>1. [text |-> text, done |-> "no"] \in Items
    BY DEF Items
  <2> QED BY <2>1 DEF Incomplete
<1>2. PICK l \in Nat : l = Len(items)
  OBVIOUS
<1>3. PICK more \in Seq(Items) :
         /\ more = Append(items, item) /\ Len(more) = l + 1 /\ more[l + 1] = item
         /\ \A i \in 1..l : more[i] = items[i]
  <2>1. /\ Append(items, item) \in Seq(Items) /\ Len(Append(items, item)) = l + 1
        /\ Append(items, item)[l + 1] = item
        /\ \A i \in 1..l : Append(items, item)[i] = items[i]
    BY <1>1, <1>2, AppendProperties
  <2> QED BY <2>1
<1>4. PICK n \in Nat : n = CountIn(items, Incomplete, l)
  BY CountStep
<1>5. PICK v \in Seq(Texts) :
         /\ v = View(items) /\ Len(v) = n
         /\ \A i \in 1..l : items[i] \in Incomplete =>
               CountIn(items, Incomplete, i) \in 1..n /\ v[CountIn(items, Incomplete, i)] = items[i].text
  BY <1>2, <1>4, ViewIs
<1>6. PICK t \in Seq(Texts) :
         t = Append(v, text) /\ Len(t) = n + 1 /\ t[n + 1] = text /\ \A k \in 1..n : t[k] = v[k]
  <2>1. v \in Seq(Texts) /\ Len(v) = n
    BY <1>5
  <2>2. /\ Append(v, text) \in Seq(Texts) /\ Len(Append(v, text)) = n + 1
        /\ Append(v, text)[n + 1] = text
        /\ \A k \in 1..n : Append(v, text)[k] = v[k]
    BY <2>1, AppendProperties
  <2> QED BY <2>2
<1>7. ASSUME NEW i \in 0..l PROVE CountIn(more, Incomplete, i) = CountIn(items, Incomplete, i)
  <2>1. i \in Nat /\ \A j \in 1..i : more[j] \in Incomplete <=> items[j] \in Incomplete
    BY <1>3
  <2> QED BY <2>1, CountSame
<1>8. CountIn(more, Incomplete, l + 1) = n + 1
  <2>1. l \in 0..l
    OBVIOUS
  <2>2. CountIn(more, Incomplete, l) = n
    BY <1>4, <1>7, <2>1
  <2>3. more[l + 1] \in Incomplete
    BY <1>1, <1>3
  <2> QED BY <1>2, <2>2, <2>3, CountStep
<1>9. ASSUME NEW i \in 1..l + 1, more[i] \in Incomplete
      PROVE  t[CountIn(more, Incomplete, i)] = more[i].text
  <2>1. CASE i = l + 1
    BY <1>1, <1>3, <1>6, <1>8, <2>1
  <2>2. CASE i # l + 1
    <3>1. i \in 1..l /\ i \in 0..l
      BY <2>2
    <3>2. CountIn(more, Incomplete, i) = CountIn(items, Incomplete, i) /\ more[i] = items[i]
      BY <1>3, <1>7, <3>1
    <3> QED BY <1>5, <1>6, <1>9, <3>1, <3>2
  <2> QED BY <2>1, <2>2
<1>10. t = View(more)
  BY <1>3, <1>6, <1>8, <1>9, OnlyView
<1> QED BY <1>1, <1>3, <1>5, <1>6, <1>10

LEMMA RemoveAtIs ==
    ASSUME NEW v \in Seq(Texts), NEW n \in Nat, Len(v) = n, NEW c \in 1..n
    PROVE  /\ RemoveAt(v, c) \in Seq(Texts) /\ Len(RemoveAt(v, c)) = n - 1
           /\ \A k \in 1..n - 1 : RemoveAt(v, c)[k] = IF k < c THEN v[k] ELSE v[k + 1]
<1>1. PICK p \in Seq(Texts) : /\ p = SubSeq(v, 1, c - 1) /\ Len(p) = c - 1
                              /\ \A k \in 1..c - 1 : p[k] = v[k]
  <2>1. SubSeq(v, 1, c - 1) \in Seq(Texts) /\ Len(SubSeq(v, 1, c - 1)) = c - 1
        /\ \A k \in 1..c - 1 : SubSeq(v, 1, c - 1)[k] = v[k]
    OBVIOUS
  <2> QED BY <2>1
<1>2. PICK q \in Seq(Texts) : /\ q = SubSeq(v, c + 1, n) /\ Len(q) = n - c
                              /\ \A k \in 1..n - c : q[k] = v[c + k]
  <2>1. SubSeq(v, c + 1, n) \in Seq(Texts) /\ Len(SubSeq(v, c + 1, n)) = n - c
        /\ \A k \in 1..n - c : SubSeq(v, c + 1, n)[k] = v[c + k]
    OBVIOUS
  <2> QED BY <2>1
<1>3. RemoveAt(v, c) = p \o q
  BY <1>1, <1>2 DEF RemoveAt
<1>4. p \o q \in Seq(Texts) /\ Len(p \o q) = n - 1
  BY <1>1, <1>2
<1>5. ASSUME NEW k \in 1..n - 1 PROVE (p \o q)[k] = IF k < c THEN v[k] ELSE v[k + 1]
  <2>1. CASE k < c
    BY <1>1, <1>2, <2>1
  <2>2. CASE ~(k < c)
    <3>1. (p \o q)[k] = q[k - (c - 1)] /\ k - (c - 1) \in 1..n - c /\ c + (k - (c - 1)) = k + 1
      BY <1>1, <1>2, <2>2
    <3> QED BY <1>2, <2>2, <3>1
  <2> QED BY <2>1, <2>2
<1> QED BY <1>3, <1>4, <1>5

\* The i-th is completed: its text leaves the view.
LEMMA ViewOfCompleted ==
    ASSUME NEW items \in Seq(Items), NEW i \in 1..Len(items), items[i].done = "no"
    PROVE  /\ [items EXCEPT ![i].done = "grace"] \in Seq(Items)
           /\ View([items EXCEPT ![i].done = "grace"]) = RemoveAt(View(items), CountIn(items, Incomplete, i))
<1>1. PICK l \in Nat : l = Len(items)
  OBVIOUS
<1>2. items[i] \in Incomplete
  BY DEF Incomplete
<1>3. PICK less \in Seq(Items) :
         /\ less = [items EXCEPT ![i].done = "grace"] /\ Len(less) = l /\ less[i] \notin Incomplete
         /\ \A j \in 1..l : j # i => less[j] = items[j]
  <2>1. PICK item \in Items : item = [items[i] EXCEPT !.done = "grace"] /\ item.done = "grace"
    <3>1. items[i] \in Items
      OBVIOUS
    <3>2. [items[i] EXCEPT !.done = "grace"] \in Items /\ [items[i] EXCEPT !.done = "grace"].done = "grace"
      BY <3>1 DEF Items
    <3> QED BY <3>2
  <2>2. [items EXCEPT ![i].done = "grace"] = [items EXCEPT ![i] = item]
    BY <2>1
  <2>3. [items EXCEPT ![i] = item] \in Seq(Items) /\ Len([items EXCEPT ![i] = item]) = l
        /\ [items EXCEPT ![i] = item][i] = item
        /\ \A j \in 1..l : j # i => [items EXCEPT ![i] = item][j] = items[j]
    BY <1>1
  <2>4. item \notin Incomplete
    BY <2>1 DEF Incomplete
  <2> QED BY <2>2, <2>3, <2>4
<1>4. PICK n \in Nat, c \in Nat : n = CountIn(items, Incomplete, l) /\ c = CountIn(items, Incomplete, i)
  <2>1. ASSUME NEW k \in Nat PROVE CountIn(items, Incomplete, k) \in Nat
    BY CountStep
  <2>2. i \in Nat
    BY <1>1
  <2> QED BY <2>1, <2>2
<1>5. PICK v \in Seq(Texts) :
         /\ v = View(items) /\ Len(v) = n
         /\ \A j \in 1..l : items[j] \in Incomplete =>
               CountIn(items, Incomplete, j) \in 1..n /\ v[CountIn(items, Incomplete, j)] = items[j].text
  BY <1>1, <1>4, ViewIs
<1>6. c \in 1..n
  BY <1>1, <1>2, <1>4, <1>5
<1>7. PICK t \in Seq(Texts) : /\ t = RemoveAt(v, c) /\ Len(t) = n - 1
                              /\ \A k \in 1..n - 1 : t[k] = IF k < c THEN v[k] ELSE v[k + 1]
  <2>1. Len(v) = n
    BY <1>5
  <2>2. /\ RemoveAt(v, c) \in Seq(Texts) /\ Len(RemoveAt(v, c)) = n - 1
        /\ \A k \in 1..n - 1 : RemoveAt(v, c)[k] = IF k < c THEN v[k] ELSE v[k + 1]
    BY <1>6, <2>1, RemoveAtIs
  <2> QED BY <2>2
<1>8. ASSUME NEW j \in Nat, j < i PROVE CountIn(less, Incomplete, j) = CountIn(items, Incomplete, j)
  <2>1. \A k \in 1..j : less[k] \in Incomplete <=> items[k] \in Incomplete
    BY <1>1, <1>3, <1>8
  <2> QED BY <2>1, CountSame
<1>9. ASSUME NEW j \in Nat, i <= j, j <= l
      PROVE  CountIn(less, Incomplete, j) = CountIn(items, Incomplete, j) - 1
  <2> DEFINE C(s) == {k \in 1..j : s[k] \in Incomplete}
  <2>1. C(less) = C(items) \ {i} /\ i \in C(items)
    <3>1. i \in 1..j /\ \A k \in 1..j : k \in 1..l
      BY <1>1, <1>9
    <3>2. \A k \in 1..j : less[k] \in Incomplete <=> (items[k] \in Incomplete /\ k # i)
      BY <1>3, <3>1
    <3> QED BY <1>2, <3>1, <3>2
  <2>2. IsFiniteSet(C(items))
    <3>1. j \in Int /\ IsFiniteSet(1..j)
      BY <1>9, FS_Interval
    <3> QED BY <3>1, FS_Subset
  <2>3. Cardinality(C(items) \ {i}) = Cardinality(C(items)) - 1
    BY <2>1, <2>2, FS_RemoveElement
  <2> QED BY <2>1, <2>3 DEF CountIn
<1>10. Len(t) = CountIn(less, Incomplete, Len(less))
  <2>1. CountIn(less, Incomplete, l) = n - 1
    BY <1>1, <1>4, <1>9
  <2> QED BY <1>3, <1>7, <2>1
<1>11. ASSUME NEW j \in 1..l, less[j] \in Incomplete PROVE t[CountIn(less, Incomplete, j)] = less[j].text
  <2>1. j # i /\ less[j] = items[j] /\ items[j] \in Incomplete
    BY <1>3, <1>11
  <2>2. PICK k \in 1..n : k = CountIn(items, Incomplete, j) /\ v[k] = items[j].text
    BY <1>5, <2>1
  <2>3. CASE j < i
    <3>1. k < c
      <4>1. i \in Nat /\ j \in Nat
        BY <1>1
      <4>2. CountIn(items, Incomplete, j) < CountIn(items, Incomplete, i)
        BY <1>2, <2>3, <4>1, CountPasses
      <4> QED BY <1>4, <2>2, <4>2
    <3>2. k \in 1..n - 1 /\ CountIn(less, Incomplete, j) = k
      BY <1>6, <1>8, <2>2, <2>3, <3>1
    <3> QED BY <1>7, <2>1, <2>2, <3>1, <3>2
  <2>4. CASE i < j
    <3>1. c < k
      <4>1. i \in Nat /\ j \in Nat
        BY <1>1
      <4>2. CountIn(items, Incomplete, i) < CountIn(items, Incomplete, j)
        BY <2>1, <2>4, <4>1, CountPasses
      <4> QED BY <1>4, <2>2, <4>2
    <3>2. CountIn(less, Incomplete, j) = k - 1
      <4>1. j \in Nat /\ i <= j /\ j <= l
        BY <1>1, <2>4
      <4>2. CountIn(less, Incomplete, j) = CountIn(items, Incomplete, j) - 1
        BY <1>9, <4>1
      <4> QED BY <2>2, <4>2
    <3>3. k - 1 \in 1..n - 1 /\ ~(k - 1 < c) /\ (k - 1) + 1 = k
      BY <1>6, <2>2, <3>1
    <3> QED BY <1>7, <2>1, <2>2, <3>2, <3>3
  <2> QED BY <1>1, <2>1, <2>3, <2>4
<1>12. t = View(less)
  BY <1>3, <1>10, <1>11, OnlyView
<1> QED BY <1>3, <1>4, <1>5, <1>7, <1>12

\* The grace of the i-th passes: its text had left the view before.
LEMMA ViewOfExpired ==
    ASSUME NEW items \in Seq(Items), NEW i \in 1..Len(items), items[i].done = "grace"
    PROVE  /\ [items EXCEPT ![i].done = "over"] \in Seq(Items)
           /\ Len([items EXCEPT ![i].done = "over"]) = Len(items)
           /\ View([items EXCEPT ![i].done = "over"]) = View(items)
<1>1. PICK l \in Nat : l = Len(items)
  OBVIOUS
<1>2. items[i] \notin Incomplete
  BY DEF Incomplete
<1>3. PICK less \in Seq(Items) :
         /\ less = [items EXCEPT ![i].done = "over"] /\ Len(less) = l /\ less[i] \notin Incomplete
         /\ \A j \in 1..l : j # i => less[j] = items[j]
  <2>1. PICK item \in Items : item = [items[i] EXCEPT !.done = "over"] /\ item.done = "over"
    <3>1. items[i] \in Items
      OBVIOUS
    <3>2. [items[i] EXCEPT !.done = "over"] \in Items /\ [items[i] EXCEPT !.done = "over"].done = "over"
      BY <3>1 DEF Items
    <3> QED BY <3>2
  <2>2. [items EXCEPT ![i].done = "over"] = [items EXCEPT ![i] = item]
    BY <2>1
  <2>3. [items EXCEPT ![i] = item] \in Seq(Items) /\ Len([items EXCEPT ![i] = item]) = l
        /\ [items EXCEPT ![i] = item][i] = item
        /\ \A j \in 1..l : j # i => [items EXCEPT ![i] = item][j] = items[j]
    BY <1>1
  <2>4. item \notin Incomplete
    BY <2>1 DEF Incomplete
  <2> QED BY <2>2, <2>3, <2>4
<1>4. ASSUME NEW j \in 0..l PROVE CountIn(less, Incomplete, j) = CountIn(items, Incomplete, j)
  <2>1. \A k \in 1..j : less[k] \in Incomplete <=> items[k] \in Incomplete
    BY <1>2, <1>3
  <2> QED BY <2>1, CountSame
<1>5. PICK v \in Seq(Texts) :
         /\ v = View(items) /\ Len(v) = CountIn(items, Incomplete, l)
         /\ \A j \in 1..l : items[j] \in Incomplete => v[CountIn(items, Incomplete, j)] = items[j].text
  BY <1>1, ViewIs
<1>6. Len(v) = CountIn(less, Incomplete, Len(less))
  <2>1. l \in 0..l
    OBVIOUS
  <2> QED BY <1>3, <1>4, <1>5, <2>1
<1>7. ASSUME NEW j \in 1..l, less[j] \in Incomplete PROVE v[CountIn(less, Incomplete, j)] = less[j].text
  <2>1. j # i /\ less[j] = items[j] /\ j \in 0..l
    <3>1. j # i
      BY <1>3, <1>7
    <3>2. less[j] = items[j]
      BY <1>3, <3>1
    <3> QED BY <3>1, <3>2
  <2> QED BY <1>4, <1>5, <1>7, <2>1
<1>8. v = View(less)
  BY <1>3, <1>6, <1>7, OnlyView
<1> QED BY <1>1, <1>3, <1>5, <1>8

LEMMA IncompleteStep ==
    \A items \in Seq(Items), i \in Nat :
       /\ CountIn(items, Incomplete, i) \in Nat
       /\ CountIn(items, Incomplete, i + 1)
           = IF items[i + 1] \in Incomplete THEN CountIn(items, Incomplete, i) + 1 ELSE CountIn(items, Incomplete, i)
  BY CountStep

\* Those whose grace is over were not in the view.
LEMMA ViewOfPurged ==
    ASSUME NEW items \in Seq(Items)
    PROVE  /\ PurgeCompleted(items) \in Seq(Items) /\ Len(PurgeCompleted(items)) <= Len(items)
           /\ View(PurgeCompleted(items)) = View(items)
<1>1. PICK l \in Nat, m \in Nat : l = Len(items) /\ m = CountIn(items, Unexpired, l)
  BY CountStep
<1>2. PICK less \in Seq(Items) :
         /\ less = PurgeCompleted(items) /\ Len(less) = m
         /\ \A k \in 1..m : \E i \in 1..l : /\ items[i] \in Unexpired
                                           /\ CountIn(items, Unexpired, i) = k /\ less[k] = items[i]
         /\ \A i \in 1..l : items[i] \in Unexpired => less[CountIn(items, Unexpired, i)] = items[i]
  <2>1. /\ Among(items, Unexpired) \in Seq(Items) /\ Len(Among(items, Unexpired)) = m
        /\ \A k \in 1..m : \E i \in 1..l :
              /\ items[i] \in Unexpired /\ CountIn(items, Unexpired, i) = k
              /\ Among(items, Unexpired)[k] = items[i]
        /\ \A i \in 1..l : items[i] \in Unexpired =>
              Among(items, Unexpired)[CountIn(items, Unexpired, i)] = items[i]
    BY <1>1, AmongIs
  <2> QED BY <2>1 DEF PurgeCompleted
<1>3. m <= l
  BY <1>1, CountGrows
<1>4. Incomplete \subseteq Unexpired
  BY DEF Incomplete, Unexpired
<1> DEFINE Agrees(i) == CountIn(less, Incomplete, CountIn(items, Unexpired, i)) = CountIn(items, Incomplete, i)
<1>5. ASSUME NEW h \in Nat, h + 1 <= l, Agrees(h) PROVE Agrees(h + 1)
  <2>1. PICK c \in Nat : c = CountIn(items, Unexpired, h)
    BY CountStep
  <2>2. CountIn(less, Incomplete, c) = CountIn(items, Incomplete, h) /\ h + 1 \in 1..l
    BY <1>5, <2>1
  <2> HIDE DEF Agrees
  <2>5. /\ CountIn(items, Incomplete, h) \in Nat
        /\ CountIn(items, Incomplete, h + 1)
            = IF items[h + 1] \in Incomplete THEN CountIn(items, Incomplete, h) + 1 ELSE CountIn(items, Incomplete, h)
    BY IncompleteStep
  <2>6. CountIn(less, Incomplete, c + 1)
            = IF less[c + 1] \in Incomplete THEN CountIn(less, Incomplete, c) + 1 ELSE CountIn(less, Incomplete, c)
    BY IncompleteStep
  <2> USE DEF Agrees
  <2>3. CASE items[h + 1] \in Unexpired
    <3>1. CountIn(items, Unexpired, h + 1) = c + 1
      BY <2>1, <2>3, CountStep
    <3>2. less[c + 1] = items[h + 1]
      BY <1>2, <2>2, <2>3, <3>1
    <3>3. CountIn(less, Incomplete, c + 1) = CountIn(items, Incomplete, h + 1)
      BY <2>2, <2>5, <2>6, <3>2
    <3> QED BY <3>1, <3>3
  <2>4. CASE items[h + 1] \notin Unexpired
    <3>1. CountIn(items, Unexpired, h + 1) = c /\ items[h + 1] \notin Incomplete
      BY <1>4, <2>1, <2>4, CountStep
    <3>2. CountIn(items, Incomplete, h + 1) = CountIn(items, Incomplete, h)
      BY <2>5, <3>1
    <3> QED BY <2>2, <3>1, <3>2
  <2> QED BY <2>3, <2>4
<1>6. \A i \in 0..l : Agrees(i)
  <2> DEFINE T == {i \in Nat : i <= l /\ ~Agrees(i)}
  <2>1. SUFFICES ASSUME T # {} PROVE FALSE
    OBVIOUS
  <2>2. PICK i \in T : \A j \in T : i <= j
    BY <2>1, LeastNumber
  <2>3. i \in Nat /\ i <= l /\ ~Agrees(i)
    BY <2>2
  <2>4. Agrees(0)
    BY CountNone
  <2> HIDE DEF Agrees
  <2>5. i # 0
    BY <2>3, <2>4
  <2>6. PICK h \in Nat : i = h + 1
    <3>1. i - 1 \in Nat /\ i = (i - 1) + 1
      BY <2>3, <2>5
    <3> QED BY <3>1
  <2>7. h \notin T
    BY <2>2, <2>6
  <2>8. Agrees(h)
    BY <2>3, <2>6, <2>7
  <2> QED BY <1>5, <2>3, <2>6, <2>8
<1>7. PICK v \in Seq(Texts) :
         /\ v = View(items) /\ Len(v) = CountIn(items, Incomplete, l)
         /\ \A j \in 1..l : items[j] \in Incomplete => v[CountIn(items, Incomplete, j)] = items[j].text
  BY <1>1, ViewIs
<1>8. Len(v) = CountIn(less, Incomplete, Len(less))
  <2>1. l \in 0..l
    OBVIOUS
  <2> QED BY <1>1, <1>2, <1>6, <1>7, <2>1
<1>9. ASSUME NEW k \in 1..m, less[k] \in Incomplete PROVE v[CountIn(less, Incomplete, k)] = less[k].text
  <2>1. PICK i \in 1..l : CountIn(items, Unexpired, i) = k /\ less[k] = items[i]
    BY <1>2
  <2>2. CountIn(less, Incomplete, k) = CountIn(items, Incomplete, i)
    <3>1. i \in 0..l
      BY <2>1
    <3> QED BY <1>6, <2>1, <3>1
  <2> QED BY <1>7, <1>9, <2>1, <2>2
<1>10. v = View(less)
  BY <1>2, <1>8, <1>9, OnlyView
<1> QED BY <1>1, <1>2, <1>3, <1>7, <1>10

\* What was stored is read back.
LEMMA ViewOfStored ==
    ASSUME NEW texts \in Seq(Texts), Len(texts) <= TodoLimit
    PROVE  /\ FromPersisted(texts) \in Seq(Items) /\ Len(FromPersisted(texts)) = Len(texts)
           /\ View(FromPersisted(texts)) = texts
<1> USE HeaderAssumption
<1>1. PICK l \in Nat : l = Len(texts)
  OBVIOUS
<1>2. FromPersisted(texts) = [i \in 1..l |-> [text |-> texts[i], done |-> "no"]]
  BY <1>1 DEF FromPersisted
<1>3. ASSUME NEW i \in 1..l
      PROVE  [text |-> texts[i], done |-> "no"] \in Items /\ [text |-> texts[i], done |-> "no"] \in Incomplete
  <2>1. [text |-> texts[i], done |-> "no"] \in Items
    <3>1. texts[i] \in Texts
      BY <1>1
    <3> QED BY <3>1 DEF Items
  <2> QED BY <2>1 DEF Incomplete
<1>4. PICK items \in Seq(Items) :
         /\ items = FromPersisted(texts) /\ Len(items) = l
         /\ \A i \in 1..l : items[i] \in Incomplete /\ items[i].text = texts[i]
  BY <1>2, <1>3
<1>5. ASSUME NEW i \in 0..l PROVE CountIn(items, Incomplete, i) = i
  <2>1. {j \in 1..i : items[j] \in Incomplete} = 1..i
    BY <1>4
  <2>2. i \in Int /\ Cardinality(1..i) = i
    BY FS_Interval
  <2> QED BY <2>1, <2>2 DEF CountIn
<1>6. Len(texts) = CountIn(items, Incomplete, Len(items))
  BY <1>1, <1>4, <1>5
<1>7. \A i \in 1..Len(items) : items[i] \in Incomplete => texts[CountIn(items, Incomplete, i)] = items[i].text
  <2>1. \A i \in 1..l : i \in 0..l
    OBVIOUS
  <2> QED BY <1>4, <1>5, <2>1
<1>8. texts = View(items)
  BY <1>6, <1>7, OnlyView
<1> QED BY <1>1, <1>4, <1>8

\* No list is longer than the limit, and the stored one neither.
ListInv ==
    /\ up \in BOOLEAN
    /\ todos \in Seq(Items) /\ Len(todos) <= TodoLimit
    /\ storage.todos \in Seq(Texts) /\ Len(storage.todos) <= TodoLimit
    /\ (IF up THEN View(todos) ELSE storage.todos) = wanted

LEMMA ListStep ==
    ASSUME ListInv, WindowStep \/ TodoStep \/ TimerStep
    PROVE  ListInv'
<1> USE HeaderAssumption
<1>1. PICK l \in Nat : l = Len(todos) /\ l <= TodoLimit
  BY DEF ListInv
<1>2. View(todos) \in Seq(Texts) /\ Len(View(todos)) \in Nat /\ Len(View(todos)) <= TodoLimit
  <2>1. View(todos) \in Seq(Texts) /\ Len(View(todos)) = CountIn(todos, Incomplete, l)
    BY <1>1, ViewIs DEF ListInv
  <2>2. CountIn(todos, Incomplete, l) <= l /\ CountIn(todos, Incomplete, l) \in Nat
    BY <1>1, CountGrows
  <2> QED BY <1>1, <2>1, <2>2
<1>3. CASE Open
  <2>1. up' /\ todos' = FromPersisted(storage.todos) /\ storage' = storage /\ wanted' = wanted /\ ~up
    BY <1>3 DEF Open
  <2>2. /\ FromPersisted(storage.todos) \in Seq(Items)
        /\ Len(FromPersisted(storage.todos)) = Len(storage.todos)
        /\ View(FromPersisted(storage.todos)) = storage.todos
    BY ViewOfStored DEF ListInv
  <2>3. up' \in BOOLEAN
    BY <1>3 DEF Open
  <2> QED BY <2>1, <2>2, <2>3 DEF ListInv
<1>4. CASE AutoSave
  <2>1. up /\ storage'.todos = View(todos) /\ up' = up /\ todos' = todos /\ wanted' = wanted
    BY <1>4 DEF AutoSave, Settings, PersistedItems, View, listVars
  <2> QED BY <1>2, <2>1 DEF ListInv
<1>5. CASE Exit
  <2>1. up /\ ~up' /\ todos' = <<>> /\ storage'.todos = View(todos) /\ wanted' = wanted /\ up' \in BOOLEAN
    BY <1>5 DEF Exit, Gone, Settings, PersistedItems, View
  <2> QED BY <1>2, <2>1 DEF ListInv
<1>6. CASE Kill
  <2>1. ~up' /\ todos' = <<>> /\ storage' = storage /\ wanted' = storage.todos /\ up' \in BOOLEAN
    BY <1>6 DEF Kill, Gone
  <2> QED BY <2>1 DEF ListInv
<1>7. CASE AddDraft
  <2>1. PICK text \in Texts \cup {BlankText} : Added(text) /\ wanted' = Append(wanted, text)
    BY <1>7 DEF AddDraft
  <2>2. /\ up /\ up' = up /\ storage' = storage /\ text \in Texts /\ l < TodoLimit
        /\ todos' = Append(todos, [text |-> text, done |-> "no"])
    BY <1>1, <1>7, <2>1 DEF AddDraft, Added
  <2>3. todos' \in Seq(Items) /\ View(todos') = Append(View(todos), text)
    BY <2>2, ViewOfAdded DEF ListInv
  <2>4. Len(todos') = l + 1
    BY <1>1, <2>2 DEF ListInv
  <2>5. wanted' = View(todos') /\ Len(todos') <= TodoLimit
    BY <1>1, <2>1, <2>2, <2>3, <2>4 DEF ListInv
  <2> QED BY <2>2, <2>3, <2>5 DEF ListInv
<1>8. CASE Complete
  <2>1. PICK i \in DOMAIN todos : /\ todos[i].done = "no" /\ todos' = [todos EXCEPT ![i].done = "grace"]
                                  /\ wanted' = RemoveAt(wanted, CountIn(todos, Incomplete, i))
    BY <1>8 DEF Complete
  <2>2. up /\ up' = up /\ storage' = storage
    BY <1>8 DEF Complete
  <2>3. todos' \in Seq(Items) /\ View(todos') = RemoveAt(View(todos), CountIn(todos, Incomplete, i))
    <3>1. i \in 1..Len(todos)
      BY DEF ListInv
    <3> QED BY <2>1, <3>1, ViewOfCompleted DEF ListInv
  <2>4. Len(todos') = Len(todos)
    BY <2>1 DEF ListInv
  <2> QED BY <2>1, <2>2, <2>3, <2>4 DEF ListInv
<1>9. CASE GracePasses
  <2>1. PICK i \in DOMAIN todos : todos[i].done = "grace" /\ todos' = [todos EXCEPT ![i].done = "over"]
    BY <1>9 DEF GracePasses
  <2>2. up /\ up' = up /\ storage' = storage /\ wanted' = wanted
    BY <1>9 DEF GracePasses
  <2>3. todos' \in Seq(Items) /\ View(todos') = View(todos) /\ Len(todos') = Len(todos)
    <3>1. i \in 1..Len(todos)
      BY DEF ListInv
    <3> QED BY <2>1, <3>1, ViewOfExpired DEF ListInv
  <2> QED BY <2>2, <2>3 DEF ListInv
<1>10. CASE DrawTodos
  <2>1. up /\ up' = up /\ storage' = storage /\ wanted' = wanted /\ todos' = PurgeCompleted(todos)
    BY <1>10 DEF DrawTodos
  <2>2. todos' \in Seq(Items) /\ View(todos') = View(todos) /\ Len(todos') <= l
    BY <1>1, <2>1, ViewOfPurged DEF ListInv
  <2>3. Len(todos') <= TodoLimit
    BY <1>1, <2>2
  <2> QED BY <2>1, <2>2, <2>3 DEF ListInv
<1>11. CASE TimerStep
  <2>1. UNCHANGED <<up, storage, todos, wanted>>
    BY <1>11 DEF TimerStep, Tick, ToggleTimer, ResetTimer, listVars
  <2> QED BY <2>1 DEF ListInv
<1> QED BY <1>3, <1>4, <1>5, <1>6, <1>7, <1>8, <1>9, <1>10, <1>11 DEF WindowStep, TodoStep

LEMMA ListStarts == WindowInit => ListInv
<1> USE HeaderAssumption
<1> SUFFICES ASSUME InitTools PROVE ListInv
  BY DEF WindowInit
<1>1. up = FALSE /\ todos = <<>> /\ storage.todos = <<>> /\ wanted = <<>>
  BY DEF InitTools
<1>2. todos \in Seq(Items) /\ storage.todos \in Seq(Texts) /\ Len(todos) = 0 /\ Len(storage.todos) = 0
  BY <1>1
<1>3. TodoLimit \in Nat /\ 0 <= TodoLimit
  OBVIOUS
<1>4. up \in BOOLEAN /\ (IF up THEN View(todos) ELSE storage.todos) = wanted
  BY <1>1
<1> QED BY <1>2, <1>3, <1>4 DEF ListInv

\* PersistedTodoItem and the test todo_state_persists_only_incomplete_items:
\* whatever is completed, purged, saved and reopened in between, and wherever a
\* window is killed, it shows what the user added and has not completed, in
\* order.
THEOREM TodosStayKept == WindowSpec => []TodosKept
<1> USE HeaderAssumption
<1>1. WindowInit => ListInv
  BY ListStarts
<1>2. ListInv /\ [WindowNext]_windowVars => ListInv'
  <2> SUFFICES ASSUME ListInv, [WindowStep \/ TodoStep \/ TimerStep]_toolVars PROVE ListInv'
    BY StepsOfParts
  <2>1. CASE WindowStep \/ TodoStep \/ TimerStep
    BY <2>1, ListStep
  <2>2. CASE UNCHANGED toolVars
    BY <2>2 DEF toolVars, listVars, ListInv
  <2> QED BY <2>1, <2>2
<1>3. ListInv => TodosKept
  BY DEF ListInv, TodosKept, View
<1> QED BY <1>1, <1>2, <1>3, PTL DEF WindowSpec

----
(* The focus timer *)

TimerTypes ==
    /\ clock \in 0..MaxClock /\ opens \in 0..MaxOpens /\ ran \in 0..MaxClock /\ cuts \in 0..MaxClock
    /\ timer \in [secs : Nat, best : Nat, since : {NotRunning} \cup 0..clock]
    /\ storage \in [todos : Seq(Texts), elapsed : Nat, best : Nat]

\* Half seconds since the timer was started.
Running == IF timer.since = NotRunning THEN 0 ELSE clock - timer.since

\* The timer ran for what it has counted and what it is counting, but for the
\* half seconds it lost; no time is counted that has not passed.
TimerRuns ==
    /\ ran <= clock /\ 2 * storage.elapsed <= clock
    /\ up => 2 * timer.secs + Running <= ran /\ ran <= 2 * timer.secs + cuts + Running
    /\ ~up => /\ timer = Fresh
              /\ 2 * storage.elapsed <= ran /\ ran <= 2 * storage.elapsed + cuts

FocusInv == ListInv /\ TimerTypes /\ TimerRuns

LEMMA ElapsedIs ==
    ASSUME TimerTypes
    PROVE  /\ Running \in Nat /\ ElapsedSecs(timer) \in Nat /\ BestSessionSecs(timer) \in Nat
           /\ 2 * ElapsedSecs(timer) <= 2 * timer.secs + Running
           /\ 2 * timer.secs + Running <= 2 * ElapsedSecs(timer) + 1
           /\ timer.since = NotRunning => Running = 0 /\ ElapsedSecs(timer) = timer.secs
           /\ timer.since # NotRunning => ElapsedSecs(timer) = timer.secs + (Running \div 2)
           /\ ElapsedSecs(timer) <= BestSessionSecs(timer)
<1> USE HeaderAssumption
<1>1. PICK n \in Nat, b \in Nat, c \in Nat : n = timer.secs /\ b = timer.best /\ c = clock
  BY DEF TimerTypes
<1>2. PICK d \in Nat : d = Running /\ (timer.since = NotRunning => d = 0)
  <2>1. timer.since = NotRunning \/ timer.since \in 0..c
    BY <1>1 DEF TimerTypes
  <2> QED BY <1>1, <2>1 DEF Running
<1>3. d \div 2 \in Nat /\ 2 * (d \div 2) <= d /\ d <= 2 * (d \div 2) + 1
  OBVIOUS
<1>4. /\ timer.since = NotRunning => ElapsedSecs(timer) = n
      /\ timer.since # NotRunning => ElapsedSecs(timer) = n + (d \div 2)
  BY <1>1, <1>2 DEF ElapsedSecs, Running
<1>5. PICK e \in Nat : e = ElapsedSecs(timer) /\ 2 * e <= 2 * n + d /\ 2 * n + d <= 2 * e + 1
  BY <1>2, <1>3, <1>4
<1>6. BestSessionSecs(timer) = IF b > e THEN b ELSE e
  BY <1>1, <1>5 DEF BestSessionSecs, Higher
<1> QED BY <1>1, <1>2, <1>4, <1>5, <1>6

LEMMA FocusStep ==
    ASSUME FocusInv, WindowStep \/ TodoStep \/ TimerStep
    PROVE  /\ TimerTypes' /\ TimerRuns'
           /\ up /\ up' => BestSessionSecs(timer)' >= BestSessionSecs(timer)
<1> USE HeaderAssumption
<1>1. TimerTypes /\ TimerRuns /\ ListInv /\ ListInv'
  BY ListStep DEF FocusInv
<1>2. PICK n \in Nat, b \in Nat, c \in Nat, r \in Nat, k \in Nat, s \in Nat, m \in Nat :
         /\ n = timer.secs /\ b = timer.best /\ c = clock /\ r = ran /\ k = cuts
         /\ s = storage.elapsed /\ m = MaxClock /\ r <= c /\ c <= m /\ k <= m /\ 2 * s <= c
  <2>1. /\ timer.secs \in Nat /\ timer.best \in Nat /\ clock \in Nat /\ ran \in Nat /\ cuts \in Nat
        /\ storage.elapsed \in Nat /\ MaxClock \in Nat
        /\ ran <= clock /\ clock <= MaxClock /\ cuts <= MaxClock /\ 2 * storage.elapsed <= clock
    BY <1>1 DEF TimerTypes, TimerRuns
  <2> QED BY <2>1
<1>3. PICK d \in Nat, e \in Nat, best \in Nat :
         /\ d = Running /\ e = ElapsedSecs(timer) /\ best = BestSessionSecs(timer) /\ e <= best
         /\ 2 * e <= 2 * n + d /\ 2 * n + d <= 2 * e + 1
         /\ timer.since = NotRunning => d = 0 /\ e = n
  BY <1>1, <1>2, ElapsedIs
<1>4. /\ up => 2 * n + d <= r /\ r <= 2 * n + k + d
      /\ ~up => timer = Fresh /\ 2 * s <= r /\ r <= 2 * s + k
  BY <1>1, <1>2, <1>3 DEF TimerRuns
<1>5. CASE Open
  <2>1. /\ ~up /\ up' = TRUE /\ opens' \in 0..MaxOpens
        /\ timer' = [secs |-> storage.elapsed, best |-> storage.best, since |-> NotRunning]
        /\ UNCHANGED <<storage, clock, ran, cuts>>
    BY <1>1, <1>5 DEF Open, TimerTypes
  <2>2. TimerTypes' /\ Running' = 0 /\ timer'.secs = s
    BY <1>1, <1>2, <2>1 DEF TimerTypes, Running
  <2>3. TimerRuns'
    BY <1>2, <1>4, <2>1, <2>2 DEF TimerRuns
  <2> QED BY <2>1, <2>2, <2>3
<1>6. ASSUME storage' = Settings, up
      PROVE  /\ storage' \in [todos : Seq(Texts), elapsed : Nat, best : Nat]
             /\ storage'.elapsed = e
             /\ 2 * e <= r /\ r <= 2 * e + k + 1 /\ 2 * e <= c
             /\ timer.since = NotRunning => r <= 2 * e + k
  <2>1. storage' = [todos |-> View(todos), elapsed |-> e, best |-> best]
    BY <1>3, <1>6 DEF Settings, PersistedItems, View
  <2>2. View(todos) \in Seq(Texts)
    BY <1>1, ViewIs DEF ListInv
  <2>3. 2 * e <= r /\ r <= 2 * e + k + 1 /\ 2 * e <= c /\ (timer.since = NotRunning => r <= 2 * e + k)
    BY <1>2, <1>3, <1>4, <1>6
  <2> QED BY <2>1, <2>2, <2>3
<1>7. CASE AutoSave
  <2>1. up /\ storage' = Settings /\ UNCHANGED <<up, opens, timer, clock, ran, cuts>>
    BY <1>7 DEF AutoSave, timerVars
  <2>2. TimerTypes' /\ Running' = Running /\ BestSessionSecs(timer)' = BestSessionSecs(timer)
    BY <1>1, <1>6, <2>1 DEF TimerTypes, Running, BestSessionSecs, ElapsedSecs
  <2>3. TimerRuns'
    BY <1>1, <1>2, <1>6, <2>1, <2>2 DEF TimerRuns
  <2>4. BestSessionSecs(timer)' >= BestSessionSecs(timer)
    BY <1>3, <2>2
  <2> QED BY <2>2, <2>3, <2>4
<1>8. ASSUME CountCut PROVE cuts' \in 0..m /\ (cuts' = k + 1 \/ (cuts' = k /\ (timer.since = NotRunning \/ k = m)))
  BY <1>2, <1>8 DEF CountCut
<1>9. CASE Exit
  <2>1. up /\ up' = FALSE /\ timer' = Fresh /\ storage' = Settings /\ CountCut
        /\ UNCHANGED <<clock, opens, ran>>
    BY <1>9 DEF Exit, Gone
  <2>2. TimerTypes'
    BY <1>1, <1>2, <1>6, <1>8, <2>1 DEF TimerTypes, Fresh
  <2>3. TimerRuns'
    <3>1. PICK k2 \in Nat : /\ k2 = cuts'
                            /\ k2 = k + 1 \/ (k2 = k /\ (timer.since = NotRunning \/ k = m))
      BY <1>8, <2>1
    <3>2. 2 * e <= r /\ r <= 2 * e + k + 1 /\ 2 * e <= c /\ (timer.since = NotRunning => r <= 2 * e + k)
      BY <1>6, <2>1
    <3>3. r <= m
      BY <1>2
    <3>4. r <= 2 * e + k2
      <4>1. CASE k2 = k + 1
        BY <1>2, <3>2, <4>1
      <4>2. CASE k2 = k /\ timer.since = NotRunning
        BY <1>2, <3>2, <4>2
      <4>3. CASE k2 = k /\ k = m
        BY <1>2, <1>3, <3>3, <4>3
      <4> QED BY <3>1, <4>1, <4>2, <4>3
    <3>5. Running' = 0 /\ timer'.secs = 0 /\ storage'.elapsed = e
      BY <1>6, <2>1 DEF Running, Fresh
    <3> QED BY <1>2, <2>1, <3>1, <3>2, <3>4, <3>5 DEF TimerRuns
  <2> QED BY <2>1, <2>2, <2>3
<1>10. CASE Kill
  <2>1. up' = FALSE /\ timer' = Fresh /\ ran' = 2 * storage.elapsed /\ cuts' = 0
        /\ UNCHANGED <<storage, clock, opens>>
    BY <1>10 DEF Kill, Gone
  <2>2. ran' = 2 * s /\ 2 * s \in 0..m
    BY <1>2, <2>1
  <2>3. TimerTypes'
    BY <1>1, <1>2, <2>1, <2>2 DEF TimerTypes, Fresh
  <2>4. TimerRuns'
    BY <1>2, <2>1, <2>2 DEF TimerRuns
  <2> QED BY <2>1, <2>3, <2>4
<1>11. CASE TodoStep
  <2>1. UNCHANGED <<up, storage, opens, timer, clock, ran, cuts>>
    BY <1>11 DEF TodoStep, AddDraft, Complete, GracePasses, DrawTodos, timerVars
  <2>2. TimerTypes' /\ TimerRuns' /\ BestSessionSecs(timer)' = BestSessionSecs(timer)
    BY <1>1, <2>1 DEF TimerTypes, TimerRuns, Running, BestSessionSecs, ElapsedSecs
  <2>3. BestSessionSecs(timer)' >= BestSessionSecs(timer)
    BY <1>3, <2>2
  <2> QED BY <2>2, <2>3
<1>12. CASE Tick
  <2>1. /\ clock' = c + 1 /\ c < m /\ ran' = IF timer.since = NotRunning THEN r ELSE r + 1
        /\ UNCHANGED <<up, storage, opens, timer, cuts>>
    BY <1>2, <1>12 DEF Tick
  <2>2. TimerTypes'
    <3>1. timer' \in [secs : Nat, best : Nat, since : {NotRunning} \cup 0..clock']
      <4>1. 0..clock \subseteq 0..clock'
        BY <1>2, <2>1
      <4> QED BY <1>1, <2>1, <4>1 DEF TimerTypes
    <3>2. clock' \in 0..MaxClock /\ ran' \in 0..MaxClock
      BY <1>2, <2>1
    <3> QED BY <1>1, <2>1, <3>1, <3>2 DEF TimerTypes
  <2>3. Running' = (IF timer.since = NotRunning THEN 0 ELSE d + 1) /\ (timer.since = NotRunning => d = 0)
    <3>1. timer.since # NotRunning => timer.since \in 0..c /\ d = c - timer.since
      BY <1>1, <1>2, <1>3 DEF TimerTypes, Running
    <3> QED BY <1>2, <1>3, <2>1, <3>1 DEF Running
  <2>4. TimerRuns'
    <3>1. PICK r2 \in Nat, d2 \in Nat :
             /\ r2 = ran' /\ d2 = Running'
             /\ (r2 = r /\ d2 = d) \/ (r2 = r + 1 /\ d2 = d + 1 /\ timer.since # NotRunning)
      <4>1. CASE timer.since = NotRunning
        <5>1. ran' = r /\ Running' = 0 /\ d = 0
          BY <2>1, <2>3, <4>1
        <5> QED BY <5>1
      <4>2. CASE timer.since # NotRunning
        <5>1. ran' = r + 1 /\ Running' = d + 1
          BY <2>1, <2>3, <4>2
        <5>2. r + 1 \in Nat /\ d + 1 \in Nat
          OBVIOUS
        <5> QED BY <4>2, <5>1, <5>2
      <4> QED BY <4>1, <4>2
    <3>2. r2 <= c + 1 /\ 2 * s <= c + 1
      BY <1>2, <3>1
    <3>3. CASE up
      <4>1. 2 * n + d2 <= r2 /\ r2 <= 2 * n + k + d2
        BY <1>2, <1>3, <1>4, <3>1, <3>3
      <4> QED BY <1>2, <2>1, <3>1, <3>2, <3>3, <4>1 DEF TimerRuns
    <3>4. CASE ~up
      <4>1. timer = Fresh /\ 2 * s <= r /\ r <= 2 * s + k
        BY <1>4, <3>4
      <4>2. r2 = r
        BY <3>1, <4>1 DEF Fresh
      <4> QED BY <1>2, <2>1, <3>1, <3>2, <3>4, <4>1, <4>2 DEF TimerRuns
    <3> QED BY <3>3, <3>4
  <2>5. BestSessionSecs(timer)' >= BestSessionSecs(timer)
    <3>1. PICK e2 \in Nat : /\ e2 = ElapsedSecs(timer)' /\ e <= e2
      <4>1. CASE timer.since = NotRunning
        <5>1. ElapsedSecs(timer)' = n
          BY <1>2, <2>1, <4>1 DEF ElapsedSecs
        <5> QED BY <1>3, <4>1, <5>1
      <4>2. CASE timer.since # NotRunning
        <5>1. timer.since \in 0..c /\ d = c - timer.since /\ (c + 1) - timer.since = d + 1
          <6>1. timer.since \in 0..c /\ d = c - timer.since
            BY <1>1, <1>2, <1>3, <4>2 DEF TimerTypes, Running
          <6>2. PICK t \in Int : t = timer.since
            BY <6>1
          <6>3. (c + 1) - t = (c - t) + 1
            OBVIOUS
          <6> QED BY <6>1, <6>2, <6>3
        <5>2. ElapsedSecs(timer)' = n + ((d + 1) \div 2) /\ e = n + (d \div 2)
          BY <1>2, <1>3, <2>1, <4>2, <5>1 DEF ElapsedSecs
        <5>3. d \div 2 <= (d + 1) \div 2 /\ (d + 1) \div 2 \in Nat /\ d \div 2 \in Nat
          OBVIOUS
        <5> QED BY <1>2, <5>2, <5>3
      <4> QED BY <4>1, <4>2
    <3>2. BestSessionSecs(timer)' = (IF b > e2 THEN b ELSE e2) /\ best = (IF b > e THEN b ELSE e)
      BY <1>2, <1>3, <2>1, <3>1 DEF BestSessionSecs, Higher
    <3> QED BY <1>2, <1>3, <3>1, <3>2
  <2> QED BY <2>2, <2>4, <2>5
<1>13. CASE ToggleTimer
  <2>1. up /\ timer' = Toggled(timer) /\ CountCut /\ UNCHANGED <<up, storage, opens, clock, ran>>
    BY <1>13 DEF ToggleTimer
  <2>2. PICK k2 \in Nat : /\ k2 = cuts' /\ k2 \in 0..m
                          /\ k2 = k + 1 \/ (k2 = k /\ (timer.since = NotRunning \/ k = m))
    BY <1>2, <1>8, <2>1
  <2>3. 2 * n + d <= r /\ r <= 2 * n + k + d
    BY <1>4, <2>1
  <2>4. CASE timer.since = NotRunning
    <3>1. timer' = [secs |-> n, best |-> b, since |-> c]
      BY <1>1, <1>2, <2>1, <2>4 DEF Toggled, TimerTypes
    <3>2. TimerTypes'
      BY <1>1, <1>2, <2>1, <2>2, <3>1 DEF TimerTypes
    <3>3. c # NotRunning /\ c - c = 0
      BY DEF NotRunning
    <3>4. Running' = 0 /\ timer'.secs = n
      BY <1>2, <2>1, <3>1, <3>3 DEF Running
    <3>5. 2 * n <= r /\ r <= 2 * n + k2
      <4>1. d = 0 /\ (k2 = k + 1 \/ k2 = k)
        BY <1>3, <2>2, <2>4
      <4> QED BY <2>3, <4>1
    <3>6. TimerRuns'
      BY <1>2, <2>1, <2>2, <3>4, <3>5 DEF TimerRuns
    <3>7. ElapsedSecs(timer)' = n
      <4>1. 0 \div 2 = 0
        OBVIOUS
      <4> QED BY <1>2, <2>1, <3>1, <3>3, <4>1 DEF ElapsedSecs
    <3>8. BestSessionSecs(timer)' = best
      BY <1>2, <1>3, <2>4, <3>1, <3>7 DEF BestSessionSecs, Higher
    <3> QED BY <1>3, <3>2, <3>6, <3>8
  <2>5. CASE timer.since # NotRunning
    <3>1. timer' = [secs |-> e, best |-> best, since |-> NotRunning]
      BY <1>3, <2>1, <2>5 DEF Toggled
    <3>2. TimerTypes'
      BY <1>1, <1>2, <2>1, <2>2, <3>1 DEF TimerTypes
    <3>3. Running' = 0 /\ timer'.secs = e
      BY <3>1 DEF Running
    <3>4. r <= m /\ 2 * e <= r
      BY <1>2, <1>3, <2>3
    <3>5. r <= 2 * e + k2
      <4>1. CASE k2 = k + 1
        BY <1>3, <2>3, <4>1
      <4>2. CASE k2 = k /\ k = m
        BY <1>2, <1>3, <3>4, <4>2
      <4> QED BY <2>2, <2>5, <4>1, <4>2
    <3>6. TimerRuns'
      <4>1. 2 * e + 0 <= r /\ r <= 2 * e + k2 + 0
        BY <3>4, <3>5
      <4>2. /\ up' /\ ran' = r /\ clock' = c /\ storage'.elapsed = s /\ cuts' = k2 /\ Running' = 0
            /\ timer'.secs = e
        BY <1>2, <2>1, <2>2, <3>3
      <4>3. r <= c /\ 2 * s <= c
        BY <1>2
      <4> QED BY <4>1, <4>2, <4>3 DEF TimerRuns
    <3>7. ElapsedSecs(timer)' = e
      BY <1>3, <3>1 DEF ElapsedSecs
    <3>8. BestSessionSecs(timer)' = best
      BY <1>3, <3>1, <3>7 DEF BestSessionSecs, Higher
    <3> QED BY <1>3, <3>2, <3>6, <3>8
  <2> QED BY <2>4, <2>5
<1>14. CASE ResetTimer
  <2>1. /\ up /\ timer' = [secs |-> 0, best |-> best, since |-> NotRunning] /\ ran' = 0 /\ cuts' = 0
        /\ UNCHANGED <<up, storage, opens, clock>>
    BY <1>3, <1>14 DEF ResetTimer, Reset
  <2>2. TimerTypes' /\ Running' = 0
    BY <1>1, <1>2, <2>1 DEF TimerTypes, Running
  <2>3. TimerRuns'
    BY <1>2, <2>1, <2>2 DEF TimerRuns
  <2>4. BestSessionSecs(timer)' = best
    <3>1. ElapsedSecs(timer)' = 0
      BY <2>1 DEF ElapsedSecs
    <3> QED BY <2>1, <3>1 DEF BestSessionSecs, Higher
  <2> QED BY <1>3, <2>2, <2>3, <2>4
<1> QED BY <1>5, <1>7, <1>9, <1>10, <1>11, <1>12, <1>13, <1>14 DEF WindowStep, TimerStep

\* The tests of FocusTimerState, across pauses, saves and windows: the timer
\* shows the time it ran, half a second too little at most for every time it
\* was rounded and never too much; the best session never falls in a window.
THEOREM TimerIsFocused == WindowSpec => FocusKept
<1> USE HeaderAssumption
<1>1. WindowInit => FocusInv
  <2> SUFFICES ASSUME InitTools, ListInv PROVE FocusInv
    BY ListStarts DEF WindowInit
  <2>1. 0 \in 0..MaxClock /\ 0 \in 0..MaxOpens
    OBVIOUS
  <2>2. timer = Fresh /\ storage = [todos |-> <<>>, elapsed |-> 0, best |-> 0] /\ up = FALSE
        /\ clock = 0 /\ opens = 0 /\ ran = 0 /\ cuts = 0
    BY DEF InitTools
  <2>3. TimerTypes
    BY <2>1, <2>2 DEF TimerTypes, Fresh
  <2>4. TimerRuns
    BY <2>2 DEF TimerRuns
  <2> QED BY <2>3, <2>4 DEF FocusInv
<1>2. FocusInv /\ [WindowNext]_windowVars => FocusInv'
  <2> SUFFICES ASSUME FocusInv, [WindowStep \/ TodoStep \/ TimerStep]_toolVars PROVE FocusInv'
    BY StepsOfParts
  <2>1. CASE WindowStep \/ TodoStep \/ TimerStep
    <3>1. ListInv'
      BY <2>1, ListStep DEF FocusInv
    <3> QED BY <2>1, <3>1, FocusStep DEF FocusInv
  <2>2. CASE UNCHANGED toolVars
    <3>1. UNCHANGED <<up, todos, timer, storage, clock, opens, wanted, ran, cuts>>
      BY <2>2 DEF toolVars, listVars, timerVars
    <3> QED BY <3>1 DEF FocusInv, ListInv, TimerTypes, TimerRuns, Running
  <2> QED BY <2>1, <2>2
<1>3. FocusInv /\ [WindowNext]_windowVars
        => [up /\ up' => BestSessionSecs(timer)' >= BestSessionSecs(timer)]_toolVars
  <2> SUFFICES ASSUME FocusInv, [WindowStep \/ TodoStep \/ TimerStep]_toolVars
               PROVE  [up /\ up' => BestSessionSecs(timer)' >= BestSessionSecs(timer)]_toolVars
    BY StepsOfParts
  <2> QED BY FocusStep
<1>4. FocusInv => TypeTools
  <2> SUFFICES ASSUME FocusInv PROVE TypeTools
    OBVIOUS
  <2>1. View(todos) \in Seq(Texts)
    BY ViewIs DEF FocusInv, ListInv
  <2>2. wanted \in Seq(Texts)
    BY <2>1 DEF FocusInv, ListInv
  <2> QED BY <2>2 DEF FocusInv, ListInv, TimerTypes, TypeTools
<1>5. FocusInv => (up => /\ 2 * ElapsedSecs(timer) <= ran
                         /\ ran <= 2 * ElapsedSecs(timer) + cuts + 1)
  <2> SUFFICES ASSUME FocusInv, up
               PROVE  2 * ElapsedSecs(timer) <= ran /\ ran <= 2 * ElapsedSecs(timer) + cuts + 1
    OBVIOUS
  <2>1. PICK n \in Nat, d \in Nat, e \in Nat, r \in Nat, k \in Nat :
           /\ n = timer.secs /\ d = Running /\ e = ElapsedSecs(timer) /\ r = ran /\ k = cuts
           /\ 2 * e <= 2 * n + d /\ 2 * n + d <= 2 * e + 1
    <3>1. timer.secs \in Nat /\ ran \in Nat /\ cuts \in Nat
      BY DEF FocusInv, TimerTypes
    <3>2. /\ Running \in Nat /\ ElapsedSecs(timer) \in Nat
          /\ 2 * ElapsedSecs(timer) <= 2 * timer.secs + Running
          /\ 2 * timer.secs + Running <= 2 * ElapsedSecs(timer) + 1
      BY ElapsedIs DEF FocusInv
    <3> QED BY <3>1, <3>2
  <2>2. 2 * n + d <= r /\ r <= 2 * n + k + d
    BY <2>1 DEF FocusInv, TimerRuns
  <2> QED BY <2>1, <2>2
<1> QED BY <1>1, <1>2, <1>3, <1>4, <1>5, PTL DEF WindowSpec, FocusKept

----
(* Places of bytes *)

\* The first and the last place.
LEMMA MinIs ==
    ASSUME NEW T, T \subseteq Nat, T # {}
    PROVE  Min(T) \in T /\ \A k \in T : Min(T) <= k
<1>1. \E m \in T : \A k \in T : m <= k
  BY LeastNumber
<1> QED BY <1>1 DEF Min

LEMMA MaxIs ==
    ASSUME NEW n \in Nat, NEW T, T \subseteq 0..n, T # {}
    PROVE  Max(T) \in T /\ Max(T) \in Nat /\ \A k \in T : k <= Max(T)
<1> DEFINE U == {n - k : k \in T}
<1>1. U \subseteq Nat /\ U # {}
  <2>1. ASSUME NEW k \in T PROVE n - k \in Nat
    BY <2>1
  <2> QED BY <2>1
<1>2. PICK u \in U : \A v \in U : u <= v
  BY <1>1, LeastNumber
<1>3. PICK m \in T : u = n - m
  BY <1>2
<1>4. ASSUME NEW k \in T PROVE m >= k
  <2>1. n - k \in U
    OBVIOUS
  <2>2. n - m <= n - k
    BY <1>2, <1>3, <2>1
  <2> QED BY <2>2
<1>5. \E x \in T : \A k \in T : x >= k
  BY <1>4
<1>6. Max(T) \in T /\ \A k \in T : Max(T) >= k
  BY <1>5 DEF Max
<1>7. T \subseteq Nat
  OBVIOUS
<1> QED BY <1>6, <1>7

\* A place, byte by byte.
Stands(s, needle, i) ==
    /\ i \in Nat \ {0} /\ i + Len(needle) - 1 <= Len(s)
    /\ \A k \in 1..Len(needle) : s[i + k - 1] = needle[k]

LEMMA PlaceIs ==
    ASSUME NEW S, NEW s \in Seq(S), NEW needle \in Seq(S), NEW i
    PROVE  i \in Places(s, needle) <=> Stands(s, needle, i)
<1>1. i \in 1..(Len(s) - Len(needle) + 1) <=> i \in Nat \ {0} /\ i + Len(needle) - 1 <= Len(s)
  OBVIOUS
<1>2. ASSUME i \in Nat \ {0}, i + Len(needle) - 1 <= Len(s)
      PROVE  SubSeq(s, i, i + Len(needle) - 1) = needle
                <=> \A k \in 1..Len(needle) : s[i + k - 1] = needle[k]
  <2> DEFINE piece == SubSeq(s, i, i + Len(needle) - 1)
  <2>1. /\ piece \in Seq(S) /\ Len(piece) = Len(needle)
        /\ \A k \in 1..Len(needle) : piece[k] = s[i + k - 1]
    BY <1>2
  <2> HIDE DEF piece
  <2>2. piece = needle <=> \A k \in 1..Len(needle) : piece[k] = needle[k]
    BY <2>1, SeqEqual
  <2> QED BY <2>1, <2>2 DEF piece
<1> QED BY <1>1, <1>2 DEF Places, Stands

LEMMA PlacesWithin ==
    ASSUME NEW S, NEW s \in Seq(S), NEW needle \in Seq(S)
    PROVE  Places(s, needle) \subseteq Nat \ {0} /\ Places(s, needle) \subseteq 0..Len(s) + 1
<1>1. ASSUME NEW i \in Places(s, needle) PROVE i \in Nat \ {0} /\ i \in 0..Len(s) + 1
  <2>1. i \in Nat \ {0} /\ i + Len(needle) - 1 <= Len(s)
    BY PlaceIs DEF Stands
  <2> QED BY <2>1
<1> QED BY <1>1

LEMMA LastPlace ==
    ASSUME NEW S, NEW s \in Seq(S), NEW needle \in Seq(S), Has(s, needle)
    PROVE  /\ Max(Places(s, needle)) \in Places(s, needle)
           /\ \A i \in Places(s, needle) : i <= Max(Places(s, needle))
<1>1. Len(s) + 1 \in Nat
  OBVIOUS
<1>2. Places(s, needle) # {} /\ Places(s, needle) \subseteq 0..Len(s) + 1
  BY PlacesWithin DEF Has
<1> QED BY <1>1, <1>2, MaxIs

LEMMA FirstPlace ==
    ASSUME NEW S, NEW s \in Seq(S), NEW needle \in Seq(S), Has(s, needle)
    PROVE  /\ Find(s, needle) \in Places(s, needle)
           /\ \A i \in Places(s, needle) : Find(s, needle) <= i
<1>2. Places(s, needle) # {} /\ Places(s, needle) \subseteq Nat
  BY PlacesWithin DEF Has
<1> QED BY <1>2, MinIs DEF Find

\* What stands in the first part of a text, or in the second, stands in it.
LEMMA PlacesBefore ==
    ASSUME NEW S, NEW s \in Seq(S), NEW t \in Seq(S), NEW needle \in Seq(S), NEW i
    PROVE  i \in Places(s, needle)
              <=> i \in Places(s \o t, needle) /\ i + Len(needle) - 1 <= Len(s)
<1>1. PICK st \in Seq(S) :
         st = s \o t /\ Len(st) = Len(s) + Len(t) /\ \A k \in 1..Len(s) : st[k] = s[k]
  <2>1. s \o t \in Seq(S) /\ Len(s \o t) = Len(s) + Len(t) /\ \A k \in 1..Len(s) : (s \o t)[k] = s[k]
    BY ConcatProperties
  <2> QED BY <2>1
<1>2. ASSUME i \in Nat \ {0}, i + Len(needle) - 1 <= Len(s), NEW k \in 1..Len(needle)
      PROVE  st[i + k - 1] = s[i + k - 1]
  <2>1. i + k - 1 \in 1..Len(s)
    BY <1>2
  <2> QED BY <1>1, <2>1
<1>3. i \in Nat \ {0} /\ i + Len(needle) - 1 <= Len(s) => i + Len(needle) - 1 <= Len(st)
  BY <1>1
<1>4. i \in Places(st, needle) <=> Stands(st, needle, i)
  BY PlaceIs
<1>5. i \in Places(s, needle) <=> Stands(s, needle, i)
  BY PlaceIs
<1>6. i \in Places(s, needle) <=> i \in Places(st, needle) /\ i + Len(needle) - 1 <= Len(s)
  BY <1>2, <1>3, <1>4, <1>5 DEF Stands
<1> QED BY <1>1, <1>6

LEMMA PlacesAfter ==
    ASSUME NEW S, NEW s \in Seq(S), NEW t \in Seq(S), NEW needle \in Seq(S), NEW i \in Nat \ {0}
    PROVE  i \in Places(t, needle) <=> Len(s) + i \in Places(s \o t, needle)
<1>1. PICK st \in Seq(S) :
         st = s \o t /\ Len(st) = Len(s) + Len(t) /\ \A k \in 1..Len(t) : st[Len(s) + k] = t[k]
  <2>1. \A k \in 1..Len(t) : Len(s) + k \in Len(s) + 1..Len(s) + Len(t) /\ (Len(s) + k) - Len(s) = k
    OBVIOUS
  <2>2. /\ s \o t \in Seq(S) /\ Len(s \o t) = Len(s) + Len(t)
        /\ \A k \in 1..Len(t) : (s \o t)[Len(s) + k] = t[k]
    BY <2>1, ConcatProperties
  <2> QED BY <2>2
<1>2. ASSUME i + Len(needle) - 1 <= Len(t), NEW k \in 1..Len(needle)
      PROVE  st[(Len(s) + i) + k - 1] = t[i + k - 1]
  <2>1. i + k - 1 \in 1..Len(t) /\ (Len(s) + i) + k - 1 = Len(s) + (i + k - 1)
    BY <1>2
  <2> QED BY <1>1, <2>1
<1>3. /\ (Len(s) + i) + Len(needle) - 1 <= Len(st) <=> i + Len(needle) - 1 <= Len(t)
      /\ Len(s) + i \in Nat \ {0}
  BY <1>1
<1>4. Len(s) + i \in Places(st, needle) <=> Stands(st, needle, Len(s) + i)
  BY PlaceIs
<1>5. i \in Places(t, needle) <=> Stands(t, needle, i)
  BY PlaceIs
<1>6. i \in Places(t, needle) <=> Len(s) + i \in Places(st, needle)
  BY <1>2, <1>3, <1>4, <1>5 DEF Stands
<1> QED BY <1>1, <1>6

\* The last n bytes of s are the first of a needle; none of them are.
EndsIn(s, needle, n) == n <= Len(s) /\ \A k \in 1..n : s[Len(s) - n + k] = needle[k]

Clean(s, needle) == \A n \in 1..Len(needle) - 1 : ~EndsIn(s, needle, n)

\* The suffixes that PartialSuffix looks at, byte by byte.
LEMMA SuffixIs ==
    ASSUME NEW S, NEW s \in Seq(S), NEW needle \in Seq(S), NEW n \in 0..Len(needle), n <= Len(s)
    PROVE  SubSeq(needle, 1, n) = From(s, Len(s) - n + 1) <=> EndsIn(s, needle, n)
<1>1. PICK a : a = SubSeq(needle, 1, n) /\ a \in Seq(S) /\ Len(a) = n /\ \A k \in 1..n : a[k] = needle[k]
  <2>1. /\ SubSeq(needle, 1, n) \in Seq(S) /\ Len(SubSeq(needle, 1, n)) = n
        /\ \A k \in 1..n : SubSeq(needle, 1, n)[k] = needle[k]
    OBVIOUS
  <2> QED BY <2>1
<1>2. PICK b : /\ b = From(s, Len(s) - n + 1) /\ b \in Seq(S) /\ Len(b) = n
               /\ \A k \in 1..n : b[k] = s[Len(s) - n + k]
  <2>1. PICK from \in 1..Len(s) + 1 : from = Len(s) - n + 1
    <3>1. Len(s) - n + 1 \in 1..Len(s) + 1
      OBVIOUS
    <3> QED BY <3>1
  <2>2. /\ SubSeq(s, from, Len(s)) \in Seq(S) /\ Len(SubSeq(s, from, Len(s))) = n
        /\ \A k \in 1..n : SubSeq(s, from, Len(s))[k] = s[from + k - 1]
    BY <2>1
  <2>3. \A k \in 1..n : from + k - 1 = Len(s) - n + k
    BY <2>1
  <2> QED BY <2>1, <2>2, <2>3 DEF From
<1>3. a = b <=> \A k \in 1..n : a[k] = b[k]
  BY <1>1, <1>2, SeqEqual
<1> QED BY <1>1, <1>2, <1>3 DEF EndsIn

LEMMA PartialIs ==
    ASSUME NEW S, NEW s \in Seq(S), NEW needle \in Seq(S), needle # <<>>
    PROVE  /\ PartialSuffix(s, needle) \in 0..Len(needle) - 1
           /\ EndsIn(s, needle, PartialSuffix(s, needle))
           /\ \A n \in PartialSuffix(s, needle) + 1..Len(needle) - 1 : ~EndsIn(s, needle, n)
<1> DEFINE T == {n \in 0..(Len(needle) - 1) : n <= Len(s) /\ SubSeq(needle, 1, n) = From(s, Len(s) - n + 1)}
<1>1. Len(needle) - 1 \in Nat
  OBVIOUS
<1>2. 0 \in T
  <2>1. 0 \in 0..Len(needle) /\ 0 <= Len(s) /\ 1..0 = {}
    BY <1>1
  <2>2. EndsIn(s, needle, 0)
    BY <2>1 DEF EndsIn
  <2>3. SubSeq(needle, 1, 0) = From(s, Len(s) - 0 + 1)
    BY <2>1, <2>2, SuffixIs
  <2> QED BY <1>1, <2>1, <2>3
<1>3. Max(T) \in T /\ \A n \in T : n <= Max(T)
  BY <1>1, <1>2, MaxIs
<1>4. PICK m \in 0..Len(needle) - 1 : m = PartialSuffix(s, needle) /\ m \in T /\ \A n \in T : n <= m
  BY <1>3 DEF PartialSuffix
<1>5. EndsIn(s, needle, m)
  <2>1. m \in 0..Len(needle) /\ m <= Len(s) /\ SubSeq(needle, 1, m) = From(s, Len(s) - m + 1)
    BY <1>1, <1>4
  <2> QED BY <2>1, SuffixIs
<1>6. ASSUME NEW n \in m + 1..Len(needle) - 1 PROVE ~EndsIn(s, needle, n)
  <2>1. n \in 0..Len(needle) - 1 /\ n \in 0..Len(needle) /\ ~(n <= m)
    BY <1>1, <1>6
  <2>2. CASE n <= Len(s)
    <3>1. SubSeq(needle, 1, n) # From(s, Len(s) - n + 1)
      BY <1>4, <2>1, <2>2
    <3> QED BY <2>1, <2>2, <3>1, SuffixIs
  <2>3. CASE ~(n <= Len(s))
    BY <2>3 DEF EndsIn
  <2> QED BY <2>2, <2>3
<1> QED BY <1>4, <1>5, <1>6

LEMMA NoPartial ==
    ASSUME NEW S, NEW s \in Seq(S), NEW needle \in Seq(S), needle # <<>>, PartialSuffix(s, needle) = 0
    PROVE  Clean(s, needle)
<1>1. \A n \in 0 + 1..Len(needle) - 1 : ~EndsIn(s, needle, n)
  BY PartialIs
<1> QED BY <1>1 DEF Clean

\* Then no needle begins in s and ends behind it.
LEMMA NoneAcross ==
    ASSUME NEW S, NEW s \in Seq(S), NEW t \in Seq(S), NEW needle \in Seq(S), Clean(s, needle),
           NEW i \in Places(s \o t, needle), i <= Len(s)
    PROVE  i + Len(needle) - 1 <= Len(s)
<1>1. PICK st \in Seq(S) : st = s \o t /\ \A k \in 1..Len(s) : st[k] = s[k]
  <2>1. s \o t \in Seq(S) /\ \A k \in 1..Len(s) : (s \o t)[k] = s[k]
    BY ConcatProperties
  <2> QED BY <2>1
<1>2. i \in Nat \ {0} /\ \A k \in 1..Len(needle) : st[i + k - 1] = needle[k]
  <2>1. Stands(st, needle, i)
    BY <1>1, PlaceIs
  <2> QED BY <2>1 DEF Stands
<1>3. SUFFICES ASSUME i + Len(needle) - 1 > Len(s) PROVE FALSE
  BY <1>2
<1>4. PICK n \in 1..Len(needle) - 1 : n = Len(s) - i + 1 /\ n <= Len(s)
  <2>1. Len(s) - i + 1 \in 1..Len(needle) - 1 /\ Len(s) - i + 1 <= Len(s)
    BY <1>2, <1>3
  <2> QED BY <2>1
<1>5. ASSUME NEW k \in 1..n PROVE s[Len(s) - n + k] = needle[k]
  <2>1. Len(s) - n + k = i + k - 1 /\ i + k - 1 \in 1..Len(s) /\ k \in 1..Len(needle)
    BY <1>2, <1>4
  <2> QED BY <1>1, <1>2, <2>1
<1> QED BY <1>4, <1>5 DEF Clean, EndsIn

LEMMA BytesJoin ==
    \A s, t, u \in Seq(Bytes) : s \o t \in Seq(Bytes) /\ (s \o t) \o u = s \o (t \o u)
  BY ConcatAssociative

----
(* The directory of a pane *)

LEMMA Terminators ==
    /\ Report \in Seq(Bytes) /\ Len(Report) \in Nat \ {0}
    /\ \A end \in {<<Bell>>, St} : end \in Seq(Bytes) /\ Len(end) \in Nat \ {0}
    /\ Bell \notin Letters /\ St[1] \notin Letters
    /\ Uris \subseteq Seq(Bytes) /\ Uris \subseteq Seq(Letters) /\ NoReport \notin Uris
    /\ BufferLimit \in Nat \ {0}
<1>1. Seq(Letters) \subseteq Seq(Bytes)
  BY BytesAssumption, SeqMonotonic
<1>2. Report # <<>> /\ St # <<>> /\ Report \in Seq(Bytes) /\ St \in Seq(Bytes)
  BY BytesAssumption, DirectoryReportsAssumption
<1>3. Len(Report) \in Nat \ {0} /\ Len(St) \in Nat \ {0}
  BY <1>2, EmptySeq
<1>4. <<Bell>> \in Seq(Bytes) /\ Len(<<Bell>>) = 1
  BY BytesAssumption
<1>5. ASSUME NEW end \in {<<Bell>>, St} PROVE end \in Seq(Bytes) /\ Len(end) \in Nat \ {0}
  <2>1. CASE end = <<Bell>>
    BY <1>4, <2>1
  <2>2. CASE end = St
    BY <1>2, <1>3, <2>2
  <2> QED BY <2>1, <2>2
<1>6. Report \in Seq(Bytes) /\ BufferLimit \in Nat \ {0} /\ Uris \subseteq Seq(Letters)
  BY DirectoryReportsAssumption
<1>7. Bell \notin Letters /\ St[1] \notin Letters /\ NoReport \notin Uris
  BY BytesAssumption, DirectoryReportsAssumption
<1> QED BY <1>1, <1>3, <1>5, <1>6, <1>7

\* The text behind a report, and what stands in it.
LEMMA TextBehind ==
    ASSUME NEW s \in Seq(Bytes), NEW i \in Places(s, Report)
    PROVE  \E head \in Seq(Bytes), tail \in Seq(Bytes) :
              /\ s = head \o tail /\ Len(head) = i + Len(Report) - 1
              /\ tail = From(s, i + Len(Report))
<1>1. i \in Nat \ {0} /\ i + Len(Report) - 1 <= Len(s) /\ Len(Report) \in Nat \ {0}
  BY Terminators, PlaceIs DEF Stands
<1>2. PICK m \in 1..Len(s) : m = i + Len(Report) - 1 /\ m + 1 = i + Len(Report)
  <2>1. /\ i + Len(Report) - 1 \in 1..Len(s)
        /\ (i + Len(Report) - 1) + 1 = i + Len(Report)
    BY <1>1
  <2> QED BY <2>1
<1>3. /\ SubSeq(s, 1, m) \in Seq(Bytes) /\ Len(SubSeq(s, 1, m)) = m
      /\ SubSeq(s, m + 1, Len(s)) \in Seq(Bytes)
      /\ s = SubSeq(s, 1, m) \o SubSeq(s, m + 1, Len(s))
  OBVIOUS
<1> QED BY <1>2, <1>3 DEF From

LEMMA EndsIs ==
    ASSUME NEW tail \in Seq(Bytes), Ends7(tail) # {}
    PROVE  Min(Ends7(tail)) \in Ends7(tail) /\ \A i \in Ends7(tail) : Min(Ends7(tail)) <= i
<1>1. Ends7(tail) \subseteq Nat
  BY Terminators, PlacesWithin DEF Ends7
<1> QED BY <1>1, MinIs

\* A text that begins with a URI and an end: the end is the first one.
LEMMA FirstEnd ==
    ASSUME NEW tail \in Seq(Bytes), NEW u \in Uris,
           1 \in Places(tail, u \o <<Bell>>) \cup Places(tail, u \o St)
    PROVE  Ends7(tail) # {} /\ SubSeq(tail, 1, Min(Ends7(tail)) - 1) = u
<1>1. u \in Seq(Bytes) /\ u \in Seq(Letters) /\ Len(u) \in Nat
  BY Terminators
<1>2. PICK end \in {<<Bell>>, St} : 1 \in Places(tail, u \o end)
  OBVIOUS
<1>3. end \in Seq(Bytes) /\ Len(end) \in Nat \ {0}
  BY Terminators
<1>4. PICK text \in Seq(Bytes) :
         /\ text = u \o end /\ Len(text) = Len(u) + Len(end)
         /\ \A k \in 1..Len(u) : text[k] = u[k]
         /\ \A k \in 1..Len(end) : text[Len(u) + k] = end[k]
  <2>1. /\ u \o end \in Seq(Bytes) /\ Len(u \o end) = Len(u) + Len(end)
        /\ \A k \in 1..Len(u) : (u \o end)[k] = u[k]
        /\ \A k \in 1..Len(end) : (u \o end)[Len(u) + k] = end[k]
    BY <1>1, <1>3
  <2> QED BY <2>1
<1>5. Len(text) <= Len(tail) /\ \A k \in 1..Len(text) : tail[k] = text[k]
  <2>1. Stands(tail, text, 1)
    BY <1>2, <1>4, PlaceIs
  <2>2. \A k \in 1..Len(text) : 1 + k - 1 = k
    OBVIOUS
  <2> QED BY <2>1, <2>2, <1>4 DEF Stands
<1>6. Len(u) + 1 \in Places(tail, end)
  <2>1. ASSUME NEW k \in 1..Len(end) PROVE tail[(Len(u) + 1) + k - 1] = end[k]
    <3>1. (Len(u) + 1) + k - 1 = Len(u) + k /\ Len(u) + k \in 1..Len(text)
      BY <1>1, <1>3, <1>4
    <3> QED BY <1>4, <1>5, <3>1
  <2>2. Len(u) + 1 \in Nat \ {0} /\ (Len(u) + 1) + Len(end) - 1 <= Len(tail)
    BY <1>1, <1>3, <1>4, <1>5
  <2>3. Stands(tail, end, Len(u) + 1)
    BY <2>1, <2>2 DEF Stands
  <2> QED BY <1>3, <2>3, PlaceIs
<1>7. Len(u) + 1 \in Ends7(tail)
  BY <1>6 DEF Ends7
<1>8. PICK m : m = Min(Ends7(tail)) /\ m \in Ends7(tail) /\ m <= Len(u) + 1
  BY <1>7, EndsIs
<1>9. m \in Nat \ {0} /\ m <= Len(tail) /\ (tail[m] = Bell \/ tail[m] = St[1])
  <2>1. PICK last \in {<<Bell>>, St} : m \in Places(tail, last)
    BY <1>8 DEF Ends7
  <2>2. last \in Seq(Bytes) /\ Len(last) \in Nat \ {0}
    BY Terminators
  <2>3. Stands(tail, last, m)
    BY <2>1, <2>2, PlaceIs
  <2>4. m + 1 - 1 = m /\ 1 \in 1..Len(last)
    BY <2>2, <2>3 DEF Stands
  <2>5. tail[m] = last[1]
    BY <2>4, <2>3 DEF Stands
  <2>6. m \in Nat \ {0} /\ m <= Len(tail)
    BY <2>2, <2>3 DEF Stands
  <2>7. last[1] = Bell \/ last[1] = St[1]
    OBVIOUS
  <2> QED BY <2>5, <2>6, <2>7
<1>10. ~(m <= Len(u))
  <2>1. ASSUME m <= Len(u) PROVE FALSE
    <3>1. m \in 1..Len(u) /\ m \in 1..Len(text)
      BY <1>1, <1>3, <1>4, <1>9, <2>1
    <3>2. tail[m] = u[m] /\ u[m] \in Letters
      BY <1>1, <1>4, <1>5, <3>1, ElementOfSeq
    <3> QED BY <1>9, <3>2, Terminators
  <2> QED BY <2>1
<1>11. m - 1 = Len(u)
  BY <1>1, <1>8, <1>9, <1>10
<1>12. SubSeq(tail, 1, Len(u)) = u
  <2>1. /\ SubSeq(tail, 1, Len(u)) \in Seq(Bytes) /\ Len(SubSeq(tail, 1, Len(u))) = Len(u)
        /\ \A k \in 1..Len(u) : SubSeq(tail, 1, Len(u))[k] = tail[k]
    BY <1>1, <1>3, <1>4, <1>5
  <2>2. \A k \in 1..Len(u) : tail[k] = u[k]
    BY <1>1, <1>3, <1>4, <1>5
  <2> QED BY <1>1, <2>1, <2>2, SeqEqual
<1> QED BY <1>7, <1>8, <1>11, <1>12

\* And the other way round.
LEMMA FirstEndIsAt ==
    ASSUME NEW tail \in Seq(Bytes), Ends7(tail) # {}, SubSeq(tail, 1, Min(Ends7(tail)) - 1) \in Uris
    PROVE  LET u == SubSeq(tail, 1, Min(Ends7(tail)) - 1)
           IN  1 \in Places(tail, u \o <<Bell>>) \cup Places(tail, u \o St)
<1>1. PICK m : m = Min(Ends7(tail)) /\ m \in Ends7(tail)
  BY EndsIs
<1>2. PICK end \in {<<Bell>>, St} : m \in Places(tail, end)
  BY <1>1 DEF Ends7
<1>3. end \in Seq(Bytes) /\ Len(end) \in Nat \ {0}
  BY Terminators
<1>4. /\ m \in Nat \ {0} /\ m + Len(end) - 1 <= Len(tail)
      /\ \A k \in 1..Len(end) : tail[m + k - 1] = end[k]
  <2>1. Stands(tail, end, m)
    BY <1>2, <1>3, PlaceIs
  <2> QED BY <2>1 DEF Stands
<1>5. PICK u \in Seq(Bytes) :
         /\ u = SubSeq(tail, 1, m - 1) /\ Len(u) = m - 1
         /\ \A k \in 1..Len(u) : u[k] = tail[k]
  <2>1. m - 1 \in 0..Len(tail)
    BY <1>3, <1>4
  <2>2. /\ SubSeq(tail, 1, m - 1) \in Seq(Bytes) /\ Len(SubSeq(tail, 1, m - 1)) = m - 1
        /\ \A k \in 1..m - 1 : SubSeq(tail, 1, m - 1)[k] = tail[k]
    BY <2>1
  <2> QED BY <2>2
<1>6. PICK text \in Seq(Bytes) :
         /\ text = u \o end /\ Len(text) = Len(u) + Len(end)
         /\ \A k \in 1..Len(u) : text[k] = u[k]
         /\ \A k \in 1..Len(end) : text[Len(u) + k] = end[k]
  <2>1. /\ u \o end \in Seq(Bytes) /\ Len(u \o end) = Len(u) + Len(end)
        /\ \A k \in 1..Len(u) : (u \o end)[k] = u[k]
        /\ \A k \in 1..Len(end) : (u \o end)[Len(u) + k] = end[k]
    BY <1>3, <1>5
  <2> QED BY <2>1
<1>7. ASSUME NEW k \in 1..Len(text) PROVE tail[1 + k - 1] = text[k]
  <2>1. CASE k <= Len(u)
    <3>1. k \in 1..Len(u) /\ 1 + k - 1 = k
      BY <1>5, <2>1
    <3> QED BY <1>5, <1>6, <3>1
  <2>2. CASE ~(k <= Len(u))
    <3>1. PICK j \in 1..Len(end) : k = Len(u) + j /\ 1 + k - 1 = m + j - 1
      <4>1. k - Len(u) \in 1..Len(end) /\ k = Len(u) + (k - Len(u)) /\ 1 + k - 1 = m + (k - Len(u)) - 1
        BY <1>3, <1>4, <1>5, <1>6, <2>2
      <4> QED BY <4>1
    <3> QED BY <1>4, <1>6, <3>1
  <2> QED BY <2>1, <2>2
<1>8. Stands(tail, text, 1)
  <2>1. 1 + Len(text) - 1 <= Len(tail)
    BY <1>3, <1>4, <1>5, <1>6
  <2> QED BY <1>7, <2>1 DEF Stands
<1>9. 1 \in Places(tail, u \o end)
  BY <1>6, <1>8, PlaceIs
<1> QED BY <1>1, <1>2, <1>5, <1>9

\* What a report says, by the text behind it.
LEMMA AtTail ==
    ASSUME NEW s \in Seq(Bytes), NEW i \in Places(s, Report), NEW u \in Uris
    PROVE  LET tail == From(s, i + Len(Report))
           IN  /\ tail \in Seq(Bytes)
               /\ u \in At(s, i) <=> 1 \in Places(tail, u \o <<Bell>>) \cup Places(tail, u \o St)
<1>1. PICK ahead \in Seq(Bytes), tail \in Seq(Bytes) :
         /\ s = ahead \o tail /\ Len(ahead) = i + Len(Report) - 1
         /\ tail = From(s, i + Len(Report))
  BY TextBehind
<1>2. u \in Seq(Bytes)
  BY Terminators
<1>3. i \in Nat \ {0} /\ Len(Report) \in Nat \ {0} /\ Len(ahead) + 1 = i + Len(Report)
  <2>1. i \in Nat \ {0} /\ Len(Report) \in Nat \ {0}
    BY Terminators, PlaceIs DEF Stands
  <2> QED BY <1>1, <2>1
<1>4. ASSUME NEW end \in {<<Bell>>, St}
      PROVE  1 \in Places(tail, u \o end) <=> i + Len(Report) \in Places(s, u \o end)
  <2>1. end \in Seq(Bytes)
    BY Terminators
  <2>2. u \o end \in Seq(Bytes)
    BY <1>2, <2>1
  <2>3. 1 \in Places(tail, u \o end) <=> Len(ahead) + 1 \in Places(ahead \o tail, u \o end)
    <3>1. 1 \in Nat \ {0}
      OBVIOUS
    <3> QED BY <2>2, <3>1, PlacesAfter
  <2> QED BY <1>1, <1>3, <2>3
<1> QED BY <1>1, <1>4 DEF At

\* What is extracted is what the last report says.
LEMMA ExtractedIs ==
    ASSUME NEW s \in Seq(Bytes), Has(s, Report)
    PROVE  LET last == Max(Places(s, Report))
           IN  /\ Extracted(s) # NoReport => Extracted(s) \in At(s, last)
               /\ At(s, last) # {} => Extracted(s) # NoReport
               /\ Extracted(s) \in Uris \cup {NoReport}
<1>1. PICK last : last = Max(Places(s, Report)) /\ last \in Places(s, Report)
  BY Terminators, LastPlace
<1>2. PICK tail : tail = From(s, last + Len(Report))
  OBVIOUS
<1>3. PICK uri : uri = SubSeq(tail, 1, Min(Ends7(tail)) - 1)
  OBVIOUS
<1>4. Extracted(s) = IF Ends7(tail) # {} /\ uri \in Uris THEN uri ELSE NoReport
  BY <1>1, <1>2, <1>3 DEF Extracted
<1>5. ASSUME Ends7(tail) # {}, uri \in Uris PROVE uri \in At(s, last)
  <2>1. tail \in Seq(Bytes)
    BY <1>1, <1>2, <1>5, AtTail
  <2>2. 1 \in Places(tail, uri \o <<Bell>>) \cup Places(tail, uri \o St)
    BY <1>3, <1>5, <2>1, FirstEndIsAt
  <2> QED BY <1>1, <1>2, <1>5, <2>2, AtTail
<1>6. ASSUME NEW u \in At(s, last) PROVE Extracted(s) # NoReport
  <2>1. u \in Uris /\ tail \in Seq(Bytes)
    BY <1>1, <1>2, AtTail DEF At
  <2>2. 1 \in Places(tail, u \o <<Bell>>) \cup Places(tail, u \o St)
    BY <1>1, <1>2, <2>1, AtTail
  <2>3. Ends7(tail) # {} /\ uri = u
    BY <1>3, <2>1, <2>2, FirstEnd
  <2> QED BY <1>4, <2>1, <2>3, Terminators
<1> QED BY <1>1, <1>4, <1>5, <1>6

\* Further bytes take nothing back.
LEMMA AtGrows ==
    ASSUME NEW s \in Seq(Bytes), NEW t \in Seq(Bytes), NEW i
    PROVE  At(s, i) \subseteq At(s \o t, i)
<1>1. ASSUME NEW u \in Uris, NEW end \in {<<Bell>>, St}, i + Len(Report) \in Places(s, u \o end)
      PROVE  i + Len(Report) \in Places(s \o t, u \o end)
  <2>1. u \in Seq(Bytes) /\ end \in Seq(Bytes)
    BY Terminators
  <2>2. u \o end \in Seq(Bytes)
    BY <2>1
  <2> QED BY <1>1, <2>2, PlacesBefore
<1> QED BY <1>1 DEF At

\* In front of them stands another text.
LEMMA AtShifts ==
    ASSUME NEW s \in Seq(Bytes), NEW t \in Seq(Bytes), NEW i \in Nat \ {0}
    PROVE  At(t, i) = At(s \o t, Len(s) + i)
<1>1. ASSUME NEW u \in Uris, NEW end \in {<<Bell>>, St}
      PROVE  i + Len(Report) \in Places(t, u \o end)
                <=> (Len(s) + i) + Len(Report) \in Places(s \o t, u \o end)
  <2>1. u \in Seq(Bytes) /\ end \in Seq(Bytes)
    BY Terminators
  <2>2. u \o end \in Seq(Bytes)
    BY <2>1
  <2>3. /\ i + Len(Report) \in Nat \ {0}
        /\ Len(s) + (i + Len(Report)) = (Len(s) + i) + Len(Report)
    BY Terminators
  <2>4. i + Len(Report) \in Places(t, u \o end)
           <=> Len(s) + (i + Len(Report)) \in Places(s \o t, u \o end)
    BY <2>2, <2>3, PlacesAfter
  <2> QED BY <2>3, <2>4
<1> QED BY <1>1 DEF At

\* What stands last in the second part of a text stands last in it.
LEMMA LastPlaceShifts ==
    ASSUME NEW S, NEW s \in Seq(S), NEW t \in Seq(S), NEW needle \in Seq(S), Has(t, needle)
    PROVE  /\ Has(s \o t, needle)
           /\ Max(Places(s \o t, needle)) = Len(s) + Max(Places(t, needle))
<1>0. PICK m : m = Max(Places(t, needle))
  OBVIOUS
<1>1. /\ m = Max(Places(t, needle)) /\ m \in Places(t, needle) /\ m \in Nat \ {0}
      /\ \A i \in Places(t, needle) : i <= m
  <2>1. m \in Places(t, needle) /\ \A i \in Places(t, needle) : i <= m
    BY <1>0, LastPlace
  <2>2. m \in Nat \ {0}
    BY <2>1, PlacesWithin
  <2> QED BY <1>0, <2>1, <2>2
<1>2. Len(s) \in Nat /\ Len(s) + m \in Places(s \o t, needle)
  BY <1>1, PlacesAfter
<1>3. s \o t \in Seq(S) /\ Has(s \o t, needle)
  BY <1>2 DEF Has
<1>4. PICK p : /\ p = Max(Places(s \o t, needle)) /\ p \in Places(s \o t, needle) /\ p \in Nat \ {0}
               /\ \A i \in Places(s \o t, needle) : i <= p
  BY <1>3, LastPlace, PlacesWithin
<1>5. Len(s) + m <= p
  BY <1>2, <1>4
<1>6. PICK i \in Nat \ {0} : p = Len(s) + i
  <2>1. p - Len(s) \in Nat \ {0} /\ p = Len(s) + (p - Len(s))
    BY <1>1, <1>2, <1>4, <1>5
  <2> QED BY <2>1
<1>7. i \in Places(t, needle)
  BY <1>4, <1>6, PlacesAfter
<1>8. i <= m
  BY <1>1, <1>7
<1>9. p = Len(s) + m
  <2>1. PICK k \in Nat : k = Len(s)
    BY <1>2
  <2>2. k + m <= k + i /\ m \in Nat
    BY <1>1, <1>5, <1>6, <2>1
  <2> QED BY <1>6, <1>8, <2>1, <2>2
<1> QED BY <1>1, <1>3, <1>4, <1>9

\* No more of a needle ends a text than ends the long last part of it.
LEMMA CleanBehind ==
    ASSUME NEW S, NEW s \in Seq(S), NEW t \in Seq(S), NEW needle \in Seq(S),
           Clean(t, needle), Len(needle) <= Len(t) + 1
    PROVE  Clean(s \o t, needle)
<1>1. PICK st \in Seq(S) :
         st = s \o t /\ Len(st) = Len(s) + Len(t) /\ \A k \in 1..Len(t) : st[Len(s) + k] = t[k]
  <2>1. \A k \in 1..Len(t) : Len(s) + k \in Len(s) + 1..Len(s) + Len(t) /\ (Len(s) + k) - Len(s) = k
    OBVIOUS
  <2>2. /\ s \o t \in Seq(S) /\ Len(s \o t) = Len(s) + Len(t)
        /\ \A k \in 1..Len(t) : (s \o t)[Len(s) + k] = t[k]
    BY <2>1, ConcatProperties
  <2> QED BY <2>2
<1>2. ASSUME NEW n \in 1..Len(needle) - 1, EndsIn(st, needle, n) PROVE EndsIn(t, needle, n)
  <2>1. n <= Len(t)
    OBVIOUS
  <2>2. ASSUME NEW k \in 1..n PROVE t[Len(t) - n + k] = needle[k]
    <3>1. /\ Len(t) - n + k \in 1..Len(t)
          /\ Len(st) - n + k = Len(s) + (Len(t) - n + k)
      BY <1>1, <2>1
    <3>2. st[Len(st) - n + k] = needle[k]
      BY <1>2 DEF EndsIn
    <3> QED BY <1>1, <3>1, <3>2
  <2> QED BY <2>1, <2>2 DEF EndsIn
<1> QED BY <1>1, <1>2 DEF Clean

\* Nothing is found in nothing.
LEMMA NothingInNothing ==
    Extracted(<<>>) = NoReport /\ ~Has(<<>>, Report) /\ Clean(<<>>, Report)
<1>1. <<>> \in Seq(Bytes) /\ Len(<<>>) = 0
  OBVIOUS
<1>2. ASSUME NEW i \in Places(<<>>, Report) PROVE FALSE
  <2>1. Stands(<<>>, Report, i)
    BY <1>1, Terminators, PlaceIs
  <2> QED BY <1>1, <2>1, Terminators DEF Stands
<1>3. ~Has(<<>>, Report)
  BY <1>2 DEF Has
<1>4. ASSUME NEW n \in 1..Len(Report) - 1 PROVE ~EndsIn(<<>>, Report, n)
  BY <1>1, Terminators DEF EndsIn
<1> QED BY <1>3, <1>4 DEF Clean, Extracted

\* What the tracker has let go of: none of it begins a report, and the last one
\* in it was reported.
LetGo(passed) ==
    /\ scanned = passed \o buffer
    /\ Extracted(buffer) = NoReport
    /\ Clean(passed, Report)
    /\ Has(passed, Report) => reported \in At(passed, Max(Places(passed, Report)))

TypeReports ==
    /\ {typed, scanned, buffer} \subseteq Seq(Bytes)
    /\ Len(buffer) <= BufferLimit /\ missed \in BOOLEAN

ReportsInv == TypeReports /\ (~missed => \E passed \in Seq(Bytes) : LetGo(passed))

LEMMA InitialReports ==
    ASSUME InitReports PROVE ReportsInv
<1>1. TypeReports
  <2>1. typed \in Seq(Bytes)
    BY DirectoryReportsAssumption DEF InitReports
  <2>2. scanned = <<>> /\ buffer = <<>> /\ Len(buffer) = 0 /\ missed = FALSE
    BY DEF InitReports
  <2>3. <<>> \in Seq(Bytes) /\ 0 <= BufferLimit
    BY Terminators
  <2> QED BY <2>1, <2>2, <2>3 DEF TypeReports
<1>2. PICK nothing \in Seq(Bytes) : nothing = <<>> /\ nothing \o nothing = nothing
  <2>1. <<>> \in Seq(Bytes) /\ <<>> \o <<>> = <<>>
    OBVIOUS
  <2> QED BY <2>1
<1>3. Extracted(nothing) = NoReport /\ Clean(nothing, Report) /\ ~Has(nothing, Report)
  BY <1>2, NothingInNothing
<1>4. scanned = nothing /\ buffer = nothing
  BY <1>2 DEF InitReports
<1>5. LetGo(nothing)
  BY <1>2, <1>3, <1>4 DEF LetGo
<1> QED BY <1>1, <1>5 DEF ReportsInv

\* The first bytes that the limit leaves.
LEMMA HeldIs ==
    ASSUME NEW all \in Seq(Bytes)
    PROVE  /\ From(all, Max({1, Len(all) - BufferLimit + 1})) \in Seq(Bytes)
           /\ Len(From(all, Max({1, Len(all) - BufferLimit + 1}))) <= BufferLimit
<1> DEFINE x == Len(all) - BufferLimit + 1
<1>1. BufferLimit \in Nat \ {0} /\ Len(all) \in Nat /\ x \in Int /\ x <= Len(all)
  BY Terminators
<1>2. \E y \in {1, x} : \A z \in {1, x} : y >= z
  BY <1>1
<1>3. PICK m : m = Max({1, x}) /\ m \in {1, x} /\ m >= 1 /\ m >= x
  BY <1>2 DEF Max
<1>4. m \in 1..Len(all) + 1
  BY <1>1, <1>3
<1>5. SubSeq(all, m, Len(all)) \in Seq(Bytes) /\ Len(SubSeq(all, m, Len(all))) = Len(all) - m + 1
  BY <1>4
<1>6. Len(all) - m + 1 <= BufferLimit
  BY <1>1, <1>3, <1>4
<1> QED BY <1>3, <1>5, <1>6 DEF From

LEMMA ReportsStep ==
    ASSUME ReportsInv, ReadOutput PROVE ReportsInv'
<1>1. PICK n \in 1..LargestRead :
         /\ n <= Len(typed) /\ typed' = From(typed, n + 1)
         /\ scanned' = scanned \o SubSeq(typed, 1, n) /\ Scan(SubSeq(typed, 1, n))
  BY DEF ReadOutput
<1>2. /\ typed \in Seq(Bytes) /\ scanned \in Seq(Bytes) /\ buffer \in Seq(Bytes)
      /\ missed \in BOOLEAN
  BY DEF ReportsInv, TypeReports
<1>3. PICK chunk \in Seq(Bytes) : chunk = SubSeq(typed, 1, n)
  <2>1. LargestRead \in Nat
    BY DirectoryReportsAssumption
  <2>2. n \in 1..Len(typed)
    BY <1>1, <1>2, <2>1
  <2>3. SubSeq(typed, 1, n) \in Seq(Bytes)
    BY <1>2, <2>2
  <2> QED BY <2>3
<1>4. PICK all \in Seq(Bytes) : all = buffer \o chunk
  <2>1. buffer \o chunk \in Seq(Bytes)
    BY <1>2, <1>3
  <2> QED BY <2>1
<1>5. PICK held \in Seq(Bytes) :
         held = From(all, Max({1, Len(all) - BufferLimit + 1})) /\ Len(held) <= BufferLimit
  BY HeldIs
<1>6. /\ buffer' = IF Extracted(held) = NoReport THEN held ELSE <<>>
      /\ reported' = IF Extracted(held) = NoReport THEN reported ELSE Extracted(held)
      /\ missed' = (missed \/ held # all
                           \/ (Extracted(held) # NoReport /\ PartialSuffix(held, Report) > 0))
      /\ scanned' = scanned \o chunk
  BY <1>1, <1>3, <1>4, <1>5 DEF Scan
<1>7. TypeReports'
  <2>1. typed' \in Seq(Bytes)
    <3>1. n + 1 \in 1..Len(typed) + 1
      BY <1>1, <1>2, DirectoryReportsAssumption
    <3>2. SubSeq(typed, n + 1, Len(typed)) \in Seq(Bytes)
      BY <1>2, <3>1
    <3> QED BY <1>1, <3>2 DEF From
  <2>2. scanned' \in Seq(Bytes)
    BY <1>2, <1>6
  <2>3. buffer' \in Seq(Bytes) /\ Len(buffer') <= BufferLimit
    <3>1. CASE Extracted(held) = NoReport
      BY <1>5, <1>6, <3>1
    <3>2. CASE Extracted(held) # NoReport
      <4>1. buffer' = <<>>
        BY <1>6, <3>2
      <4> QED BY <4>1, Terminators
    <3> QED BY <3>1, <3>2
  <2>4. missed' \in BOOLEAN
    <3>1. missed' = TRUE \/ missed' = FALSE
      BY <1>6, Zenon
    <3> QED BY <3>1
  <2> QED BY <2>1, <2>2, <2>3, <2>4 DEF TypeReports
<1>8. ASSUME ~missed' PROVE \E passed \in Seq(Bytes) : LetGo(passed)'
  <2>1. ~missed /\ held = all
    BY <1>6, <1>8
  <2>2. PICK passed \in Seq(Bytes) : LetGo(passed)
    BY <2>1 DEF ReportsInv
  <2>3. scanned' = passed \o all
    <3>1. scanned' = (passed \o buffer) \o chunk
      BY <1>6, <2>2 DEF LetGo
    <3>2. (passed \o buffer) \o chunk = passed \o (buffer \o chunk)
      <4>1. buffer \in Seq(Bytes) /\ chunk \in Seq(Bytes) /\ passed \in Seq(Bytes)
        BY <1>2, <1>3, <2>2
      <4> QED BY <4>1, BytesJoin, Zenon
    <3> QED BY <1>4, <3>1, <3>2
  <2>4. CASE Extracted(all) = NoReport
    <3>1. buffer' = all /\ reported' = reported
      BY <1>6, <2>1, <2>4
    <3>2. LetGo(passed)'
      BY <2>2, <2>3, <2>4, <3>1 DEF LetGo
    <3> QED BY <3>2
  <2>5. CASE Extracted(all) # NoReport
    <3>1. Has(all, Report) /\ buffer' = <<>> /\ reported' = Extracted(all)
      BY <1>6, <2>1, <2>5 DEF Extracted
    <3>2. PICK ours \in Seq(Bytes) : ours = passed \o all
      <4>1. passed \o all \in Seq(Bytes)
        BY <1>4, <2>2
      <4> QED BY <4>1
    <3>3. Clean(all, Report)
      <4>1. PartialSuffix(all, Report) \in 0..Len(Report) - 1
        BY Terminators, PartialIs, EmptySeq
      <4>2. ~(PartialSuffix(all, Report) > 0)
        BY <1>6, <1>8, <2>1, <2>5
      <4>3. PartialSuffix(all, Report) = 0
        BY <4>1, <4>2, Terminators
      <4> QED BY <4>3, Terminators, NoPartial, EmptySeq
    <3>4. Clean(ours, Report)
      <4>1. PICK i : i \in Places(all, Report)
        BY <3>1 DEF Has
      <4>2. i \in Nat \ {0} /\ i + Len(Report) - 1 <= Len(all) /\ Len(Report) \in Nat
        BY <4>1, Terminators, PlaceIs DEF Stands
      <4>3. Len(Report) <= Len(all) + 1
        BY <4>2
      <4> QED BY <3>2, <3>3, <4>3, Terminators, CleanBehind
    <3>5. reported' \in At(ours, Max(Places(ours, Report)))
      <4>1. PICK m : m = Max(Places(all, Report)) /\ m \in Nat \ {0}
        BY <3>1, Terminators, LastPlace, PlacesWithin
      <4>2. reported' \in At(all, m)
        BY <2>5, <3>1, <4>1, ExtractedIs
      <4>3. Max(Places(ours, Report)) = Len(passed) + m
        <5>1. Report \in Seq(Bytes)
          BY Terminators
        <5>2. Max(Places(passed \o all, Report)) = Len(passed) + Max(Places(all, Report))
          BY <3>1, <5>1, LastPlaceShifts
        <5> QED BY <3>2, <4>1, <5>2
      <4>4. reported' \in At(passed \o all, Len(passed) + m)
        BY <4>1, <4>2, AtShifts
      <4> QED BY <3>2, <4>3, <4>4
    <3>6. scanned' = ours \o buffer' /\ Extracted(buffer') = NoReport
      <4>1. ours \o <<>> = ours
        BY <3>2
      <4> QED BY <2>3, <3>1, <3>2, <4>1, NothingInNothing
    <3>7. LetGo(ours)'
      BY <3>4, <3>5, <3>6 DEF LetGo
    <3> QED BY <3>7
  <2> QED BY <2>4, <2>5
<1> QED BY <1>7, <1>8 DEF ReportsInv

LEMMA ReportsFollow ==
    ASSUME ReportsInv PROVE DirectoryFollows
<1>1. scanned \in Seq(Bytes) /\ buffer \in Seq(Bytes) /\ Len(buffer) <= BufferLimit
  BY DEF ReportsInv, TypeReports
<1>2. SUFFICES ASSUME Valid(scanned) # {}, ~missed,
                      ~(Max(Places(scanned, Report)) > Max(Valid(scanned)))
               PROVE  reported \in At(scanned, Max(Valid(scanned)))
  BY <1>1 DEF DirectoryFollows
<1>3. PICK passed \in Seq(Bytes) : LetGo(passed)
  BY <1>2 DEF ReportsInv
<1>4. PICK last : /\ last = Max(Valid(scanned)) /\ last = Max(Places(scanned, Report))
                  /\ last \in Places(scanned, Report) /\ last \in Nat \ {0}
                  /\ \A i \in Places(scanned, Report) : i <= last
                  /\ At(scanned, last) # {}
  <2>1. Has(scanned, Report) /\ Valid(scanned) \subseteq Places(scanned, Report)
    BY <1>2 DEF Has, Valid
  <2>2. Places(scanned, Report) \subseteq 0..Len(scanned) + 1 /\ Places(scanned, Report) \subseteq Nat \ {0}
    BY <1>1, Terminators, PlacesWithin
  <2>3. Len(scanned) + 1 \in Nat /\ Valid(scanned) \subseteq 0..Len(scanned) + 1
    BY <1>1, <2>1, <2>2
  <2>4. Max(Valid(scanned)) \in Valid(scanned)
    BY <1>2, <2>3, MaxIs
  <2>5. /\ Max(Places(scanned, Report)) \in Places(scanned, Report)
        /\ \A i \in Places(scanned, Report) : i <= Max(Places(scanned, Report))
    BY <1>1, <2>1, Terminators, LastPlace
  <2>6. Max(Valid(scanned)) = Max(Places(scanned, Report))
    BY <1>2, <2>1, <2>2, <2>4, <2>5
  <2>7. At(scanned, Max(Valid(scanned))) # {}
    BY <2>4 DEF Valid
  <2> QED BY <2>2, <2>5, <2>6, <2>7
<1>5. last <= Len(passed)
  <2>1. SUFFICES ASSUME ~(last <= Len(passed)) PROVE FALSE
    OBVIOUS
  <2>2. PICK i \in Nat \ {0} : last = Len(passed) + i
    <3>1. last - Len(passed) \in Nat \ {0} /\ last = Len(passed) + (last - Len(passed))
      BY <1>4, <2>1
    <3> QED BY <3>1
  <2>3. i \in Places(buffer, Report)
    BY <1>1, <1>3, <1>4, <2>2, Terminators, PlacesAfter DEF LetGo
  <2>4. Has(buffer, Report)
    BY <2>3 DEF Has
  <2>5. PICK m : m = Max(Places(buffer, Report)) /\ m \in Nat \ {0}
    BY <1>1, <2>4, Terminators, LastPlace, PlacesWithin
  <2>6. last = Len(passed) + m
    BY <1>1, <1>3, <1>4, <2>4, <2>5, Terminators, LastPlaceShifts DEF LetGo
  <2>7. At(buffer, m) # {}
    BY <1>1, <1>3, <1>4, <2>5, <2>6, AtShifts DEF LetGo
  <2>8. Extracted(buffer) # NoReport
    BY <1>1, <2>4, <2>5, <2>7, ExtractedIs
  <2> QED BY <1>3, <2>8 DEF LetGo
<1>6. last + Len(Report) - 1 <= Len(passed)
  BY <1>1, <1>3, <1>4, <1>5, Terminators, NoneAcross DEF LetGo
<1>7. last \in Places(passed, Report)
  BY <1>1, <1>3, <1>4, <1>6, Terminators, PlacesBefore DEF LetGo
<1>8. last = Max(Places(passed, Report))
  <2>1. PICK m : m = Max(Places(passed, Report)) /\ m \in Places(passed, Report) /\ last <= m /\ m \in Nat \ {0}
    BY <1>7, Terminators, LastPlace, PlacesWithin DEF Has
  <2>2. m \in Places(scanned, Report)
    BY <1>1, <1>3, <2>1, Terminators, PlacesBefore DEF LetGo
  <2> QED BY <1>4, <2>1, <2>2
<1>9. reported \in At(passed, last)
  BY <1>3, <1>7, <1>8 DEF LetGo, Has
<1> QED BY <1>1, <1>3, <1>4, <1>9, AtGrows DEF LetGo

LEMMA ReportsInvHolds == WindowSpec => []ReportsInv
<1>1. WindowInit => ReportsInv
  BY InitialReports DEF WindowInit
<1>2. ReportsInv /\ [WindowNext]_windowVars => ReportsInv'
  <2> SUFFICES ASSUME ReportsInv, [ReadOutput]_reportVars PROVE ReportsInv'
    BY StepsOfParts
  <2>1. CASE ReadOutput
    BY <2>1, ReportsStep
  <2>2. CASE UNCHANGED reportVars
    BY <2>2 DEF reportVars, ReportsInv, TypeReports, LetGo
  <2> QED BY <2>1, <2>2
<1> QED BY <1>1, <1>2, PTL DEF WindowSpec

\* docs/features.md:300, for every shell, every cut of its output and every
\* limit: when everything is read the directory is that of the last report, but
\* for the three exceptions.
THEOREM DirectoryIsFollowed == WindowSpec => []DirectoryFollows
<1>1. ReportsInv => DirectoryFollows
  BY ReportsFollow
<1> QED BY <1>1, ReportsInvHolds, PTL

----
(* The Git status *)

\* A thread reports what it read, and only that.
GitInv ==
    /\ StatusOfHere
    /\ \A i \in 1..Len(gitResults) : gitResults[i].status \in {gitResults[i].dir, NoDir}

LEMMA ArrivedIs ==
    ASSUME GitInv
    PROVE  /\ Arrived \in Seq(Results)
           /\ \A k \in 1..Len(Arrived) : Arrived[k].status \in {cwd, NoDir}
<1> DEFINE Here == {r \in Results : r.dir = cwd}
<1>1. gitResults \in Seq(Results)
  BY DEF GitInv, StatusOfHere, TypeGit
<1> HIDE DEF Here
<1>2. /\ Among(gitResults, Here) \in Seq(Results)
      /\ Len(Among(gitResults, Here)) = CountIn(gitResults, Here, Len(gitResults))
      /\ \A k \in 1..CountIn(gitResults, Here, Len(gitResults)) :
            \E i \in 1..Len(gitResults) :
               gitResults[i] \in Here /\ CountIn(gitResults, Here, i) = k /\ Among(gitResults, Here)[k] = gitResults[i]
  BY <1>1, AmongIs
<1>3. Arrived = Among(gitResults, Here)
  BY DEF Arrived, Here
<1>4. ASSUME NEW k \in 1..Len(Arrived) PROVE Arrived[k].status \in {cwd, NoDir}
  <2>1. PICK i \in 1..Len(gitResults) : gitResults[i] \in Here /\ Arrived[k] = gitResults[i]
    BY <1>2, <1>3
  <2>2. gitResults[i].status \in {gitResults[i].dir, NoDir} /\ gitResults[i].dir = cwd
    BY <2>1 DEF GitInv, Here
  <2> QED BY <2>1, <2>2
<1> QED BY <1>2, <1>3, <1>4

LEMMA GitInvHolds == WindowSpec => []GitInv
<1> USE GitAssumption
<1>1. WindowInit => GitInv
  <2> SUFFICES ASSUME InitGit PROVE GitInv
    BY DEF WindowInit
  <2>1. /\ cwd \in GitDirs /\ gitShown = NoDir /\ gitAge = "never" /\ gitPending = FALSE
        /\ gitReading = <<>> /\ gitResults = <<>> /\ moves = 0 /\ gitLost = FALSE
    BY DEF InitGit
  <2>2. Len(gitResults) = 0 /\ 0 \in 0..MaxMoves
    BY <2>1
  <2>3. gitReading \in Seq(GitDirs) /\ gitResults \in Seq(Results)
    BY <2>1
  <2>4. TypeGit
    BY <2>1, <2>2, <2>3 DEF TypeGit
  <2> QED BY <2>1, <2>2, <2>4 DEF GitInv, StatusOfHere
<1>2. GitInv /\ [WindowNext]_windowVars => GitInv'
  <2> SUFFICES ASSUME GitInv, [NextGit]_gitVars PROVE GitInv'
    BY StepsOfParts
  <2>0. /\ cwd \in GitDirs /\ gitShown \in {cwd, NoDir} /\ gitAge \in {"never", "fresh", "due"}
        /\ gitPending \in BOOLEAN /\ gitLost \in BOOLEAN
        /\ gitReading \in Seq(GitDirs) /\ gitResults \in Seq(Results) /\ moves \in 0..MaxMoves
        /\ \A i \in 1..Len(gitResults) : gitResults[i].status \in {gitResults[i].dir, NoDir}
    BY DEF GitInv, StatusOfHere, TypeGit
  <2>1. CASE ChangeDirectory
    <3>1. /\ moves' \in 0..MaxMoves /\ cwd' \in GitDirs /\ gitShown' = NoDir /\ gitAge' = "never"
          /\ gitPending' = FALSE /\ UNCHANGED <<gitReading, gitResults, gitLost>>
      BY <2>0, <2>1 DEF ChangeDirectory, UpdateMetadata
    <3> QED BY <2>0, <3>1 DEF GitInv, StatusOfHere, TypeGit
  <2>2. CASE DrawGit
    <3>1. gitResults' = <<>> /\ cwd' = cwd /\ moves' = moves
      BY <2>2 DEF DrawGit
    <3>2. gitAge' \in {"never", "fresh", "due"}
      BY <2>0, <2>2 DEF DrawGit
    <3>3. gitShown' \in {cwd, NoDir}
      <4>1. gitShown' = IF Arrived # <<>> THEN Arrived[Len(Arrived)].status ELSE gitShown
        BY <2>2 DEF DrawGit
      <4>2. CASE Arrived # <<>>
        <5>1. Arrived \in Seq(Results) /\ \A k \in 1..Len(Arrived) : Arrived[k].status \in {cwd, NoDir}
          BY ArrivedIs
        <5>2. Len(Arrived) \in 1..Len(Arrived)
          BY <4>2, <5>1, EmptySeq
        <5> QED BY <4>1, <4>2, <5>1, <5>2
      <4>3. CASE Arrived = <<>>
        BY <2>0, <4>1, <4>3
      <4> QED BY <4>2, <4>3
    <3>4. gitReading' \in Seq(GitDirs)
      <4>1. gitReading' = gitReading \/ gitReading' = Append(gitReading, cwd)
        BY <2>2 DEF DrawGit
      <4> QED BY <2>0, <4>1
    <3>5. gitPending' \in BOOLEAN /\ gitLost' \in BOOLEAN
      <4>1. gitPending' = TRUE \/ gitPending' = FALSE
        BY <2>2, Zenon DEF DrawGit
      <4>2. gitLost' = gitLost \/ gitLost' = TRUE
        BY <2>2, Zenon DEF DrawGit
      <4> QED BY <2>0, <4>1, <4>2
    <3>6. gitResults' \in Seq(Results) /\ Len(gitResults') = 0
      BY <3>1
    <3>7. TypeGit'
      BY <2>0, <3>1, <3>2, <3>3, <3>4, <3>5, <3>6 DEF TypeGit
    <3> QED BY <3>1, <3>3, <3>6, <3>7 DEF GitInv, StatusOfHere
  <2>3. CASE ThreadSends
    <3>1. PICK i \in DOMAIN gitReading, repository \in BOOLEAN :
             /\ gitResults' = Append(gitResults, [dir |-> gitReading[i],
                                  status |-> IF repository THEN gitReading[i] ELSE NoDir])
             /\ gitReading' = SubSeq(gitReading, 1, i - 1) \o SubSeq(gitReading, i + 1, Len(gitReading))
             /\ UNCHANGED <<cwd, gitShown, gitAge, gitPending, moves, gitLost>>
      BY <2>3 DEF ThreadSends
    <3>2. PICK result \in Results :
             /\ gitResults' = Append(gitResults, result) /\ result.status \in {result.dir, NoDir}
      <4>1. gitReading[i] \in GitDirs
        BY <2>0
      <4>2. [dir |-> gitReading[i], status |-> IF repository THEN gitReading[i] ELSE NoDir] \in Results
        BY <4>1 DEF Results
      <4> QED BY <3>1, <4>2
    <3>3. gitReading' \in Seq(GitDirs)
      <4>1. i \in 1..Len(gitReading)
        BY <2>0
      <4>2. SubSeq(gitReading, 1, i - 1) \in Seq(GitDirs)
        BY <2>0, <4>1
      <4>3. SubSeq(gitReading, i + 1, Len(gitReading)) \in Seq(GitDirs)
        BY <2>0, <4>1
      <4> QED BY <3>1, <4>2, <4>3
    <3>4. /\ gitResults' \in Seq(Results)
          /\ \A j \in 1..Len(gitResults') : gitResults'[j].status \in {gitResults'[j].dir, NoDir}
      BY <2>0, <3>2
    <3> QED BY <2>0, <3>1, <3>3, <3>4 DEF GitInv, StatusOfHere, TypeGit
  <2>4. CASE GitIntervalPasses
    <3>1. gitAge' = "due" /\ UNCHANGED <<cwd, gitShown, gitPending, gitReading, gitResults, moves, gitLost>>
      BY <2>4 DEF GitIntervalPasses
    <3> QED BY <2>0, <3>1 DEF GitInv, StatusOfHere, TypeGit
  <2>5. CASE UNCHANGED gitVars
    BY <2>0, <2>5 DEF gitVars, GitInv, StatusOfHere, TypeGit
  <2> QED BY <2>1, <2>2, <2>3, <2>4, <2>5 DEF NextGit
<1> QED BY <1>1, <1>2, PTL DEF WindowSpec

\* docs/features.md section 5.3, for any directories and any number of changes
\* and of threads: the header never shows the status of another directory.
THEOREM StatusStaysHere == WindowSpec => []StatusOfHere
<1>1. GitInv => StatusOfHere
  BY DEF GitInv
<1> QED BY <1>1, GitInvHolds, PTL

----
(* The usage Codex reports *)

\* What a line may be.
LEMMA LineIs ==
    ASSUME NEW line \in Lines
    PROVE  /\ line.id \in {NotAsked, 0, 1}
           /\ line.is \in {"notice", "garbled", "error", "nothing", "limits"}
           /\ line.is = "limits" => line.id = 1 /\ line.limits \in Answers
           /\ line.is \in {"notice", "garbled"} => line.id = NotAsked
           /\ line.is \in {"error", "nothing"} => line.id # NotAsked
<1>1. CASE line \in Plain
  <2>1. CASE line \in {[id |-> NotAsked, is |-> "notice"], [id |-> NotAsked, is |-> "garbled"]}
    BY <2>1 DEF NotAsked
  <2>2. CASE line \in [id : {0, 1}, is : {"error", "nothing"}]
    BY <2>2 DEF NotAsked
  <2> QED BY <1>1, <2>1, <2>2 DEF Plain
<1>2. CASE line \in Limited
  <2>1. PICK a \in Answers : line = [id |-> 1, is |-> "limits", limits |-> a]
    BY <1>2 DEF Limited
  <2> QED BY <2>1
<1> QED BY <1>1, <1>2 DEF Lines

\* What an app-server lets its reader know, by the first line that matters.
Dull(line) == line.is \in {"notice", "nothing"}

LEMMA NothingToKnow ==
    ASSUME NEW lines \in Seq(Lines), \A i \in 1..Len(lines) : lines[i].is # "limits"
    PROVE  LetKnow(lines) = NoLimits
  BY DEF LetKnow

LEMMA LetKnowIs ==
    ASSUME NEW lines \in Seq(Lines), NEW m \in 1..Len(lines), \A i \in 1..m - 1 : Dull(lines[i])
    PROVE  /\ lines[m].is = "limits" => LetKnow(lines) = Parsed(lines[m].limits)
           /\ lines[m].is \in {"garbled", "error"} => LetKnow(lines) = NoLimits
<1> DEFINE good == {i \in DOMAIN lines : /\ lines[i].is = "limits"
                                         /\ \A j \in 1..i : lines[j].is \notin {"garbled", "error"}}
<1>1. LetKnow(lines) = IF good = {} THEN NoLimits ELSE Parsed(lines[Min(good)].limits)
  BY DEF LetKnow
<1>2. good \subseteq Nat /\ \A i \in good : m <= i
  <2>1. ASSUME NEW i \in good PROVE i \in Nat /\ m <= i
    <3>1. i \in 1..Len(lines) /\ lines[i].is = "limits"
      OBVIOUS
    <3>2. ~(i < m)
      <4>1. i < m => i \in 1..m - 1
        BY <3>1
      <4> QED BY <3>1, <4>1 DEF Dull
    <3> QED BY <3>1, <3>2
  <2> QED BY <2>1
<1>3. ASSUME lines[m].is = "limits" PROVE LetKnow(lines) = Parsed(lines[m].limits)
  <2>1. m \in good
    <3>1. ASSUME NEW j \in 1..m PROVE lines[j].is \notin {"garbled", "error"}
      <4>1. j = m \/ j \in 1..m - 1
        OBVIOUS
      <4> QED BY <1>3, <4>1 DEF Dull
    <3> QED BY <1>3, <3>1
  <2>2. Min(good) \in good /\ \A i \in good : Min(good) <= i
    <3> HIDE DEF good
    <3> QED BY <1>2, <2>1, MinIs
  <2>3. PICK k \in Nat : k = Min(good) /\ k \in good /\ k <= m
    <3> HIDE DEF good
    <3> QED BY <1>2, <2>1, <2>2
  <2>4. k = m
    <3> HIDE DEF good
    <3> QED BY <1>2, <2>3
  <2> QED BY <1>1, <2>1, <2>3, <2>4
<1>4. ASSUME lines[m].is \in {"garbled", "error"} PROVE LetKnow(lines) = NoLimits
  <2>1. ASSUME NEW i \in good PROVE FALSE
    <3>1. m \in 1..i
      BY <1>2
    <3>2. lines[m].is \notin {"garbled", "error"}
      BY <3>1
    <3> QED BY <1>4, <3>2
  <2> QED BY <1>1, <2>1
<1> QED BY <1>3, <1>4

\* What is left is a percentage.
LEMMA RemainsPercent ==
    ASSUME NEW limits \in Outcomes, limits # NoLimits
    PROVE  Remaining(limits) \in 0..100
<1>1. PICK a \in Answers : limits = Parsed(a)
  BY DEF Outcomes
<1>2. PICK bucket \in Limits : /\ bucket = Bucket(a) /\ Windows(bucket) # {}
                               /\ limits = [primary |-> Clamped(bucket.primary),
                                            secondary |-> Clamped(bucket.secondary)]
  <2>1. ~(a.own = NoLimits \/ Windows(Bucket(a)) = {})
    BY <1>1 DEF Parsed
  <2>2. {a.own, a.codex, a.other} \subseteq Limits \cup {NoLimits}
    BY UsageAssumption
  <2>3. Bucket(a) \in Limits
    BY <2>1, <2>2 DEF Bucket
  <2> QED BY <1>1, <2>1, <2>3 DEF Parsed
<1>3. {bucket.primary, bucket.secondary} \subseteq Nat \cup {NoWindow}
  BY DEF Limits
<1>4. ASSUME NEW percent \in Nat \cup {NoWindow}
      PROVE  Clamped(percent) \in 0..100 \cup {NoWindow} /\ (Clamped(percent) = NoWindow => percent = NoWindow)
  <2>1. CASE percent = NoWindow
    BY <2>1 DEF Clamped
  <2>2. CASE percent \in Nat
    <3>1. percent # NoWindow /\ 100 # NoWindow
      BY <2>2, UsageAssumption
    <3> QED BY <2>2, <3>1 DEF Clamped
  <2> QED BY <2>1, <2>2
<1> DEFINE T == {100 - percent : percent \in Windows(limits)}
<1>5. Windows(limits) \subseteq 0..100 /\ Windows(limits) # {}
  <2>1. Windows(limits) = {Clamped(bucket.primary), Clamped(bucket.secondary)} \ {NoWindow}
    BY <1>2 DEF Windows
  <2>2. Windows(bucket) = {bucket.primary, bucket.secondary} \ {NoWindow}
    BY DEF Windows
  <2>3. PICK p, q : p = bucket.primary /\ q = bucket.secondary
    OBVIOUS
  <2>4. {Clamped(p), Clamped(q)} \subseteq 0..100 \cup {NoWindow}
    <3>1. p \in Nat \cup {NoWindow} /\ q \in Nat \cup {NoWindow}
      BY <1>3, <2>3
    <3> QED BY <1>4, <3>1
  <2>5. Clamped(p) # NoWindow \/ Clamped(q) # NoWindow
    BY <1>2, <1>3, <1>4, <2>2, <2>3
  <2> QED BY <2>1, <2>3, <2>4, <2>5
<1>6. T \subseteq 0..100 /\ T # {}
  <2>1. ASSUME NEW percent \in Windows(limits) PROVE 100 - percent \in 0..100
    BY <1>5
  <2> QED BY <1>5, <2>1
<1>7. Min(T) \in T
  <2>1. T \subseteq Nat
    BY <1>6
  <2> HIDE DEF T
  <2> QED BY <1>6, <2>1, MinIs
<1> QED BY <1>6, <1>7 DEF Remaining

\* The last element that is left of a sequence.
LEMMA LastAmong ==
    ASSUME NEW T, NEW s \in Seq(T), NEW S
    PROVE  /\ Among(s, S) = <<>> => \A i \in 1..Len(s) : s[i] \notin S
           /\ Among(s, S) # <<>> =>
                \E m \in 1..Len(s) : /\ s[m] \in S /\ Among(s, S)[Len(Among(s, S))] = s[m]
                                     /\ \A i \in 1..Len(s) : s[i] \in S => i <= m
<1>1. PICK c \in Nat : c = CountIn(s, S, Len(s)) /\ c = Len(Among(s, S))
  BY AmongIs, CountStep
<1>2. \A i \in 1..Len(s) : s[i] \in S => CountIn(s, S, i) \in 1..c
  BY <1>1, AmongIs
<1>3. Among(s, S) \in Seq(T) /\ (Among(s, S) = <<>> <=> c = 0)
  BY <1>1, AmongIs, EmptySeq
<1>4. ASSUME c # 0
      PROVE  \E m \in 1..Len(s) : /\ s[m] \in S /\ Among(s, S)[c] = s[m]
                                  /\ \A i \in 1..Len(s) : s[i] \in S => i <= m
  <2>1. c \in 1..c
    BY <1>4
  <2>2. PICK m \in 1..Len(s) : s[m] \in S /\ CountIn(s, S, m) = c /\ Among(s, S)[c] = s[m]
    BY <1>1, <2>1, AmongIs
  <2>3. ASSUME NEW i \in 1..Len(s), s[i] \in S PROVE i <= m
    <3>1. m < i => CountIn(s, S, m) < CountIn(s, S, i)
      BY <2>3, CountPasses
    <3>2. CountIn(s, S, i) \in 1..c
      BY <1>2, <2>3
    <3> QED BY <2>2, <3>1, <3>2
  <2> QED BY <2>2, <2>3
<1> QED BY <1>1, <1>2, <1>3, <1>4

\* Of what the app-server wrote the thread has read a part, in which there was
\* nothing of interest but the answer to its greeting.
HasRead(n) ==
    /\ unread = SubSeq(written, n + 1, Len(written))
    /\ \A i \in 1..n : Dull(written[i]) /\ written[i].id # 1
    /\ poll = "greeting" => /\ \A i \in 1..n : written[i].id # 0
                            /\ \A i \in 1..Len(written) : written[i].id # 1
    /\ poll = "asking" => \E i \in 1..n : written[i].id = 0

ReadingInv ==
    /\ TypeUsage
    /\ poll \in {"idle", "ended"} => child = "none" /\ written = <<>>
    /\ \E n \in 0..Len(written) : HasRead(n)
    /\ \A i, j \in 1..Len(written) :
          written[i].id = written[j].id /\ written[i].id # NotAsked => i = j

\* The results that were drained are the oldest ones.
ToldBy(b) ==
    LET told == {i \in 1..b : before[i] # NoLimits}
    IN  IF told = {} THEN NoLimits ELSE before[Max(told)]

Drawn(b) ==
    /\ Len(found) = Len(before) - b /\ \A i \in 1..Len(found) : found[i] = before[b + i]
    /\ usage = ToldBy(b)
    /\ b # 0 => (unavailable <=> before[b] = NoLimits)

ToldInv == \E b \in 0..Len(before) : Drawn(b)

LEMMA ToldSame ==
    ASSUME NEW b \in 0..Len(before), before \in Seq(Outcomes), before' \in Seq(Outcomes),
           Len(before) <= Len(before'), \A i \in 1..Len(before) : before'[i] = before[i]
    PROVE  ToldBy(b)' = ToldBy(b)
<1> DEFINE told == {i \in 1..b : before[i] # NoLimits}
<1>1. b \in Nat /\ \A i \in 1..b : i \in 1..Len(before)
  OBVIOUS
<1>2. {i \in 1..b : before'[i] # NoLimits} = told
  BY <1>1
<1>3. told # {} => Max(told) \in told
  <2>1. told \subseteq 0..b
    OBVIOUS
  <2> HIDE DEF told
  <2> QED BY <1>1, <2>1, MaxIs
<1>4. told # {} => before'[Max(told)] = before[Max(told)]
  BY <1>1, <1>3
<1> QED BY <1>2, <1>4 DEF ToldBy

\* A poll that ends lets know what the app-server did.
LEMMA PollEndsTold ==
    ASSUME ReadingInv, ToldInv, NEW result \in Outcomes, result = LetKnow(written), PollEnds(result),
           UNCHANGED <<usage, unavailable>>
    PROVE  ReadingInv' /\ ToldInv'
<1>1. /\ poll' = "idle" /\ child' = "none" /\ found' = Append(found, result)
      /\ before' = Append(before, result) /\ unread' = <<>> /\ written' = <<>>
  BY DEF PollEnds
<1>2. /\ before \in Seq(Outcomes) /\ found \in Seq(Outcomes) /\ usage \in Outcomes
      /\ unavailable \in BOOLEAN
  BY DEF ReadingInv, TypeUsage
<1>3. /\ before' \in Seq(Outcomes) /\ found' \in Seq(Outcomes)
      /\ Len(before') = Len(before) + 1 /\ Len(found') = Len(found) + 1
      /\ \A i \in 1..Len(before) : before'[i] = before[i]
      /\ \A i \in 1..Len(found) : found'[i] = found[i]
      /\ before'[Len(before) + 1] = result /\ found'[Len(found) + 1] = result
  BY <1>1, <1>2
<1>4. ReadingInv'
  <2>1. TypeUsage'
    <3>1. unread' \in Seq(Lines) /\ written' \in Seq(Lines)
      BY <1>1
    <3> QED BY <1>1, <1>2, <1>3, <3>1 DEF TypeUsage
  <2>2. Len(written') = 0 /\ unread' = SubSeq(written', 0 + 1, Len(written'))
    BY <1>1
  <2>3. HasRead(0)'
    BY <1>1, <2>2 DEF HasRead
  <2> QED BY <1>1, <2>1, <2>2, <2>3 DEF ReadingInv
<1>5. PICK b \in 0..Len(before) : Drawn(b)
  BY DEF ToldInv
<1>6. Drawn(b)'
  <2>1. Len(found') = Len(before') - b
    BY <1>2, <1>3, <1>5 DEF Drawn
  <2>2. ASSUME NEW i \in 1..Len(found') PROVE found'[i] = before'[b + i]
    <3>1. CASE i \in 1..Len(found)
      <4>1. b + i \in 1..Len(before) /\ found[i] = before[b + i]
        BY <1>2, <1>5, <3>1 DEF Drawn
      <4> QED BY <1>3, <3>1, <4>1
    <3>2. CASE i = Len(found) + 1
      <4>1. b + i = Len(before) + 1
        BY <1>2, <1>5, <3>2 DEF Drawn
      <4> QED BY <1>3, <3>2, <4>1
    <3> QED BY <1>2, <1>3, <3>1, <3>2
  <2>3. usage' = ToldBy(b)'
    BY <1>2, <1>3, <1>5, ToldSame DEF Drawn
  <2>4. b # 0 => (unavailable' <=> before'[b] = NoLimits)
    <3>1. b # 0 => b \in 1..Len(before)
      BY <1>2
    <3> QED BY <1>3, <1>5, <3>1 DEF Drawn
  <2> QED BY <2>1, <2>2, <2>3, <2>4 DEF Drawn
<1>7. b \in 0..Len(before')
  BY <1>2, <1>3
<1> QED BY <1>4, <1>6, <1>7 DEF ToldInv

\* The other steps leave what was told.
LEMMA ToldStays ==
    ASSUME ToldInv, UNCHANGED <<before, found, usage, unavailable>> PROVE ToldInv'
  BY DEF ToldInv, Drawn, ToldBy

\* A line is read and does not end the poll.
LEMMA LineIsRead ==
    ASSUME ReadingInv, NEW n \in 0..Len(written), HasRead(n), unread # <<>>
    PROVE  /\ n + 1 \in 1..Len(written) /\ Head(unread) = written[n + 1] /\ Head(unread) \in Lines
           /\ Tail(unread) = SubSeq(written, (n + 1) + 1, Len(written)) /\ Tail(unread) \in Seq(Lines)
<1>1. written \in Seq(Lines) /\ unread \in Seq(Lines)
  BY DEF ReadingInv, TypeUsage
<1>2. unread = SubSeq(written, n + 1, Len(written))
  BY DEF HasRead
<1>3. PICK k \in Nat : k = Len(written)
  BY <1>1
<1>4. n < k
  <2>1. n = k => SubSeq(written, n + 1, k) = <<>>
    BY <1>1, <1>3
  <2> QED BY <1>2, <1>3, <2>1
<1>5. n + 1 \in 1..k
  BY <1>4
<1>6. Len(unread) = k - n /\ \A i \in 1..k - n : unread[i] = written[n + i]
  BY <1>1, <1>2, <1>3, <1>5
<1>7. Head(unread) = written[n + 1]
  BY <1>1, <1>5, <1>6
<1>8. PICK rest \in Seq(Lines) :
         rest = SubSeq(written, (n + 1) + 1, k) /\ Len(rest) = k - (n + 1)
         /\ \A i \in 1..k - (n + 1) : rest[i] = written[(n + 1) + i]
  <2>1. (n + 1) + 1 \in 1..k + 1 /\ k - ((n + 1) + 1) + 1 = k - (n + 1)
    BY <1>5
  <2>2. PICK h \in 1..k + 1 : h = (n + 1) + 1
    BY <2>1
  <2>3. /\ SubSeq(written, h, k) \in Seq(Lines) /\ Len(SubSeq(written, h, k)) = k - h + 1
        /\ \A i \in 1..k - h + 1 : SubSeq(written, h, k)[i] = written[h + i - 1]
    BY <1>1, <1>3
  <2>4. \A i \in 1..k - (n + 1) : h + i - 1 = (n + 1) + i
    BY <2>2
  <2>5. k - h + 1 = k - (n + 1)
    BY <2>1, <2>2
  <2>6. /\ SubSeq(written, h, k) \in Seq(Lines) /\ Len(SubSeq(written, h, k)) = k - (n + 1)
        /\ \A i \in 1..k - (n + 1) : SubSeq(written, h, k)[i] = written[(n + 1) + i]
    BY <2>3, <2>4, <2>5
  <2> QED BY <2>2, <2>6
<1>9. /\ Tail(unread) \in Seq(Lines) /\ Len(Tail(unread)) = k - (n + 1)
      /\ \A i \in 1..k - (n + 1) : Tail(unread)[i] = written[(n + 1) + i]
  BY <1>1, <1>5, <1>6
<1>10. Tail(unread) = rest
  BY <1>8, <1>9, SeqEqual
<1> QED BY <1>1, <1>3, <1>5, <1>7, <1>8, <1>9, <1>10

LEMMA ReadLineTold ==
    ASSUME ReadingInv, ToldInv, ReadLine PROVE ReadingInv' /\ ToldInv'
<1>1. PICK n \in 0..Len(written) : HasRead(n)
  BY DEF ReadingInv
<1>2. poll \in {"greeting", "asking"} /\ unread # <<>> /\ UNCHANGED <<usage, unavailable>>
  BY DEF ReadLine
<1>3. /\ n + 1 \in 1..Len(written) /\ Head(unread) = written[n + 1] /\ Head(unread) \in Lines
      /\ Tail(unread) = SubSeq(written, (n + 1) + 1, Len(written)) /\ Tail(unread) \in Seq(Lines)
  BY <1>1, <1>2, LineIsRead
<1>4. PICK line \in Lines : line = Head(unread) /\ line = written[n + 1]
  BY <1>3
<1>5. TypeUsage /\ written \in Seq(Lines)
  BY DEF ReadingInv, TypeUsage
<1>6. \A i \in 1..Len(written) : written[i] \in Lines
  BY <1>5
<1>7. \A i \in 1..(n + 1) - 1 : Dull(written[i])
  BY <1>1 DEF HasRead
<1>8. NoLimits \in Outcomes
  BY DEF Outcomes
<1>9. CASE line.is \in {"garbled", "error"} /\ PollEnds(NoLimits)
  <2>1. LetKnow(written) = NoLimits
    BY <1>3, <1>4, <1>5, <1>7, <1>9, LetKnowIs
  <2> QED BY <1>2, <1>8, <1>9, <2>1, PollEndsTold
<1>10. CASE /\ line.is # "garbled" /\ line.id # Expected /\ unread' = Tail(unread)
            /\ UNCHANGED <<poll, child, written, before, found>>
  <2>1. line.id = NotAsked
    <3>1. CASE poll = "greeting"
      BY <1>1, <1>3, <1>4, <1>10, <3>1, LineIs DEF HasRead, Expected
    <3>2. CASE poll = "asking"
      <4>1. line.id # 1
        BY <1>10, <3>2 DEF Expected
      <4>2. PICK i \in 1..n : written[i].id = 0
        BY <1>1, <3>2 DEF HasRead
      <4>3. i \in 1..Len(written) /\ i # n + 1 /\ 0 # NotAsked
        BY <1>3 DEF NotAsked
      <4>4. line.id # 0
        BY <1>3, <1>4, <4>2, <4>3 DEF ReadingInv
      <4> QED BY <1>4, <4>1, <4>4, LineIs
    <3> QED BY <1>2, <3>1, <3>2
  <2>2. Dull(line) /\ line.id # 1 /\ line.id # 0
    <3>1. line.is = "notice"
      BY <1>4, <1>10, <2>1, LineIs DEF NotAsked
    <3> QED BY <2>1, <3>1 DEF Dull, NotAsked
  <2>3. \A i \in 1..n + 1 : i \in 1..n \/ i = n + 1
    OBVIOUS
  <2>4. HasRead(n + 1)'
    BY <1>1, <1>3, <1>4, <1>10, <2>2, <2>3 DEF HasRead
  <2>5. TypeUsage'
    BY <1>2, <1>3, <1>5, <1>10 DEF TypeUsage
  <2>6. ReadingInv'
    BY <1>2, <1>3, <1>10, <2>4, <2>5 DEF ReadingInv
  <2> QED BY <1>2, <1>10, <2>6, ToldStays
<1>11. CASE /\ line.is \notin {"garbled", "error"} /\ line.id = Expected
            /\ poll = "greeting" /\ Ask
  <2>1. line.id = 0 /\ line.is = "nothing"
    <3>1. line.id = 0
      BY <1>11 DEF Expected
    <3> QED BY <1>4, <1>11, <3>1, LineIs DEF NotAsked
  <2>2. CASE child = "dead"
    <3>1. \A i \in 1..Len(written) : written[i].is # "limits"
      BY <1>1, <1>6, <1>11, LineIs DEF HasRead
    <3>2. LetKnow(written) = NoLimits
      BY <1>5, <3>1, NothingToKnow
    <3>3. PollEnds(NoLimits)
      BY <1>11, <2>2 DEF Ask
    <3> QED BY <1>2, <1>8, <3>2, <3>3, PollEndsTold
  <2>3. CASE child # "dead"
    <3>1. poll' = "asking" /\ unread' = Tail(unread) /\ UNCHANGED <<child, written, before, found>>
      BY <1>11, <2>3 DEF Ask
    <3>2. \A i \in 1..n + 1 : i \in 1..n \/ i = n + 1
      OBVIOUS
    <3>3. n + 1 \in 1..n + 1
      OBVIOUS
    <3>4. Dull(line) /\ line.id # 1
      BY <2>1 DEF Dull
    <3>5. HasRead(n + 1)'
      BY <1>1, <1>3, <1>4, <2>1, <3>1, <3>2, <3>3, <3>4 DEF HasRead
    <3>6. TypeUsage'
      BY <1>2, <1>3, <1>5, <3>1 DEF TypeUsage
    <3>7. ReadingInv'
      BY <1>3, <3>1, <3>5, <3>6 DEF ReadingInv
    <3> QED BY <1>2, <3>1, <3>7, ToldStays
  <2> QED BY <2>2, <2>3
<1>12. CASE /\ line.is \notin {"garbled", "error"} /\ line.id = Expected /\ poll = "asking"
            /\ PollEnds(IF line.is = "limits" THEN Parsed(line.limits) ELSE NoLimits)
  <2>1. line.id = 1
    BY <1>12 DEF Expected
  <2>2. CASE line.is = "limits"
    <3>1. LetKnow(written) = Parsed(line.limits)
      BY <1>3, <1>4, <1>5, <1>7, <2>2, LetKnowIs
    <3>2. Parsed(line.limits) \in Outcomes
      BY <1>4, <2>2, LineIs DEF Outcomes
    <3>3. PollEnds(Parsed(line.limits))
      BY <1>12, <2>2
    <3> QED BY <1>2, <3>1, <3>2, <3>3, PollEndsTold
  <2>3. CASE line.is # "limits"
    <3>1. ASSUME NEW i \in 1..Len(written) PROVE written[i].is # "limits"
      <4>1. written[i].is = "limits" => written[i].id = 1
        BY <1>6, LineIs
      <4>2. written[i].id = 1 => i = n + 1
        BY <1>3, <1>4, <2>1 DEF ReadingInv, NotAsked
      <4> QED BY <1>4, <2>3, <4>1, <4>2
    <3>2. LetKnow(written) = NoLimits
      BY <1>5, <3>1, NothingToKnow
    <3>3. PollEnds(NoLimits)
      BY <1>12, <2>3
    <3> QED BY <1>2, <1>8, <3>2, <3>3, PollEndsTold
  <2> QED BY <2>2, <2>3
<1> QED BY <1>2, <1>4, <1>9, <1>10, <1>11, <1>12 DEF ReadLine, AnswersIt

LEMMA CodexWritesTold ==
    ASSUME ReadingInv, ToldInv, CodexWrites PROVE ReadingInv' /\ ToldInv'
<1>1. PICK line \in Lines :
         /\ line.id # NotAsked => /\ line.id <= Expected
                                  /\ \A i \in DOMAIN written : written[i].id # line.id
         /\ unread' = Append(unread, line) /\ written' = Append(written, line)
  BY DEF CodexWrites
<1>2. /\ child = "up" /\ UNCHANGED <<poll, child, found, usage, unavailable, before>>
  BY DEF CodexWrites
<1>3. poll \in {"greeting", "asking"}
  BY <1>2 DEF ReadingInv, TypeUsage
<1>4. PICK n \in 0..Len(written) : HasRead(n)
  BY DEF ReadingInv
<1>5. written \in Seq(Lines) /\ unread \in Seq(Lines) /\ Len(written) \in Nat
  BY DEF ReadingInv, TypeUsage
<1>6. /\ written' \in Seq(Lines) /\ Len(written') = Len(written) + 1
      /\ \A i \in 1..Len(written) : written'[i] = written[i]
      /\ written'[Len(written) + 1] = line /\ unread' \in Seq(Lines)
  BY <1>1, <1>5
<1>7. unread' = SubSeq(written', n + 1, Len(written'))
  <2>1. /\ unread = SubSeq(written, n + 1, Len(written)) /\ Len(unread) = Len(written) - n
        /\ \A i \in 1..Len(written) - n : unread[i] = written[n + i]
    BY <1>4, <1>5 DEF HasRead
  <2>2. PICK k \in Nat : k = Len(written) - n
    <3>1. Len(written) - n \in Nat
      BY <1>5
    <3> QED BY <3>1
  <2>3. PICK rest \in Seq(Lines) :
           /\ rest = SubSeq(written', n + 1, Len(written')) /\ Len(rest) = k + 1
           /\ \A i \in 1..k + 1 : rest[i] = written'[n + i]
    <3>1. n + 1 \in 1..Len(written') /\ Len(written') - (n + 1) + 1 = k + 1
      BY <1>5, <1>6, <2>2
    <3>2. /\ SubSeq(written', n + 1, Len(written')) \in Seq(Lines)
          /\ Len(SubSeq(written', n + 1, Len(written'))) = k + 1
          /\ \A i \in 1..k + 1 : SubSeq(written', n + 1, Len(written'))[i] = written'[n + i]
      BY <1>6, <3>1
    <3> QED BY <3>2
  <2>4. Len(unread') = k + 1
    BY <1>1, <1>5, <2>1, <2>2
  <2>5. ASSUME NEW i \in 1..k + 1 PROVE unread'[i] = written'[n + i]
    <3>1. CASE i \in 1..k
      <4>1. unread'[i] = unread[i] /\ n + i \in 1..Len(written)
        BY <1>1, <1>5, <2>1, <2>2, <3>1
      <4> QED BY <1>6, <2>1, <2>2, <3>1, <4>1
    <3>2. CASE i = k + 1
      <4>1. n + i = Len(written) + 1 /\ i = Len(unread) + 1
        BY <1>5, <2>1, <2>2, <3>2
      <4>2. Append(unread, line)[Len(unread) + 1] = line
        BY <1>5
      <4>3. unread'[i] = line
        BY <1>1, <4>1, <4>2
      <4> QED BY <1>6, <4>1, <4>3
    <3> QED BY <3>1, <3>2
  <2>6. unread' = rest
    BY <1>6, <2>3, <2>4, <2>5, SeqEqual
  <2> QED BY <2>3, <2>6
<1>8. poll = "greeting" => line.id # 1
  BY <1>1 DEF Expected, NotAsked
<1>9. \A i \in 1..n : i \in 1..Len(written)
  BY <1>5
<1>10. \A i \in 1..Len(written') : i \in 1..Len(written) \/ i = Len(written) + 1
  BY <1>5, <1>6
<1>11. HasRead(n)'
  <2>1. \A i \in 1..n : Dull(written'[i]) /\ written'[i].id # 1
    BY <1>4, <1>6, <1>9 DEF HasRead
  <2>2. poll = "greeting" => /\ \A i \in 1..n : written'[i].id # 0
                             /\ \A i \in 1..Len(written') : written'[i].id # 1
    BY <1>4, <1>6, <1>8, <1>9, <1>10 DEF HasRead
  <2>3. poll = "asking" => \E i \in 1..n : written'[i].id = 0
    BY <1>4, <1>6, <1>9 DEF HasRead
  <2> QED BY <1>2, <1>7, <2>1, <2>2, <2>3 DEF HasRead
<1>12. ASSUME NEW i \in 1..Len(written'), NEW j \in 1..Len(written'),
              written'[i].id = written'[j].id, written'[i].id # NotAsked
       PROVE  i = j
  <2>1. CASE i \in 1..Len(written) /\ j \in 1..Len(written)
    BY <1>6, <1>12, <2>1 DEF ReadingInv
  <2>2. CASE i \in 1..Len(written) /\ j = Len(written) + 1
    <3>1. written[i].id = line.id /\ line.id # NotAsked /\ i \in DOMAIN written
      BY <1>5, <1>6, <1>12, <2>2
    <3> QED BY <1>1, <3>1
  <2>3. CASE i = Len(written) + 1 /\ j \in 1..Len(written)
    <3>1. written[j].id = line.id /\ line.id # NotAsked /\ j \in DOMAIN written
      BY <1>5, <1>6, <1>12, <2>3
    <3> QED BY <1>1, <3>1
  <2> QED BY <1>10, <2>1, <2>2, <2>3
<1>13. TypeUsage'
  BY <1>2, <1>6 DEF TypeUsage, ReadingInv
<1>14. n \in 0..Len(written')
  BY <1>5, <1>6
<1>15. poll' \notin {"idle", "ended"}
  BY <1>2, <1>3
<1>16. ReadingInv'
  BY <1>11, <1>12, <1>13, <1>14, <1>15 DEF ReadingInv
<1> QED BY <1>2, <1>16, ToldStays

LEMMA DrawUsageTold ==
    ASSUME ReadingInv, ToldInv, DrawUsage PROVE ReadingInv' /\ ToldInv'
<1> DEFINE good == Among(found, Outcomes \ {NoLimits})
<1>1. /\ found # <<>> /\ found' = <<>> /\ UNCHANGED <<poll, child, unread, written, before>>
      /\ usage' = (IF good = <<>> THEN usage ELSE good[Len(good)])
      /\ unavailable' = (found[Len(found)] = NoLimits)
  BY DEF DrawUsage
<1>2. /\ found \in Seq(Outcomes) /\ before \in Seq(Outcomes) /\ usage \in Outcomes
      /\ NoLimits \in Outcomes
  BY DEF ReadingInv, TypeUsage, Outcomes
<1>3. PICK b \in 0..Len(before) : Drawn(b)
  BY DEF ToldInv
<1>4. PICK k \in Nat \ {0} : k = Len(found) /\ Len(before) = b + k
  <2>1. Len(found) \in Nat \ {0} /\ Len(before) \in Nat
    BY <1>1, <1>2, EmptySeq
  <2>2. Len(found) = Len(before) - b
    BY <1>3 DEF Drawn
  <2>3. Len(before) = b + Len(found)
    BY <2>1, <2>2
  <2> QED BY <2>1, <2>3
<1>5. \A i \in 1..k : found[i] \in Outcomes /\ found[i] = before[b + i]
  BY <1>2, <1>3, <1>4 DEF Drawn
<1> DEFINE told(n) == {i \in 1..n : before[i] # NoLimits}
<1>6. usage = IF told(b) = {} THEN NoLimits ELSE before[Max(told(b))]
  BY <1>3 DEF Drawn, ToldBy
<1>7. usage' = IF told(b + k) = {} THEN NoLimits ELSE before[Max(told(b + k))]
  <2>1. CASE good = <<>>
    <3>1. \A i \in 1..k : found[i] = NoLimits
      BY <1>2, <1>4, <1>5, <2>1, LastAmong
    <3>2. ASSUME NEW i \in 1..b + k, before[i] # NoLimits PROVE i \in 1..b
      <4>1. ~(i \in 1..b) => i - b \in 1..k /\ b + (i - b) = i
        OBVIOUS
      <4> QED BY <1>5, <3>1, <3>2, <4>1
    <3>3. told(b + k) = told(b)
      BY <3>2
    <3> HIDE DEF told
    <3> QED BY <1>1, <1>6, <2>1, <3>3
  <2>2. CASE good # <<>>
    <3>1. PICK m \in 1..k : /\ found[m] # NoLimits /\ good[Len(good)] = found[m]
                            /\ \A i \in 1..k : found[i] # NoLimits => i <= m
      <4>1. PICK m \in 1..Len(found) :
               /\ found[m] \in Outcomes \ {NoLimits} /\ good[Len(good)] = found[m]
               /\ \A i \in 1..Len(found) : found[i] \in Outcomes \ {NoLimits} => i <= m
        BY <1>2, <2>2, LastAmong
      <4> QED BY <1>4, <1>5, <4>1
    <3>2. b + m \in told(b + k)
      BY <1>5, <3>1
    <3>3. ASSUME NEW i \in told(b + k) PROVE i <= b + m
      <4>1. i > b => i - b \in 1..k /\ b + (i - b) = i
        OBVIOUS
      <4>2. i > b => i - b <= m
        BY <1>5, <3>1, <4>1
      <4> QED BY <4>2
    <3>4. told(b + k) \subseteq 0..b + k /\ b + k \in Nat
      OBVIOUS
    <3> HIDE DEF told
    <3>5. PICK x \in Nat : x = Max(told(b + k)) /\ x \in told(b + k) /\ b + m <= x
      BY <3>2, <3>4, MaxIs
    <3>6. x = b + m
      BY <3>3, <3>5
    <3> QED BY <1>1, <1>5, <2>2, <3>1, <3>2, <3>5, <3>6
  <2> QED BY <2>1, <2>2
<1>8. unavailable' <=> before[b + k] = NoLimits
  <2>1. k \in 1..k
    OBVIOUS
  <2>2. found[k] = before[b + k]
    BY <1>5, <2>1
  <2> QED BY <1>1, <1>4, <2>2
<1>9. Drawn(b + k)'
  <2>1. Len(found') = 0 /\ Len(before') = b + k
    BY <1>1, <1>4
  <2>2. usage' = ToldBy(b + k)'
    BY <1>1, <1>7 DEF ToldBy
  <2> QED BY <1>1, <1>8, <2>1, <2>2 DEF Drawn
<1>10. ReadingInv'
  <2>1. usage' \in Outcomes
    <3>1. told(b + k) \subseteq 0..b + k /\ b + k \in Nat /\ told(b + k) \subseteq 1..Len(before)
      BY <1>4
    <3> HIDE DEF told
    <3>2. told(b + k) # {} => Max(told(b + k)) \in 1..Len(before)
      BY <3>1, MaxIs
    <3>3. \A i \in 1..Len(before) : before[i] \in Outcomes
      BY <1>2
    <3> QED BY <1>2, <1>7, <3>2, <3>3
  <2>2. found' \in Seq(Outcomes)
    BY <1>1
  <2>3. unavailable' \in BOOLEAN
    BY <1>1
  <2>4. TypeUsage'
    BY <1>1, <2>1, <2>2, <2>3 DEF TypeUsage, ReadingInv
  <2> QED BY <1>1, <2>4 DEF ReadingInv, HasRead
<1> QED BY <1>1, <1>4, <1>9, <1>10 DEF ToldInv

LEMMA UsageStep ==
    ASSUME ReadingInv, ToldInv, [NextUsage]_usageVars PROVE ReadingInv' /\ ToldInv'
<1>1. CASE BeginPoll
  <2>1. poll = "idle" /\ UNCHANGED <<usage, unavailable>>
    BY <1>1 DEF BeginPoll
  <2>2. written = <<>> /\ written \in Seq(Lines) /\ Len(written) = 0
    BY <2>1 DEF ReadingInv, TypeUsage
  <2>3. CASE PollEnds(NoLimits)
    <3>1. LetKnow(written) = NoLimits
      <4>1. \A i \in 1..Len(written) : written[i].is # "limits"
        BY <2>2
      <4> QED BY <2>2, <4>1, NothingToKnow
    <3>2. NoLimits \in Outcomes
      BY DEF Outcomes
    <3> QED BY <2>1, <2>3, <3>1, <3>2, PollEndsTold
  <2>4. CASE poll' = "greeting" /\ child' = "up" /\ UNCHANGED <<unread, written, before, found>>
    <3>1. HasRead(0)'
      <4>1. PICK n \in 0..Len(written) : HasRead(n)
        BY DEF ReadingInv
      <4>2. n = 0
        BY <2>2
      <4> QED BY <2>2, <2>4, <4>1, <4>2 DEF HasRead
    <3>2. TypeUsage'
      BY <2>1, <2>4 DEF TypeUsage, ReadingInv
    <3>3. ReadingInv'
      BY <2>2, <2>4, <3>1, <3>2 DEF ReadingInv
    <3> QED BY <2>1, <2>4, <3>3, ToldStays
  <2> QED BY <1>1, <2>3, <2>4 DEF BeginPoll
<1>2. CASE ReadEnd
  <2>1. unread = <<>> /\ PollEnds(NoLimits) /\ UNCHANGED <<usage, unavailable>>
    BY <1>2 DEF ReadEnd
  <2>2. PICK n \in 0..Len(written) : HasRead(n)
    BY DEF ReadingInv
  <2>3. written \in Seq(Lines) /\ Len(written) \in Nat
    BY DEF ReadingInv, TypeUsage
  <2>4. n = Len(written)
    <3>1. ~(n < Len(written))
      <4>1. ASSUME n < Len(written) PROVE Len(SubSeq(written, n + 1, Len(written))) # 0
        <5>1. n + 1 \in 1..Len(written)
          BY <2>3, <4>1
        <5>2. Len(SubSeq(written, n + 1, Len(written))) = Len(written) - (n + 1) + 1
          BY <2>3, <5>1
        <5> QED BY <4>1, <5>2
      <4>2. Len(unread) = 0
        BY <2>1
      <4> QED BY <2>2, <4>1, <4>2 DEF HasRead
    <3> QED BY <2>3, <3>1
  <2>5. LetKnow(written) = NoLimits
    BY <2>2, <2>3, <2>4, NothingToKnow DEF HasRead, Dull
  <2>6. NoLimits \in Outcomes
    BY DEF Outcomes
  <2> QED BY <2>1, <2>5, <2>6, PollEndsTold
<1>3. CASE CodexDies
  <2>1. /\ child = "up" /\ child' = "dead"
        /\ UNCHANGED <<poll, unread, found, usage, unavailable, written, before>>
    BY <1>3 DEF CodexDies
  <2>2. poll \notin {"idle", "ended"}
    BY <2>1 DEF ReadingInv
  <2>3. TypeUsage'
    BY <2>1 DEF TypeUsage, ReadingInv
  <2>4. ReadingInv'
    BY <2>1, <2>2, <2>3 DEF ReadingInv, HasRead
  <2> QED BY <2>1, <2>4, ToldStays
<1>4. CASE UNCHANGED usageVars
  <2>1. UNCHANGED <<poll, child, unread, found, usage, unavailable, written, before>>
    BY <1>4 DEF usageVars
  <2>2. ReadingInv'
    BY <2>1 DEF ReadingInv, TypeUsage, HasRead
  <2> QED BY <2>1, <2>2, ToldStays
<1> QED BY <1>1, <1>2, <1>3, <1>4, ReadLineTold, CodexWritesTold, DrawUsageTold DEF NextUsage

LEMMA UsageInvHolds == WindowSpec => [](ReadingInv /\ ToldInv)
<1>1. WindowInit => ReadingInv /\ ToldInv
  <2> SUFFICES ASSUME InitUsage PROVE ReadingInv /\ ToldInv
    BY DEF WindowInit
  <2>1. /\ poll \in {"idle", "ended"} /\ child = "none" /\ usage = NoLimits /\ unread = <<>>
        /\ found = <<>> /\ written = <<>> /\ before = <<>> /\ unavailable = (poll = "ended")
    BY DEF InitUsage
  <2>2. Len(written) = 0 /\ Len(found) = 0 /\ Len(before) = 0
    BY <2>1
  <2>3. TypeUsage
    <3>1. unread \in Seq(Lines) /\ written \in Seq(Lines) /\ found \in Seq(Outcomes) /\ before \in Seq(Outcomes)
      BY <2>1
    <3>2. usage \in Outcomes /\ unavailable \in BOOLEAN
      BY <2>1 DEF Outcomes
    <3> QED BY <2>1, <3>1, <3>2 DEF TypeUsage
  <2>4. HasRead(0)
    <3>1. unread = SubSeq(written, 0 + 1, Len(written))
      BY <2>1, <2>2
    <3> QED BY <2>1, <2>2, <3>1 DEF HasRead
  <2>5. Drawn(0)
    <3>1. {i \in 1..0 : before[i] # NoLimits} = {}
      OBVIOUS
    <3> QED BY <2>1, <2>2, <3>1 DEF Drawn, ToldBy
  <2> QED BY <2>1, <2>2, <2>3, <2>4, <2>5 DEF ReadingInv, ToldInv
<1>2. ReadingInv /\ ToldInv /\ [WindowNext]_windowVars => (ReadingInv /\ ToldInv)'
  BY StepsOfParts, UsageStep
<1> QED BY <1>1, <1>2, PTL DEF WindowSpec

\* "Live" or "Reconnecting, showing last update", for any answers and any number
\* of polls and lines, whenever the app-server refuses, dies or says something
\* else: once the results are drained, the panel has what was told last.
THEOREM UsageStaysAsTold == WindowSpec => []UsageAsTold
<1>1. ReadingInv /\ ToldInv => UsageAsTold
  <2> SUFFICES ASSUME ReadingInv, ToldInv PROVE UsageAsTold
    OBVIOUS
  <2>1. TypeUsage /\ usage \in Outcomes /\ before \in Seq(Outcomes)
    BY DEF ReadingInv, TypeUsage
  <2>2. usage # NoLimits => Remaining(usage) \in 0..100
    BY <2>1, RemainsPercent
  <2>3. ASSUME found = <<>>, before # <<>>
        PROVE  LET told == {i \in DOMAIN before : before[i] # NoLimits}
               IN  /\ usage = IF told = {} THEN NoLimits ELSE before[Max(told)]
                   /\ unavailable <=> Len(before) \notin told
    <3>1. PICK b \in 0..Len(before) : Drawn(b)
      BY DEF ToldInv
    <3>2. b = Len(before) /\ b # 0 /\ DOMAIN before = 1..b
      BY <2>1, <2>3, <3>1, EmptySeq DEF Drawn
    <3>3. usage = ToldBy(b) /\ (unavailable <=> before[b] = NoLimits) /\ b \in 1..b
      BY <3>1, <3>2 DEF Drawn
    <3> QED BY <3>2, <3>3 DEF ToldBy
  <2> QED BY <2>1, <2>2, <2>3 DEF UsageAsTold
<1> QED BY <1>1, UsageInvHolds, PTL

\* What the header and the title bar say, for any directories, threads, answers
\* and polls: it is never about another directory, and is what Codex told last.
THEOREM HeaderStaysTrue == WindowSpec => []HeaderTells
<1>1. StatusOfHere /\ UsageAsTold => HeaderTells
  BY DEF HeaderTells
<1> QED BY <1>1, StatusStaysHere, UsageStaysAsTold, PTL

----
(* Loops *)

\* What holds at first and stays holds for ever.
LEMMA HoldsForEver ==
    ASSUME NEW J \in SUBSET Nat, 0 \in J, \A n \in J : n + 1 \in J
    PROVE  J = Nat
<1>1. SUFFICES ASSUME Nat \ J # {} PROVE FALSE
  OBVIOUS
<1>2. PICK m \in Nat \ J : \A k \in Nat \ J : m <= k
  <2>1. (Nat \ J) \in SUBSET Nat
    OBVIOUS
  <2> QED BY <1>1, <2>1, LeastNumber
<1>3. m # 0 /\ m - 1 \in Nat /\ ~(m <= m - 1) /\ (m - 1) + 1 = m
  BY <1>2
<1>4. m - 1 \in J
  BY <1>2, <1>3
<1> QED BY <1>2, <1>3, <1>4

\* The rounds of a loop exist.
AreRounds(g, f, x) == g[0] = x /\ \A n \in Nat : g[n + 1] = f[g[n]]

LEMMA LoopExists ==
    ASSUME NEW D, NEW f, f \in [D -> D], NEW x, x \in D
    PROVE  \E g : g \in [Nat -> D] /\ AreRounds(g, f, x)
<1> DEFINE Runs(h, n) == h[0] = x /\ \A k \in 1..n : h[k] = f[h[k - 1]]
           J          == {n \in Nat : \E h \in [0..n -> D] : Runs(h, n)}
<1>1. J = Nat
  <2>1. 0 \in J
    <3>1. [i \in 0..0 |-> x] \in [0..0 -> D] /\ Runs([i \in 0..0 |-> x], 0)
      OBVIOUS
    <3> QED BY <3>1
  <2>2. ASSUME NEW n \in J PROVE n + 1 \in J
    <3>1. PICK h \in [0..n -> D] : Runs(h, n)
      BY <2>2
    <3> DEFINE hh == [i \in 0..n + 1 |-> IF i = n + 1 THEN f[h[n]] ELSE h[i]]
    <3>2. n \in Nat /\ hh \in [0..n + 1 -> D]
      <4>1. ASSUME NEW i \in 0..n + 1, i # n + 1 PROVE i \in 0..n
        BY <4>1
      <4> QED BY <4>1
    <3>3. \A i \in 0..n : hh[i] = h[i]
      BY <3>2
    <3>4. hh[n + 1] = f[h[n]]
      BY <3>2
    <3>5. Runs(hh, n + 1)
      <4> HIDE DEF hh
      <4>1. hh[0] = x
        BY <3>1, <3>2, <3>3
      <4>2. ASSUME NEW k \in 1..n + 1 PROVE hh[k] = f[hh[k - 1]]
        <5>1. CASE k = n + 1
          <6>1. k - 1 = n /\ n \in 0..n
            BY <3>2, <5>1
          <6> QED BY <3>3, <3>4, <5>1, <6>1
        <5>2. CASE k # n + 1
          <6>1. k \in 1..n /\ k \in 0..n /\ k - 1 \in 0..n
            BY <3>2, <5>2
          <6> QED BY <3>1, <3>3, <6>1
        <5> QED BY <5>1, <5>2
      <4> QED BY <4>1, <4>2
    <3>6. n + 1 \in Nat
      BY <3>2
    <3> HIDE DEF Runs, hh
    <3> QED BY <3>2, <3>5, <3>6
  <2> HIDE DEF J
  <2>3. J \in SUBSET Nat
    BY DEF J
  <2> QED BY <2>1, <2>2, <2>3, HoldsForEver
<1>2. PICK R : \A n \in Nat : R[n] \in [0..n -> D] /\ Runs(R[n], n)
  <2>1. \A n \in Nat : \E h \in [0..n -> D] : Runs(h, n)
    BY <1>1
  <2> DEFINE P(h, n) == h \in [0..n -> D] /\ Runs(h, n)
             Q == [n \in Nat |-> CHOOSE h : P(h, n)]
  <2>2. \A n \in Nat : \E h : P(h, n)
    BY <2>1
  <2>3. \A n \in Nat : P(Q[n], n)
    <3> HIDE DEF P
    <3> QED BY <2>2
  <2>4. \A n \in Nat : Q[n] \in [0..n -> D] /\ Runs(Q[n], n)
    BY <2>3
  <2> HIDE DEF Q, Runs, P
  <2> QED BY <2>4, Zenon
<1> DEFINE g == [n \in Nat |-> R[n][n]]
<1>3. ASSUME NEW n \in Nat PROVE R[n + 1][n] = R[n][n]
  <2> DEFINE a == R[n]
             b == R[n + 1]
             K == {k \in Nat : k <= n => a[k] = b[k]}
  <2>1. Runs(a, n) /\ Runs(b, n + 1)
    BY <1>2
  <2> HIDE DEF a, b
  <2>2. 0 \in K
    BY <2>1
  <2>3. ASSUME NEW k \in K PROVE k + 1 \in K
    <3>1. CASE k + 1 <= n
      <4>1. k <= n /\ k + 1 \in 1..n /\ k + 1 \in 1..n + 1 /\ (k + 1) - 1 = k
        BY <3>1
      <4>2. a[k + 1] = f[a[k]] /\ b[k + 1] = f[b[k]]
        BY <2>1, <4>1
      <4> QED BY <4>1, <4>2
    <3>2. CASE ~(k + 1 <= n)
      BY <3>2
    <3> QED BY <3>1, <3>2
  <2>4. n \in K
    <3>1. K \in SUBSET Nat
      OBVIOUS
    <3> HIDE DEF K
    <3> QED BY <2>2, <2>3, <3>1, HoldsForEver
  <2>5. a[n] = b[n]
    BY <2>4
  <2> QED BY <2>5 DEF a, b
<1>4. g \in [Nat -> D]
  <2>1. ASSUME NEW n \in Nat PROVE R[n][n] \in D
    <3>1. R[n] \in [0..n -> D] /\ n \in 0..n
      BY <1>2
    <3> QED BY <3>1
  <2> QED BY <2>1
<1>5. ASSUME NEW n \in Nat PROVE g[n] = IF n = 0 THEN x ELSE f[g[n - 1]]
  <2>1. CASE n = 0
    BY <1>2, <2>1
  <2>2. CASE n # 0
    <3>1. n - 1 \in Nat /\ (n - 1) + 1 = n /\ n \in 1..n
      BY <2>2
    <3>2. R[n][n] = f[R[n][n - 1]]
      BY <1>2, <3>1
    <3>3. R[n][n - 1] = R[n - 1][n - 1]
      BY <1>3, <3>1
    <3> QED BY <2>2, <3>1, <3>2, <3>3
  <2> QED BY <2>1, <2>2
<1>6. g[0] = x /\ \A n \in Nat : g[n + 1] = f[g[n]]
  <2>1. ASSUME NEW n \in Nat PROVE g[n + 1] = f[g[n]]
    <3>1. n + 1 \in Nat /\ n + 1 # 0 /\ (n + 1) - 1 = n
      OBVIOUS
    <3> HIDE DEF g
    <3> QED BY <1>5, <3>1
  <2> HIDE DEF g
  <2> QED BY <1>5, <2>1
<1>7. AreRounds(g, f, x)
  BY <1>6 DEF AreRounds
<1> HIDE DEF g
<1> QED BY <1>4, <1>7

----
(* What is taken out of the output *)

LEMMA Markers ==
    /\ {Begin, End, Command, Clip} \subseteq Seq(Bytes)
    /\ \A prefix \in {Begin, End, Command, Clip} : Len(prefix) \in Nat /\ Len(prefix) >= 2
    /\ Len(End) = Len(Begin) /\ End # Begin /\ End[1] = Begin[1] /\ Begin[1] \in Bytes
    /\ \A prefix \in {Command, Clip} : prefix[1] = Begin[1] /\ prefix[2] # Begin[2]
    /\ \A k \in 2..Len(Begin) : Begin[k] # Begin[1] /\ End[k] # Begin[1]
    /\ FrameLimit \in Nat /\ Streams \subseteq Seq(Bytes)
<1>1. \A s \in {Begin, End, Command, Clip} : s \in Seq(Bytes) /\ Len(s) >= 2 /\ s[1] = Begin[1]
  BY PaneOutputAssumption
<1>2. \A s \in {Begin, End, Command, Clip} : Len(s) \in Nat
  BY <1>1
<1>3. Begin[1] \in Bytes
  BY <1>1
<1>4. Begin[2] # Command[2] /\ Begin[2] # Clip[2]
  BY PaneOutputAssumption
<1>5. \A k \in 2..Len(Begin) : Begin[k] # Begin[1] /\ End[k] # Begin[1]
  BY PaneOutputAssumption
<1>6. Len(End) = Len(Begin) /\ End # Begin /\ FrameLimit \in Nat /\ Streams \subseteq Seq(Bytes)
  BY PaneOutputAssumption
<1> QED BY <1>1, <1>2, <1>3, <1>4, <1>5, <1>6

\* Texts of a few parts.
Three(a, b, c)   == a \in Seq(Bytes) /\ b \in Seq(Bytes) /\ c \in Seq(Bytes)
Four(a, b, c, d) == Three(a, b, c) /\ d \in Seq(Bytes)

LEMMA Regroup ==
    ASSUME NEW s \in Seq(Bytes), NEW t \in Seq(Bytes), NEW u \in Seq(Bytes)
    PROVE  s \o (t \o u) = (s \o t) \o u /\ s \o t \in Seq(Bytes) /\ (s \o t) \o u \in Seq(Bytes)
<1>1. s \o t \in Seq(Bytes) /\ (s \o t) \o u = s \o (t \o u)
  BY BytesJoin
<1>2. (s \o t) \o u \in Seq(Bytes)
  BY <1>1, BytesJoin
<1> QED BY <1>1, <1>2

Join(s, t) == s \o t

Grouped(a, b, c, d) == a \o (b \o (c \o d)) = ((a \o b) \o c) \o d

LEMMA RegroupMiddle ==
    ASSUME NEW a, NEW b, NEW c, NEW d, Four(a, b, c, d)
    PROVE  /\ (a \o b) \o c \in Seq(Bytes) /\ (a \o b) \o c = a \o (b \o c)
           /\ Grouped(a, b, c, d)
<1>1. a \in Seq(Bytes) /\ b \in Seq(Bytes) /\ c \in Seq(Bytes) /\ d \in Seq(Bytes)
  BY DEF Four, Three
<1>2. ASSUME NEW s \in Seq(Bytes), NEW t \in Seq(Bytes), NEW u \in Seq(Bytes)
      PROVE  Join(s, t) \in Seq(Bytes) /\ Join(s, Join(t, u)) = Join(Join(s, t), u)
  BY Regroup DEF Join
<1>3. /\ Join(Join(a, b), c) \in Seq(Bytes) /\ Join(Join(a, b), c) = Join(a, Join(b, c))
      /\ Join(a, Join(b, Join(c, d))) = Join(Join(Join(a, b), c), d)
  BY <1>1, <1>2
<1> QED BY <1>3 DEF Join, Grouped

\* A text in two parts.
LEMMA Parts2 ==
    ASSUME NEW s \in Seq(Bytes), NEW n \in 0..Len(s)
    PROVE  /\ SubSeq(s, 1, n) \in Seq(Bytes) /\ Len(SubSeq(s, 1, n)) = n
           /\ From(s, n + 1) \in Seq(Bytes) /\ Len(From(s, n + 1)) = Len(s) - n
           /\ s = SubSeq(s, 1, n) \o From(s, n + 1)
           /\ \A k \in 1..n : SubSeq(s, 1, n)[k] = s[k]
           /\ \A k \in 1..Len(s) - n : From(s, n + 1)[k] = s[n + k]
<1> DEFINE a == SubSeq(s, 1, n)
           b == SubSeq(s, n + 1, Len(s))
<1>1. a \in Seq(Bytes) /\ Len(a) = n /\ \A k \in 1..n : a[k] = s[k]
  OBVIOUS
<1>2. /\ b \in Seq(Bytes) /\ Len(b) = Len(s) - n
      /\ \A k \in 1..Len(s) - n : b[k] = s[n + k]
  <2>1. n + 1 \in 1..Len(s) + 1
    OBVIOUS
  <2>2. b \in Seq(Bytes) /\ Len(b) = Len(s) - n
    BY <2>1
  <2>3. ASSUME NEW k \in 1..Len(s) - n PROVE b[k] = s[n + k]
    <3>1. (n + 1) + k - 1 = n + k
      OBVIOUS
    <3>2. b[k] = s[(n + 1) + k - 1]
      BY <2>1
    <3> QED BY <3>1, <3>2
  <2> QED BY <2>2, <2>3
<1> HIDE DEF a, b
<1>3. s = a \o b
  <2>1. /\ a \o b \in Seq(Bytes) /\ Len(a \o b) = Len(s)
        /\ \A k \in 1..Len(a) : (a \o b)[k] = a[k]
    BY <1>1, <1>2, ConcatProperties
  <2>2. ASSUME NEW k \in 1..Len(s) PROVE (a \o b)[k] = s[k]
    <3>1. CASE k <= n
      BY <1>1, <2>1, <3>1
    <3>2. CASE ~(k <= n)
      <4>1. k \in Len(a) + 1..Len(a) + Len(b) /\ k - n \in 1..Len(s) - n /\ n + (k - n) = k
        BY <1>1, <1>2, <3>2
      <4>2. (a \o b)[k] = b[k - Len(a)]
        BY <1>1, <1>2, <4>1, ConcatProperties
      <4> QED BY <1>1, <1>2, <4>1, <4>2
    <3> QED BY <3>1, <3>2
  <2> QED BY <2>1, <2>2, SeqEqual
<1> QED BY <1>1, <1>2, <1>3 DEF a, b, From

\* What stands at a place, with what is before and behind it.
LEMMA PlaceSplits ==
    ASSUME NEW s \in Seq(Bytes), NEW needle \in Seq(Bytes), NEW i \in Places(s, needle)
    PROVE  /\ SubSeq(s, 1, i - 1) \in Seq(Bytes) /\ Len(SubSeq(s, 1, i - 1)) = i - 1
           /\ From(s, i + Len(needle)) \in Seq(Bytes)
           /\ s = SubSeq(s, 1, i - 1) \o (needle \o From(s, i + Len(needle)))
           /\ From(s, i) = needle \o From(s, i + Len(needle))
<1>1. Stands(s, needle, i)
  BY PlaceIs
<1>2. /\ i \in Nat \ {0} /\ i + Len(needle) - 1 <= Len(s) /\ Len(needle) \in Nat
      /\ \A k \in 1..Len(needle) : s[i + k - 1] = needle[k]
  BY <1>1 DEF Stands
<1>3. PICK n \in 0..Len(s) : n = i - 1 /\ n + 1 = i
  BY <1>2
<1>4. PICK rest : /\ rest = From(s, i) /\ rest \in Seq(Bytes) /\ Len(rest) = Len(s) - n
                  /\ s = SubSeq(s, 1, n) \o rest /\ \A k \in 1..Len(s) - n : rest[k] = s[n + k]
  <2>1. /\ From(s, n + 1) \in Seq(Bytes) /\ Len(From(s, n + 1)) = Len(s) - n
        /\ s = SubSeq(s, 1, n) \o From(s, n + 1)
        /\ \A k \in 1..Len(s) - n : From(s, n + 1)[k] = s[n + k]
    BY Parts2
  <2> QED BY <1>3, <2>1
<1>5. PICK m \in 0..Len(rest) : m = Len(needle)
  BY <1>2, <1>3, <1>4
<1>6. SubSeq(rest, 1, m) = needle
  <2>1. /\ SubSeq(rest, 1, m) \in Seq(Bytes) /\ Len(SubSeq(rest, 1, m)) = m
        /\ \A k \in 1..m : SubSeq(rest, 1, m)[k] = rest[k]
    BY <1>4, Parts2
  <2>2. ASSUME NEW k \in 1..m PROVE rest[k] = needle[k]
    <3>1. k \in 1..Len(s) - n /\ n + k = i + k - 1 /\ k \in 1..Len(needle)
      BY <1>2, <1>3, <1>4, <1>5
    <3> QED BY <1>2, <1>4, <3>1
  <2> QED BY <1>5, <2>1, <2>2, SeqEqual
<1>7. From(rest, m + 1) = From(s, i + Len(needle)) /\ From(rest, m + 1) \in Seq(Bytes)
  <2>1. /\ From(rest, m + 1) \in Seq(Bytes) /\ Len(From(rest, m + 1)) = Len(rest) - m
        /\ \A k \in 1..Len(rest) - m : From(rest, m + 1)[k] = rest[m + k]
    BY <1>4, Parts2
  <2>0. /\ n \in Nat /\ m \in Nat /\ i \in Nat /\ Len(s) \in Nat /\ n <= Len(s) /\ n + 1 = i
        /\ Len(rest) = Len(s) - n /\ m <= Len(s) - n /\ m = Len(needle)
    BY <1>2, <1>3, <1>4, <1>5
  <2>2. PICK p \in 0..Len(s) : p = n + m /\ p + 1 = i + Len(needle)
    <3>1. n + m \in 0..Len(s) /\ (n + m) + 1 = i + m
      BY <2>0
    <3> QED BY <2>0, <3>1
  <2>3. /\ From(s, p + 1) \in Seq(Bytes) /\ Len(From(s, p + 1)) = Len(s) - p
        /\ \A k \in 1..Len(s) - p : From(s, p + 1)[k] = s[p + k]
    BY Parts2
  <2>4. ASSUME NEW k \in 1..Len(rest) - m PROVE From(rest, m + 1)[k] = From(s, p + 1)[k]
    <3>0. n \in Nat /\ m \in Nat /\ Len(s) \in Nat /\ Len(rest) = Len(s) - n /\ p = n + m
      BY <1>3, <1>4, <1>5, <2>2
    <3>1. k \in 1..Len(s) - p /\ m + k \in 1..Len(s) - n /\ n + (m + k) = p + k
      BY <3>0
    <3> QED BY <1>4, <2>1, <2>3, <3>1
  <2>5. Len(rest) - m = Len(s) - p
    <3>1. p = n + m
      BY <2>2
    <3> QED BY <2>0, <3>1
  <2>6. From(rest, m + 1) = From(s, p + 1)
    <3>1. PICK a, b : a = From(rest, m + 1) /\ b = From(s, p + 1)
      OBVIOUS
    <3>2. a \in Seq(Bytes) /\ b \in Seq(Bytes) /\ Len(a) = Len(b)
      BY <2>1, <2>3, <2>5, <3>1
    <3>3. ASSUME NEW k \in 1..Len(a) PROVE a[k] = b[k]
      <4>1. k \in 1..Len(rest) - m
        BY <2>1, <3>1
      <4> QED BY <2>4, <3>1, <4>1
    <3>4. a = b
      BY <3>2, <3>3, SeqEqual
    <3> QED BY <3>1, <3>4
  <2> QED BY <2>1, <2>2, <2>6
<1>8. rest = needle \o From(s, i + Len(needle))
  <2>0. rest \in Seq(Bytes)
    BY <1>4
  <2>1. rest = SubSeq(rest, 1, m) \o From(rest, m + 1)
    BY <2>0, Parts2
  <2> QED BY <1>6, <1>7, <2>1
<1>9. SubSeq(s, 1, n) \in Seq(Bytes) /\ Len(SubSeq(s, 1, n)) = n
  BY Parts2
<1> QED BY <1>3, <1>4, <1>7, <1>8, <1>9

LEMMA JoinIs ==
    ASSUME NEW s \in Seq(Bytes), NEW t \in Seq(Bytes)
    PROVE  /\ s \o t \in Seq(Bytes) /\ Len(s \o t) = Len(s) + Len(t)
           /\ \A k \in 1..Len(s) : (s \o t)[k] = s[k]
           /\ \A k \in 1..Len(t) : (s \o t)[Len(s) + k] = t[k]
<1>1. /\ s \o t \in Seq(Bytes) /\ Len(s \o t) = Len(s) + Len(t)
      /\ \A k \in 1..Len(s) : (s \o t)[k] = s[k]
  BY ConcatProperties
<1>2. ASSUME NEW k \in 1..Len(t) PROVE (s \o t)[Len(s) + k] = t[k]
  <2>1. Len(s) + k \in Len(s) + 1..Len(s) + Len(t) /\ (Len(s) + k) - Len(s) = k
    OBVIOUS
  <2>2. \A m \in Len(s) + 1..Len(s) + Len(t) : (s \o t)[m] = t[m - Len(s)]
    BY ConcatProperties
  <2> QED BY <2>1, <2>2
<1> QED BY <1>1, <1>2

\* A text has one second part behind its first.
LEMMA PartsMatch ==
    ASSUME NEW a, NEW b, NEW c, NEW d, Four(a, b, c, d), Len(a) = Len(c), a \o b = c \o d
    PROVE  a = c /\ b = d
<1>0. a \in Seq(Bytes) /\ b \in Seq(Bytes) /\ c \in Seq(Bytes) /\ d \in Seq(Bytes)
  BY DEF Four, Three
<1>1. PICK n \in Nat : n = Len(a) /\ n = Len(c)
  BY <1>0
<1>2. PICK ab : /\ ab = a \o b /\ Len(ab) = n + Len(b)
                /\ (\A k \in 1..n : ab[k] = a[k]) /\ \A k \in 1..Len(b) : ab[n + k] = b[k]
  <2>1. /\ Len(a \o b) = Len(a) + Len(b) /\ \A k \in 1..Len(a) : (a \o b)[k] = a[k]
        /\ \A k \in 1..Len(b) : (a \o b)[Len(a) + k] = b[k]
    BY <1>0, JoinIs
  <2> QED BY <1>1, <2>1
<1>3. /\ ab = c \o d /\ Len(ab) = n + Len(d)
      /\ (\A k \in 1..n : ab[k] = c[k]) /\ \A k \in 1..Len(d) : ab[n + k] = d[k]
  <2>1. /\ Len(c \o d) = Len(c) + Len(d) /\ \A k \in 1..Len(c) : (c \o d)[k] = c[k]
        /\ \A k \in 1..Len(d) : (c \o d)[Len(c) + k] = d[k]
    BY <1>0, JoinIs
  <2> QED BY <1>1, <1>2, <2>1
<1>4. Len(b) = Len(d)
  <2>1. Len(b) \in Nat /\ Len(d) \in Nat
    BY <1>0
  <2> QED BY <1>2, <1>3, <2>1
<1> QED BY <1>0, <1>1, <1>2, <1>3, <1>4, SeqEqual

\* The other way round.
LEMMA JoinSplits ==
    ASSUME NEW head, NEW q, NEW tail, Three(head, q, tail)
    PROVE  LET s == head \o (q \o tail)
           IN  /\ s \in Seq(Bytes) /\ Len(s) = Len(head) + Len(q) + Len(tail)
               /\ Len(head) + 1 \in Places(s, q)
               /\ SubSeq(s, 1, Len(head)) = head
               /\ SubSeq(s, Len(head) + 1, Len(head) + Len(q)) = q
               /\ From(s, Len(head) + Len(q) + 1) = tail
<1> DEFINE s == head \o (q \o tail)
<1>0. head \in Seq(Bytes) /\ q \in Seq(Bytes) /\ tail \in Seq(Bytes)
  BY DEF Three
<1>1. /\ q \o tail \in Seq(Bytes) /\ Len(q \o tail) = Len(q) + Len(tail)
      /\ s \in Seq(Bytes) /\ Len(s) = Len(head) + Len(q \o tail)
  BY <1>0, ConcatProperties
<1>2. Len(head) \in Nat /\ Len(q) \in Nat /\ Len(tail) \in Nat
  BY <1>0
<1>3. 1 \in Places(q, q)
  <2>1. Stands(q, q, 1)
    BY <1>2 DEF Stands
  <2> QED BY <1>0, <2>1, PlaceIs
<1>4. 1 \in Places(q \o tail, q)
  BY <1>0, <1>3, PlacesBefore
<1>5. Len(head) + 1 \in Places(s, q)
  <2>1. 1 \in Nat \ {0}
    OBVIOUS
  <2> QED BY <1>0, <1>1, <1>4, <2>1, PlacesAfter
<1>6. PICK i : i = Len(head) + 1 /\ i \in Places(s, q) /\ i - 1 = Len(head) /\ i \in Nat
  BY <1>2, <1>5
<1>7. SubSeq(s, i, i + Len(q) - 1) = q
  BY <1>6 DEF Places
<1>8. i + Len(q) - 1 = Len(head) + Len(q) /\ i + Len(q) = Len(head) + Len(q) + 1
  BY <1>2, <1>6
<1>10. SubSeq(s, 1, i - 1) = head /\ q \o From(s, i + Len(q)) = q \o tail /\ From(s, i + Len(q)) \in Seq(Bytes)
  <2>1. /\ SubSeq(s, 1, i - 1) \in Seq(Bytes) /\ Len(SubSeq(s, 1, i - 1)) = i - 1
        /\ From(s, i + Len(q)) \in Seq(Bytes)
        /\ s = SubSeq(s, 1, i - 1) \o (q \o From(s, i + Len(q)))
    <3>1. PICK w : w = s /\ w \in Seq(Bytes) /\ i \in Places(w, q)
      BY <1>1, <1>6
    <3>2. /\ SubSeq(w, 1, i - 1) \in Seq(Bytes) /\ Len(SubSeq(w, 1, i - 1)) = i - 1
          /\ From(w, i + Len(q)) \in Seq(Bytes)
          /\ w = SubSeq(w, 1, i - 1) \o (q \o From(w, i + Len(q)))
      <4>1. q \in Seq(Bytes)
        BY <1>0
      <4> QED BY <3>1, <4>1, PlaceSplits
    <3> QED BY <3>1, <3>2
  <2>2. q \o From(s, i + Len(q)) \in Seq(Bytes)
    BY <1>0, <2>1, ConcatProperties
  <2>3. SubSeq(s, 1, i - 1) \o (q \o From(s, i + Len(q))) = head \o (q \o tail)
    BY <2>1
  <2>4. SubSeq(s, 1, i - 1) = head /\ q \o From(s, i + Len(q)) = q \o tail
    <3>1. PICK a \in Seq(Bytes), b \in Seq(Bytes) :
             a = SubSeq(s, 1, i - 1) /\ b = q \o From(s, i + Len(q))
      BY <2>1, <2>2
    <3>2. PICK d \in Seq(Bytes) : d = q \o tail
      BY <1>1
    <3>3. Len(a) = Len(head) /\ a \o b = head \o d
      BY <1>6, <2>1, <2>3, <3>1, <3>2
    <3>4. Four(a, b, head, d)
      BY <1>0 DEF Four, Three
    <3>5. a = head /\ b = d
      BY <3>3, <3>4, PartsMatch
    <3> QED BY <3>1, <3>2, <3>5
  <2> QED BY <2>1, <2>4
<1>11. From(s, i + Len(q)) = tail
  <2>1. Four(q, From(s, i + Len(q)), q, tail)
    BY <1>0, <1>10 DEF Four, Three
  <2> QED BY <1>10, <2>1, PartsMatch
<1> QED BY <1>1, <1>2, <1>5, <1>6, <1>7, <1>8, <1>10, <1>11

\* Texts without one sequence are those without the middle of three parts.
LEMMA WithoutMiddle ==
    ASSUME NEW head, NEW q, NEW tail, Three(head, q, tail), IsSequence(q), Len(q) >= 1
    PROVE  head \o tail \in Without(head \o (q \o tail))
<1>0. Len(head) \in Nat /\ Len(q) \in Nat /\ Len(tail) \in Nat
  BY DEF Three
<1>1. PICK s \in Seq(Bytes) :
         /\ s = head \o (q \o tail) /\ Len(s) = Len(head) + Len(q) + Len(tail)
         /\ SubSeq(s, 1, Len(head)) = head
         /\ SubSeq(s, Len(head) + 1, Len(head) + Len(q)) = q
         /\ From(s, Len(head) + Len(q) + 1) = tail
  <2>1. LET t == head \o (q \o tail)
        IN  /\ t \in Seq(Bytes) /\ Len(t) = Len(head) + Len(q) + Len(tail)
            /\ SubSeq(t, 1, Len(head)) = head
            /\ SubSeq(t, Len(head) + 1, Len(head) + Len(q)) = q
            /\ From(t, Len(head) + Len(q) + 1) = tail
    BY JoinSplits
  <2> QED BY <2>1
<1>2. PICK i \in Nat, j \in Nat : i = Len(head) + 1 /\ j = Len(head) + Len(q)
  BY <1>0
<1>3. i \in 1..Len(s) /\ j \in i..Len(s) /\ i - 1 = Len(head)
  BY <1>0, <1>1, <1>2
<1>4. head \o tail = SubSeq(s, 1, i - 1) \o From(s, j + 1) /\ IsSequence(SubSeq(s, i, j))
  <2>1. SubSeq(s, 1, i - 1) = head
    BY <1>1, <1>3
  <2>2. From(s, j + 1) = tail
    BY <1>1, <1>2
  <2>3. SubSeq(s, i, j) = q
    BY <1>1, <1>2
  <2> QED BY <2>1, <2>2, <2>3
<1>5. head \o tail \in Without(s)
  <2> DEFINE Rests(m) == {SubSeq(s, 1, m - 1) \o From(s, n + 1) : n \in {k \in m..Len(s) : IsSequence(SubSeq(s, m, k))}}
  <2>1. j \in {k \in i..Len(s) : IsSequence(SubSeq(s, i, k))}
    BY <1>3, <1>4
  <2>2. head \o tail \in Rests(i)
    BY <1>4, <2>1
  <2>3. Without(s) = UNION {Rests(m) : m \in 1..Len(s)}
    BY DEF Without
  <2> HIDE DEF Rests
  <2> QED BY <1>3, <2>2, <2>3
<1> QED BY <1>1, <1>5

LEMMA WithoutIs ==
    ASSUME NEW s \in Seq(Bytes), NEW t \in Without(s)
    PROVE  \E head \in Seq(Bytes), q \in Seq(Bytes), tail \in Seq(Bytes) :
              s = head \o (q \o tail) /\ t = head \o tail /\ IsSequence(q) /\ Len(q) >= 1
<1>1. PICK i \in 1..Len(s) : \E j \in i..Len(s) :
         IsSequence(SubSeq(s, i, j)) /\ t = SubSeq(s, 1, i - 1) \o From(s, j + 1)
  BY DEF Without
<1>2. PICK j \in i..Len(s) :
         IsSequence(SubSeq(s, i, j)) /\ t = SubSeq(s, 1, i - 1) \o From(s, j + 1)
  BY <1>1
<1>3. PICK q \in Seq(Bytes) :
         q = SubSeq(s, i, j) /\ Len(q) = j - i + 1 /\ \A k \in 1..Len(q) : q[k] = s[i + k - 1]
  <2>1. i \in Nat \ {0} /\ j \in Nat /\ i <= j /\ j <= Len(s)
    BY <1>1, <1>2
  <2>2. SubSeq(s, i, j) \in Seq(Bytes) /\ Len(SubSeq(s, i, j)) = j - i + 1
    BY <2>1
  <2>3. \A k \in 1..j - i + 1 : SubSeq(s, i, j)[k] = s[i + k - 1]
    BY <2>1
  <2> QED BY <2>2, <2>3
<1>4. i + Len(q) - 1 = j /\ i + Len(q) = j + 1 /\ Len(q) >= 1
  BY <1>1, <1>2, <1>3
<1>5. i \in Places(s, q)
  <2>1. Stands(s, q, i)
    BY <1>1, <1>2, <1>3, <1>4 DEF Stands
  <2> QED BY <2>1, PlaceIs
<1>6. /\ SubSeq(s, 1, i - 1) \in Seq(Bytes) /\ From(s, i + Len(q)) \in Seq(Bytes)
      /\ s = SubSeq(s, 1, i - 1) \o (q \o From(s, i + Len(q)))
  BY <1>5, PlaceSplits
<1>7. IsSequence(q) /\ t = SubSeq(s, 1, i - 1) \o From(s, i + Len(q)) /\ Len(q) >= 1
  BY <1>2, <1>3, <1>4
<1> QED BY <1>6, <1>7

\* A sequence in its place.
LEMMA SequenceParts ==
    ASSUME NEW prefix, NEW value, NEW end, NEW tail, Four(prefix, value, end, tail),
           NEW q, q = prefix \o value \o end, Len(prefix) >= 2
    PROVE  /\ q \in Seq(Bytes)
           /\ SubSeq(q, Len(prefix) + 1, Len(q) - Len(end)) = value
           /\ Len(q) >= 2 /\ q[1] = prefix[1] /\ q[2] = prefix[2]
<1>1. Four(prefix, value, end, tail) /\ Three(prefix, value, end)
  BY DEF Four, Three
<1>2. prefix \in Seq(Bytes) /\ value \in Seq(Bytes) /\ end \in Seq(Bytes)
  BY DEF Four, Three
<1>3. q \in Seq(Bytes)
  BY <1>1, RegroupMiddle
<1>4. q = prefix \o (value \o end)
  BY <1>1, RegroupMiddle
<1>6. PICK n \in Nat, m \in Nat, l \in Nat : n = Len(prefix) /\ m = Len(value) /\ l = Len(end)
  BY <1>2
<1>7. Len(q) = n + m + l
  <2>1. Len(prefix \o (value \o end)) = Len(prefix) + Len(value) + Len(end)
    BY <1>1, JoinSplits
  <2> QED BY <1>4, <1>6, <2>1
<1>8. SubSeq(q, n + 1, n + m) = value
  <2>1. SubSeq(prefix \o (value \o end), Len(prefix) + 1, Len(prefix) + Len(value)) = value
    BY <1>1, JoinSplits
  <2> QED BY <1>4, <1>6, <2>1
<1>9. SubSeq(q, n + 1, Len(q) - l) = value
  <2>1. Len(q) - l = n + m
    BY <1>6, <1>7
  <2> QED BY <1>8, <2>1
<1>10. \A k \in 1..n : q[k] = prefix[k]
  <2>1. PICK rest \in Seq(Bytes) : rest = value \o end
    BY <1>2, Regroup
  <2>2. \A k \in 1..Len(prefix) : (prefix \o rest)[k] = prefix[k]
    BY <1>2, <2>1, JoinIs
  <2> QED BY <1>4, <1>6, <2>1, <2>2
<1>11. q[1] = prefix[1] /\ q[2] = prefix[2] /\ Len(q) >= 2
  BY <1>6, <1>7, <1>10
<1> QED BY <1>3, <1>6, <1>9, <1>11

\* The first complete sequence with a prefix.
Removed(s, left, head, q, tail) ==
    /\ head \in Seq(Bytes) /\ q \in Seq(Bytes) /\ tail \in Seq(Bytes)
    /\ s = head \o (q \o tail) /\ left = head \o tail
    /\ IsSequence(q) /\ Len(q) >= 2 /\ q[1] = Begin[1] /\ q[2] # Begin[2]

LEMMA TakeOutIs ==
    ASSUME NEW s \in Seq(Bytes), NEW prefix, prefix \in {Command, Clip}, IsComplete(s, prefix)
    PROVE  \E head, q, tail : Removed(s, TakeOut(s, prefix).left, head, q, tail)
<1>1. /\ prefix \in Seq(Bytes) /\ Len(prefix) \in Nat /\ Len(prefix) >= 2
      /\ prefix[1] = Begin[1] /\ prefix[2] # Begin[2]
  BY Markers
<1>2. PICK i : i = Find(s, prefix) /\ i \in Places(s, prefix)
  BY <1>1, FirstPlace DEF IsComplete
<1>3. PICK head, rest :
         /\ head \in Seq(Bytes) /\ rest \in Seq(Bytes)
         /\ head = SubSeq(s, 1, i - 1) /\ rest = From(s, i + Len(prefix)) /\ s = head \o (prefix \o rest)
  <2>1. /\ SubSeq(s, 1, i - 1) \in Seq(Bytes) /\ From(s, i + Len(prefix)) \in Seq(Bytes)
        /\ s = SubSeq(s, 1, i - 1) \o (prefix \o From(s, i + Len(prefix)))
    BY <1>1, <1>2, PlaceSplits
  <2> QED BY <2>1
<1>4. PICK end : /\ end = Terminator(rest) /\ end \in {<<Bell>>, St} /\ Has(rest, end)
                 /\ end = St => ~Has(rest, <<Bell>>) \/ end = <<Bell>>
  <2>1. Has(rest, Terminator(rest))
    BY <1>2, <1>3 DEF IsComplete
  <2> QED BY <2>1 DEF Terminator
<1>5. end \in Seq(Bytes) /\ Len(end) \in Nat \ {0}
  BY <1>4, Terminators
<1>6. PICK e : /\ e = Find(rest, end) /\ e \in Places(rest, end) /\ e \in Nat \ {0}
               /\ \A k \in Places(rest, end) : e <= k
  <2>1. rest \in Seq(Bytes) /\ end \in Seq(Bytes) /\ Has(rest, end)
    BY <1>3, <1>4, <1>5
  <2>2. Places(rest, end) \subseteq Nat \ {0}
    BY <2>1, PlacesWithin
  <2>3. Find(rest, end) \in Places(rest, end) /\ \A k \in Places(rest, end) : Find(rest, end) <= k
    BY <2>1, FirstPlace
  <2> QED BY <2>2, <2>3
<1>7. PICK value, tail :
         /\ value \in Seq(Bytes) /\ tail \in Seq(Bytes)
         /\ value = SubSeq(rest, 1, e - 1) /\ Len(value) = e - 1 /\ tail = From(rest, e + Len(end))
         /\ rest = value \o (end \o tail)
  <2>1. /\ SubSeq(rest, 1, e - 1) \in Seq(Bytes) /\ Len(SubSeq(rest, 1, e - 1)) = e - 1
        /\ From(rest, e + Len(end)) \in Seq(Bytes)
        /\ rest = SubSeq(rest, 1, e - 1) \o (end \o From(rest, e + Len(end)))
    <3>1. rest \in Seq(Bytes) /\ end \in Seq(Bytes) /\ e \in Places(rest, end)
      BY <1>3, <1>5, <1>6
    <3> QED BY <3>1, PlaceSplits
  <2> QED BY <2>1
<1>15. /\ prefix \in Seq(Bytes) /\ end \in Seq(Bytes) /\ value \in Seq(Bytes) /\ tail \in Seq(Bytes)
       /\ Len(value) = e - 1
  BY <1>1, <1>5, <1>7
<1>8. TakeOut(s, prefix).left = head \o tail
  <2>1. TakeOut(s, prefix).left = SubSeq(s, 1, i - 1) \o From(rest, e + Len(end))
    BY <1>2, <1>3, <1>4, <1>6 DEF TakeOut
  <2> QED BY <1>3, <1>7, <2>1
<1>9. PICK q : q = prefix \o value \o end
  OBVIOUS
<1>10. Four(prefix, value, end, tail) /\ Len(prefix) >= 2
  BY <1>1, <1>15 DEF Four, Three
<1>11. q \in Seq(Bytes) /\ SubSeq(q, Len(prefix) + 1, Len(q) - Len(end)) = value
  <2>1. q \in Seq(Bytes)
    BY <1>9, <1>10, SequenceParts
  <2>2. SubSeq(q, Len(prefix) + 1, Len(q) - Len(end)) = value
    <3>1. LET all == prefix \o value \o end
          IN  SubSeq(all, Len(prefix) + 1, Len(all) - Len(end)) = value
      BY <1>10, SequenceParts
    <3> QED BY <1>9, <3>1
  <2> QED BY <2>1, <2>2
<1>16. s = head \o (q \o tail)
  <2>0. Grouped(prefix, value, end, tail)
    BY <1>10, RegroupMiddle
  <2>1. prefix \o (value \o (end \o tail)) = ((prefix \o value) \o end) \o tail
    BY <2>0 DEF Grouped
  <2>2. prefix \o (value \o (end \o tail)) = q \o tail
    BY <1>9, <2>1
  <2> QED BY <1>3, <1>7, <2>2
<1>12. ~Has(value, end) /\ ~Has(value, <<Bell>>)
  <2>0. end \o tail \in Seq(Bytes) /\ <<Bell>> \in Seq(Bytes)
    BY <1>4, <1>15, Regroup, Terminators
  <2>1. ASSUME NEW k \in Places(value, end) PROVE FALSE
    <3>1. k \in Places(rest, end)
      BY <1>7, <1>15, <2>0, PlacesBefore
    <3>0. Stands(value, end, k)
      BY <1>15, PlaceIs
    <3>3. k + Len(end) - 1 <= Len(value) /\ k \in Nat
      BY <3>0 DEF Stands
    <3>2. e <= k
      BY <1>6, <3>1
    <3> QED BY <1>5, <1>6, <1>15, <3>2, <3>3
  <2>2. ASSUME NEW k \in Places(value, <<Bell>>), end # <<Bell>> PROVE FALSE
    <3>1. k \in Places(rest, <<Bell>>)
      BY <1>7, <1>15, <2>0, PlacesBefore
    <3>2. end = St
      BY <1>4, <2>2
    <3> QED BY <1>4, <2>2, <3>1, <3>2 DEF Has
  <2>3. ~Has(value, end)
    BY <2>1 DEF Has
  <2>4. end # <<Bell>> => ~Has(value, <<Bell>>)
    BY <2>2 DEF Has
  <2> QED BY <2>3, <2>4
<1>13. IsSequence(q)
  BY <1>4, <1>9, <1>11, <1>12 DEF IsSequence
<1>14. Len(q) >= 2 /\ q[1] = Begin[1] /\ q[2] # Begin[2]
  <2>1. Len(q) >= 2
    BY <1>9, <1>10, SequenceParts
  <2>2. q[1] = prefix[1] /\ q[2] = prefix[2]
    BY <1>9, <1>10, SequenceParts
  <2> QED BY <1>1, <2>1, <2>2
<1>17. Removed(s, TakeOut(s, prefix).left, head, q, tail)
  BY <1>3, <1>8, <1>11, <1>13, <1>14, <1>15, <1>16 DEF Removed
<1> QED BY <1>17

Joined(a, b, c) == a \o (b \o c) = (a \o b) \o c

LEMMA JoinedIs == ASSUME NEW a, NEW b, NEW c, Three(a, b, c) PROVE Joined(a, b, c)
BY Regroup DEF Joined, Three

LEMMA JoinedTexts ==
    ASSUME NEW a, NEW b, a \in Seq(Bytes), b \in Seq(Bytes)
    PROVE  a \o b \in Seq(Bytes) /\ Len(a \o b) = Len(a) + Len(b)
BY JoinIs

\* What can be taken out can be taken out of more, and leaves a shorter text.
LEMMA WithoutMore ==
    ASSUME NEW s \in Seq(Bytes), NEW t \in Without(s), NEW u \in Seq(Bytes)
    PROVE  /\ t \in Seq(Bytes) /\ Len(t) \in Nat /\ Len(t) + 1 <= Len(s)
           /\ u \o t \in Without(u \o s) /\ t \o u \in Without(s \o u)
<1>1. PICK head, q, tail :
         /\ head \in Seq(Bytes) /\ q \in Seq(Bytes) /\ tail \in Seq(Bytes)
         /\ s = head \o (q \o tail) /\ t = head \o tail /\ IsSequence(q) /\ Len(q) >= 1
  BY WithoutIs
<1>2. t \in Seq(Bytes) /\ Len(t) \in Nat /\ Len(t) + 1 <= Len(s)
  <2>1. /\ q \o tail \in Seq(Bytes) /\ Len(q \o tail) = Len(q) + Len(tail)
        /\ head \o tail \in Seq(Bytes) /\ Len(head \o tail) = Len(head) + Len(tail)
    BY <1>1, JoinedTexts
  <2>2. Len(head \o (q \o tail)) = Len(head) + Len(q \o tail)
    BY <1>1, <2>1, JoinedTexts
  <2>3. Len(head) \in Nat /\ Len(q) \in Nat /\ Len(tail) \in Nat
    BY <1>1
  <2> QED BY <1>1, <2>1, <2>2, <2>3
<1>3. u \o t \in Without(u \o s)
  <2>1. u \o head \in Seq(Bytes)
    BY <1>1, JoinedTexts
  <2>2. PICK qt : qt = q \o tail /\ qt \in Seq(Bytes)
    BY <1>1, JoinedTexts
  <2>3. Three(u, head, qt) /\ Three(u, head, tail) /\ Three(u \o head, q, tail)
    BY <1>1, <2>1, <2>2 DEF Three
  <2>4. Joined(u, head, qt) /\ Joined(u, head, tail)
    BY <2>3, JoinedIs
  <2>5. u \o s = (u \o head) \o (q \o tail) /\ u \o t = (u \o head) \o tail
    BY <1>1, <2>2, <2>4 DEF Joined
  <2>6. (u \o head) \o tail \in Without((u \o head) \o (q \o tail))
    BY <1>1, <2>3, WithoutMiddle
  <2> QED BY <2>5, <2>6
<1>4. t \o u \in Without(s \o u)
  <2>1. PICK tu : tu = tail \o u /\ tu \in Seq(Bytes)
    BY <1>1, JoinedTexts
  <2>2. PICK qt : qt = q \o tail /\ qt \in Seq(Bytes)
    BY <1>1, JoinedTexts
  <2>3. Three(head, qt, u) /\ Three(head, tail, u) /\ Three(q, tail, u) /\ Three(head, q, tu)
    BY <1>1, <2>1, <2>2 DEF Three
  <2>4. Joined(head, qt, u) /\ Joined(head, tail, u) /\ Joined(q, tail, u)
    BY <2>3, JoinedIs
  <2>5. t \o u = head \o tu
    BY <1>1, <2>1, <2>4 DEF Joined
  <2>6. s \o u = head \o (q \o tu)
    BY <1>1, <2>1, <2>2, <2>4 DEF Joined
  <2>7. head \o tu \in Without(head \o (q \o tu))
    BY <1>1, <2>3, WithoutMiddle
  <2> QED BY <2>5, <2>6, <2>7
<1> QED BY <1>2, <1>3, <1>4

\* The rounds of Explained.
LEMMA ExplainedIs ==
    ASSUME NEW r \in Seq(Bytes)
    PROVE  \E left \in [Nat -> SUBSET Seq(Bytes)] :
              /\ left[0] = {r} /\ \A n \in Nat : left[n + 1] = UNION {Without(t) : t \in left[n]}
              /\ \A s : Explained(r, s) <=> \E n \in 0..(Len(r) - Len(s)) : s \in left[n]
<1> DEFINE D == SUBSET Seq(Bytes)
           f == [T \in D |-> UNION {Without(t) : t \in T}]
           Loop(g) == g = [n \in Nat |-> IF n = 0 THEN {r} ELSE UNION {Without(t) : t \in g[n - 1]}]
           left == CHOOSE g : Loop(g)
<1>1. f \in [D -> D]
  <2>1. ASSUME NEW T \in D PROVE UNION {Without(t) : t \in T} \in D
    <3>1. ASSUME NEW t \in T, NEW v \in Without(t) PROVE v \in Seq(Bytes)
      <4>1. t \in Seq(Bytes)
        OBVIOUS
      <4> QED BY <4>1, WithoutMore
    <3> QED BY <3>1
  <2> QED BY <2>1
<1>2. PICK g \in [Nat -> D] : g[0] = {r} /\ \A n \in Nat : g[n + 1] = f[g[n]]
  <2>1. {r} \in D
    OBVIOUS
  <2> HIDE DEF D, f
  <2>2. \E g : g \in [Nat -> D] /\ AreRounds(g, f, {r})
    BY <1>1, <2>1, LoopExists
  <2> QED BY <2>2 DEF AreRounds
<1>3. Loop(g)
  <2>1. ASSUME NEW n \in Nat
        PROVE  g[n] = IF n = 0 THEN {r} ELSE UNION {Without(t) : t \in g[n - 1]}
    <3>1. CASE n # 0
      <4>1. n - 1 \in Nat /\ (n - 1) + 1 = n
        BY <3>1
      <4>2. g[n] = f[g[n - 1]] /\ g[n - 1] \in D
        BY <1>2, <4>1
      <4> QED BY <3>1, <4>2
    <3>2. CASE n = 0
      BY <1>2, <3>2
    <3> QED BY <3>1, <3>2
  <2>2. g = [n \in Nat |-> g[n]]
    BY <1>2
  <2> HIDE DEF f
  <2> QED BY <2>1, <2>2
<1>4. Loop(left)
  <2> HIDE DEF Loop
  <2> QED BY <1>3
<1>5. \A s : Explained(r, s) <=> \E n \in 0..(Len(r) - Len(s)) : s \in left[n]
  BY DEF Explained
<1> HIDE DEF left
<1>6. left[0] = {r} /\ \A n \in Nat : left[n + 1] = UNION {Without(t) : t \in left[n]}
  <2>1. left[0] = {r}
    BY <1>4
  <2>2. ASSUME NEW n \in Nat PROVE left[n + 1] = UNION {Without(t) : t \in left[n]}
    <3>1. n + 1 \in Nat /\ n + 1 # 0 /\ (n + 1) - 1 = n
      OBVIOUS
    <3> QED BY <1>4, <3>1
  <2> QED BY <2>1, <2>2
<1>7. left \in [Nat -> D]
  <2> DEFINE J == {n \in Nat : left[n] \in D}
  <2>1. 0 \in J
    BY <1>6
  <2>2. ASSUME NEW n \in J PROVE n + 1 \in J
    <3>1. UNION {Without(t) : t \in left[n]} \in D
      <4>1. f[left[n]] \in D
        BY <1>1, <2>2
      <4> QED BY <2>2, <4>1
    <3> QED BY <1>6, <3>1
  <2>3. J = Nat
    <3>1. J \in SUBSET Nat
      OBVIOUS
    <3> HIDE DEF J
    <3> QED BY <2>1, <2>2, <3>1, HoldsForEver
  <2>4. left = [n \in Nat |-> left[n]]
    BY <1>4
  <2> HIDE DEF D
  <2> QED BY <2>3, <2>4
<1> QED BY <1>5, <1>6, <1>7

LEMMA ExplainsItself == ASSUME NEW r \in Seq(Bytes) PROVE Explained(r, r)
<1>1. PICK left \in [Nat -> SUBSET Seq(Bytes)] :
         /\ left[0] = {r}
         /\ \A s : Explained(r, s) <=> \E n \in 0..(Len(r) - Len(s)) : s \in left[n]
  BY ExplainedIs
<1>2. 0 \in 0..(Len(r) - Len(r)) /\ r \in left[0]
  BY <1>1
<1> QED BY <1>1, <1>2

LEMMA ExplainsLess ==
    ASSUME NEW r \in Seq(Bytes), NEW s \in Seq(Bytes), Explained(r, s), NEW t \in Without(s)
    PROVE  Explained(r, t)
<1>1. PICK left \in [Nat -> SUBSET Seq(Bytes)] :
         /\ \A n \in Nat : left[n + 1] = UNION {Without(v) : v \in left[n]}
         /\ \A v : Explained(r, v) <=> \E n \in 0..(Len(r) - Len(v)) : v \in left[n]
  BY ExplainedIs
<1>2. PICK n \in 0..(Len(r) - Len(s)) : s \in left[n]
  BY <1>1
<1>3. Len(t) \in Nat /\ Len(t) + 1 <= Len(s)
  <2>1. <<>> \in Seq(Bytes)
    OBVIOUS
  <2> QED BY <2>1, WithoutMore
<1>4. n \in Nat /\ n + 1 \in 0..(Len(r) - Len(t))
  BY <1>2, <1>3
<1>5. t \in left[n + 1]
  BY <1>1, <1>2, <1>4
<1> QED BY <1>1, <1>4, <1>5

LEMMA ExplainsMore ==
    ASSUME NEW r \in Seq(Bytes), NEW s \in Seq(Bytes), Explained(r, s), NEW u \in Seq(Bytes)
    PROVE  Explained(r \o u, s \o u)
<1>1. PICK left \in [Nat -> SUBSET Seq(Bytes)] :
         /\ left[0] = {r} /\ \A n \in Nat : left[n + 1] = UNION {Without(v) : v \in left[n]}
         /\ \A v : Explained(r, v) <=> \E n \in 0..(Len(r) - Len(v)) : v \in left[n]
  BY ExplainedIs
<1>2. PICK more \in [Nat -> SUBSET Seq(Bytes)] :
         /\ more[0] = {r \o u} /\ \A n \in Nat : more[n + 1] = UNION {Without(v) : v \in more[n]}
         /\ \A v : Explained(r \o u, v) <=> \E n \in 0..(Len(r \o u) - Len(v)) : v \in more[n]
  <2>1. r \o u \in Seq(Bytes)
    BY JoinedTexts
  <2> QED BY <2>1, ExplainedIs
<1>3. PICK n \in 0..(Len(r) - Len(s)) : s \in left[n]
  BY <1>1
<1> DEFINE J == {m \in Nat : \A v \in left[m] : v \o u \in more[m]}
<1>4. n \in J
  <2>1. 0 \in J
    BY <1>1, <1>2
  <2>2. ASSUME NEW m \in J PROVE m + 1 \in J
    <3>1. m \in Nat /\ m + 1 \in Nat /\ \A v \in left[m] : v \o u \in more[m]
      BY <2>2
    <3>2. ASSUME NEW v \in left[m + 1] PROVE v \o u \in more[m + 1]
      <4>1. PICK w \in left[m] : v \in Without(w)
        BY <1>1, <3>1, <3>2
      <4>2. w \in Seq(Bytes)
        BY <3>1, <4>1
      <4>3. v \o u \in Without(w \o u)
        BY <4>1, <4>2, WithoutMore
      <4>4. w \o u \in more[m]
        BY <3>1, <4>1
      <4> QED BY <1>2, <3>1, <4>3, <4>4
    <3> QED BY <3>1, <3>2
  <2>3. J \in SUBSET Nat
    OBVIOUS
  <2> HIDE DEF J
  <2>4. J = Nat
    BY <2>1, <2>2, <2>3, HoldsForEver
  <2> QED BY <1>3, <2>4
<1>5. s \o u \in more[n]
  BY <1>3, <1>4
<1>6. n \in 0..(Len(r \o u) - Len(s \o u))
  <2>1. Len(r \o u) = Len(r) + Len(u) /\ Len(s \o u) = Len(s) + Len(u)
    BY JoinedTexts
  <2> QED BY <1>3, <2>1
<1> QED BY <1>2, <1>5, <1>6

\* What every removal keeps, all of them keep.
Values == Seq(Letters) \cup {NoCommand}

LEMMA TakeOutAllKeeps ==
    ASSUME NEW P \in SUBSET Seq(Bytes), NEW s \in P, NEW prefix, NEW last \in Values,
           \A t \in P : IsComplete(t, prefix) => TakeOut(t, prefix).left \in P
    PROVE  TakeOutAll(s, prefix, last).bytes \in P /\ TakeOutAll(s, prefix, last).last \in Values
<1> DEFINE D == [bytes : P, last : Values]
           f == [r \in D |-> TakeOutOnce(r, prefix)]
           start == [bytes |-> s, last |-> last]
           Loop(g) == g = [n \in Nat |-> IF n = 0 THEN start ELSE TakeOutOnce(g[n - 1], prefix)]
           round == CHOOSE g : Loop(g)
<1>1. f \in [D -> D]
  <2>1. ASSUME NEW r \in D PROVE TakeOutOnce(r, prefix) \in D
    <3>1. CASE ~IsComplete(r.bytes, prefix)
      BY <3>1 DEF TakeOutOnce
    <3>2. CASE IsComplete(r.bytes, prefix)
      <4>1. TakeOut(r.bytes, prefix).left \in P
        BY <3>2
      <4>2. PICK t : t = TakeOut(r.bytes, prefix)
        OBVIOUS
      <4>3. TakeOutOnce(r, prefix) =
               [bytes |-> t.left,
                last  |-> IF t.value # <<>> /\ t.value \in Seq(Letters) THEN t.value ELSE r.last]
        BY <3>2, <4>2 DEF TakeOutOnce
      <4> QED BY <4>1, <4>2, <4>3 DEF Values
    <3> QED BY <3>1, <3>2
  <2> HIDE DEF D
  <2> QED BY <2>1
<1>2. PICK g \in [Nat -> D] : g[0] = start /\ \A n \in Nat : g[n + 1] = f[g[n]]
  <2>1. start \in D
    OBVIOUS
  <2> HIDE DEF D, f, start
  <2>2. \E g : g \in [Nat -> D] /\ AreRounds(g, f, start)
    BY <1>1, <2>1, LoopExists
  <2> QED BY <2>2 DEF AreRounds
<1>3. Loop(g)
  <2>1. ASSUME NEW n \in Nat
        PROVE  g[n] = IF n = 0 THEN start ELSE TakeOutOnce(g[n - 1], prefix)
    <3>1. CASE n # 0
      <4>1. n - 1 \in Nat /\ (n - 1) + 1 = n
        BY <3>1
      <4>2. g[n] = f[g[n - 1]] /\ g[n - 1] \in D
        BY <1>2, <4>1
      <4> HIDE DEF D
      <4> QED BY <3>1, <4>2
    <3>2. CASE n = 0
      BY <1>2, <3>2
    <3> QED BY <3>1, <3>2
  <2>2. g = [n \in Nat |-> g[n]]
    BY <1>2
  <2> HIDE DEF f, start, D
  <2> QED BY <2>1, <2>2
<1>4. Loop(round)
  <2> HIDE DEF Loop
  <2> QED BY <1>3
<1>5. TakeOutAll(s, prefix, last) = round[Len(s)]
  BY DEF TakeOutAll
<1> HIDE DEF round
<1>6. round[Len(s)] \in D
  <2> DEFINE J == {n \in Nat : round[n] \in D}
  <2>1. 0 \in J
    BY <1>4
  <2> HIDE DEF D, f
  <2>2. ASSUME NEW n \in J PROVE n + 1 \in J
    <3>1. n \in Nat /\ n + 1 \in Nat /\ n + 1 # 0 /\ (n + 1) - 1 = n /\ round[n] \in D
      BY <2>2
    <3>2. round[n + 1] = TakeOutOnce(round[n], prefix)
      BY <1>4, <3>1
    <3>3. f[round[n]] \in D /\ f[round[n]] = TakeOutOnce(round[n], prefix)
      BY <1>1, <3>1 DEF f
    <3> QED BY <3>1, <3>2, <3>3
  <2>3. J \in SUBSET Nat
    OBVIOUS
  <2> HIDE DEF J
  <2>4. J = Nat
    BY <2>1, <2>2, <2>3, HoldsForEver
  <2>5. Len(s) \in Nat
    OBVIOUS
  <2> QED BY <2>4, <2>5 DEF J
<1> QED BY <1>5, <1>6

----
(* Frames *)

\* The first m bytes of c end with the first n of Begin, and the next one starts
\* something else.
Breaks(c, m, n) ==
    /\ m \in Nat /\ n \in 1..Len(Begin) - 1 /\ n <= m /\ m + 1 <= Len(c)
    /\ c[m + 1] = Begin[1] /\ \A k \in 1..n : c[m - n + k] = Begin[k]

LEMMA InterruptedIs ==
    ASSUME NEW c \in Seq(Bytes)
    PROVE  Interrupted(c) <=> \E m, n : Breaks(c, m, n)
<1>1. ASSUME NEW n \in 1..Len(Begin) - 1
      PROVE  /\ SubSeq(Begin, 1, n) \o <<Begin[1]>> \in Seq(Bytes)
             /\ Len(SubSeq(Begin, 1, n) \o <<Begin[1]>>) = n + 1
             /\ \A k \in 1..n : (SubSeq(Begin, 1, n) \o <<Begin[1]>>)[k] = Begin[k]
             /\ (SubSeq(Begin, 1, n) \o <<Begin[1]>>)[n + 1] = Begin[1]
  <2>1. Begin \in Seq(Bytes) /\ Begin[1] \in Bytes /\ n \in 0..Len(Begin)
    BY Markers
  <2>2. PICK first : /\ first = SubSeq(Begin, 1, n) /\ first \in Seq(Bytes) /\ Len(first) = n
                     /\ \A k \in 1..n : first[k] = Begin[k]
    <3>1. /\ SubSeq(Begin, 1, n) \in Seq(Bytes) /\ Len(SubSeq(Begin, 1, n)) = n
          /\ \A k \in 1..n : SubSeq(Begin, 1, n)[k] = Begin[k]
      BY <2>1, Parts2
    <3> QED BY <3>1
  <2>3. PICK one : one = <<Begin[1]>> /\ one \in Seq(Bytes) /\ Len(one) = 1 /\ one[1] = Begin[1]
    <3>1. PICK b : b = Begin[1] /\ b \in Bytes
      BY <2>1
    <3>2. <<b>> \in Seq(Bytes) /\ Len(<<b>>) = 1 /\ <<b>>[1] = b
      BY <3>1
    <3> QED BY <3>1, <3>2
  <2>4. /\ first \o one \in Seq(Bytes) /\ Len(first \o one) = n + 1
        /\ \A k \in 1..n : (first \o one)[k] = first[k]
        /\ (first \o one)[n + 1] = one[1]
    BY <2>2, <2>3, JoinIs
  <2> QED BY <2>2, <2>3, <2>4
<1>2. ASSUME NEW n \in 1..Len(Begin) - 1, NEW i
      PROVE  i \in Places(c, SubSeq(Begin, 1, n) \o <<Begin[1]>>)
                => \E m : Breaks(c, m, n)
  <2>1. PICK needle \in Seq(Bytes) :
           /\ needle = SubSeq(Begin, 1, n) \o <<Begin[1]>> /\ Len(needle) = n + 1
           /\ \A k \in 1..n : needle[k] = Begin[k]
           /\ needle[n + 1] = Begin[1]
    BY <1>1
  <2>2. SUFFICES ASSUME Stands(c, needle, i) PROVE Breaks(c, i + n - 1, n)
    BY <2>1, PlaceIs
  <2>3. /\ i \in Nat \ {0} /\ i + n <= Len(c) /\ n \in Nat \ {0}
        /\ \A k \in 1..n + 1 : c[i + k - 1] = needle[k]
    BY <2>1, <2>2 DEF Stands
  <2>4. c[(i + n - 1) + 1] = Begin[1]
    <3>1. n + 1 \in 1..n + 1 /\ i + (n + 1) - 1 = (i + n - 1) + 1
      BY <2>3
    <3>2. c[i + (n + 1) - 1] = needle[n + 1]
      BY <2>3, <3>1
    <3> QED BY <2>1, <3>1, <3>2
  <2>5. ASSUME NEW k \in 1..n PROVE c[(i + n - 1) - n + k] = Begin[k]
    <3>1. k \in 1..n + 1 /\ (i + n - 1) - n + k = i + k - 1
      BY <2>3
    <3> QED BY <2>1, <2>3, <3>1
  <2> QED BY <2>3, <2>4, <2>5 DEF Breaks
<1>3. ASSUME NEW m, NEW n, Breaks(c, m, n)
      PROVE  n \in 1..Len(Begin) - 1 /\ Has(c, SubSeq(Begin, 1, n) \o <<Begin[1]>>)
  <2>0. /\ m \in Nat /\ n \in 1..Len(Begin) - 1 /\ n <= m /\ m + 1 <= Len(c)
        /\ c[m + 1] = Begin[1] /\ \A k \in 1..n : c[m - n + k] = Begin[k]
    BY <1>3 DEF Breaks
  <2>1. PICK needle \in Seq(Bytes) :
           /\ needle = SubSeq(Begin, 1, n) \o <<Begin[1]>> /\ Len(needle) = n + 1
           /\ \A k \in 1..n : needle[k] = Begin[k]
           /\ needle[n + 1] = Begin[1]
    BY <1>1, <2>0
  <2>2. ASSUME NEW k \in 1..Len(needle) PROVE c[(m - n + 1) + k - 1] = needle[k]
    <3>1. (m - n + 1) + k - 1 = m - n + k
      BY <2>0
    <3>2. CASE k = n + 1
      <4>1. m - n + k = m + 1
        BY <2>0, <3>2
      <4> QED BY <2>0, <2>1, <3>1, <3>2, <4>1
    <3>3. CASE k # n + 1
      <4>1. k \in 1..n
        BY <2>0, <2>1, <3>3
      <4> QED BY <2>0, <2>1, <3>1, <4>1
    <3> QED BY <3>2, <3>3
  <2>3. Stands(c, needle, m - n + 1)
    <3>1. m - n + 1 \in Nat \ {0} /\ (m - n + 1) + Len(needle) - 1 <= Len(c)
      BY <2>0, <2>1
    <3> QED BY <2>2, <3>1 DEF Stands
  <2>4. m - n + 1 \in Places(c, needle)
    BY <2>3, PlaceIs
  <2> QED BY <2>0, <2>1, <2>4 DEF Has
<1> QED BY <1>2, <1>3 DEF Interrupted, Has

\* Taking out q, which starts like Begin, breaks off no more of it.
LEMMA BreakStays ==
    ASSUME NEW c, NEW d, NEW h \in Nat, NEW l \in Nat, Len(c) \in Nat, Len(d) = Len(c) + l, l >= 1, h <= Len(c),
           \A k \in 1..h : d[k] = c[k], d[h + 1] = Begin[1],
           \A k \in h + 1..Len(c) : d[l + k] = c[k],
           NEW m, NEW n, Breaks(c, m, n)
    PROVE  \E p, o : Breaks(d, p, o)
<1>1. /\ m \in Nat /\ n \in 1..Len(Begin) - 1 /\ n <= m /\ m + 1 <= Len(c)
      /\ c[m + 1] = Begin[1] /\ \A k \in 1..n : c[m - n + k] = Begin[k]
  BY DEF Breaks
<1>2. CASE m + 1 <= h
  <2>1. d[m + 1] = c[m + 1] /\ m + 1 <= Len(d)
    BY <1>1, <1>2
  <2>2. ASSUME NEW k \in 1..n PROVE d[m - n + k] = c[m - n + k]
    <3>1. m - n + k \in 1..h
      BY <1>1, <1>2
    <3> QED BY <3>1
  <2>3. Breaks(d, m, n)
    BY <1>1, <2>1, <2>2 DEF Breaks
  <2> QED BY <2>3
<1>3. CASE m >= h /\ m - n >= h
  <2>1. d[l + (m + 1)] = c[m + 1] /\ (l + m) + 1 <= Len(d) /\ l + (m + 1) = (l + m) + 1
    BY <1>1, <1>3
  <2>2. ASSUME NEW k \in 1..n PROVE d[(l + m) - n + k] = c[m - n + k]
    <3>1. m - n + k \in h + 1..Len(c) /\ (l + m) - n + k = l + (m - n + k)
      BY <1>1, <1>3
    <3> QED BY <3>1
  <2>3. l + m \in Nat /\ n <= l + m
    BY <1>1
  <2>4. Breaks(d, l + m, n)
    BY <1>1, <2>1, <2>2, <2>3 DEF Breaks
  <2> QED BY <2>4
<1>4. CASE m >= h /\ m - n < h
  <2> DEFINE o == h - (m - n)
  <2>1. /\ o \in 1..Len(Begin) - 1 /\ o <= h /\ h + 1 <= Len(d) /\ o <= n /\ h - o = m - n
    <3>1. PICK b : b = Len(Begin) /\ b \in Nat
      BY Markers
    <3>2. PICK i \in Nat : i = m - n
      BY <1>1
    <3>3. m \in Nat /\ n \in Nat /\ 1 <= n /\ n <= b - 1 /\ m = i + n /\ i < h /\ h <= m /\ o = h - i
      BY <1>1, <1>4, <3>1, <3>2
    <3>4. o \in Nat /\ 1 <= o /\ o <= n /\ o <= h /\ h - o = i
      BY <3>3
    <3>5. h + 1 <= Len(d)
      OBVIOUS
    <3> QED BY <3>1, <3>2, <3>3, <3>4, <3>5
  <2>2. ASSUME NEW k \in 1..o PROVE d[h - o + k] = Begin[k]
    <3>1. k \in 1..n /\ m - n + k \in 1..h /\ h - o + k = m - n + k
      BY <1>1, <1>4, <2>1
    <3> QED BY <1>1, <3>1
  <2>3. Breaks(d, h, o)
    BY <2>1, <2>2 DEF Breaks
  <2> QED BY <2>3
<1> QED BY <1>1, <1>2, <1>3, <1>4
\* What is interrupted stays so when more arrives.
LEMMA InterruptedMore ==
    ASSUME NEW c \in Seq(Bytes), NEW w \in Seq(Bytes), Interrupted(c)
    PROVE  Interrupted(c \o w)
<1>1. PICK m, n : Breaks(c, m, n)
  BY InterruptedIs
<1>2. /\ m \in Nat /\ n \in 1..Len(Begin) - 1 /\ n <= m /\ m + 1 <= Len(c)
      /\ c[m + 1] = Begin[1] /\ \A k \in 1..n : c[m - n + k] = Begin[k]
  BY <1>1 DEF Breaks
<1>3. PICK d : /\ d = c \o w /\ d \in Seq(Bytes) /\ Len(d) = Len(c) + Len(w)
               /\ \A k \in 1..Len(c) : d[k] = c[k]
  <2>1. /\ c \o w \in Seq(Bytes) /\ Len(c \o w) = Len(c) + Len(w)
        /\ \A k \in 1..Len(c) : (c \o w)[k] = c[k]
    BY JoinIs
  <2> QED BY <2>1
<1>4. m + 1 <= Len(d) /\ d[m + 1] = Begin[1]
  BY <1>2, <1>3
<1>5. ASSUME NEW k \in 1..n PROVE d[m - n + k] = Begin[k]
  <2>1. m - n + k \in 1..Len(c)
    BY <1>2
  <2> QED BY <1>2, <1>3, <2>1
<1>6. Breaks(d, m, n)
  BY <1>2, <1>4, <1>5 DEF Breaks
<1>7. Interrupted(d)
  BY <1>3, <1>6, InterruptedIs
<1> QED BY <1>3, <1>7

LEMMA InterruptedBefore ==
    ASSUME NEW head, NEW q, NEW tail, Three(head, q, tail), Len(q) >= 1, q[1] = Begin[1],
           Interrupted(head \o tail)
    PROVE  Interrupted(head \o (q \o tail))
<1>0. head \in Seq(Bytes) /\ q \in Seq(Bytes) /\ tail \in Seq(Bytes)
  BY DEF Three
<1>1. PICK c : /\ c = head \o tail /\ c \in Seq(Bytes) /\ Len(c) = Len(head) + Len(tail)
               /\ \A k \in 1..Len(head) : c[k] = head[k]
               /\ \A k \in 1..Len(tail) : c[Len(head) + k] = tail[k]
  <2>1. /\ head \o tail \in Seq(Bytes) /\ Len(head \o tail) = Len(head) + Len(tail)
        /\ \A k \in 1..Len(head) : (head \o tail)[k] = head[k]
        /\ \A k \in 1..Len(tail) : (head \o tail)[Len(head) + k] = tail[k]
    BY <1>0, JoinIs
  <2> QED BY <2>1
<1>2. PICK rest : /\ rest = q \o tail /\ rest \in Seq(Bytes) /\ Len(rest) = Len(q) + Len(tail)
                  /\ \A k \in 1..Len(q) : rest[k] = q[k]
                  /\ \A k \in 1..Len(tail) : rest[Len(q) + k] = tail[k]
  <2>1. /\ q \o tail \in Seq(Bytes) /\ Len(q \o tail) = Len(q) + Len(tail)
        /\ \A k \in 1..Len(q) : (q \o tail)[k] = q[k]
        /\ \A k \in 1..Len(tail) : (q \o tail)[Len(q) + k] = tail[k]
    BY <1>0, JoinIs
  <2> QED BY <2>1
<1>3. PICK d : /\ d = head \o rest /\ d \in Seq(Bytes) /\ Len(d) = Len(head) + Len(rest)
               /\ \A k \in 1..Len(head) : d[k] = head[k]
               /\ \A k \in 1..Len(rest) : d[Len(head) + k] = rest[k]
  <2>1. /\ head \o rest \in Seq(Bytes) /\ Len(head \o rest) = Len(head) + Len(rest)
        /\ \A k \in 1..Len(head) : (head \o rest)[k] = head[k]
        /\ \A k \in 1..Len(rest) : (head \o rest)[Len(head) + k] = rest[k]
    BY <1>0, <1>2, JoinIs
  <2> QED BY <2>1
<1>4. PICK h \in Nat, l \in Nat, z \in Nat : h = Len(head) /\ l = Len(q) /\ z = Len(tail)
  BY <1>0
<1>5. Len(c) \in Nat /\ Len(d) = Len(c) + l /\ l >= 1 /\ h <= Len(c) /\ Len(c) = h + z
  BY <1>1, <1>2, <1>3, <1>4
<1>6. \A k \in 1..h : d[k] = c[k]
  BY <1>1, <1>3, <1>4
<1>7. d[h + 1] = Begin[1]
  <2>1. 1 \in 1..Len(q) /\ 1 \in 1..Len(rest)
    BY <1>2, <1>4, <1>5
  <2> QED BY <1>2, <1>3, <1>4, <2>1
<1>8. ASSUME NEW k \in h + 1..Len(c) PROVE d[l + k] = c[k]
  <2>1. PICK j \in 1..z : k = h + j
    <3>1. k - h \in 1..z /\ k = h + (k - h)
      BY <1>4, <1>5
    <3> QED BY <3>1
  <2>2. l + j \in 1..Len(rest) /\ l + k = h + (l + j)
    BY <1>2, <1>4, <2>1
  <2>3. d[l + k] = rest[l + j]
    BY <1>3, <1>4, <2>2
  <2>4. rest[l + j] = tail[j] /\ c[k] = tail[j]
    BY <1>1, <1>2, <1>4, <2>1
  <2> QED BY <2>3, <2>4
<1>9. PICK m, n : Breaks(c, m, n)
  BY <1>1, InterruptedIs
<1>10. \E p, o : Breaks(d, p, o)
  BY <1>4, <1>5, <1>6, <1>7, <1>8, <1>9, BreakStays
<1>11. Interrupted(d)
  BY <1>3, <1>10, InterruptedIs
<1> QED BY <1>2, <1>3, <1>11

\* c is what is left of x, and whatever follows, its markers are interrupted
\* only if those of x are.
Faithful(x, c) ==
    /\ c \in Seq(Bytes) /\ Explained(x, c)
    /\ \A w \in Seq(Bytes) : Interrupted(c \o w) => Interrupted(x \o w)

OpensFrame(t) == Len(t) >= Len(Begin) /\ \A k \in 1..Len(Begin) : t[k] = Begin[k]

LEMMA FaithfulMore ==
    ASSUME NEW x \in Seq(Bytes), NEW c, Faithful(x, c), NEW w \in Seq(Bytes)
    PROVE  Faithful(x \o w, c \o w)
<1>1. c \in Seq(Bytes) /\ Explained(x, c)
  BY DEF Faithful
<1>2. c \o w \in Seq(Bytes)
  BY <1>1, JoinedTexts
<1>3. Explained(x \o w, c \o w)
  BY <1>1, ExplainsMore
<1>4. ASSUME NEW v, v \in Seq(Bytes), Interrupted((c \o w) \o v) PROVE Interrupted((x \o w) \o v)
  <2>1. Three(c, w, v) /\ Three(x, w, v)
    BY <1>1, <1>4 DEF Three
  <2>2. Joined(c, w, v) /\ Joined(x, w, v)
    BY <2>1, JoinedIs
  <2>3. PICK wv : wv = w \o v /\ wv \in Seq(Bytes)
    BY <1>4, JoinedTexts
  <2>4. Interrupted(c \o wv)
    BY <1>4, <2>2, <2>3 DEF Joined
  <2>5. Interrupted(x \o wv)
    BY <2>3, <2>4 DEF Faithful
  <2> QED BY <2>2, <2>3, <2>5 DEF Joined
<1> QED BY <1>2, <1>3, <1>4 DEF Faithful

\* Taking out a sequence that follows u.
LEMMA RemovalKeeps ==
    ASSUME NEW x \in Seq(Bytes), NEW u \in Seq(Bytes), NEW t, t \in Seq(Bytes), Faithful(x, u \o t),
           NEW prefix, prefix \in {Command, Clip}, IsComplete(t, prefix)
    PROVE  /\ TakeOut(t, prefix).left \in Seq(Bytes)
           /\ Faithful(x, u \o TakeOut(t, prefix).left)
           /\ OpensFrame(t) => OpensFrame(TakeOut(t, prefix).left)
<1>1. PICK head, q, tail :
         /\ head \in Seq(Bytes) /\ q \in Seq(Bytes) /\ tail \in Seq(Bytes)
         /\ t = head \o (q \o tail) /\ TakeOut(t, prefix).left = head \o tail
         /\ IsSequence(q) /\ Len(q) >= 2 /\ q[1] = Begin[1] /\ q[2] # Begin[2]
  <2>1. \E head, q, tail : Removed(t, TakeOut(t, prefix).left, head, q, tail)
    BY TakeOutIs
  <2> QED BY <2>1 DEF Removed
<1>2. PICK left : left = TakeOut(t, prefix).left /\ left = head \o tail
  BY <1>1
<1>3. left \in Seq(Bytes)
  BY <1>1, <1>2, JoinedTexts
<1>4. left \in Without(t)
  <2>1. Three(head, q, tail) /\ Len(q) >= 1
    BY <1>1 DEF Three
  <2>2. head \o tail \in Without(head \o (q \o tail))
    BY <1>1, <2>1, WithoutMiddle
  <2> QED BY <1>1, <1>2, <2>2
<1>5. Explained(x, u \o left)
  <2>1. u \o left \in Without(u \o t)
    BY <1>4, WithoutMore
  <2>2. u \o t \in Seq(Bytes) /\ Explained(x, u \o t)
    BY DEF Faithful
  <2> QED BY <2>1, <2>2, ExplainsLess
<1>6. ASSUME NEW w, w \in Seq(Bytes), Interrupted((u \o left) \o w) PROVE Interrupted(x \o w)
  <2>1. PICK before1 : before1 = u \o head /\ before1 \in Seq(Bytes)
    BY <1>1, JoinedTexts
  <2>2. PICK after : after = tail \o w /\ after \in Seq(Bytes)
    BY <1>1, <1>6, JoinedTexts
  <2>3. (u \o left) \o w = before1 \o after
    <3>1. Three(u, head, tail) /\ Three(before1, tail, w)
      BY <1>1, <1>6, <2>1 DEF Three
    <3>2. Joined(u, head, tail) /\ Joined(before1, tail, w)
      BY <3>1, JoinedIs
    <3>3. u \o left = before1 \o tail
      BY <1>2, <2>1, <3>2 DEF Joined
    <3>4. (before1 \o tail) \o w = before1 \o after
      BY <2>2, <3>2 DEF Joined
    <3> QED BY <3>3, <3>4
  <2>4. (u \o t) \o w = before1 \o (q \o after)
    <3>1. PICK qt : qt = q \o tail /\ qt \in Seq(Bytes)
      BY <1>1, JoinedTexts
    <3>2. Three(u, head, qt) /\ Three(before1, qt, w) /\ Three(q, tail, w)
      BY <1>1, <1>6, <2>1, <3>1 DEF Three
    <3>3. Joined(u, head, qt) /\ Joined(before1, qt, w) /\ Joined(q, tail, w)
      BY <3>2, JoinedIs
    <3>4. u \o t = before1 \o qt
      BY <1>1, <2>1, <3>1, <3>3 DEF Joined
    <3>5. (before1 \o qt) \o w = before1 \o (qt \o w)
      BY <3>3 DEF Joined
    <3>6. qt \o w = q \o after
      BY <2>2, <3>1, <3>3 DEF Joined
    <3> QED BY <3>4, <3>5, <3>6
  <2>5. Three(before1, q, after) /\ Len(q) >= 1
    BY <1>1, <2>1, <2>2 DEF Three
  <2>6. Interrupted(before1 \o (q \o after))
    BY <1>1, <1>6, <2>3, <2>5, InterruptedBefore
  <2>7. Interrupted((u \o t) \o w)
    BY <2>4, <2>6
  <2> QED BY <1>6, <2>7 DEF Faithful
<1>7. u \o left \in Seq(Bytes)
  BY <1>3, JoinedTexts
<1>8. Faithful(x, u \o left)
  BY <1>5, <1>6, <1>7 DEF Faithful
<1>9. ASSUME OpensFrame(t) PROVE OpensFrame(left)
  <2>1. PICK rest : /\ rest = q \o tail /\ rest \in Seq(Bytes) /\ Len(rest) = Len(q) + Len(tail)
                    /\ rest[1] = q[1] /\ rest[2] = q[2]
    <3>1. /\ q \o tail \in Seq(Bytes) /\ Len(q \o tail) = Len(q) + Len(tail)
          /\ \A k \in 1..Len(q) : (q \o tail)[k] = q[k]
      BY <1>1, JoinIs
    <3>2. 1 \in 1..Len(q) /\ 2 \in 1..Len(q)
      <4>1. Len(q) \in Nat /\ Len(q) >= 2
        BY <1>1
      <4> QED BY <4>1
    <3>3. (q \o tail)[1] = q[1] /\ (q \o tail)[2] = q[2]
      BY <3>1, <3>2
    <3> QED BY <3>1, <3>3
  <2>2. /\ Len(t) = Len(head) + Len(rest)
        /\ \A k \in 1..Len(head) : t[k] = head[k]
        /\ \A k \in 1..Len(rest) : t[Len(head) + k] = rest[k]
    BY <1>1, <2>1, JoinIs
  <2>3. PICK h, l, b : h = Len(head) /\ h \in Nat /\ l = Len(rest) /\ l \in Nat /\ l >= 2 /\ b = Len(Begin) /\ b \in Nat
                       /\ b >= 2
    <3>1. Len(head) \in Nat /\ Len(q) \in Nat /\ Len(tail) \in Nat /\ Len(rest) \in Nat
      BY <1>1, <2>1
    <3>2. Len(Begin) \in Nat /\ Len(Begin) >= 2
      BY Markers
    <3>3. Len(rest) >= 2
      BY <1>1, <2>1, <3>1
    <3> QED BY <3>1, <3>2, <3>3
  <2>4. t[h + 1] = Begin[1] /\ t[h + 2] # Begin[2]
    <3>1. 1 \in 1..Len(rest) /\ 2 \in 1..Len(rest)
      BY <2>3
    <3> QED BY <1>1, <2>1, <2>2, <2>3, <3>1
  <2>5. h >= b
    <3>1. SUFFICES ASSUME h < b PROVE FALSE
      BY <2>3
    <3>2. CASE h = 0
      <4>1. t[2] = Begin[2]
        BY <1>9, <2>3 DEF OpensFrame
      <4> QED BY <2>4, <3>2, <4>1
    <3>3. CASE h # 0
      <4>1. h + 1 \in 1..b /\ h + 1 \in 2..b
        BY <2>3, <3>1, <3>3
      <4>2. t[h + 1] = Begin[h + 1]
        BY <1>9, <2>3, <4>1 DEF OpensFrame
      <4>3. Begin[h + 1] # Begin[1]
        BY <2>3, <4>1, Markers
      <4> QED BY <2>4, <4>2, <4>3
    <3> QED BY <3>2, <3>3
  <2>6. Len(left) = Len(head) + Len(tail) /\ \A k \in 1..Len(head) : left[k] = head[k]
    BY <1>1, <1>2, JoinIs
  <2>7. Len(left) >= b
    <3>1. Len(tail) \in Nat
      BY <1>1
    <3> QED BY <2>3, <2>5, <2>6, <3>1
  <2>8. ASSUME NEW k \in 1..b PROVE left[k] = Begin[k]
    <3>1. k \in 1..h
      BY <2>3, <2>5
    <3>2. left[k] = t[k]
      BY <2>2, <2>3, <2>6, <3>1
    <3> QED BY <1>9, <2>3, <3>2 DEF OpensFrame
  <2> QED BY <2>3, <2>7, <2>8 DEF OpensFrame
<1> QED BY <1>2, <1>3, <1>8, <1>9
\* Within the first h bytes of c: whether a frame begins without its end, and
\* whether none of Begin stands at their end.
OpenAt(c, h) ==
    \E b \in Places(c, Begin) :
        /\ b + Len(Begin) - 1 <= h
        /\ \A e \in Places(c, End) : e + Len(Begin) - 1 <= h => e < b

CleanAt(c, h) == \A n \in 1..Len(Begin) - 1 : n <= h => \E k \in 1..n : c[h - n + k] # Begin[k]

\* A marker is where its bytes are.
LEMMA MarkerAt ==
    ASSUME NEW c, c \in Seq(Bytes), NEW marker, marker \in {Begin, End}, NEW i
    PROVE  i \in Places(c, marker)
              <=> /\ i \in Nat \ {0} /\ i + Len(Begin) - 1 <= Len(c)
                  /\ \A k \in 1..Len(Begin) : c[i + k - 1] = marker[k]
<1>1. marker \in Seq(Bytes) /\ Len(marker) = Len(Begin)
  BY Markers
<1>2. i \in Places(c, marker) <=> Stands(c, marker, i)
  BY <1>1, PlaceIs
<1> QED BY <1>1, <1>2 DEF Stands

LEMMA CutIs ==
    ASSUME NEW u, NEW v, u \in Seq(Bytes), v \in Seq(Bytes)
    PROVE  /\ InFrame(u) <=> OpenAt(u \o v, Len(u))
           /\ Clean(u, Begin) <=> CleanAt(u \o v, Len(u))
<1>1. /\ Begin \in Seq(Bytes) /\ End \in Seq(Bytes) /\ Len(End) = Len(Begin) /\ Len(Begin) \in Nat
      /\ Len(u) \in Nat
  BY Markers
<1>2. PICK c : /\ c = u \o v /\ c \in Seq(Bytes) /\ Len(c) = Len(u) + Len(v)
               /\ \A k \in 1..Len(u) : c[k] = u[k]
  <2>1. /\ u \o v \in Seq(Bytes) /\ Len(u \o v) = Len(u) + Len(v)
        /\ \A k \in 1..Len(u) : (u \o v)[k] = u[k]
    BY JoinIs
  <2> QED BY <2>1
<1>3. \A i : i \in Places(u, Begin) <=> i \in Places(c, Begin) /\ i + Len(Begin) - 1 <= Len(u)
  BY <1>1, <1>2, PlacesBefore
<1>4. \A i : i \in Places(u, End) <=> i \in Places(c, End) /\ i + Len(Begin) - 1 <= Len(u)
  BY <1>1, <1>2, PlacesBefore
<1>5. Has(u, Begin) => /\ Max(Places(u, Begin)) \in Places(u, Begin)
                       /\ \A i \in Places(u, Begin) : i <= Max(Places(u, Begin))
  BY <1>1, LastPlace
<1>6. Has(u, End) => /\ Max(Places(u, End)) \in Places(u, End)
                     /\ \A i \in Places(u, End) : i <= Max(Places(u, End))
  BY <1>1, LastPlace
<1>7. Places(u, Begin) \subseteq Nat /\ Places(u, End) \subseteq Nat
  BY <1>1, PlacesWithin
<1>8. ASSUME InFrame(u) PROVE OpenAt(c, Len(u))
  <2>1. PICK b : b = Max(Places(u, Begin)) /\ b \in Places(u, Begin) /\ b \in Nat
    BY <1>5, <1>7, <1>8 DEF InFrame
  <2>2. ASSUME NEW e, e \in Places(u, End) PROVE e < b
    <3>1. PICK m : m = Max(Places(u, End)) /\ m \in Nat /\ e \in Nat /\ e <= m
      BY <1>6, <1>7, <2>2 DEF Has
    <3>2. b > m
      BY <1>8, <2>1, <2>2, <3>1 DEF InFrame, Has
    <3> QED BY <2>1, <3>1, <3>2
  <2>3. b \in Places(c, Begin) /\ b + Len(Begin) - 1 <= Len(u)
    BY <1>3, <2>1
  <2>4. \A e \in Places(c, End) : e + Len(Begin) - 1 <= Len(u) => e < b
    BY <1>4, <2>2
  <2> QED BY <2>3, <2>4 DEF OpenAt
<1>9. ASSUME OpenAt(c, Len(u)) PROVE InFrame(u)
  <2>1. PICK b \in Places(c, Begin) :
           /\ b + Len(Begin) - 1 <= Len(u)
           /\ \A e \in Places(c, End) : e + Len(Begin) - 1 <= Len(u) => e < b
    BY <1>9 DEF OpenAt
  <2>2. b \in Places(u, Begin) /\ \A e \in Places(u, End) : e < b
    BY <1>3, <1>4, <2>1
  <2>3. Has(u, Begin)
    BY <2>2 DEF Has
  <2>4. PICK m : m = Max(Places(u, Begin)) /\ m \in Nat /\ b \in Nat /\ b <= m
    BY <1>5, <1>7, <2>2, <2>3
  <2>5. ASSUME Has(u, End) PROVE m > Max(Places(u, End))
    <3>1. PICK l : l = Max(Places(u, End)) /\ l \in Places(u, End) /\ l \in Nat
      BY <1>6, <1>7, <2>5
    <3>2. l < b
      BY <2>2, <3>1
    <3> QED BY <2>4, <3>1, <3>2
  <2> QED BY <2>3, <2>4, <2>5 DEF InFrame
<1>10. Clean(u, Begin) <=> CleanAt(c, Len(u))
  <2>1. ASSUME NEW n, n \in 1..Len(Begin) - 1
        PROVE  EndsIn(u, Begin, n) <=> ~(n <= Len(u) => \E k \in 1..n : c[Len(u) - n + k] # Begin[k])
    <3>1. ASSUME n <= Len(u), NEW k \in 1..n PROVE c[Len(u) - n + k] = u[Len(u) - n + k]
      <4>1. Len(u) - n + k \in 1..Len(u)
        BY <1>1, <2>1, <3>1
      <4> QED BY <1>2, <4>1
    <3> QED BY <3>1 DEF EndsIn
  <2> QED BY <2>1 DEF Clean, CleanAt
<1> QED BY <1>2, <1>8, <1>9, <1>10

\* Before an escape sequence that nothing interrupts stands none of Begin.
LEMMA CleanBefore ==
    ASSUME NEW c, c \in Seq(Bytes), ~Interrupted(c), NEW h, h \in Nat, h + 1 <= Len(c), c[h + 1] = Begin[1]
    PROVE  CleanAt(c, h)
<1>1. SUFFICES ASSUME NEW n, n \in 1..Len(Begin) - 1, n <= h, \A k \in 1..n : c[h - n + k] = Begin[k]
               PROVE FALSE
  BY DEF CleanAt
<1>2. Breaks(c, h, n)
  BY <1>1 DEF Breaks
<1> QED BY <1>2, InterruptedIs

\* More of c without another frame.
LEMMA NoFrameMore ==
    ASSUME NEW c, c \in Seq(Bytes), NEW h, NEW j, h \in Nat, j \in Nat, h <= j, j <= Len(c),
           CleanAt(c, h), ~OpenAt(c, h),
           \A b \in Places(c, Begin) : b > h => b + Len(Begin) - 1 > j
    PROVE  ~OpenAt(c, j)
<1>1. SUFFICES ASSUME OpenAt(c, j) PROVE FALSE
  OBVIOUS
<1>2. PICK b \in Places(c, Begin) :
         /\ b + Len(Begin) - 1 <= j
         /\ \A e \in Places(c, End) : e + Len(Begin) - 1 <= j => e < b
  BY <1>1 DEF OpenAt
<1>3. /\ b \in Nat \ {0} /\ \A k \in 1..Len(Begin) : c[b + k - 1] = Begin[k]
      /\ \A e \in Places(c, End) : e \in Nat
  BY MarkerAt
<1>4. PICK l : l = Len(Begin) /\ l \in Nat /\ l >= 2
  BY Markers
<1>5. b <= h
  BY <1>2, <1>3, <1>4
<1>6. b + l - 1 <= h
  <2>1. SUFFICES ASSUME b + l - 1 > h PROVE FALSE
    BY <1>3, <1>4
  <2>2. PICK n \in 1..l - 1 : n = h - b + 1 /\ n <= h
    <3>1. h - b + 1 \in 1..l - 1 /\ h - b + 1 <= h
      BY <1>3, <1>4, <1>5, <2>1
    <3> QED BY <3>1
  <2>3. PICK k \in 1..n : c[h - n + k] # Begin[k]
    BY <1>4, <2>2 DEF CleanAt
  <2>4. h - n + k = b + k - 1 /\ k \in 1..l
    BY <1>3, <1>4, <2>2
  <2> QED BY <1>3, <1>4, <2>3, <2>4
<1>7. \A e \in Places(c, End) : e + l - 1 <= h => e < b
  BY <1>2, <1>3, <1>4
<1> QED BY <1>4, <1>6, <1>7 DEF OpenAt

\* An end closes the frame, and leaves no beginning.
LEMMA ClosedBehind ==
    ASSUME NEW c, c \in Seq(Bytes), NEW e, e \in Places(c, End), NEW h, h = e + Len(Begin) - 1
    PROVE  ~OpenAt(c, h) /\ CleanAt(c, h)
<1>1. PICK l : /\ l = Len(Begin) /\ l \in Nat /\ l >= 2 /\ Len(End) = l
               /\ Begin \in Seq(Bytes) /\ End \in Seq(Bytes) /\ End # Begin
               /\ \A k \in 2..l : End[k] # Begin[1]
  BY Markers
<1>2. e \in Nat \ {0} /\ \A k \in 1..l : c[e + k - 1] = End[k]
  BY <1>1, MarkerAt
<1>3. ASSUME OpenAt(c, h) PROVE FALSE
  <2>1. PICK b \in Places(c, Begin) : b + l - 1 <= h /\ e < b
    <3>1. PICK b \in Places(c, Begin) :
             /\ b + Len(Begin) - 1 <= h
             /\ \A i \in Places(c, End) : i + Len(Begin) - 1 <= h => i < b
      BY <1>3 DEF OpenAt
    <3>2. e + Len(Begin) - 1 <= h
      BY <1>1, <1>2
    <3> QED BY <1>1, <3>1, <3>2
  <2>2. b \in Nat
    BY MarkerAt
  <2> QED BY <1>1, <1>2, <2>1, <2>2
<1>4. ASSUME NEW n, n \in 1..l - 1, n <= h PROVE \E k \in 1..n : c[h - n + k] # Begin[k]
  <2>1. l - n + 1 \in 2..l /\ l - n + 1 \in 1..l /\ h - n + 1 = e + (l - n + 1) - 1 /\ 1 \in 1..n
    BY <1>1, <1>2, <1>4
  <2>2. c[h - n + 1] = End[l - n + 1]
    BY <1>2, <2>1
  <2>3. c[h - n + 1] # Begin[1]
    BY <1>1, <2>1, <2>2
  <2> QED BY <2>1, <2>3
<1> QED BY <1>1, <1>3, <1>4 DEF CleanAt
\* A frame that is given to the parser without its end.
LEMMA OpenBehind ==
    ASSUME NEW c, c \in Seq(Bytes), NEW h, h \in Nat, h + 1 \in Places(c, Begin),
           \A e \in Places(c, End) : e <= h
    PROVE  OpenAt(c, Len(c))
<1>1. h + 1 + Len(Begin) - 1 <= Len(c) /\ \A e \in Places(c, End) : e \in Nat
  BY MarkerAt
<1>2. \A e \in Places(c, End) : e < h + 1
  BY <1>1
<1> QED BY <1>1, <1>2 DEF OpenAt

\* All that follows is given, and no more of Begin ends it.
LEMMA CleanBehindCut ==
    ASSUME NEW c, c \in Seq(Bytes), NEW h, h \in Nat, h <= Len(c), OpenAt(c, h) \/ CleanAt(c, h),
           \A n \in 1..Len(Begin) - 1 : n <= Len(c) - h => \E k \in 1..n : c[Len(c) - n + k] # Begin[k]
    PROVE  OpenAt(c, Len(c)) \/ CleanAt(c, Len(c))
<1>1. SUFFICES ASSUME NEW n, n \in 1..Len(Begin) - 1, n <= Len(c), \A k \in 1..n : c[Len(c) - n + k] = Begin[k]
               PROVE OpenAt(c, Len(c))
  BY DEF CleanAt
<1>2. PICK l : /\ l = Len(Begin) /\ l \in Nat /\ l >= 2 /\ \A k \in 2..l : End[k] # Begin[1]
  BY Markers
<1>3. PICK z : z = Len(c) /\ z \in Nat
  OBVIOUS
<1>4. ~(n <= z - h)
  BY <1>1, <1>2, <1>3
<1>5. CASE z = h
  <2>1. ~CleanAt(c, h)
    BY <1>1, <1>3, <1>5 DEF CleanAt
  <2> QED BY <1>3, <1>5, <2>1
<1>6. CASE z # h
  <2>1. PICK o : o = n - (z - h) /\ o \in 1..l - 1 /\ o <= h /\ h - o = z - n /\ o <= n
    <3>1. h <= z
      BY <1>3
    <3> QED BY <1>1, <1>2, <1>3, <1>4, <1>6, <3>1
  <2>2. ASSUME NEW k, k \in 1..o PROVE c[h - o + k] = Begin[k]
    <3>1. k \in 1..n /\ h - o + k = z - n + k
      BY <1>1, <1>2, <1>3, <2>1, <2>2
    <3> QED BY <1>1, <1>3, <3>1
  <2>3. ~CleanAt(c, h)
    BY <1>2, <2>1, <2>2 DEF CleanAt
  <2>4. PICK b \in Places(c, Begin) :
           /\ b + l - 1 <= h
           /\ \A e \in Places(c, End) : e + l - 1 <= h => e < b
    <3>1. OpenAt(c, h)
      BY <2>3
    <3> QED BY <1>2, <3>1 DEF OpenAt
  <2>5. ASSUME NEW e, e \in Places(c, End), e + l - 1 <= z PROVE e < b
    <3>1. SUFFICES ASSUME e + l - 1 > h PROVE FALSE
      <4>1. e \in Nat
        BY <2>5, MarkerAt
      <4> QED BY <1>2, <2>4, <2>5, <3>1, <4>1
    <3>2. e \in Nat \ {0} /\ \A k \in 1..l : c[e + k - 1] = End[k]
      BY <1>2, <2>5, MarkerAt
    <3>3. PICK k : k = z - n + 2 - e /\ k \in 2..l /\ e + k - 1 = z - n + 1
      <4>1. h <= z
        BY <1>3
      <4>2. z - n + 2 - e \in 2..l /\ e + (z - n + 2 - e) - 1 = z - n + 1
        BY <1>1, <1>2, <1>3, <1>4, <2>1, <2>5, <3>1, <3>2, <4>1
      <4> QED BY <4>2
    <3>4. c[z - n + 1] = End[k]
      BY <3>2, <3>3
    <3>5. c[z - n + 1] = Begin[1]
      <4>1. 1 \in 1..n
        BY <1>1, <1>2
      <4> QED BY <1>1, <1>3, <4>1
    <3> QED BY <1>2, <3>3, <3>4, <3>5
  <2>6. b + l - 1 <= z
    <3>1. b \in Nat /\ h <= z
      BY <1>3, <2>4, MarkerAt
    <3> QED BY <1>2, <1>3, <2>4, <3>1
  <2> QED BY <1>2, <1>3, <2>4, <2>5, <2>6 DEF OpenAt
<1> QED BY <1>5, <1>6

\* A text that is cut in two.
Cut(c, u, v) ==
    /\ c = u \o v /\ c \in Seq(Bytes) /\ u \in Seq(Bytes) /\ v \in Seq(Bytes)
    /\ Len(c) = Len(u) + Len(v) /\ Len(u) \in Nat /\ Len(v) \in Nat
    /\ \A k \in 1..Len(v) : c[Len(u) + k] = v[k]
    /\ \A marker \in {Begin, End}, i \in Nat \ {0} :
          i \in Places(v, marker) <=> Len(u) + i \in Places(c, marker)

LEMMA CutHere == ASSUME NEW u, NEW v, u \in Seq(Bytes), v \in Seq(Bytes) PROVE Cut(u \o v, u, v)
<1>1. /\ u \o v \in Seq(Bytes) /\ Len(u \o v) = Len(u) + Len(v)
      /\ \A k \in 1..Len(v) : (u \o v)[Len(u) + k] = v[k]
  BY JoinIs
<1>2. ASSUME NEW marker, marker \in {Begin, End}, NEW i, i \in Nat \ {0}
      PROVE  i \in Places(v, marker) <=> Len(u) + i \in Places(u \o v, marker)
  <2>1. marker \in Seq(Bytes)
    BY <1>2, Markers
  <2> QED BY <1>2, <2>1, PlacesAfter
<1>3. Len(u) \in Nat /\ Len(v) \in Nat
  OBVIOUS
<1> QED BY <1>1, <1>2, <1>3 DEF Cut

Framed(c, h, cut) == (OpenAt(c, h) => cut) /\ (OpenAt(c, h) \/ CleanAt(c, h))

\* Giving the parser more, each case of the loop.
LEMMA GiveUpToFrame ==
    ASSUME NEW c, NEW u, NEW v, Cut(c, u, v), ~Interrupted(c), NEW cut, Framed(c, Len(u), cut), Has(v, Begin)
    PROVE  /\ Find(v, Begin) - 1 \in 0..Len(v)
           /\ Framed(c, Len(u) + (Find(v, Begin) - 1), cut)
<1>0. Len(c) = Len(u) + Len(v) /\ Len(u) \in Nat /\ Len(v) \in Nat
  BY DEF Cut
<1>1. /\ c \in Seq(Bytes) /\ v \in Seq(Bytes) /\ Len(c) = Len(u) + Len(v) /\ Len(u) \in Nat /\ Len(v) \in Nat
      /\ \A i \in Nat \ {0} : i \in Places(v, Begin) <=> Len(u) + i \in Places(c, Begin)
  BY DEF Cut
<1>2. PICK i : i = Find(v, Begin) /\ i \in Places(v, Begin) /\ \A k \in Places(v, Begin) : i <= k
  BY <1>1, Markers, FirstPlace
<1>3. PICK l : l = Len(Begin) /\ l \in Nat /\ l >= 2
  BY Markers
<1>4. i \in Nat \ {0} /\ i + l - 1 <= Len(v)
  BY <1>1, <1>2, <1>3, MarkerAt
<1>5. PICK h, j : h = Len(u) /\ h \in Nat /\ j = h + (i - 1) /\ j \in Nat /\ h <= j /\ j + 1 <= Len(c) /\ j + 1 = h + i
  <2>1. Len(u) + (i - 1) \in Nat
    BY <1>0, <1>4
  <2> QED BY <1>0, <1>3, <1>4, <2>1
<1>6. c[j + 1] = Begin[1]
  <2>1. h + i \in Places(c, Begin)
    BY <1>1, <1>2, <1>4, <1>5
  <2>2. 1 \in 1..l /\ (h + i) + 1 - 1 = j + 1
    BY <1>3, <1>4, <1>5
  <2>0. c \in Seq(Bytes)
    BY <1>1
  <2>3. \A k \in 1..l : c[(h + i) + k - 1] = Begin[k]
    BY <1>3, <2>0, <2>1, MarkerAt
  <2>4. c[(h + i) + 1 - 1] = Begin[1]
    BY <2>2, <2>3
  <2> QED BY <2>2, <2>4
<1>7. CleanAt(c, j)
  BY <1>1, <1>5, <1>6, CleanBefore
<1>8. ASSUME ~cut PROVE ~OpenAt(c, j)
  <2>1. CleanAt(c, h) /\ ~OpenAt(c, h)
    BY <1>5, <1>8 DEF Framed
  <2>2. ASSUME NEW b, b \in Places(c, Begin), b > h PROVE b + l - 1 > j
    <3>1. b \in Nat
      BY <1>1, <2>2, MarkerAt
    <3>2. b - h \in Nat \ {0} /\ h + (b - h) = b
      BY <1>5, <2>2, <3>1
    <3>3. i <= b - h
      BY <1>1, <1>2, <1>5, <2>2, <3>2
    <3> QED BY <1>3, <1>4, <1>5, <3>1, <3>3
  <2>3. j <= Len(c)
    BY <1>1, <1>5
  <2> QED BY <1>1, <1>3, <1>5, <2>1, <2>2, <2>3, NoFrameMore
<1>9. i - 1 \in 0..Len(v)
  BY <1>1, <1>3, <1>4
<1> QED BY <1>2, <1>5, <1>7, <1>8, <1>9 DEF Framed

LEMMA GiveOutside ==
    ASSUME NEW c, NEW u, NEW v, Cut(c, u, v), ~Interrupted(c), NEW cut, Framed(c, Len(u), cut), ~Has(v, Begin)
    PROVE  /\ Len(v) - PartialSuffix(v, Begin) \in 0..Len(v)
           /\ Framed(c, Len(u) + (Len(v) - PartialSuffix(v, Begin)), cut)
<1>0. Len(c) = Len(u) + Len(v) /\ Len(u) \in Nat /\ Len(v) \in Nat
  BY DEF Cut
<1>1. /\ c \in Seq(Bytes) /\ v \in Seq(Bytes) /\ Len(c) = Len(u) + Len(v) /\ Len(u) \in Nat /\ Len(v) \in Nat
      /\ \A i \in Nat \ {0} : i \in Places(v, Begin) <=> Len(u) + i \in Places(c, Begin)
      /\ \A k \in 1..Len(v) : c[Len(u) + k] = v[k]
  BY DEF Cut
<1>2. PICK l : l = Len(Begin) /\ l \in Nat /\ l >= 2 /\ Begin \in Seq(Bytes) /\ Begin # <<>>
  <2>1. Len(Begin) \in Nat /\ Len(Begin) >= 2 /\ Begin \in Seq(Bytes)
    BY Markers
  <2>2. Begin # <<>>
    BY <2>1
  <2> QED BY <2>1, <2>2
<1>3. PICK m : m = PartialSuffix(v, Begin) /\ m \in 0..l - 1 /\ EndsIn(v, Begin, m)
               /\ \A n \in m + 1..l - 1 : ~EndsIn(v, Begin, n)
  BY <1>1, <1>2, PartialIs
<1>4. m <= Len(v) /\ \A k \in 1..m : v[Len(v) - m + k] = Begin[k]
  BY <1>3 DEF EndsIn
<1>5. PICK h, j : h = Len(u) /\ h \in Nat /\ j = h + (Len(v) - m) /\ j \in Nat /\ h <= j /\ j + m = Len(c)
  <2>0. m \in Nat /\ m <= Len(v)
    BY <1>2, <1>3, <1>4
  <2>1. Len(u) + (Len(v) - m) \in Nat
    BY <1>0, <2>0
  <2>2. PICK j : j = Len(u) + (Len(v) - m) /\ j \in Nat
    BY <2>1
  <2>3. Len(u) <= j /\ j + m = Len(c)
    BY <1>0, <2>0, <2>2
  <2> QED BY <1>0, <2>2, <2>3
<1>6. ASSUME ~cut PROVE ~OpenAt(c, j)
  <2>1. CleanAt(c, h) /\ ~OpenAt(c, h)
    BY <1>5, <1>6 DEF Framed
  <2>2. ASSUME NEW b, b \in Places(c, Begin), b > h PROVE FALSE
    <3>1. b \in Nat
      BY <1>1, <2>2, MarkerAt
    <3>2. b - h \in Nat \ {0} /\ h + (b - h) = b
      BY <1>5, <2>2, <3>1
    <3> QED BY <1>1, <1>5, <2>2, <3>2 DEF Has
  <2>3. j <= Len(c)
    BY <1>1, <1>2, <1>3, <1>5
  <2> QED BY <1>1, <1>5, <2>1, <2>2, <2>3, NoFrameMore
<1>7. OpenAt(c, j) \/ CleanAt(c, j)
  <2>1. CASE m = 0
    <3>1. ASSUME NEW n, n \in 1..l - 1, n <= Len(c) - h PROVE \E k \in 1..n : c[Len(c) - n + k] # Begin[k]
      <4>1. n <= Len(v) /\ ~EndsIn(v, Begin, n) /\ n \in Nat
        BY <1>1, <1>2, <1>3, <1>5, <2>1, <3>1
      <4>2. PICK k \in 1..n : v[Len(v) - n + k] # Begin[k]
        BY <4>1 DEF EndsIn
      <4>3. Len(v) - n + k \in 1..Len(v) /\ h + (Len(v) - n + k) = Len(c) - n + k
        BY <1>1, <1>5, <4>1
      <4> QED BY <1>1, <1>5, <4>2, <4>3
    <3>2. j = Len(c) /\ h <= Len(c) /\ (OpenAt(c, h) \/ CleanAt(c, h))
      BY <1>1, <1>5, <2>1 DEF Framed
    <3> QED BY <1>1, <1>2, <1>5, <3>1, <3>2, CleanBehindCut
  <2>2. CASE m # 0
    <3>1. 1 \in 1..m /\ Len(v) - m + 1 \in 1..Len(v) /\ h + (Len(v) - m + 1) = j + 1 /\ j + 1 <= Len(c)
      <4>1. m \in Nat /\ m >= 1 /\ m <= Len(v)
        BY <1>2, <1>3, <1>4, <2>2
      <4> QED BY <1>0, <1>5, <4>1
    <3>2. c[j + 1] = Begin[1]
      BY <1>1, <1>4, <1>5, <3>1
    <3> QED BY <1>1, <1>5, <3>1, <3>2, CleanBefore
  <2> QED BY <2>1, <2>2
<1>8. Len(v) - m \in 0..Len(v)
  <2>1. m \in Nat /\ m <= Len(v)
    BY <1>2, <1>3, <1>4
  <2> QED BY <1>0, <2>1
<1> QED BY <1>3, <1>5, <1>6, <1>7, <1>8 DEF Framed

LEMMA GiveFrame ==
    ASSUME NEW c, NEW u, NEW v, Cut(c, u, v), NEW cut, Has(v, End)
    PROVE  /\ Find(v, End) + Len(End) - 1 \in 0..Len(v) /\ Find(v, End) + Len(End) - 1 >= 2
           /\ Framed(c, Len(u) + (Find(v, End) + Len(End) - 1), cut)
<1>0. Len(c) = Len(u) + Len(v) /\ Len(u) \in Nat /\ Len(v) \in Nat
  BY DEF Cut
<1>1. /\ c \in Seq(Bytes) /\ v \in Seq(Bytes) /\ Len(u) \in Nat /\ Len(v) \in Nat
      /\ \A i \in Nat \ {0} : i \in Places(v, End) <=> Len(u) + i \in Places(c, End)
  BY DEF Cut
<1>2. PICK i : i = Find(v, End) /\ i \in Places(v, End)
  BY <1>1, Markers, FirstPlace
<1>3. PICK l : l = Len(Begin) /\ l = Len(End) /\ l \in Nat /\ l >= 2
  BY Markers
<1>4. i \in Nat \ {0} /\ i + l - 1 <= Len(v)
  BY <1>1, <1>2, <1>3, MarkerAt
<1>5. i + l - 1 \in 0..Len(v) /\ i + l - 1 >= 2 /\ (Len(u) + i) + l - 1 = Len(u) + (i + l - 1)
  BY <1>0, <1>3, <1>4
<1>6. Len(u) + i \in Places(c, End)
  BY <1>1, <1>2, <1>4
<1>7. ~OpenAt(c, (Len(u) + i) + l - 1) /\ CleanAt(c, (Len(u) + i) + l - 1)
  BY <1>1, <1>3, <1>6, ClosedBehind
<1> QED BY <1>2, <1>3, <1>5, <1>7 DEF Framed

LEMMA GiveOverdue ==
    ASSUME NEW c, NEW u, NEW v, Cut(c, u, v), OpensFrame(v), ~Has(v, End)
    PROVE  Framed(c, Len(u) + Len(v), TRUE)
<1>0. Len(c) = Len(u) + Len(v) /\ Len(u) \in Nat /\ Len(v) \in Nat
  BY DEF Cut
<1>1. /\ c \in Seq(Bytes) /\ v \in Seq(Bytes) /\ Len(u) \in Nat /\ Len(v) \in Nat /\ Len(c) = Len(u) + Len(v)
      /\ \A marker \in {Begin, End}, i \in Nat \ {0} :
            i \in Places(v, marker) <=> Len(u) + i \in Places(c, marker)
  BY DEF Cut
<1>2. 1 \in Places(v, Begin)
  <2>0. Len(Begin) \in Nat /\ Len(v) >= Len(Begin)
    BY Markers DEF OpensFrame
  <2>1. 1 + Len(Begin) - 1 <= Len(v) /\ \A k \in 1..Len(Begin) : 1 + k - 1 = k
    BY <1>0, <2>0
  <2>2. \A k \in 1..Len(Begin) : v[1 + k - 1] = Begin[k]
    BY <2>1 DEF OpensFrame
  <2>3. v \in Seq(Bytes) /\ 1 \in Nat \ {0}
    BY <1>1
  <2> QED BY <2>1, <2>2, <2>3, MarkerAt
<1>3. Len(u) + 1 \in Places(c, Begin)
  BY <1>1, <1>2
<1>4. ASSUME NEW e, e \in Places(c, End) PROVE e <= Len(u)
  <2>1. e \in Nat
    BY <1>1, <1>4, MarkerAt
  <2>2. SUFFICES ASSUME e > Len(u) PROVE FALSE
    BY <1>1, <2>1
  <2>3. e - Len(u) \in Nat \ {0} /\ Len(u) + (e - Len(u)) = e
    BY <1>1, <2>1, <2>2
  <2> QED BY <1>1, <1>4, <2>3 DEF Has
<1>5. OpenAt(c, Len(c))
  BY <1>1, <1>3, <1>4, OpenBehind
<1> QED BY <1>1, <1>5 DEF Framed

----
(* The loop over the frames *)

Kinds == {"none", "fresh", "expired"}

State(p, k, u, t) == [pending |-> p, since |-> k, shown |-> u, torn |-> t]

Outputs == [pending : Seq(Bytes), since : Kinds, shown : Seq(Bytes), torn : BOOLEAN]

\* r after n bytes of it are given to the parser.
After(r, n, k, t) == State(From(r.pending, n + 1), k, r.shown \o SubSeq(r.pending, 1, n), t)

\* One field of it, put in place.
PutPending(s, x) == [s EXCEPT !.pending = x]
PutSince(s, x)   == [s EXCEPT !.since = x]
PutShown(s, x)   == [s EXCEPT !.shown = x]
PutTorn(s, x)    == [s EXCEPT !.torn = x]

LEMMA PutIs ==
    ASSUME NEW p, NEW k, NEW u, NEW t, NEW x
    PROVE  /\ PutPending(State(p, k, u, t), x) = State(x, k, u, t)
           /\ PutSince(State(p, k, u, t), x) = State(p, x, u, t)
           /\ PutShown(State(p, k, u, t), x) = State(p, k, x, t)
           /\ PutTorn(State(p, k, u, t), x) = State(p, k, u, x)
<1>1. PutPending(State(p, k, u, t), x) = State(x, k, u, t)
  BY DEF State, PutPending
<1>2. PutSince(State(p, k, u, t), x) = State(p, x, u, t)
  BY DEF State, PutSince
<1>3. PutShown(State(p, k, u, t), x) = State(p, k, x, t)
  BY DEF State, PutShown
<1>4. PutTorn(State(p, k, u, t), x) = State(p, k, u, x)
  BY DEF State, PutTorn
<1> QED BY <1>1, <1>2, <1>3, <1>4

LEMMA RoundIs ==
    ASSUME NEW r, r \in Outputs
    PROVE  /\ r.since = "none" /\ Has(r.pending, Begin)
                 => Round(r) = After(r, Find(r.pending, Begin) - 1, "fresh", r.torn)
           /\ r.since = "none" /\ ~Has(r.pending, Begin)
                 => Round(r) = After(r, Len(r.pending) - PartialSuffix(r.pending, Begin), "none", r.torn)
           /\ r.since # "none" /\ Has(r.pending, End)
                 => Round(r) = After(r, Find(r.pending, End) + Len(End) - 1, "none", r.torn)
           /\ r.since # "none" /\ ~Has(r.pending, End) /\ Overdue(r)
                 => Round(r) = After(r, Len(r.pending), "none", TRUE)
           /\ r.since # "none" /\ ~Has(r.pending, End) /\ ~Overdue(r) => Round(r) = r
<1>1. r = State(r.pending, r.since, r.shown, r.torn)
  BY DEF Outputs, State
<1>3. \A n : Give(r, n) = State(From(r.pending, n + 1), r.since, r.shown \o SubSeq(r.pending, 1, n), r.torn)
  <2>1. ASSUME NEW n
        PROVE  Give(r, n) = State(From(r.pending, n + 1), r.since, r.shown \o SubSeq(r.pending, 1, n), r.torn)
    <3>0. Give(r, n) = [[r EXCEPT !.shown = r.shown \o SubSeq(r.pending, 1, n)] EXCEPT !.pending = From(r.pending, n + 1)]
      BY DEF Give
    <3>1. Give(r, n) = PutPending(PutShown(r, r.shown \o SubSeq(r.pending, 1, n)), From(r.pending, n + 1))
      BY <3>0, Zenon DEF PutPending, PutShown
    <3>2. PICK u, p : u = r.shown \o SubSeq(r.pending, 1, n) /\ p = From(r.pending, n + 1)
      OBVIOUS
    <3>3. PutShown(r, u) = State(r.pending, r.since, u, r.torn)
      BY <1>1, PutIs
    <3>4. PutPending(PutShown(r, u), p) = State(p, r.since, u, r.torn)
      BY <3>3, PutIs
    <3> QED BY <3>1, <3>2, <3>4
  <2> QED BY <2>1
<1>4. ASSUME r.since = "none", Has(r.pending, Begin)
      PROVE  Round(r) = After(r, Find(r.pending, Begin) - 1, "fresh", r.torn)
  <2>1. Round(r) = PutSince(Give(r, Find(r.pending, Begin) - 1), "fresh")
    BY <1>4 DEF Round, PutSince
  <2> QED BY <1>3, <2>1, PutIs DEF After
<1>5. ASSUME r.since = "none", ~Has(r.pending, Begin)
      PROVE  Round(r) = After(r, Len(r.pending) - PartialSuffix(r.pending, Begin), "none", r.torn)
  <2>1. Round(r) = Give(r, Len(r.pending) - PartialSuffix(r.pending, Begin))
    BY <1>5 DEF Round
  <2> QED BY <1>3, <1>5, <2>1 DEF After
<1>6. ASSUME r.since # "none", Has(r.pending, End)
      PROVE  Round(r) = After(r, Find(r.pending, End) + Len(End) - 1, "none", r.torn)
  <2>1. Round(r) = PutSince(Give(r, Find(r.pending, End) + Len(End) - 1), "none")
    BY <1>6 DEF Round, PutSince
  <2> QED BY <1>3, <2>1, PutIs DEF After
<1>7. ASSUME r.since # "none", ~Has(r.pending, End), Overdue(r)
      PROVE  Round(r) = After(r, Len(r.pending), "none", TRUE)
  <2>0. Round(r) = [Give(r, Len(r.pending)) EXCEPT !.since = "none", !.torn = TRUE]
    BY <1>7 DEF Round
  <2>1. Round(r) = [[Give(r, Len(r.pending)) EXCEPT !.since = "none"] EXCEPT !.torn = TRUE]
    BY <2>0
  <2>2. Round(r) = PutTorn(PutSince(Give(r, Len(r.pending)), "none"), TRUE)
    BY <2>1, Zenon DEF PutTorn, PutSince
  <2>3. PICK p, u : /\ p = From(r.pending, Len(r.pending) + 1)
                    /\ u = r.shown \o SubSeq(r.pending, 1, Len(r.pending))
    OBVIOUS
  <2>4. PutSince(Give(r, Len(r.pending)), "none") = State(p, "none", u, r.torn)
    BY <1>3, <2>3, PutIs
  <2>6. PutTorn(State(p, "none", u, r.torn), TRUE) = State(p, "none", u, TRUE)
    <3>1. PICK yes : yes = TRUE
      OBVIOUS
    <3>2. PutTorn(State(p, "none", u, r.torn), yes) = State(p, "none", u, yes)
      BY PutIs
    <3> QED BY <3>1, <3>2, Zenon
  <2>5. Round(r) = State(p, "none", u, TRUE)
    BY <2>2, <2>4, <2>6, Zenon
  <2> QED BY <2>3, <2>5, Zenon DEF After
<1>8. ASSUME r.since # "none", ~Has(r.pending, End), ~Overdue(r) PROVE Round(r) = r
  BY <1>8 DEF Round
<1> QED BY <1>4, <1>5, <1>6, <1>7, <1>8

\* The values of torn.
Flag(t) == t \in BOOLEAN

\* s is r after n bytes of it are given to the parser.
Gave(r, s, n, k, t) ==
    /\ s \in Outputs /\ s.pending = From(r.pending, n + 1) /\ s.since = k /\ s.torn = t
    /\ Len(s.shown) = Len(r.shown) + n /\ Len(s.pending) = Len(r.pending) - n
    /\ s.shown \o s.pending = r.shown \o r.pending

LEMMA AfterIs ==
    ASSUME NEW r, r \in Outputs, NEW n, n \in 0..Len(r.pending), NEW k, k \in Kinds, NEW t, Flag(t)
    PROVE  /\ Gave(r, After(r, n, k, t), n, k, t)
           /\ n = 0 /\ k = r.since /\ t = r.torn => After(r, n, k, t) = r
<1>1. r.pending \in Seq(Bytes) /\ r.shown \in Seq(Bytes)
  BY DEF Outputs
<1>2. PICK a, b : /\ a = SubSeq(r.pending, 1, n) /\ b = From(r.pending, n + 1)
                  /\ a \in Seq(Bytes) /\ b \in Seq(Bytes) /\ Len(a) = n /\ Len(b) = Len(r.pending) - n
                  /\ r.pending = a \o b
  <2>1. /\ SubSeq(r.pending, 1, n) \in Seq(Bytes) /\ Len(SubSeq(r.pending, 1, n)) = n
        /\ From(r.pending, n + 1) \in Seq(Bytes) /\ Len(From(r.pending, n + 1)) = Len(r.pending) - n
        /\ r.pending = SubSeq(r.pending, 1, n) \o From(r.pending, n + 1)
    BY <1>1, Parts2
  <2> QED BY <2>1
<1>3. PICK u : u = r.shown \o a /\ u \in Seq(Bytes) /\ Len(u) = Len(r.shown) + n
  <2>1. r.shown \o a \in Seq(Bytes) /\ Len(r.shown \o a) = Len(r.shown) + Len(a)
    BY <1>1, <1>2, JoinedTexts
  <2> QED BY <1>2, <2>1
<1>4. After(r, n, k, t) = State(b, k, u, t)
  BY <1>2, <1>3 DEF After
<1>5. /\ State(b, k, u, t) \in Outputs /\ State(b, k, u, t).pending = b /\ State(b, k, u, t).since = k
      /\ State(b, k, u, t).torn = t /\ State(b, k, u, t).shown = u
  BY <1>2, <1>3 DEF State, Outputs, Flag
<1>6. u \o b = r.shown \o r.pending
  <2>1. Three(r.shown, a, b)
    BY <1>1, <1>2 DEF Three
  <2>2. Joined(r.shown, a, b)
    BY <2>1, JoinedIs
  <2> QED BY <1>2, <1>3, <2>2 DEF Joined
<1>7. ASSUME n = 0, k = r.since, t = r.torn PROVE After(r, n, k, t) = r
  <2>1. b = r.pending
    <3>1. Len(b) = Len(r.pending) /\ \A i \in 1..Len(r.pending) - n : b[i] = r.pending[n + i]
      <4>1. \A i \in 1..Len(r.pending) - n : From(r.pending, n + 1)[i] = r.pending[n + i]
        BY <1>1, Parts2
      <4>2. Len(b) = Len(r.pending)
        BY <1>2, <1>7
      <4> QED BY <1>2, <4>1, <4>2
    <3>2. \A i \in 1..Len(r.pending) : b[i] = r.pending[i]
      <4>1. ASSUME NEW i \in 1..Len(r.pending) PROVE b[i] = r.pending[i]
        <5>1. i \in 1..Len(r.pending) - n /\ n + i = i
          BY <1>1, <1>7
        <5> QED BY <3>1, <5>1
      <4> QED BY <4>1
    <3> QED BY <1>1, <1>2, <3>1, <3>2, SeqEqual
  <2>2. u = r.shown
    <3>1. Len(u) = Len(r.shown)
      BY <1>1, <1>3, <1>7
    <3>2. \A i \in 1..Len(r.shown) : u[i] = r.shown[i]
      <4>1. \A i \in 1..Len(r.shown) : (r.shown \o a)[i] = r.shown[i]
        BY <1>1, <1>2, JoinIs
      <4> QED BY <1>3, <4>1
    <3> QED BY <1>1, <1>3, <3>1, <3>2, SeqEqual
  <2>3. r = State(r.pending, r.since, r.shown, r.torn)
    BY DEF Outputs, State
  <2> QED BY <1>4, <1>7, <2>1, <2>2, <2>3
<1>8. /\ After(r, n, k, t) \in Outputs
      /\ After(r, n, k, t).pending = From(r.pending, n + 1)
      /\ After(r, n, k, t).since = k /\ After(r, n, k, t).torn = t
  BY <1>2, <1>4, <1>5
<1>9. Len(After(r, n, k, t).shown) = Len(r.shown) + n
  BY <1>3, <1>4, <1>5
<1>10. Len(After(r, n, k, t).pending) = Len(r.pending) - n
  BY <1>2, <1>4, <1>5
<1>11. After(r, n, k, t).shown \o After(r, n, k, t).pending = r.shown \o r.pending
  BY <1>4, <1>5, <1>6
<1>12. Gave(r, After(r, n, k, t), n, k, t)
  BY <1>8, <1>9, <1>10, <1>11 DEF Gave
<1> QED BY <1>7, <1>12

\* What the loop keeps: the bytes c, the beginning of a frame that is held back,
\* and the frames on the screen, if nothing that was read interrupts a marker.
Sound(r, c, x) ==
    /\ r \in Outputs /\ r.shown \o r.pending = c
    /\ r.since # "none" => OpensFrame(r.pending)
    /\ ~Interrupted(x) => ~Interrupted(c) /\ Framed(c, Len(r.shown), r.torn)

Left(r) == 2 * Len(r.pending) + (IF r.since = "none" THEN 1 ELSE 0)

LEMMA RoundKeeps ==
    ASSUME NEW c, NEW x, NEW r, Sound(r, c, x)
    PROVE  /\ Sound(Round(r), c, x)
           /\ Round(r) = r \/ Left(Round(r)) + 1 <= Left(r)
<1>1. r \in Outputs /\ r.shown \o r.pending = c
  BY DEF Sound
<1>2. /\ r.pending \in Seq(Bytes) /\ r.shown \in Seq(Bytes) /\ Len(r.pending) \in Nat /\ Len(r.shown) \in Nat
      /\ r.since \in Kinds /\ Flag(r.torn) /\ Flag(TRUE)
  BY <1>1 DEF Outputs, Flag
<1>3. Cut(c, r.shown, r.pending)
  BY <1>1, <1>2, CutHere
<1> DEFINE Fits(n, k, t) ==
              /\ n \in 0..Len(r.pending) /\ k \in Kinds /\ Flag(t)
              /\ k # "none" => OpensFrame(From(r.pending, n + 1))
              /\ ~Interrupted(x) => Framed(c, Len(r.shown) + n, t)
<1>4. ASSUME NEW n, NEW k, NEW t, Fits(n, k, t)
      PROVE  /\ Sound(After(r, n, k, t), c, x) /\ Len(After(r, n, k, t).pending) = Len(r.pending) - n
             /\ After(r, n, k, t).since = k
  <2>1. PICK s : s = After(r, n, k, t) /\ Gave(r, s, n, k, t)
    BY <1>1, <1>4, AfterIs
  <2>2. /\ s \in Outputs /\ s.shown \o s.pending = r.shown \o r.pending
        /\ Len(s.pending) = Len(r.pending) - n /\ s.since = k /\ s.pending = From(r.pending, n + 1)
    BY <2>1 DEF Gave
  <2>3. Framed(c, Len(r.shown) + n, t) => Framed(c, Len(s.shown), s.torn)
    <3>1. Len(s.shown) = Len(r.shown) + n /\ s.torn = t
      BY <2>1 DEF Gave
    <3> QED BY <3>1, Zenon
  <2>4. s.since # "none" => OpensFrame(s.pending)
    BY <1>4, <2>2
  <2>5. Sound(s, c, x)
    BY <1>1, <1>4, <2>2, <2>3, <2>4 DEF Sound
  <2> QED BY <2>1, <2>2, <2>5
<1>5. CASE r.since = "none" /\ Has(r.pending, Begin)
  <2>1. PICK n : n = Find(r.pending, Begin) - 1
    OBVIOUS
  <2>2. Round(r) = After(r, n, "fresh", r.torn)
    BY <1>1, <1>5, <2>1, RoundIs
  <2>3. n \in 0..Len(r.pending) /\ (~Interrupted(x) => Framed(c, Len(r.shown) + n, r.torn))
    <3>1. n \in 0..Len(r.pending)
      <4>1. Find(r.pending, Begin) \in Places(r.pending, Begin)
        BY <1>2, <1>5, Markers, FirstPlace
      <4>2. Len(Begin) \in Nat /\ Len(Begin) >= 2
        BY Markers
      <4>3. Find(r.pending, Begin) \in Nat \ {0} /\ Find(r.pending, Begin) + Len(Begin) - 1 <= Len(r.pending)
        BY <1>2, <4>1, MarkerAt
      <4> QED BY <1>2, <2>1, <4>2, <4>3
    <3>2. ASSUME ~Interrupted(x) PROVE Framed(c, Len(r.shown) + n, r.torn)
      <4>1. ~Interrupted(c) /\ Framed(c, Len(r.shown), r.torn)
        BY <3>2 DEF Sound
      <4>2. Framed(c, Len(r.shown) + (Find(r.pending, Begin) - 1), r.torn)
        BY <1>3, <1>5, <3>2, <4>1, GiveUpToFrame
      <4> QED BY <2>1, <4>2
    <3> QED BY <3>1, <3>2
  <2>4. OpensFrame(From(r.pending, n + 1))
    <3>1. PICK i : i = n + 1 /\ i \in Places(r.pending, Begin)
      <4>1. Find(r.pending, Begin) \in Places(r.pending, Begin)
        BY <1>2, <1>5, Markers, FirstPlace
      <4>2. Find(r.pending, Begin) \in Nat
        BY <1>2, <4>1, MarkerAt
      <4>3. n + 1 = Find(r.pending, Begin)
        BY <2>1, <4>2
      <4> QED BY <4>1, <4>3
    <3>2. PICK l : l = Len(Begin) /\ l \in Nat
      BY Markers
    <3>3. i \in Nat \ {0} /\ i + l - 1 <= Len(r.pending) /\ \A k \in 1..l : r.pending[i + k - 1] = Begin[k]
      BY <1>2, <3>1, <3>2, MarkerAt
    <3>4. /\ Len(From(r.pending, n + 1)) = Len(r.pending) - n
          /\ \A k \in 1..Len(r.pending) - n : From(r.pending, n + 1)[k] = r.pending[n + k]
      BY <1>2, <2>3, Parts2
    <3>5. n \in Nat
      BY <2>3
    <3>6. Len(From(r.pending, n + 1)) >= l
      BY <1>2, <3>1, <3>2, <3>3, <3>4, <3>5
    <3>7. ASSUME NEW k, k \in 1..l PROVE From(r.pending, n + 1)[k] = Begin[k]
      <4>1. k \in 1..Len(r.pending) - n /\ n + k = i + k - 1
        BY <1>2, <3>1, <3>2, <3>3, <3>5, <3>7
      <4> QED BY <3>3, <3>4, <3>7, <4>1
    <3> QED BY <3>2, <3>6, <3>7 DEF OpensFrame
  <2>5. /\ Sound(Round(r), c, x) /\ Len(Round(r).pending) = Len(r.pending) - n /\ Round(r).since = "fresh"
    <3>1. "fresh" \in Kinds
      BY DEF Kinds
    <3>2. Flag(r.torn)
      BY <1>2
    <3>3. Fits(n, "fresh", r.torn)
      BY <2>2, <2>3, <2>4, <3>1, <3>2, Zenon
    <3> HIDE DEF Fits
    <3> QED BY <1>4, <2>2, <3>3
  <2>6. Left(Round(r)) + 1 <= Left(r)
    BY <1>2, <1>5, <2>3, <2>5 DEF Left
  <2> QED BY <2>5, <2>6
<1>6. CASE r.since = "none" /\ ~Has(r.pending, Begin)
  <2>1. PICK n : n = Len(r.pending) - PartialSuffix(r.pending, Begin)
    OBVIOUS
  <2>2. Round(r) = After(r, n, "none", r.torn)
    BY <1>1, <1>6, <2>1, RoundIs
  <2>3. n \in 0..Len(r.pending)
    <3>1. Begin \in Seq(Bytes) /\ Begin # <<>> /\ Len(Begin) \in Nat
      <4>1. Begin \in Seq(Bytes) /\ Len(Begin) \in Nat /\ Len(Begin) >= 2
        BY Markers
      <4> QED BY <4>1
    <3>2. /\ PartialSuffix(r.pending, Begin) \in 0..Len(Begin) - 1
          /\ EndsIn(r.pending, Begin, PartialSuffix(r.pending, Begin))
      BY <1>2, <3>1, PartialIs
    <3>3. PICK m : m = PartialSuffix(r.pending, Begin) /\ m \in Nat /\ m <= Len(r.pending)
      BY <3>1, <3>2 DEF EndsIn
    <3> QED BY <1>2, <2>1, <3>3
  <2>4. ASSUME ~Interrupted(x) PROVE Framed(c, Len(r.shown) + n, r.torn)
    <3>1. ~Interrupted(c) /\ Framed(c, Len(r.shown), r.torn)
      BY <2>4 DEF Sound
    <3>2. Framed(c, Len(r.shown) + (Len(r.pending) - PartialSuffix(r.pending, Begin)), r.torn)
      BY <1>3, <1>6, <2>4, <3>1, GiveOutside
    <3> QED BY <2>1, <3>2
  <2>5. /\ Sound(Round(r), c, x) /\ Len(Round(r).pending) = Len(r.pending) - n /\ Round(r).since = "none"
    <3>1. "none" \in Kinds
      BY DEF Kinds
    <3>2. Flag(r.torn)
      BY <1>2
    <3>3. Fits(n, "none", r.torn)
      BY <2>2, <2>3, <2>4, <3>1, <3>2, Zenon
    <3> HIDE DEF Fits
    <3> QED BY <1>4, <2>2, <3>3
  <2>6. CASE n = 0
    <3>1. Round(r) = r
      BY <1>1, <1>2, <1>6, <2>2, <2>3, <2>6, AfterIs
    <3> QED BY <2>5, <3>1
  <2>7. CASE n # 0
    <3>1. Left(Round(r)) + 1 <= Left(r)
      BY <1>2, <1>6, <2>3, <2>5, <2>7 DEF Left
    <3> QED BY <2>5, <3>1
  <2> QED BY <2>6, <2>7
<1>7. CASE r.since # "none" /\ Has(r.pending, End)
  <2>1. PICK n : n = Find(r.pending, End) + Len(End) - 1
    OBVIOUS
  <2>2. Round(r) = After(r, n, "none", r.torn)
    BY <1>1, <1>7, <2>1, RoundIs
  <2>3. n \in 0..Len(r.pending) /\ n >= 2 /\ Framed(c, Len(r.shown) + n, r.torn)
    BY <1>3, <1>7, <2>1, GiveFrame
  <2>4. /\ Sound(Round(r), c, x) /\ Len(Round(r).pending) = Len(r.pending) - n /\ Round(r).since = "none"
    <3>1. "none" \in Kinds
      BY DEF Kinds
    <3>2. Flag(r.torn)
      BY <1>2
    <3>3. Fits(n, "none", r.torn)
      BY <2>2, <2>3, <3>1, <3>2, Zenon
    <3> HIDE DEF Fits
    <3> QED BY <1>4, <2>2, <3>3
  <2>5. Left(Round(r)) + 1 <= Left(r)
    BY <1>2, <1>7, <2>3, <2>4 DEF Left
  <2> QED BY <2>4, <2>5
<1>8. CASE r.since # "none" /\ ~Has(r.pending, End) /\ Overdue(r)
  <2>1. PICK n : n = Len(r.pending) /\ n \in 0..Len(r.pending)
    BY <1>2
  <2>2. Round(r) = After(r, n, "none", TRUE)
    BY <1>1, <1>8, <2>1, RoundIs
  <2>3. OpensFrame(r.pending)
    BY <1>8 DEF Sound
  <2>4. Framed(c, Len(r.shown) + n, TRUE)
    BY <1>3, <1>8, <2>1, <2>3, GiveOverdue
  <2>5. /\ Sound(Round(r), c, x) /\ Len(Round(r).pending) = Len(r.pending) - n /\ Round(r).since = "none"
    <3>1. "none" \in Kinds
      BY DEF Kinds
    <3>2. Flag(TRUE)
      BY <1>2
    <3>3. Fits(n, "none", TRUE)
      BY <2>1, <2>2, <2>4, <3>1, <3>2, Zenon
    <3>4. PICK yes : yes = TRUE
      OBVIOUS
    <3>5. Fits(n, "none", yes)
      BY <3>3, <3>4, Zenon
    <3>6. Round(r) = After(r, n, "none", yes)
      BY <2>2, <3>4, Zenon
    <3> HIDE DEF Fits
    <3> QED BY <1>4, <3>5, <3>6
  <2>6. n >= 2
    <3>1. Len(Begin) \in Nat /\ Len(Begin) >= 2 /\ Len(r.pending) >= Len(Begin)
      BY <2>3, Markers DEF OpensFrame
    <3> QED BY <1>2, <2>1, <3>1
  <2>7. Left(Round(r)) + 1 <= Left(r)
    BY <1>2, <1>8, <2>1, <2>5, <2>6 DEF Left
  <2> QED BY <2>5, <2>7
<1>9. CASE r.since # "none" /\ ~Has(r.pending, End) /\ ~Overdue(r)
  <2>1. Round(r) = r
    BY <1>1, <1>9, RoundIs
  <2> QED BY <2>1
<1> QED BY <1>5, <1>6, <1>7, <1>8, <1>9

\* What the loop leaves: it returns.
LEMMA RoundsAre ==
    ASSUME NEW c, NEW x, NEW r, Sound(r, c, x)
    PROVE  Sound(Rounds(r), c, x) /\ Round(Rounds(r)) = Rounds(r)
<1> DEFINE D == {q \in Outputs : Sound(q, c, x)}
           f == [q \in D |-> Round(q)]
           Loop(g) == g = [n \in Nat |-> IF n = 0 THEN r ELSE Round(g[n - 1])]
           round == CHOOSE g : Loop(g)
<1>1. \A q \in D : q \in Outputs /\ Sound(q, c, x)
  OBVIOUS
<1>2. \A q : Sound(q, c, x) => q \in D
  BY DEF Sound
<1> HIDE DEF D
<1>3. f \in [D -> D]
  <2>1. ASSUME NEW q \in D PROVE Round(q) \in D
    BY <1>1, <1>2, RoundKeeps
  <2> QED BY <2>1
<1>4. PICK g \in [Nat -> D] : g[0] = r /\ \A n \in Nat : g[n + 1] = f[g[n]]
  <2>1. r \in D
    BY <1>2
  <2> HIDE DEF f
  <2>2. \E g : g \in [Nat -> D] /\ AreRounds(g, f, r)
    BY <1>3, <2>1, LoopExists
  <2> QED BY <2>2 DEF AreRounds
<1>5. Loop(g)
  <2>1. ASSUME NEW n \in Nat PROVE g[n] = IF n = 0 THEN r ELSE Round(g[n - 1])
    <3>1. CASE n # 0
      <4>1. n - 1 \in Nat /\ (n - 1) + 1 = n
        BY <3>1
      <4>2. g[n] = f[g[n - 1]] /\ g[n - 1] \in D
        BY <1>4, <4>1
      <4> QED BY <3>1, <4>2
    <3>2. CASE n = 0
      BY <1>4, <3>2
    <3> QED BY <3>1, <3>2
  <2>2. g = [n \in Nat |-> g[n]]
    BY <1>4
  <2> HIDE DEF f
  <2> QED BY <2>1, <2>2
<1>6. Loop(round)
  <2> HIDE DEF Loop
  <2> QED BY <1>5
<1>7. Rounds(r) = round[2 * Len(r.pending) + 2]
  BY DEF Rounds
<1> HIDE DEF round
<1>8. round[0] = r /\ \A n \in Nat : round[n + 1] = Round(round[n])
  <2>1. ASSUME NEW n \in Nat PROVE round[n + 1] = Round(round[n])
    <3>1. n + 1 \in Nat /\ n + 1 # 0 /\ (n + 1) - 1 = n
      OBVIOUS
    <3> QED BY <1>6, <3>1
  <2> QED BY <1>6, <2>1
<1> HIDE DEF Loop
<1>9. \A q : Sound(q, c, x) => Left(q) \in Nat /\ Left(q) <= 2 * Len(q.pending) + 1 /\ Len(q.pending) \in Nat
  <2>1. ASSUME NEW q, Sound(q, c, x) PROVE Left(q) \in Nat /\ Left(q) <= 2 * Len(q.pending) + 1 /\ Len(q.pending) \in Nat
    <3>1. q.pending \in Seq(Bytes)
      BY <2>1 DEF Sound, Outputs
    <3>2. PICK l : l = Len(q.pending) /\ l \in Nat
      BY <3>1
    <3>3. Left(q) = 2 * l + 0 \/ Left(q) = 2 * l + 1
      BY <3>2 DEF Left
    <3> QED BY <3>2, <3>3
  <2> QED BY <2>1
<1> DEFINE J == {n \in Nat : /\ Sound(round[n], c, x)
                             /\ Round(round[n]) = round[n] \/ Left(round[n]) + n <= Left(r)}
<1>10. J = Nat
  <2>1. 0 \in J
    <3>1. Left(r) + 0 <= Left(r)
      BY <1>9
    <3> QED BY <1>8, <3>1
  <2>2. ASSUME NEW n \in J PROVE n + 1 \in J
    <3>1. n \in Nat /\ Sound(round[n], c, x) /\ round[n + 1] = Round(round[n])
      BY <1>8, <2>2
    <3>2. Sound(round[n + 1], c, x)
      BY <3>1, RoundKeeps
    <3>3. CASE Round(round[n]) = round[n]
      BY <3>1, <3>2, <3>3
    <3>4. CASE Round(round[n]) # round[n]
      <4>1. Left(round[n + 1]) + 1 <= Left(round[n])
        BY <3>1, <3>4, RoundKeeps
      <4>2. Left(round[n]) + n <= Left(r)
        BY <2>2, <3>4
      <4>3. Left(round[n + 1]) \in Nat /\ Left(round[n]) \in Nat /\ Left(r) \in Nat
        BY <1>9, <3>1, <3>2
      <4>4. Left(round[n + 1]) + (n + 1) <= Left(r)
        BY <3>1, <4>1, <4>2, <4>3
      <4> QED BY <3>1, <3>2, <4>4
    <3> QED BY <3>3, <3>4
  <2>3. J \in SUBSET Nat
    OBVIOUS
  <2> HIDE DEF J
  <2> QED BY <2>1, <2>2, <2>3, HoldsForEver
<1>11. PICK z : z = 2 * Len(r.pending) + 2 /\ z \in Nat /\ ~(z <= Left(r))
  <2>1. Left(r) \in Nat /\ Left(r) <= 2 * Len(r.pending) + 1 /\ Len(r.pending) \in Nat
    BY <1>9
  <2> QED BY <2>1
<1>12. Sound(round[z], c, x) /\ (Round(round[z]) = round[z] \/ Left(round[z]) + z <= Left(r))
  BY <1>10, <1>11
<1>13. ~(Left(round[z]) + z <= Left(r))
  <2>1. Left(round[z]) \in Nat /\ Left(r) \in Nat
    BY <1>9, <1>12
  <2> QED BY <1>11, <2>1
<1> QED BY <1>7, <1>11, <1>12, <1>13

\* What is held back when the loop returns.
Held(p, k) ==
    IF k = "none" THEN Len(p) < Len(Begin) /\ p = SubSeq(Begin, 1, Len(p))
    ELSE SubSeq(p, 1, Len(Begin)) = Begin /\ ~Has(p, End) /\ Len(p) < FrameLimit

LEMMA ReturnIs ==
    ASSUME NEW c, NEW x, NEW r, Sound(r, c, x), Round(r) = r
    PROVE  Held(r.pending, r.since) /\ r.since # "expired"
<1>1. r \in Outputs
  BY DEF Sound
<1>2. /\ r.pending \in Seq(Bytes) /\ Len(r.pending) \in Nat /\ r.since \in Kinds /\ Flag(r.torn) /\ Flag(TRUE)
  <2>1. r.pending \in Seq(Bytes) /\ Len(r.pending) \in Nat /\ r.since \in Kinds
    BY <1>1 DEF Outputs
  <2>2. Flag(r.torn)
    BY <1>1 DEF Outputs, Flag
  <2>3. Flag(TRUE)
    BY DEF Flag
  <2> QED BY <2>1, <2>2, <2>3, Zenon
<1>3. ASSUME NEW n, n \in 0..Len(r.pending), NEW k, k \in Kinds, NEW t, Flag(t), Round(r) = After(r, n, k, t)
      PROVE  r.since = k /\ n = 0
  <2>1. Gave(r, r, n, k, t)
    <3>1. Gave(r, After(r, n, k, t), n, k, t)
      BY <1>1, <1>3, AfterIs, Zenon
    <3>2. After(r, n, k, t) = r
      BY <1>3
    <3> QED BY <3>1, <3>2, Zenon
  <2>2. r.since = k /\ Len(r.pending) = Len(r.pending) - n
    <3>1. r.since = k
      BY <2>1 DEF Gave
    <3>2. Len(r.pending) = Len(r.pending) - n
      BY <2>1 DEF Gave
    <3> QED BY <3>1, <3>2
  <2>3. PICK z : z = Len(r.pending) /\ z \in Nat
    BY <1>2
  <2>4. n \in 0..z
    BY <1>3, <2>3
  <2>5. z = z - n
    BY <2>2, <2>3
  <2>6. n = 0
    BY <2>3, <2>4, <2>5
  <2> QED BY <2>2, <2>6
<1>4. "none" \in Kinds /\ "fresh" \in Kinds
  BY DEF Kinds
<1>5. PICK l : /\ l = Len(Begin) /\ l \in Nat /\ l >= 2 /\ Len(End) = l
               /\ Begin \in Seq(Bytes) /\ End \in Seq(Bytes) /\ Begin # <<>>
  <2>1. /\ Len(Begin) \in Nat /\ Len(Begin) >= 2 /\ Len(End) = Len(Begin)
        /\ Begin \in Seq(Bytes) /\ End \in Seq(Bytes)
    BY Markers
  <2>2. Begin # <<>>
    BY <2>1
  <2> QED BY <2>1, <2>2
<1>6. CASE r.since = "none" /\ Has(r.pending, Begin)
  <2>1. PICK n : n = Find(r.pending, Begin) - 1 /\ n \in 0..Len(r.pending)
    <3>1. Find(r.pending, Begin) \in Places(r.pending, Begin)
      BY <1>2, <1>5, <1>6, FirstPlace
    <3>2. Find(r.pending, Begin) \in Nat \ {0} /\ Find(r.pending, Begin) + Len(Begin) - 1 <= Len(r.pending)
      BY <1>2, <3>1, MarkerAt
    <3> QED BY <1>2, <1>5, <3>2
  <2>2. Round(r) = After(r, n, "fresh", r.torn)
    BY <1>1, <1>6, <2>1, RoundIs
  <2>3. r.since = "fresh"
    BY <1>2, <1>3, <1>4, <2>1, <2>2
  <2> QED BY <1>6, <2>3
<1>7. CASE r.since = "none" /\ ~Has(r.pending, Begin)
  <2>1. PICK m : /\ m = PartialSuffix(r.pending, Begin) /\ m \in 0..l - 1 /\ EndsIn(r.pending, Begin, m)
    BY <1>2, <1>5, PartialIs
  <2>2. m <= Len(r.pending) /\ \A k \in 1..m : r.pending[Len(r.pending) - m + k] = Begin[k]
    BY <2>1 DEF EndsIn
  <2>3. PICK n : n = Len(r.pending) - m /\ n \in 0..Len(r.pending)
    BY <1>2, <1>5, <2>1, <2>2
  <2>4. Round(r) = After(r, n, "none", r.torn)
    BY <1>1, <1>7, <2>1, <2>3, RoundIs
  <2>5. n = 0
    BY <1>2, <1>3, <1>4, <2>3, <2>4
  <2>6. Len(r.pending) = m /\ m \in 0..l
    BY <1>2, <1>5, <2>1, <2>3, <2>5
  <2>7. \A k \in 1..m : r.pending[k] = Begin[k]
    <3>1. ASSUME NEW k \in 1..m PROVE r.pending[k] = Begin[k]
      <4>1. Len(r.pending) - m + k = k
        BY <1>2, <2>6
      <4> QED BY <2>2, <4>1
    <3> QED BY <3>1
  <2>8. r.pending = SubSeq(Begin, 1, m)
    <3>1. /\ SubSeq(Begin, 1, m) \in Seq(Bytes) /\ Len(SubSeq(Begin, 1, m)) = m
          /\ \A k \in 1..m : SubSeq(Begin, 1, m)[k] = Begin[k]
      BY <1>5, <2>6, Parts2
    <3> QED BY <1>2, <2>6, <2>7, <3>1, SeqEqual
  <2>9. Len(r.pending) < Len(Begin)
    BY <1>5, <2>1, <2>6
  <2> QED BY <1>7, <2>6, <2>8, <2>9 DEF Held
<1>8. CASE r.since # "none" /\ Has(r.pending, End)
  <2>1. PICK n : n = Find(r.pending, End) + Len(End) - 1 /\ n \in 0..Len(r.pending)
    <3>1. Find(r.pending, End) \in Places(r.pending, End)
      BY <1>2, <1>5, <1>8, FirstPlace
    <3>2. Find(r.pending, End) \in Nat \ {0} /\ Find(r.pending, End) + Len(Begin) - 1 <= Len(r.pending)
      BY <1>2, <3>1, MarkerAt
    <3> QED BY <1>2, <1>5, <3>2
  <2>2. Round(r) = After(r, n, "none", r.torn)
    BY <1>1, <1>8, <2>1, RoundIs
  <2>3. r.since = "none"
    BY <1>2, <1>3, <1>4, <2>1, <2>2
  <2> QED BY <1>8, <2>3
<1>9. CASE r.since # "none" /\ ~Has(r.pending, End) /\ Overdue(r)
  <2>0. PICK yes : yes = TRUE
    OBVIOUS
  <2>1. PICK n : n = Len(r.pending) /\ n \in 0..Len(r.pending)
    BY <1>2
  <2>2. Round(r) = After(r, n, "none", TRUE)
    BY <1>1, <1>9, <2>1, RoundIs
  <2>3. Round(r) = After(r, n, "none", yes) /\ Flag(yes)
    BY <1>2, <2>0, <2>2, Zenon
  <2>4. r.since = "none"
    BY <1>3, <1>4, <2>1, <2>3
  <2> QED BY <1>9, <2>4
<1>10. CASE r.since # "none" /\ ~Has(r.pending, End) /\ ~Overdue(r)
  <2>1. OpensFrame(r.pending)
    BY <1>10 DEF Sound
  <2>2. l \in 0..Len(r.pending) /\ \A k \in 1..l : r.pending[k] = Begin[k]
    BY <1>2, <1>5, <2>1 DEF OpensFrame
  <2>3. SubSeq(r.pending, 1, l) = Begin
    <3>1. /\ SubSeq(r.pending, 1, l) \in Seq(Bytes) /\ Len(SubSeq(r.pending, 1, l)) = l
          /\ \A k \in 1..l : SubSeq(r.pending, 1, l)[k] = r.pending[k]
      BY <1>2, <2>2, Parts2
    <3> QED BY <1>5, <2>2, <3>1, SeqEqual
  <2>4. Len(r.pending) < FrameLimit /\ r.since # "expired"
    <3>1. FrameLimit \in Nat
      BY Markers
    <3> QED BY <1>2, <1>10, <3>1 DEF Overdue
  <2> QED BY <1>5, <1>10, <2>3, <2>4 DEF Held
<1> QED BY <1>6, <1>7, <1>8, <1>9, <1>10

----
(* The output of a terminal *)

\* The screen u is in no frame, or one was cut; and outside of one no marker has
\* begun.
FramedHere(u, cut) == (InFrame(u) => cut) /\ (InFrame(u) \/ Clean(u, Begin))

\* What holds of the pane when x was read.
PaneSound(x, p, k, u, t) ==
    /\ p \in Seq(Bytes) /\ u \in Seq(Bytes) /\ k \in Kinds /\ Flag(t)
    /\ Faithful(x, u \o p) /\ (k # "none" => OpensFrame(p))
    /\ ~Interrupted(x) => FramedHere(u, t)

\* process_complete_output_frames, called with what is pending and what arrived.
LEMMA LoopKeeps ==
    ASSUME NEW x, x \in Seq(Bytes), NEW p, NEW k, NEW u, NEW t, PaneSound(x, p, k, u, t),
           NEW r, r = Rounds(State(p, k, u, t))
    PROVE  /\ PaneSound(x, r.pending, r.since, r.shown, r.torn /\ InFrame(r.shown))
           /\ Held(r.pending, r.since) /\ r.since # "expired"
<1>1. PICK s : s = State(p, k, u, t)
  OBVIOUS
<1>2. s \in Outputs /\ s.pending = p /\ s.since = k /\ s.shown = u /\ s.torn = t
  <2>1. p \in Seq(Bytes) /\ u \in Seq(Bytes) /\ k \in Kinds /\ t \in BOOLEAN
    BY DEF PaneSound, Flag
  <2> QED BY <1>1, <2>1 DEF State, Outputs
<1>3. PICK c : c = u \o p
  OBVIOUS
<1>4. Faithful(x, c) /\ c \in Seq(Bytes)
  BY <1>3 DEF PaneSound, Faithful
<1>5. ASSUME ~Interrupted(x) PROVE ~Interrupted(c)
  <2>1. <<>> \in Seq(Bytes)
    OBVIOUS
  <2>2. Interrupted(c \o <<>>) => Interrupted(x \o <<>>)
    BY <1>4, <2>1 DEF Faithful
  <2>3. c \o <<>> = c /\ x \o <<>> = x
    BY <1>4
  <2> QED BY <1>5, <2>2, <2>3
<1>6. ASSUME NEW v, NEW w, NEW b, v \in Seq(Bytes), w \in Seq(Bytes), c = v \o w
      PROVE  FramedHere(v, b) <=> Framed(c, Len(v), b)
  <2>1. (InFrame(v) <=> OpenAt(c, Len(v))) /\ (Clean(v, Begin) <=> CleanAt(c, Len(v)))
    BY <1>6, CutIs
  <2> QED BY <2>1, Zenon DEF FramedHere, Framed
<1>7. Sound(s, c, x)
  <2>1. ASSUME ~Interrupted(x) PROVE Framed(c, Len(u), t)
    <3>1. FramedHere(u, t) /\ u \in Seq(Bytes) /\ p \in Seq(Bytes)
      BY <2>1 DEF PaneSound
    <3> QED BY <1>3, <1>6, <3>1
  <2>2. ASSUME ~Interrupted(x) PROVE Framed(c, Len(s.shown), s.torn)
    BY <1>2, <2>1, <2>2, Zenon
  <2>3. s.shown \o s.pending = c /\ (s.since # "none" => OpensFrame(s.pending))
    BY <1>2, <1>3 DEF PaneSound
  <2> QED BY <1>2, <1>5, <2>2, <2>3 DEF Sound
<1>8. r = Rounds(s) /\ Sound(r, c, x) /\ Round(r) = r
  BY <1>1, <1>7, RoundsAre
<1>9. Held(r.pending, r.since) /\ r.since # "expired"
  BY <1>8, ReturnIs
<1>10. /\ r \in Outputs /\ r.shown \o r.pending = c /\ (r.since # "none" => OpensFrame(r.pending))
       /\ ~Interrupted(x) => Framed(c, Len(r.shown), r.torn)
  BY <1>8 DEF Sound
<1>11. r.pending \in Seq(Bytes) /\ r.shown \in Seq(Bytes) /\ r.since \in Kinds
  BY <1>10 DEF Outputs
<1>12. ASSUME ~Interrupted(x) PROVE FramedHere(r.shown, r.torn)
  <2>1. Framed(c, Len(r.shown), r.torn) /\ c = r.shown \o r.pending
    BY <1>10, <1>12
  <2> QED BY <1>6, <1>11, <2>1
<1>13. ASSUME ~Interrupted(x) PROVE FramedHere(r.shown, r.torn /\ InFrame(r.shown))
  BY <1>12, <1>13, Zenon DEF FramedHere
<1>14. Flag(r.torn /\ InFrame(r.shown))
  BY DEF Flag
<1>15. Faithful(x, r.shown \o r.pending)
  BY <1>4, <1>10
<1> QED BY <1>9, <1>10, <1>11, <1>13, <1>14, <1>15, Zenon DEF PaneSound

\* Taking out all sequences of a kind.
LEMMA AllRemovalsKeep ==
    ASSUME NEW x, x \in Seq(Bytes), NEW p, NEW k, NEW u, NEW t, PaneSound(x, p, k, u, t),
           NEW prefix, prefix \in {Command, Clip}, NEW last, last \in Values
    PROVE  /\ PaneSound(x, TakeOutAll(p, prefix, last).bytes, k, u, t)
           /\ TakeOutAll(p, prefix, last).last \in Values
<1>1. p \in Seq(Bytes) /\ u \in Seq(Bytes) /\ Faithful(x, u \o p) /\ (k # "none" => OpensFrame(p))
  BY DEF PaneSound
<1> DEFINE P == {q \in Seq(Bytes) : Faithful(x, u \o q) /\ (k # "none" => OpensFrame(q))}
<1>2. ASSUME NEW q \in P, IsComplete(q, prefix) PROVE TakeOut(q, prefix).left \in P
  <2>1. q \in Seq(Bytes) /\ Faithful(x, u \o q) /\ (k # "none" => OpensFrame(q))
    BY <1>2
  <2>2. PICK l : l = TakeOut(q, prefix).left /\ l \in Seq(Bytes) /\ Faithful(x, u \o l) /\ (OpensFrame(q) => OpensFrame(l))
    BY <1>1, <1>2, <2>1, RemovalKeeps
  <2> QED BY <2>1, <2>2
<1>3. P \in SUBSET Seq(Bytes) /\ p \in P
  BY <1>1
<1>4. PICK all : all = TakeOutAll(p, prefix, last) /\ all.bytes \in P /\ all.last \in Values
  <2> HIDE DEF P
  <2> QED BY <1>2, <1>3, TakeOutAllKeeps
<1>5. all.bytes \in Seq(Bytes) /\ Faithful(x, u \o all.bytes) /\ (k # "none" => OpensFrame(all.bytes))
  BY <1>4
<1> QED BY <1>4, <1>5 DEF PaneSound

\* The whole of process_output, and of flush_expired_synchronized_output.
LEMMA ProcessKeeps ==
    ASSUME NEW x, x \in Seq(Bytes), NEW bytes, PaneSound(x, bytes, since, shown, torn), recent \in Values,
           Process(bytes)
    PROVE  /\ PaneSound(x, pending', since', shown', torn') /\ Held(pending', since')
           /\ since' # "expired" /\ recent' \in Values
<1>1. PICK cleared : cleared = TakeOutAll(bytes, Clip, NoCommand).bytes
  OBVIOUS
<1>2. PICK freed : freed = TakeOutAll(cleared, Command, recent)
  OBVIOUS
<1>3. PICK r : r = Rounds(State(freed.bytes, since, shown, torn))
  OBVIOUS
<1>4. /\ pending' = r.pending /\ since' = r.since /\ shown' = r.shown /\ recent' = freed.last
      /\ torn' = (r.torn /\ InFrame(r.shown))
  BY <1>1, <1>2, <1>3 DEF Process, State
<1>5. PaneSound(x, cleared, since, shown, torn)
  <2>1. NoCommand \in Values /\ Clip \in {Command, Clip}
    BY DEF Values
  <2> QED BY <1>1, <2>1, AllRemovalsKeep
<1>6. PaneSound(x, freed.bytes, since, shown, torn) /\ freed.last \in Values
  BY <1>2, <1>5, AllRemovalsKeep
<1>7. /\ PaneSound(x, r.pending, r.since, r.shown, r.torn /\ InFrame(r.shown))
      /\ Held(r.pending, r.since) /\ r.since # "expired"
  BY <1>3, <1>6, LoopKeeps
<1> QED BY <1>4, <1>6, <1>7, Zenon

\* What was read is on the screen or pending, but for the sequences that were
\* taken out; nothing of it interrupts a marker that what was read does not; and
\* the frames.
PaneInv ==
    /\ wire \in Seq(Bytes) /\ read \in Seq(Bytes) /\ recent \in Values
    /\ PaneSound(read, pending, since, shown, torn) /\ Held(pending, since)

LEMMA PaneInvShows == PaneInv => TypeOutput /\ NothingLost /\ FramesWhole
<1> SUFFICES ASSUME PaneInv PROVE TypeOutput /\ NothingLost /\ FramesWhole
  OBVIOUS
<1>1. PaneSound(read, pending, since, shown, torn) /\ wire \in Seq(Bytes) /\ read \in Seq(Bytes) /\ recent \in Values
  BY DEF PaneInv
<1>2. TypeOutput
  <2>1. pending \in Seq(Bytes) /\ shown \in Seq(Bytes) /\ since \in Kinds /\ torn \in BOOLEAN
    BY <1>1 DEF PaneSound, Flag
  <2> QED BY <1>1, <2>1 DEF TypeOutput, Kinds, Values
<1>3. NothingLost
  BY <1>1 DEF PaneSound, Faithful, NothingLost
<1>4. FramesWhole
  <2>1. ~Interrupted(read) => FramedHere(shown, torn)
    BY <1>1 DEF PaneSound
  <2> QED BY <2>1, Zenon DEF FramedHere, FramesWhole
<1> QED BY <1>2, <1>3, <1>4

LEMMA PaneInit == InitOutput => PaneInv
<1> SUFFICES ASSUME InitOutput PROVE PaneInv
  OBVIOUS
<1>0. wire \in Seq(Bytes)
  <2>1. Streams \subseteq Seq(Bytes)
    BY Markers
  <2> QED BY <2>1 DEF InitOutput
<1>1. /\ read = <<>> /\ pending = <<>> /\ shown = <<>> /\ since = "none"
      /\ recent = NoCommand /\ torn = FALSE
  BY DEF InitOutput
<1>2. PICK e : e = <<>> /\ e \in Seq(Bytes) /\ Len(e) = 0 /\ e \o e = e
  <2>1. <<>> \in Seq(Bytes) /\ Len(<<>>) = 0
    OBVIOUS
  <2>2. <<>> \o <<>> = <<>>
    OBVIOUS
  <2> QED BY <2>1, <2>2
<1>3. PICK l : l = Len(Begin) /\ l \in Nat /\ l >= 2 /\ Begin \in Seq(Bytes)
  BY Markers
<1>4. Faithful(e, e \o e)
  BY <1>2, ExplainsItself DEF Faithful
<1>5. FramedHere(e, FALSE)
  <2>1. ASSUME NEW i, i \in Places(e, Begin) PROVE FALSE
    <3>1. i \in Nat \ {0} /\ i + Len(Begin) - 1 <= Len(e)
      BY <1>2, <2>1, MarkerAt
    <3> QED BY <1>2, <1>3, <3>1
  <2>2. ~InFrame(e)
    BY <2>1 DEF InFrame, Has
  <2>3. Clean(e, Begin)
    BY <1>2, <1>3 DEF Clean, EndsIn
  <2> QED BY <2>2, <2>3 DEF FramedHere
<1>6. Held(e, "none")
  <2>1. /\ SubSeq(Begin, 1, 0) \in Seq(Bytes) /\ Len(SubSeq(Begin, 1, 0)) = 0
    BY <1>3
  <2>2. SubSeq(Begin, 1, 0) = <<>>
    BY <2>1
  <2> QED BY <1>2, <1>3, <2>2 DEF Held
<1>7. "none" \in Kinds /\ Flag(FALSE) /\ NoCommand \in Values
  BY DEF Kinds, Flag, Values
<1>8. PaneSound(e, e, "none", e, FALSE)
  BY <1>2, <1>4, <1>5, <1>7 DEF PaneSound
<1> QED BY <1>0, <1>1, <1>2, <1>6, <1>7, <1>8 DEF PaneInv

\* A chunk arrives.
LEMMA PaneReads ==
    ASSUME PaneInv, ProcessOutput
    PROVE  PaneInv' /\ since' # "expired"
<1>1. PICK n \in 1..MaxRead :
         /\ n <= Len(wire) /\ Process(pending \o SubSeq(wire, 1, n))
         /\ read' = read \o SubSeq(wire, 1, n) /\ wire' = From(wire, n + 1)
  BY DEF ProcessOutput
<1>2. PaneSound(read, pending, since, shown, torn) /\ wire \in Seq(Bytes) /\ read \in Seq(Bytes) /\ recent \in Values
  BY DEF PaneInv
<1>3. n \in 0..Len(wire)
  BY <1>1, <1>2
<1>4. PICK w, rest : /\ w = SubSeq(wire, 1, n) /\ w \in Seq(Bytes) /\ rest = From(wire, n + 1) /\ rest \in Seq(Bytes)
  <2>1. SubSeq(wire, 1, n) \in Seq(Bytes) /\ From(wire, n + 1) \in Seq(Bytes)
    BY <1>2, <1>3, Parts2
  <2> QED BY <2>1
<1>5. PICK x, bytes : x = read \o w /\ bytes = pending \o w
  OBVIOUS
<1>6. /\ pending \in Seq(Bytes) /\ shown \in Seq(Bytes) /\ since \in Kinds /\ Flag(torn)
      /\ Faithful(read, shown \o pending) /\ (since # "none" => OpensFrame(pending))
      /\ ~Interrupted(read) => FramedHere(shown, torn)
  BY <1>2 DEF PaneSound
<1>7. x \in Seq(Bytes) /\ bytes \in Seq(Bytes) /\ Len(bytes) = Len(pending) + Len(w)
  BY <1>2, <1>4, <1>5, <1>6, JoinedTexts
<1>8. Faithful(x, shown \o bytes)
  <2>1. Faithful(read \o w, (shown \o pending) \o w)
    BY <1>2, <1>4, <1>6, FaithfulMore
  <2>2. Three(shown, pending, w)
    BY <1>4, <1>6 DEF Three
  <2>3. Joined(shown, pending, w)
    BY <2>2, JoinedIs
  <2> QED BY <1>5, <2>1, <2>3 DEF Joined
<1>9. ASSUME since # "none" PROVE OpensFrame(bytes)
  <2>1. OpensFrame(pending)
    BY <1>6, <1>9
  <2>2. \A k \in 1..Len(pending) : bytes[k] = pending[k]
    BY <1>4, <1>5, <1>6, JoinIs
  <2>3. PICK l, m, z : l = Len(Begin) /\ l \in Nat /\ m = Len(pending) /\ m \in Nat /\ z = Len(w) /\ z \in Nat
    <3>1. Len(Begin) \in Nat /\ Len(pending) \in Nat /\ Len(w) \in Nat
      BY <1>4, <1>6, Markers
    <3> QED BY <3>1
  <2>4. m >= l /\ \A k \in 1..l : pending[k] = Begin[k]
    BY <2>1, <2>3 DEF OpensFrame
  <2>5. \A k \in 1..l : bytes[k] = Begin[k]
    BY <2>2, <2>3, <2>4
  <2> QED BY <1>7, <2>3, <2>4, <2>5 DEF OpensFrame
<1>10. ASSUME ~Interrupted(x) PROVE FramedHere(shown, torn)
  <2>1. ~Interrupted(read)
    BY <1>2, <1>4, <1>5, <1>10, InterruptedMore
  <2> QED BY <1>6, <2>1
<1>11. PaneSound(x, bytes, since, shown, torn)
  BY <1>6, <1>7, <1>8, <1>9, <1>10 DEF PaneSound
<1>12. Process(bytes)
  BY <1>1, <1>4, <1>5
<1>13. /\ PaneSound(x, pending', since', shown', torn') /\ Held(pending', since')
       /\ since' # "expired" /\ recent' \in Values
  BY <1>2, <1>7, <1>11, <1>12, ProcessKeeps
<1>14. read' = x /\ wire' = rest
  BY <1>1, <1>4, <1>5
<1> QED BY <1>4, <1>7, <1>13, <1>14 DEF PaneInv

\* Every step of the output.
LEMMA PaneStep ==
    ASSUME PaneInv, [NextOutput]_outputVars
    PROVE  PaneInv' /\ (since = "expired" /\ read' # read => since' # "expired")
<1>1. CASE ProcessOutput
  BY <1>1, PaneReads
<1>2. CASE Expire
  <2>1. /\ since = "fresh" /\ since' = "expired" /\ wire' = wire /\ read' = read /\ pending' = pending
        /\ shown' = shown /\ recent' = recent /\ torn' = torn
    BY <1>2 DEF Expire
  <2>2. /\ wire \in Seq(Bytes) /\ read \in Seq(Bytes) /\ recent \in Values
        /\ PaneSound(read, pending, since, shown, torn) /\ Held(pending, since)
    BY DEF PaneInv
  <2>3. Held(pending, "expired")
    BY <2>1, <2>2 DEF Held
  <2>4. PaneSound(read, pending, "expired", shown, torn)
    BY <2>1, <2>2 DEF PaneSound, Kinds
  <2> QED BY <2>1, <2>2, <2>3, <2>4 DEF PaneInv
<1>3. CASE FlushExpired
  <2>1. Process(pending) /\ wire' = wire /\ read' = read
    BY <1>3 DEF FlushExpired
  <2>2. /\ wire \in Seq(Bytes) /\ read \in Seq(Bytes) /\ recent \in Values
        /\ PaneSound(read, pending, since, shown, torn)
    BY DEF PaneInv
  <2>3. PICK x, bytes : x = read /\ bytes = pending
    OBVIOUS
  <2>4. /\ PaneSound(x, pending', since', shown', torn') /\ Held(pending', since')
        /\ since' # "expired" /\ recent' \in Values
    BY <2>1, <2>2, <2>3, ProcessKeeps
  <2> QED BY <2>1, <2>2, <2>3, <2>4 DEF PaneInv
<1>4. CASE UNCHANGED outputVars
  <2>1. /\ wire' = wire /\ read' = read /\ pending' = pending /\ since' = since /\ shown' = shown
        /\ recent' = recent /\ torn' = torn
    BY <1>4 DEF outputVars
  <2>2. PaneInv'
    BY <2>1 DEF PaneInv
  <2> QED BY <2>1, <2>2
<1> QED BY <1>1, <1>2, <1>3, <1>4 DEF NextOutput

LEMMA PaneInvHolds == WindowSpec => []PaneInv
<1>1. WindowInit => PaneInv
  BY PaneInit DEF WindowInit
<1>2. PaneInv /\ [WindowNext]_windowVars => PaneInv'
  <2> SUFFICES ASSUME PaneInv, [WindowNext]_windowVars PROVE PaneInv'
    OBVIOUS
  <2>1. [NextOutput]_outputVars
    BY StepsOfParts
  <2> QED BY <2>1, PaneStep
<1> QED BY <1>1, <1>2, PTL DEF WindowSpec

\* docs/architecture.md, "never discarded": for every output of a shell, every
\* cut of it and every limit, the parser is given every byte once and in order,
\* except the sequences that are taken out.
THEOREM NothingIsLost == WindowSpec => []NothingLost
<1>1. PaneInv => NothingLost
  BY PaneInvShows
<1> QED BY <1>1, PaneInvHolds, PTL

\* docs/features.md section 4.1, "committed atomically": the screen is not within
\* a frame unless it was cut, or an escape sequence interrupts a marker.
THEOREM FramesAreCommitted == WindowSpec => []FramesWhole
<1>1. PaneInv => FramesWhole
  BY PaneInvShows
<1> QED BY <1>1, PaneInvHolds, PTL

\* No more than the start of a marker or a frame below the limit is held back, and
\* what arrives after the timeout ends the old frame.
THEOREM LittleIsHeldBack == WindowSpec => HeldBack
<1> DEFINE AtMost == IF since = "none" THEN Len(pending) < Len(Begin) /\ pending = SubSeq(Begin, 1, Len(pending))
                     ELSE /\ SubSeq(pending, 1, Len(Begin)) = Begin /\ ~Has(pending, End)
                          /\ Len(pending) < FrameLimit
           Late == since = "expired" /\ read' # read => since' # "expired"
<1>1. PaneInv => AtMost
  BY DEF PaneInv, Held
<1>2. PaneInv /\ [WindowNext]_windowVars => [Late]_outputVars
  <2> SUFFICES ASSUME PaneInv, [WindowNext]_windowVars PROVE Late
    OBVIOUS
  <2>1. [NextOutput]_outputVars
    BY StepsOfParts
  <2> QED BY <2>1, PaneStep
<1>3. PaneInv => TypeOutput
  BY PaneInvShows
<1>4. WindowSpec => []PaneInv /\ [][WindowNext]_windowVars
  BY PaneInvHolds, PTL DEF WindowSpec
<1> QED BY <1>1, <1>2, <1>3, <1>4, PTL DEF HeldBack
====
