---- MODULE Dialogs ----
(***************************************************************************)
(* What takes the keys of a frame (ade-app/src/main.rs).  The dialogs are   *)
(* drawn over the terminals in the same frames and share their input:      *)
(* AdeApp::ui takes its shortcuts out first, draws the terminals, which get *)
(* every key left unless they are deaf, and then the dialogs, some of which *)
(* take keys from those that follow and some only look at them.             *)
(* Keys, at most KeysAtOnce in a frame, are a set: no handler depends on    *)
(* their order.  What a chosen command asks of the daemon is UiSession's.   *)
(***************************************************************************)
EXTENDS Integers, SequencesExt, Subsequences

CONSTANTS PaletteCommands,  \* PALETTE_COMMANDS, in order
          Words,            \* command -> what its label contains
          Queries,          \* the trimmed texts one may search for
          NoQuery,          \* the empty one
          KeysAtOnce        \* bound: keys pressed in a frame

ASSUME DialogsAssumption ==
    /\ PaletteCommands \in Seq(DOMAIN Words) /\ NoQuery \in Queries /\ KeysAtOnce \in Nat

VARIABLES open,       \* the dialogs that are open
          fading,     \* the palette is closed and still drawn
          query,      \* palette_query
          selection,  \* palette_selection
          pasteDown,  \* paste_shortcut_down
          ended,      \* shutdown_requested
          drawing,    \* between raw_input_hook and ui of a frame
          doubled,    \* history: a terminal and a dialog took the same key in it
          taken,      \* history: the command the palette ran in it, and the
                      \* rows it was taken from
          pasted,     \* history: it gave an image to the events
          pressed     \* history: frames since the paste shortcut went down, 2 at most

pasteVars == <<pasteDown, pasted, pressed>>
dialogVars == <<open, fading, query, selection, ended, drawing, doubled, taken, pasteVars>>

\* Shortcuts (palette, split, F2) and the keys terminals and dialogs share.
Shortcuts == {"P", "split", "F2"}
Keys == Shortcuts \cup {"esc", "enter", "up", "down", "text"}

Nothing == "nothing"
OutOfRange == "index out of range"  \* the panic of an index beyond the rows
NoneTaken == [command |-> Nothing, rows |-> <<>>]

\* What the pointer may do in a frame, beyond a dialog, on its buttons, on the
\* sidebar, on a row of the palette, or on the title bar with sessions running
\* ("close") or without ("quit").
RowPointers == {"hover", "click"} \X (0..Len(PaletteCommands) - 1)
Pointers == {<<"rest">>, <<"away">>, <<"confirm">>, <<"cancel">>, <<"settings">>, <<"rename">>, <<"close">>, <<"quit">>}
    \cup RowPointers

Inputs == {input \in {k \in SUBSET Keys : Cardinality(k) <= KeysAtOnce} \X Pointers :
              input[2] = <<"rest">> \/ Cardinality(input[1]) < KeysAtOnce}

InitDialogs ==
    /\ open = {} /\ fading = FALSE /\ query = NoQuery /\ selection = 0
    /\ pasteDown = FALSE /\ ended = FALSE /\ drawing = FALSE
    /\ doubled = FALSE /\ taken = NoneTaken /\ pasted = FALSE /\ pressed = 0

TypeDialogs ==
    /\ open \subseteq {"palette", "rename", "settings", "limit", "question"}
    /\ query \in Queries /\ selection \in 0..Len(PaletteCommands)
    /\ {fading, pasteDown, ended, drawing, doubled, pasted} \subseteq BOOLEAN
    /\ pressed \in 0..2
    /\ taken.command \in {Nothing, OutOfRange} \cup ToSet(PaletteCommands)

----
(* raw_input_hook *)

\* What makes terminals deaf, but for the to-do draft: terminal_accepts_input
\* and terminal_input_enabled
Deafening == {"palette", "rename", "settings"}

CountPressed(down) == pressed' = IF ~down THEN 0 ELSE IF pressed = 2 THEN 2 ELSE pressed + 1

HookPastes(down, textPaste) ==
    down /\ ~pasteDown /\ ~textPaste /\ open \cap Deafening = {}

\* Mutant: the shortcut is remembered only when a terminal could take it.
HookForgets(down, textPaste, image) ==
    /\ pasted' = (image /\ HookPastes(down, textPaste))
    /\ pasteDown' = (down /\ open \cap Deafening = {})
    /\ CountPressed(down)

\* down: the keys are down in this frame; an image may be on the clipboard.
HookSees(down, textPaste, image) ==
    /\ pasted' = (image /\ HookPastes(down, textPaste))
    /\ pasteDown' = down
    /\ CountPressed(down)

RawInput ==
    /\ ~drawing /\ drawing' = TRUE
    /\ \E down, textPaste, image \in BOOLEAN : HookSees(down, textPaste, image)
    /\ UNCHANGED <<open, fading, query, selection, ended, doubled, taken>>

----
(* The steps of AdeApp::ui, in their order; o are the dialogs that are open *)
(* and k the keys that are left when each begins                            *)

\* handle_shortcuts; a split is one the limit of terminals refuses.
AfterShortcuts(o, k) ==
    o \cup {d \in {"palette"} : "P" \in k} \cup {d \in {"limit"} : "split" \in k}
      \cup {d \in {"rename"} : "F2" \in k}

\* A close request: the window asks, or without sessions shuts down.
AfterRequest(o, pointer) == o \cup {d \in {"question"} : pointer = <<"close">>}
ShutsDown(pointer) == "question" \notin open /\ pointer = <<"quit">>

Modal == {"settings", "limit", "question"}

\* The sidebar and the menus of its rows; a modal dialog covers them.
AfterSidebar(o, pointer) ==
    IF o \cap Modal # {} THEN o
    ELSE o \cup {d \in {"settings", "rename"} : pointer = <<d>>}

\* show_terminal_limit_popup: its modal takes escape when it is on top.
LimitDone(o, k, pointer) == "limit" \in o /\ ("enter" \in k \/ pointer = <<"confirm">>)
LimitEscapes(o, k, pointer, top) ==
    top = "limit" /\ "esc" \in k /\ ~LimitDone(o, k, pointer)
AfterLimit(o, k, pointer, top) ==
    IF LimitDone(o, k, pointer) \/ LimitEscapes(o, k, pointer, top) \/ (top = "limit" /\ pointer = <<"away">>)
    THEN o \ {"limit"} ELSE o

\* show_close_confirmation
Confirmed(o, k, pointer) == "question" \in o /\ ("enter" \in k \/ pointer = <<"confirm">>)
AfterQuestion(o, k, pointer, top) ==
    IF Confirmed(o, k, pointer) \/ "esc" \in k \/ pointer = <<"cancel">>
        \/ (top = "question" /\ pointer = <<"away">>)
    THEN o \ {"question"} ELSE o

\* workspace_dialogs looks at escape and leaves it; focused: its text field
\* had the focus and loses it to Enter.
AfterRename(o, k, pointer, focused) ==
    IF "esc" \in k \/ pointer \in {<<"confirm">>, <<"cancel">>} \/ ("enter" \in k /\ focused)
    THEN o \ {"rename"} ELSE o

\* settings_page
AfterSettings(o, k, pointer, top) ==
    IF "esc" \in k \/ pointer = <<"cancel">> \/ (top = "settings" /\ pointer = <<"away">>)
    THEN o \ {"settings"} ELSE o

----
(* command_palette *)

\* palette_matches
PaletteMatches(command, q) == q = NoQuery \/ q \in Words[command]

Rows(q) == Among(PaletteCommands, {command \in DOMAIN Words : PaletteMatches(command, q)})

\* One step up or down from row at, wrapping at both ends.
Moved(rows, k, at) ==
    IF rows = <<>> THEN at
    ELSE IF "up" \in k THEN IF at = 0 THEN Len(rows) - 1 ELSE at - 1
    ELSE IF "down" \in k THEN (at + 1) % Len(rows)
    ELSE at

\* Mutant: the selection is not brought back into the rows.
Unclamped(rows, k, at) == Moved(rows, k, at)

\* The selected row, brought back into the rows and moved.
Selected(rows, k, at) ==
    LET last == IF rows = <<>> THEN 0 ELSE Len(rows) - 1
    IN  Moved(rows, k, IF at > last THEN last ELSE at)

\* The command it runs: with Enter the row that is selected in the end, or the
\* row that is clicked.
Chosen(rows, k, pointer, at) ==
    IF "enter" \in k /\ rows # <<>> THEN IF at < Len(rows) THEN rows[at + 1] ELSE OutOfRange
    ELSE IF pointer[1] = "click" /\ pointer[2] < Len(rows) THEN rows[pointer[2] + 1]
    ELSE Nothing

\* What execute_palette_command opens.
Executed(o, command) ==
    o \cup {d \in {"limit"} : command = "split"} \cup {d \in {"rename"} : command = "rename"}

\* The palette is drawn with the text q and the row at: the text field may
\* change the text, which resets the selection, and a row the pointer is on
\* becomes the selected one.  The rows are those of the text before.
DrawPalette(o, k, pointer, q, at) ==
    LET rows == Rows(q)
        keep == Selected(rows, k, at)
        on(reset) == IF pointer \in RowPointers /\ pointer[2] < Len(rows) THEN pointer[2] ELSE reset
        what == Chosen(rows, k, pointer, selection')
    IN  /\ \/ query' = q /\ selection' = on(keep)
           \/ "text" \in k /\ query' \in Queries /\ selection' = on(0)
        /\ taken' = IF what = Nothing THEN NoneTaken ELSE [command |-> what, rows |-> rows]
        /\ open' = IF what # Nothing THEN Executed(o \ {"palette"}, what)
                   ELSE IF pointer = <<"away">> THEN o \ {"palette"} ELSE o
        /\ fading' = ("palette" \notin open')

LeavePalette(o, q, at) ==
    open' = o /\ fading' = FALSE /\ query' = q /\ selection' = at /\ taken' = NoneTaken

----
(* A frame *)

\* The keys that the rename dialog, the settings and the palette act on, if
\* the first two are open and the third is drawn.
Acts(o, shown) ==
    {key \in {"esc", "enter"} : "rename" \in o}
        \cup {key \in {"esc"} : o \cap {"settings", "palette"} # {}}
        \cup {key \in {"up", "down", "enter", "text"} : shown}

\* What is left of the frame when the terminals have been drawn: o are the open
\* dialogs and k the keys.  The palette is drawn while it is open and until it
\* has faded out.
DrawDialogs(o, k, pointer, q, at) ==
    \E top \in IF o \cap Modal = {} THEN {Nothing} ELSE o \cap Modal,
       focused \in IF "rename" \in o THEN BOOLEAN ELSE {FALSE} :
    LET k1 == IF LimitEscapes(o, k, pointer, top) THEN k \ {"esc"} ELSE k
        o1 == AfterQuestion(AfterLimit(o, k, pointer, top), k1, pointer, top)
        o2 == AfterRename(o1, k1, pointer, focused)
        o3 == AfterSettings(o2, k1, pointer, top)
        k2 == IF "settings" \in o2 THEN k1 \ {"esc"} ELSE k1
        o4 == IF "esc" \in k2 THEN o3 \ {"palette"} ELSE o3
    IN     \/ /\ "palette" \in o4 \/ fading \/ "palette" \in open
              /\ DrawPalette(o4, k2 \ {"esc"}, pointer, q, at)
           \/ "palette" \notin o4 /\ LeavePalette(o4, q, at)

\* The terminals take the keys k unless they are deaf, as they are besides while
\* the to-do draft has the focus.
Typed(o, k) == IF o \cap Deafening # {} THEN {} ELSE k

\* Mutant: the shortcuts are taken out, and act, after the terminals are drawn.
FrameShortcutsLast ==
    /\ ~ended /\ drawing /\ drawing' = FALSE
    /\ \E input \in Inputs :
        LET k  == input[1] \ Shortcuts
            o  == AfterSidebar(AfterRequest(AfterShortcuts(open, input[1]), input[2]), input[2])
            at == IF "P" \in input[1] THEN 0 ELSE selection
        IN  /\ DrawDialogs(o, k, input[2], IF "P" \in input[1] THEN NoQuery ELSE query, at)
            /\ ended' = (ShutsDown(input[2]) \/ Confirmed(o, k, input[2]))
            /\ doubled' = (~fading /\ Typed(open, k) \cap Acts(o, "palette" \in o) # {})
    /\ UNCHANGED pasteVars

\* AdeApp::ui
Frame ==
    /\ ~ended /\ drawing /\ drawing' = FALSE
    /\ \E input \in Inputs :
        LET k  == input[1] \ Shortcuts
            o  == AfterSidebar(AfterRequest(AfterShortcuts(open, input[1]), input[2]), input[2])
            at == IF "P" \in input[1] THEN 0 ELSE selection
        IN  /\ DrawDialogs(o, k, input[2], IF "P" \in input[1] THEN NoQuery ELSE query, at)
            /\ ended' = (ShutsDown(input[2]) \/ Confirmed(o, k, input[2]))
            /\ doubled' = (~fading /\ Typed(o, k) \cap Acts(o, "palette" \in o) # {})
    /\ UNCHANGED pasteVars

NextDialogs == RawInput \/ Frame

----
(* Properties *)

\* docs/features.md:343: however the text, the arrows and the pointer move the
\* selection and the rows under it, Enter and a click run a command of the rows
\* that are drawn, and no index leaves them.
ChoiceIsListed ==
    /\ TypeDialogs
    /\ taken.command # Nothing => taken.command \in ToSet(taken.rows)

\* A press does one thing.  docs/features.md:243 and :347: a key that a
\* shortcut's dialog, the palette, the rename dialog or the settings act on is
\* never typed into a terminal as well, not even in the frame in which they open
\* or close; but for the palette that fades out.  The comment in
\* paste_shortcut_is_down: keys that stay down paste one image, in the frame in
\* which they go down, whatever is opened or closed meanwhile.
KeysActOnce == ~doubled /\ (pasted => pressed = 1)
====
