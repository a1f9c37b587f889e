---- MODULE HeaderTools ----
(***************************************************************************)
(* The to-do list and the focus timer of the title bar, and the settings   *)
(* they are stored in (ade-app/src/main.rs).  eframe saves now and then    *)
(* and when a window exits; a window reads the settings once, at first.    *)
(* Time is counted in half seconds.  A second window at the same time reads *)
(* the settings before the first has saved them, and the last to exit      *)
(* overwrites the other's: one window runs here at a time.                 *)
(***************************************************************************)
EXTENDS Integers, SequencesExt, Subsequences

CONSTANTS Texts,      \* to-dos, as normalized_todo_text leaves them
          BlankText,  \* what it refuses
          TodoLimit,  \* TODO_LIMIT
          MaxClock,   \* bound: half seconds in an instance
          MaxOpens    \* bound: windows opened in an instance

ASSUME HeaderAssumption == BlankText \notin Texts /\ {TodoLimit, MaxClock, MaxOpens} \subseteq Nat

VARIABLES up,       \* a window runs
          todos,    \* TodoListState.items; done: "no", in its "grace", or "over"
          timer,    \* FocusTimerState; since is NotRunning or a time
          storage,  \* PersistedUiSettings
          clock,
          opens,    \* history: counted against MaxOpens
          wanted,   \* history: what the user has added and not completed
          ran,      \* history: half seconds the timer ran since its last reset
          cuts      \* history: times they were rounded, MaxClock at most

listVars == <<todos, wanted>>
timerVars == <<timer, clock, ran, cuts>>
toolVars == <<up, storage, opens, listVars, timerVars>>

NotRunning == -1
Fresh == [secs |-> 0, best |-> 0, since |-> NotRunning]

Items == [text : Texts, done : {"no", "grace", "over"}]

TypeTools ==
    /\ up \in BOOLEAN /\ opens \in 0..MaxOpens /\ clock \in 0..MaxClock
    /\ todos \in Seq(Items) /\ Len(todos) <= TodoLimit
    /\ timer \in [secs : Nat, best : Nat, since : {NotRunning} \cup 0..clock]
    /\ storage \in [todos : Seq(Texts), elapsed : Nat, best : Nat]
    /\ wanted \in Seq(Texts) /\ {ran, cuts} \subseteq 0..MaxClock

\* PersistedUiSettings::default
InitTools ==
    /\ up = FALSE /\ todos = <<>> /\ timer = Fresh
    /\ storage = [todos |-> <<>>, elapsed |-> 0, best |-> 0]
    /\ clock = 0 /\ opens = 0 /\ wanted = <<>> /\ ran = 0 /\ cuts = 0

----
(* TodoListState and FocusTimerState *)

Incomplete == {item \in Items : item.done = "no"}

TextsOf(items) == [i \in DOMAIN items |-> items[i].text]

\* Mutant: completed to-dos are stored too.
PersistedAll(items) == TextsOf(items)

\* TodoListState::persisted_items
PersistedItems(items) == TextsOf(Among(items, Incomplete))

\* TodoListState::from_persisted
FromPersisted(texts) ==
    [i \in 1..(IF Len(texts) > TodoLimit THEN TodoLimit ELSE Len(texts)) |-> [text |-> texts[i], done |-> "no"]]

\* TodoListState::purge_completed
Unexpired == {item \in Items : item.done # "over"}
PurgeCompleted(items) == Among(items, Unexpired)

Higher(a, b) == IF a > b THEN a ELSE b

\* FocusTimerState::elapsed_secs
ElapsedSecs(t) == t.secs + (IF t.since = NotRunning THEN 0 ELSE (clock - t.since) \div 2)

\* FocusTimerState::best_session_secs
BestSessionSecs(t) == Higher(t.best, ElapsedSecs(t))

\* Mutant: a paused timer forgets what came before.
ToggledAnew(t) ==
    IF t.since = NotRunning THEN [t EXCEPT !.since = clock]
    ELSE [secs |-> (clock - t.since) \div 2, best |-> BestSessionSecs(t), since |-> NotRunning]

\* FocusTimerState::toggle
Toggled(t) ==
    IF t.since = NotRunning THEN [t EXCEPT !.since = clock]
    ELSE [secs |-> ElapsedSecs(t), best |-> BestSessionSecs(t), since |-> NotRunning]

\* FocusTimerState::reset
Reset(t) == [secs |-> 0, best |-> BestSessionSecs(t), since |-> NotRunning]

----
(* A window starts, is saved and ends *)

\* AdeApp::new
Open ==
    /\ ~up /\ up' = TRUE
    /\ opens < MaxOpens /\ opens' = opens + 1
    /\ todos' = FromPersisted(storage.todos)
    /\ timer' = [secs |-> storage.elapsed, best |-> storage.best, since |-> NotRunning]
    /\ UNCHANGED <<storage, clock, wanted, ran, cuts>>

\* AdeApp::save
Settings == [todos |-> PersistedItems(todos), elapsed |-> ElapsedSecs(timer), best |-> BestSessionSecs(timer)]

\* eframe saves the settings now and then.
AutoSave ==
    /\ up /\ storage' = Settings
    /\ UNCHANGED <<up, opens, listVars, timerVars>>

CountCut == cuts' = IF timer.since = NotRunning \/ cuts = MaxClock THEN cuts ELSE cuts + 1

\* Its memory goes with the process.
Gone == up /\ up' = FALSE /\ todos' = <<>> /\ timer' = Fresh

\* The window closes; eframe saves before the process ends.
Exit ==
    /\ Gone /\ storage' = Settings
    /\ CountCut
    /\ UNCHANGED <<clock, opens, wanted, ran>>

\* The process is killed: what was not saved is gone.
Kill ==
    /\ Gone
    /\ wanted' = storage.todos /\ ran' = 2 * storage.elapsed /\ cuts' = 0
    /\ UNCHANGED <<storage, clock, opens>>

WindowStep == Open \/ AutoSave \/ Exit \/ Kill

----
(* The user's list *)

\* TodoListState::add_draft: a blank text is refused; an item in its grace
\* takes a place.
Added(text) ==
    /\ Len(todos) < TodoLimit /\ text # BlankText
    /\ todos' = Append(todos, [text |-> text, done |-> "no"])

\* The row below the list, in show_todo_add_row.
AddDraft ==
    /\ up
    /\ \E text \in Texts \cup {BlankText} : Added(text) /\ wanted' = Append(wanted, text)
    /\ UNCHANGED <<up, storage, opens, timerVars>>

\* A click in show_todo_column.
Complete ==
    /\ up
    /\ \E i \in DOMAIN todos :
          /\ todos[i].done = "no"
          /\ todos' = [todos EXCEPT ![i].done = "grace"]
          /\ wanted' = RemoveAt(wanted, CountIn(todos, Incomplete, i))
    /\ UNCHANGED <<up, storage, opens, timerVars>>

\* TODO_COMPLETE_GRACE passes.
GracePasses ==
    /\ up
    /\ \E i \in DOMAIN todos :
          todos[i].done = "grace" /\ todos' = [todos EXCEPT ![i].done = "over"]
    /\ UNCHANGED <<up, storage, opens, wanted, timerVars>>

\* todo_list_button, in a frame.
DrawTodos ==
    /\ up /\ todos' = PurgeCompleted(todos)
    /\ UNCHANGED <<up, storage, opens, wanted, timerVars>>

TodoStep == AddDraft \/ Complete \/ GracePasses \/ DrawTodos

----
(* The user's timer *)

Tick ==
    /\ clock < MaxClock /\ clock' = clock + 1
    /\ ran' = IF timer.since = NotRunning THEN ran ELSE ran + 1
    /\ UNCHANGED <<up, storage, opens, listVars, timer, cuts>>

\* The first button of show_focus_panel.
ToggleTimer ==
    /\ up /\ timer' = Toggled(timer)
    /\ CountCut
    /\ UNCHANGED <<up, storage, opens, listVars, clock, ran>>

\* The second one.
ResetTimer ==
    /\ up /\ timer' = Reset(timer)
    /\ ran' = 0 /\ cuts' = 0
    /\ UNCHANGED <<up, storage, opens, listVars, clock>>

TimerStep == Tick \/ ToggleTimer \/ ResetTimer

----
(* Properties *)

\* PersistedTodoItem and the test todo_state_persists_only_incomplete_items:
\* whatever is completed, purged, saved and reopened in between, the window
\* shows what the user added and has not completed, in order.
TodosKept == (IF up THEN TextsOf(Among(todos, Incomplete)) ELSE storage.todos) = wanted

\* The tests of FocusTimerState: across pauses and restarts the timer shows the
\* time it ran, half a second too little at most for every time it was rounded
\* and never too much; and the best session never falls while a window runs.
FocusKept ==
    /\ []TypeTools
    /\ [](up => /\ 2 * ElapsedSecs(timer) <= ran
                /\ ran <= 2 * ElapsedSecs(timer) + cuts + 1)
    /\ [][up /\ up' => BestSessionSecs(timer)' >= BestSessionSecs(timer)]_toolVars
====
