# A verification project for ADE

ADE (its window says Termy) is a terminal workspace manager for Windows. A desktop application
shows workspaces of up to six terminal panes each; a per-user daemon owns the shells, one ConPTY
per pane, and outlives the window; a command line client talks to the same daemon. Application
and client are connected to the daemon by a named pipe.

This directory holds TLA+ modules that model the logic of those programs, TLC configurations that
check them on small instances, and proofs that TLAPS checks. Paths below are relative to
`crates/`; `windows.rs` without a crate is `ade-daemon/src/windows.rs`, and `main.rs` is
`ade-app/src/main.rs`.

## 1. Inventory

### Components

| Component | State | Operations | Correct when |
| --- | --- | --- | --- |
| Daemon state (`ade-daemon/src/lib.rs`, `ade-core/src/workspace.rs`, `ids.rs`) | one `AppSnapshot`: workspaces in order, their layouts, panes, focus | `handle` of each `ClientRequest`; `set_pane_status`, `set_pane_cwd`, `set_pane_process_label` | layouts, panes, focus and the stored copy agree after any sequence of requests; the actions it returns start and stop exactly the shells of its panes |
| Layout tree (`ade-core/src/layout.rs`) | a binary tree with ratios | `split`, `close`, `set_ratio`, `validate`, `find_adjacent`, `managed_terminal_layout` | no pane lost, repeated or out of order; shares even; neighbours where one sees them |
| Terminal output (`OutputHub`, `windows.rs`) | a replay buffer per pane, the one subscriber | `append`, `emit`, `replay_for_attach`, `activate`, `detach` | a subscriber gets the newest bytes and then every byte, once and in order |
| Daemon runtime (`windows.rs`) | the mutexes of `Shared`; threads for the accept loop, each client, the monitor, and three per shell | `run`, `client_loop`, `apply_action`, `spawn_pane`, `control_session`, `close_exited_pane`, `update_pane_cwd`, `monitor_pane_processes`, `persist_snapshot` | no shell without a pane, no session without a shell, disk and clients catch up with the state |
| Pane sessions (`windows.rs`, `ade-pty`) | input queue, control channel, ConPTY handles, three threads | writing, reading, resizing, stopping | input in order, the newest size wins, nothing left after a close, nobody waits for ever |
| Client connection and protocol (`windows.rs`, `ade-protocol`) | a pipe, an event queue, the framing | `write_frame`, `read_frame`, version check, error replies | a reply or an end for each request; frames never interleave |
| Daemon startup and shutdown (`windows.rs`, `main.rs`) | the per-user mutex, the shutdown flag, the list of clients, pipe instances | `connect_or_start_daemon`, `DaemonSingleton`, the accept loop of `run`, `begin_shutdown`, `cancel_clients`, `wake_accept_loop`; closing and restarting a window | one daemon per user; shells end only when asked; every thread ends and no shell is left |
| Storage (`ade-storage`) | one row of JSON in SQLite, the schema version | `open`, `migrate`, `save_snapshot`, `load_snapshot` | a save replaces the snapshot whole or not at all |
| UI session (`main.rs`, `AdeApp`) | a copy of the snapshot, the active workspace, a terminal per pane, closing animations | draining events, shortcuts, clicks, resizing, the requests they lead to | what is shown is consistent at all times and settles on what the daemon has |
| UI terminal panes (`main.rs`, `TerminalPane`) | vt100 parser, pending output, selection, git status | frames of synchronized output, OSC sequences, key encoding | every byte reaches the parser once; nothing is held for ever |
| UI tools (`main.rs`) | to-do list, focus timer, Codex usage, updater | their buttons and background threads | one update at a time, totals that add up |
| UI dialogs (`main.rs`) | the dialogs that are open, the palette's search and selection, the state of Ctrl+V | `raw_input_hook`, `handle_shortcuts`, `command_palette`, `show_close_confirmation`, ... | a key is used once, Enter runs what is listed |
| UI drawing (`main.rs`) | none of its own | dividers and panes of a layout (`render_layout`); painting | even grids, minimums kept, a divider follows the pointer; painting is not a question for a model checker |
| Command line client (`ade-cli`) | none | `list`, `new`, `exec`, `shutdown` | sequential |

### Interactions

* The application and the client write `ClientRequest` frames and read `ServerEvent` frames on
  one pipe. In the daemon one thread per connection both reads the requests and writes the events
  (`client_loop`); the events come from every thread through a queue of 256. `emit` never waits and
  drops what finds the queue full; the bytes of a shell wait (`client.send` of the reader thread).
* A request is handled under `Shared.requests`: the state changes and a `StateAction` comes back,
  which `apply_action` carries out (spawn, close, input, resize); then the snapshot is copied and
  saved, copied again and published. State, sessions, output and repository have a mutex each,
  taken one at a time.
* Threads that change the state without `Shared.requests`: a shell's reader (reported directory),
  its control thread (status), the monitor (process label).
* The application moves the focus in its own copy at once and tells the daemon; every snapshot it
  receives replaces the copy, panes that are still there keep their terminal.

### What is hard

Processes that start, close and are killed at any moment around a mutex and a pipe; a shutdown
that runs in the thread of one connection and has to end the others; copies taken under one lock and used under another; bounded queues in a circle; an attach that is
both producer and consumer of its queue; exits during spawning and startup; a crash between a
change and its save; optimistic changes that meet older snapshots. `PROJECT.json` lists these as
hazards, each at its line.

## 2. Plan

1. *State* (done): `AppSnapshot`, `DaemonState`, proofs of both.
2. *Output* (done): abstract `TerminalStream`, `OutputHub` that implements it.
3. *Layout* (done): `LayoutTree`.
4. *Runtime* (done): `DaemonRuntime`, which extends `DaemonState`.
5. *Session* (done): `PaneSession`.
6. *UI session* (done): `UiSession`, which extends `AppSnapshot`.
7. *Startup and shutdown* (done): `Lifecycle`, proofs of its safety.
8. *Window* (done): `PaneOutput`, `GitStatus`, `Updates`, `HeaderTools`, composed in `AppWindow`.
9. *Keyboard and dialogs* (done): `Dialogs`, on who gets a key; `Selection`.
10. *Drawing a layout* (done): `SplitView`, which extends `LayoutTree`.
11. *Connection* (done): `Connection`, a pipe with both its threads; `DirectoryReports`.
12. *More proofs* (done): `FocusFollowsUser` of `DaemonState`; `ShellsHavePanes` of `DaemonRuntime`;
    `ExactStream` and `BufferNewest` of `OutputHub`, and that it implements `TerminalStream` step by
    step; `InputInOrder` of `PaneSession`; `ViewWellFormed`, `TerminalsContinue` and `ComesToRest` of `UiSession`; of the window,
    `CopiesWhatIsMarked`, `RestartsWhenAsked`, `KeysActOnce`, `ChoiceIsListed`, `FramesWholeAndInOrder`,
    `TodosKept`, `FocusKept`, `DirectoryFollows`, `HeaderTells`, `NothingLost`, `FramesWhole` and `HeldBack`.
13. *Codex usage* (done): `CodexUsage`, a client of a process that may not answer.
14. *Left*: encoding of keys and mouse reports, migrations of the storage.

## 3. Modules and the code

| Module | Models | Extends |
| --- | --- | --- |
| `AppSnapshot` | the snapshot and what each request and setter makes of it, as operators (`CanX`, `X`) | |
| `DaemonState` | `DaemonState` as a sequential machine: one action per request, three observations, restart | `AppSnapshot` |
| `LayoutTree` | the layout algorithms, over trees | |
| `SplitView` | where dividers and panes are drawn, and what dragging makes of a ratio | `LayoutTree` |
| `TerminalStream` | the promise about output, no threads and no queues | |
| `OutputHub` | hub, readers, event queues, attach | instantiates `TerminalStream` |
| `DaemonRuntime` | threads and locks around the state | `DaemonState` |
| `PaneSession` | one shell's queues, pipes and threads | |
| `UiSession` | the application and, as its environment, the daemon's loop and publications | `AppSnapshot` |
| `Lifecycle` | processes: windows, tools and daemons; mutex, accept loop, connections, shutdown | |
| `PaneOutput` | what a terminal does with the bytes it receives | `ByteSearch` |
| `GitStatus` | the Git status of a terminal and its threads | |
| `Updates` | the updater with its threads, its notice and the idle user | |
| `HeaderTools` | to-do list, focus timer, stored settings | `Subsequences` |
| `Dialogs` | the shortcuts, dialogs and the palette: what takes the keys of a frame | `Subsequences` |
| `Selection` | the selection of a terminal: dragging, drawing, copying | |
| `Connection` | a pipe, its two buffers and the thread at each end, of window, tool and daemon | |
| `DirectoryReports` | how a reader finds the directory in a shell's output | `ByteSearch` |
| `ByteSearch` | finding sequences in bytes | |
| `Subsequences` | what `filter` and `retain` leave of a sequence | |
| `CodexUsage` | the thread that asks Codex for the account's limits, and what the title bar has of them | |
| `AppWindow` | the nine together | `PaneOutput`, `GitStatus`, `Updates`, `HeaderTools`, `Dialogs`, `Selection`, `Connection`, `DirectoryReports`, `CodexUsage` |
| `AppSnapshot_proofs`, `DaemonState_proofs`, `OutputHub_proofs`, `DaemonRuntime_proofs`, `PaneSession_proofs`, `UiSession_proofs`, `Lifecycle_proofs`, `AppWindow_proofs` | proofs | the module they are named for |
| `MC...` | constants of the instances | the module they are named for |

**AppSnapshot, DaemonState.** `snapshot.order` is the vector `workspaces`; `ws`, `panes` are keyed
by identifier; a layout is the sequence of its leaves, since `handle` rebuilds the tree from them
at every change (`managed_terminal_layout`) and `LayoutTree` shows that the leaves are what the
tree functions keep. `stored` is what `persist` makes durable, `spawned` the effect of the actions
returned, so that "every pane has a shell" is a relation between two things the code keeps
apart. Identifiers are never used twice (`Uuid::new_v4`). Names, directories, labels are members of
small sets; `BlankNames` are the names `trim` empties.

**LayoutTree.** A workspace is *managed*: rebuilt when panes come and go, its ratios changed by
dragged dividers. Trees that only `split`, `close` and `set_ratio` build are explored as well,
because `ade-core` offers them. Recursive operators, so it is only model-checked.

**SplitView.** Lengths are whole numbers of a unit that divides a point and a pixel, ratios become
lengths over the denominator of their split: the chain of `allocation_ratio_for_layout`,
`constrained_split_ratio` and `snap_to_pixel` is exact, and only pixels are rounded, as in the code.
What `f32` rounds besides matters in one place, the two bounds of a clamp, which `ClampPanics` computes
in 24 bits. It has no actions of its own; its properties are about every tree `LayoutTree` reaches in
every view of `Views`.

**OutputHub.** A byte is its position in the pane's output. The reader appends under the lock and
sends after it; an attach holds the lock while it queues the replay, event by event, into the
bounded queue only its own thread empties; `replay[c].left` is what is still to be cut into chunks. A replay
with more events than the queue has slots stays there for ever (`TooLong`). Snapshots and notices matter
because they take up slots. `Appending` is `append` with its two branches; what they amount to, the newest
`Limit` bytes, is a property and a theorem.
Its abstraction maps the attach to the moment it takes the lock.

**DaemonRuntime.** A thread's local state is `job[t]`: where it is, the pane it spawns, the panes it
stops, the copy it holds. Each critical section is an action; `requests` is held across those of
one request. `stored`, which in `DaemonState` changes with the snapshot, stays as what ought to be
on disk, and `disk` is what is. A crash at any step loses all but `disk`.

**PaneSession.** Client, writer, reader and control thread, with the ConPTY as two bounded pipes
and a console that reads one and fills the other. The console may read the next input before it has
written the echoes it owes, but it need not, so both kinds are explored. `Circle` is the state in which
client, reader, console and writer each wait for the next one.

**UiSession.** `view` is `AdeApp.workspaces` with `active_workspace`; `terms` the `TerminalPane`s
with status, grid size, closing state and the chunks they were fed. The daemon's handlers are those
of `AppSnapshot`, run by a loop that copies and publishes in two steps, with exits and label
changes from other threads. The connection's event queue, the pipe and the application's own
channel are one queue of `Capacity` events, dropping when full as `emit` does: the program has more
room, the drops are the same kind. One grid size stands for the geometry of all panes. The command
palette leads to the same actions as the shortcuts. A focus move goes to any other leaf, which
covers the next, the previous and an adjacent one. `published` is the last snapshot sent to the
application, `None` when it found the queue full; `Current` says that it is what the daemon has.
Identifiers are members of finite sets, and the daemon is not asked for a new one when none is left
(`IdsLeft`), which bounds how many panes there ever are.

**Lifecycle.** A daemon is where `run` is, with its free pipe instance (`pending` is who has opened
it), the flag, the requests lock and the number of its sessions. A client is a window or a tool;
`server` is the daemon whose pipe it has open, `thread` where the thread that serves it is. `inbox` joins the
channel of `daemon_io_loop` with the pipe's buffer: a process that ends loses a suffix of it, the
part that was not written. `shells` counts sessions, since the number, zero or not, is all that
shutdown and the closing question look at; shells that exit by themselves are `DaemonRuntime`'s.
Clients and daemons run once; a window that comes back is another client. Events are written when
they change what the window knows. `asked` is a history of the daemons a user has asked to end.

**PaneOutput.** `wire` is what the shell writes, chosen at first; `ProcessOutput` takes a chunk of it
of any length, so every cut is explored. `Process` is `process_complete_output_frames` as a whole:
clipboard sequences, command sequences, then the loop. A loop is a recursive function from the number of
rounds (`TakeOutOnce`, `Round`) to what they make of the state, taken at a number of rounds that is always
enough, since the return is a round that changes nothing. A time is
`none`, `fresh` or `expired`. `shown` is everything `parser.process` was given. A byte is a value, and
the five escape sequences are short sequences that share their first bytes as the real ones do. The
text in a sequence matters only by being a valid one or not.

**GitStatus.** A status is the directory it describes. `gitReading` are the threads at work, and they
may end in any order. A thread that cannot be started leaves `git_refresh_pending` set, as the code
does (`let _ =` at `main.rs:5685`); the header of that terminal is then not refreshed before its directory
changes.

**Updates.** `FrameUpdates` is the part of `AdeApp::ui` that concerns updates, in its order, with the
click of that frame. The release is one value, since a window looks once.

**HeaderTools.** Time is counted in half seconds so that rounding shows. `storage` is what eframe has
stored. `Kill` loses what was not saved, and the histories `wanted` and `ran` go back with it.

**Dialogs.** A frame is two steps, as in egui: `RawInput` is `raw_input_hook`, and `Frame` is `AdeApp::ui`
with at most `KeysAtOnce` keys and one thing the pointer does. The operators `AfterX` are the handlers
in the order of the code; each takes the open dialogs and the keys that are left. `doubled` is set when
a key that a terminal takes is one a dialog acts on in the same frame. A modal of egui takes Escape
only when it is on top; which of two is on top is any.

**Selection.** `grid` is the terminal's size, `marked` the two cells. `Highlighted` is what
`terminal_layout_job` draws, `Copied` what `selected_text` takes (vt100's `contents_between`), both as
sets of cells. A click or drag that a program's mouse mode takes, or a closing pane refuses, changes
nothing.

**Connection.** A frame is one or more units; the thread that writes puts them into a buffer of
`PipeSize` units one by one, the one that reads takes them one by one and stays in `read_frame` until the last.
`at` is where each thread is: writing what waits (at most `EventLimit` events a round in the daemon),
peeking, reading, or gone; the daemon's may also be answering, an attach event by event, each into the queue that only
this thread empties, or wait for a session to take input. There is one connection: what another one
keeps locked meanwhile is the matter of `OutputHub` (the hub) and `PaneSession` (the requests lock). Frames are numbered modulo 3, which shows a
gap or a repetition. What was written before a close can still be read, and a write to a closed pipe
fails. `Dies` is the end of a process, or the cancelling of a thread by a shutdown, at any moment.

**DirectoryReports.** `typed` is what the shell writes; `ReadOutput` takes any number of bytes up to
`LargestRead`, more than the buffer's limit, as in the code (16 KiB and 8 KiB).

**CodexUsage.** `poll` is what the thread waits for, the greeting's answer or the limits. Codex is the
environment: it writes lines, answers among them, each question once and not before it is asked, dies
or stays silent. `before` keeps what each app-server let its reader know, computed from all it wrote
(`LetKnow`) and not from what the thread made of it line by line. The window's end is left out: the
thread ends with the process.

**AppWindow.** These nine share no variable and no step, in the code as in the model. Their product
would show nothing new, so a behaviour picks one part that moves (`part`); to-do list and timer are
two parts that share `storage`.

## 4. Runs

Liveness runs use no symmetry. Where a bound is spent the system may stop, so those runs do not
check for deadlock; `DaemonState` and `LayoutTree` have no bound on steps and do.

| Run | Question | Instance and why it is enough |
| --- | --- | --- |
| `daemon_state` | do all requests, in any order and number, keep the snapshot sound, and would a restart bring it back? | 3 panes, 3 workspaces, 2 per workspace: the limit is hit, workspaces empty out, the closed one is first, middle, last, active or not; a size with a zero, a blank name |
| `layout` | do tree edits keep order, validity and direction, and what is drawn evenness, minimums and the pointer? | all six panes managed; every tree of five unmanaged; ratios at and beyond the limits; 15 views: the smallest window with its sidebar and without, room for three panes exactly and a point more, a large one, each at 100, 125 and 150 % |
| `layout_exact` | is every size drawn? *violated* | a window with room for three columns exactly |
| `output_hub` | is the stream exact, and does an attach end unless its replay is longer than the queue? | 1 pane, 2 connections that may leave, 4 bytes, limit 3, chunks of 2, reads of up to 3, a queue of 2: a full buffer gives up one or two bytes, a replay of 1 + 1 events fits and one of 1 + 2 does not, a second attach takes over while a reader waits. A read as long as the limit, which 16 KiB never are, takes the first branch of `append` |
| `output_reader_dies` | is what a shell writes always read? *violated* | 1 pane, a client that leaves |
| `daemon_runtime` | can interleavings and a crash leak a shell or mix up a snapshot, and are exits and requests finished when saves may fail? | 2 panes, 1 client; a crash and 2 requests, or a crash, 1 request and 1 report (`Budgets`); a size ConPTY refuses |
| `daemon_runtime_disk` | does the disk catch up? *violated* | the 3 requests and 1 report it takes |
| `pane_session` | order of input, newest size, clean end, and what can hold a request | queues and pipes of 1; 5 inputs and 3 outputs, what it takes to close the circle, or fewer with 1 or 2 resizes (`MaxWork`), and a stop in one burst with them; resize or wait failing |
| `ui_session` | is what is shown sound, and does it settle? | 3 user actions and 2 daemon events (4 in all) on a new or a running daemon, queue of 2: two focus moves meet a snapshot in flight, a publication overtakes another, a snapshot is dropped |
| `lifecycle` | one daemon, no shell lost or left over, and does a shutdown finish? | 2 clients, 2 daemon processes, at most 1 shell: a window and a tool that shuts down under it, a window and the one an update opens, two tools, a second daemon at every moment of the first one's start and end |
| `ui_lossless` | does the application get every chunk? *violated* | 1 action, 2 events |
| `app_window` | the nine parts of `AppWindow`: see the properties | *Output*: every stream of at most 3 tokens (markers, prefixes, terminators, text, an incomplete marker) and 5 longer ones (in two, taking out a sequence completes a marker or another sequence), cut into chunks of 1 to 4 bytes, a limit of 6 bytes: markers cut at each byte, a frame in a frame, an end after the timeout. *Git*: 2 directories, 3 moves: away and back while threads run. *Updates*: 3 installations. *Tools*: 2 to-dos, 2 texts, 6 half seconds, 3 openings: the limit is hit and a list is completed, saved and read again. *Dialogs*: 3 commands of which a search lists all, two that are not neighbours, one or none; 2 keys in a frame: every pair of a shortcut and a key. *Connection*: buffers of 1 unit, frames of 1 and 3, one that is too large, 2 events in the queue, 2 requests: frames larger than the buffer both ways at once, replays that fit the queue and longer ones, a snapshot that waits behind events, input that waits. *Selection*: 4 grids that differ in rows, in columns and in both. *Reports*: at most 3 pieces, reads of up to 11 bytes, a limit of 10. *Codex*: 2 polls of at most 3 lines each; limits in the plain bucket, in that of Codex with more than 100 % used, and in another without the plain one |

### What the properties say

* `SnapshotsWellFormed`, `ShellsHavePanes` (its part `CopiesWellFormed`), `ViewWellFormed`: the same
  idea at three places. Every workspace is listed once, each pane is a leaf of exactly the workspace
  it names, focus is a leaf, the active workspace exists. In the daemon, in every copy its threads
  make, and in what is drawn.
* `EffectsCoverPanes`, `ShellsHavePanes` (`NoOrphanShell`, `SessionsMatch`): actions, threads and
  registered sessions against panes, in every interleaving: what runs has a pane or somebody who stops
  it, and between two requests a live pane is `Running` exactly when it has a session. `ClosedStaysClosed`, `RestartRestores`: across restarts.
  `FocusFollowsUser`: only a request moves the focus off something that is still there.
* `ExactStream`, `BufferNewest`, `ImplementsStream`, `DeliveredEventually`: output, from the shell to
  the application, attaches included, but for one whose replay is longer than the queue.
  `InputInOrder`, `SessionObeys` (the newest size wins, and a close lets go of everything) and
  `InputAccepted` (only `Circle` can hold a request for ever): a session.
* `TreeSound`: trees keep their panes, in order and valid. `FocusMovesAsSeen`: the pane found in a
  direction is the one a user sees there. `EvenAtEverySize`, `MinimumsKept`, `DividerFollows`: the same
  trees as they are drawn, after any drags, in every view.
* `WorkFinishes`: an observed exit removes its pane and a request is carried out, behind the
  requests lock. Starting ends, and a shell that does not start is no reason for it to fail: the reasons
  there are (a failed save, a size no console can have, an exit meanwhile) are named.
* `OneOwner`, `ShellsSurvive`: across processes. `DrainedStaysEmpty`, `ShutdownFinishes`: a
  shutdown, whatever the other threads are in the middle of. The second says that the accept loop stops and
  that only a connection whose peer stays and is silent holds the process.
* `ComesToRest`: when nothing is on its way and the last snapshot sent
  got into the queue and is the daemon's, the application shows what the daemon has, to the focus, the status,
  the size and the absence of half-closed panes. `TerminalsContinue`: a terminal in view is never
  reset and its chunks have no gap.
* `NothingLost`, `FramesWhole`, `HeldBack`: the bytes a terminal receives and the bytes its parser gets;
  nothing lost or repeated, no cut frame on the screen unless it was too long or too old, and nothing
  held back longer than that.
* `HeaderTells`: never the status of another directory; the Codex usage is what the last app-server that
  answered let know, and marked live exactly if no later one failed.
  `RestartsWhenAsked`: an update never restarts the window unasked. `ThreadsSettle`: after every change of
  the directory there is an answer, so there is from Codex unless it is silent, and an update is never
  forgotten. `TodosKept`, `FocusKept`: what the user added and the time the timer ran, across pauses,
  purges, saves and restarts.

* `ChoiceIsListed`, `KeysActOnce`: the palette's selection against the list under it; a key acts in one
  place, and Ctrl+V pastes one image however long it is held.
* `CopiesWhatIsMarked`: what is copied is what is highlighted, while the two cells' columns exist.
* `FramesWholeAndInOrder`: what is on the way in each direction is the rest of a frame and then whole
  frames, in the order queued; what was written before a close is read. `BothAreHeard`: the oldest
  frame of each end is read however much the other has to say, but for three ways in which the daemon's
  thread waits for ever, which it names: see section 6.
* `DirectoryFollows`: the directory of a pane is the last one reported, wherever reads cut the report,
  but for three cases it names.

The type invariants are conjuncts of one of these (`ShellsHavePanes`, `BufferNewest`, `InputInOrder`,
`ViewWellFormed`, `HeldBack`, `HeaderTells`, `RestartsWhenAsked`, `FocusKept`,
`ChoiceIsListed`, `FramesWholeAndInOrder`, `CopiesWhatIsMarked`); all of
them are proved but that of `LayoutTree`.

### Fairness

* `OutputHub`: weak for each thread's own steps, and for a client that stays and reads its pipe.
  Strong for a reader's `send`: a slot is freed again and again and may be taken by a notice each
  time, but notices come one per request or monitor round, so a waiting sender is served.
* `DaemonRuntime`: weak for every thread's next step. Waiting for `Shared.requests` is weakly fair
  too; requests are bounded, so the lock is free from some point on. Windows mutexes hand over to
  waiters in practice, and no client of this program floods the daemon.
* `PaneSession`: weak for each thread, and for a console that writes its echoes while it
  is open, and reads its input once it owes none; that it reads earlier is not assumed. None for shells,
  users or exits.
* `Lifecycle`: weak for the daemon's threads, for the thread of an open window that writes requests
  and reads events (`daemon_io_loop` polls both), and for a tool, which ends when its request is
  written. Nobody has to launch, close, confirm or restart a window. Waiting for the lock is weakly
  fair, for the same reason as above.
* `UiSession` has none: its questions are about states at rest, not about reaching them.
* `AppWindow`: weak for drawing a terminal and for the frame of `Updates`, because `AdeApp::ui` asks for
  the next frame `GIT_REFRESH_INTERVAL` later itself (`main.rs:2523`); for git and for both calls of
  `self_update`, which end; for the five idle minutes of a user who has left; for both threads of a
  connection, while they wait for the pipe or for the queue, but not while a session's input is to be
  taken (`InputTaken`), which `PaneSession` shows to fail; for the thread that polls Codex
  and the frame it asks for, not for Codex. Output, tools, dialogs,
  selection and reports have none, their properties are about safety.

Nothing obliges a user to act, a shell to write or exit, or a process to crash.

## 5. What is proved

*State.* For all sets of panes, workspaces, names, directories, labels and sizes and for every limit on
panes per workspace, from `SnapshotAssumption` (`None` is no
identifier, sizes are pairs of numbers and include the default, blank names are names, the shell's
label is a label, the limit is positive; `AppSnapshot.tla`):

| Theorem (`DaemonState_proofs`) | Statement |
| --- | --- |
| `TypeCorrect` | `Spec => []TypeOK` |
| `AlwaysWellFormed` | `Spec => []SnapshotsWellFormed` |
| `NoShellLeaks` | `Spec => []EffectsCoverPanes` |
| `RestartIsFaithful` | `Spec => []RestartRestores` |
| `ClosedNeverReturns` | `Spec => ClosedStaysClosed`, an action property |
| `FocusStaysWithUser` | `Spec => FocusFollowsUser`, an action property |

The inductive invariant `IInv` joins the three state properties and adds that every pane and
workspace in existence was recorded as used. None of the parts is inductive by itself: closing a
workspace stops the leaves of its layout and forgets the panes that name it, and only well-formedness makes
the two the same set; a restart is well formed because the stored copy is; an identifier is fresh
because what exists is within what was used. `AppSnapshot_proofs` shows, operator by operator, that
a well-formed snapshot stays so (`CreateWorkspaceWF`, `ClosePaneWF`, ...); `DaemonState_proofs` has
one lemma per group of actions, and the theorems follow with `PTL`. The lemmas on `Without` and on
sequences without repetition are proved from the definitions of the community modules.
`FocusFollowsUser` rests on where `Without` leaves each element (`WithoutPositions`): after the active
workspace is removed, the index the code picks holds its next or its previous neighbour
(`CloseWorkspaceHeir`); closing a pane moves only a focus that was on it (`ClosePaneFocus`), and no
other action removes anything (`OthersCloseNothing`).

*Processes.* For all sets of clients and of daemons, every limit on shells and every length of the
queue, from `LifecycleAssumption` (`None` and `Waker` are two values that name no process, the
limits are natural numbers; `Lifecycle.tla`):

| Theorem (`Lifecycle_proofs`) | Statement |
| --- | --- |
| `TypeCorrect` | `Spec => []TypeOK` |
| `OneDaemonOwns` | `Spec => []OneOwner` |
| `NothingAfterDrain` | `Spec => []DrainedStaysEmpty` |
| `ShellsAreSafe` | `Spec => ShellsSurvive`, an action property |

Here the inductive invariant says how the mutex, the lock and the flag hang together. `Owned`:
shells and a raised flag need a daemon that has started, and so owns the mutex. `Connected`: a
thread serves a connection of such a daemon, and a process that is still to open a pipe, or waits
to be dispatched, has no thread. `Exclusive`: a thread between the requests lock and its release
is the holder, has found the flag down while it handles, and has raised it from then on. This
carries `DrainedStaysEmpty`: between the flag and the drain nobody else can be handling, after it
everybody who takes the lock reads the flag. `ShutdownsAsked`, a raised flag and a queued
`Shutdown` are some user's wish, gives `ShellsSurvive` with `ShellsEnd`, which goes through the
steps that can leave a daemon without shells. `ThreadMoves`, `ReleaseIInv`, `UserMoves` and
`ConnectIInv` each cover the many actions of one shape.

*Threads.* For all sets of clients, panes and the rest, every budget (so for any number of requests,
reports and crashes) and whether saves may fail or not, from `SnapshotAssumption`, `ObservableAssumption`
(no pane is observed to be starting), `RuntimeAssumption` (types of the constants) and
`ThreadAssumption` (`None` is no thread; `DaemonRuntime.tla`):

| Theorem (`DaemonRuntime_proofs`) | Statement |
| --- | --- |
| `ShellsAlwaysHavePanes` | `RuntimeSpec => []ShellsHavePanes`: `NoOrphanShell`, `SessionsMatch` and `CopiesWellFormed` |

The invariant has two layers, proved one on top of the other. `Sound` is `IInv` of the state, which
every handler of `DaemonState` keeps whoever calls it, and the same for what is under way: each copy a
thread holds, and the one on disk, is a well-formed snapshot of panes in use. It needs no locks, since
copies are taken whole, and gives `CopiesWellFormed`. The second layer is about who does what. `Roles`
says whose turn it is: a client or closer with work in hand holds `requests`, the main thread has ended
once the daemon is up and clients wait until then, trackers and the monitor touch no shell. `Shells`
follows each shell through its life: a thread that spawns stops nothing, what is to be stopped is no
pane any more (`Deeds`); a shell that runs has a pane or a thread that is about to stop it, and
is registered or about to be (`Owed`); a session has a pane or somebody who will drop it
(`Registered`); the status of a pane and its session agree but for the thread between `insert` and
`set_pane_status` (`Marked`). None is inductive without the others: that `close_pane` never overlooks
a shell that is spawned but not yet registered (`ClosePanesKeep`, step 9) needs that the spawner would
hold the lock, or be the main thread while the stop comes from the closer of that same shell. `LateStep` covers the
nine actions that neither spawn nor stop; each of the others has its lemma.

*Output.* For all sets of panes and connections, every length of queue, chunk, read and buffer, any number
of bytes and whoever may leave, from `HubAssumption` (a read and a chunk are no longer than the buffer's
limit, as 16 KiB and 64 KiB are less than 8 MiB; `NoConn` is no connection; `OutputHub.tla`):

| Theorem (`OutputHub_proofs`) | Statement |
| --- | --- |
| `StreamIsExact` | `Spec => []ExactStream` |
| `BufferIsNewest` | `Spec => []BufferNewest` |
| `HubImplementsStream` | `Spec => ImplementsStream`: every step is one of `TerminalStream`'s or a stutter |

What has set out for a connection lies in many places: written to its pipe, in each event of its queue,
still to be cut into chunks, in the hands of the reader. The invariant `Flowing` says that there is one
way to cut a run of the pane's bytes into these places (`Flow`, with the cutting points as the witness),
from `origin` to the last byte appended, for the current subscriber, and to an earlier one for a
connection that was replaced. Each step moves one cutting point (`FlowQueues`, `FlowDrains`,
`FlowReads`). `Control` says who holds the lock at which phase, so that nothing is appended while a
replay is queued, and `Newest` what the buffer is: both branches of `append` leave the newest
`Limit` bytes (`AppendingIsNewest`, from `LongChunk` and `ShortChunk`). The refinement adds where the abstract subscriber is when an attach has the lock but not
yet queued all it owes.

*Sessions.* For every capacity of the queue, the channel and the pipes, any number of inputs, resizes and
outputs, for consoles that read ahead of their echoes or not, from `SessionAssumption` (capacities are positive; `PaneSession.tla`):

| Theorem (`PaneSession_proofs`) | Statement |
| --- | --- |
| `InputStaysInOrder` | `Spec => []InputInOrder` |

`Ordered` cuts the inputs sent at three points: taken, in the pipe, in the writer's hands, queued. The
property says this only while the writer lives; it is inductive because a writer that has ended never
writes again, so that what the pipe still holds continues what was taken.

*Application.* For all sets of identifiers (finite, since a layout is one), names, directories, sizes and
labels, every length of the queue and any number of actions and events, from `SnapshotAssumption` and
`UiAssumption` (there is an identifier of each kind, no size is zero, as in `cells_for_pixels`;
`UiSession.tla`):

| Theorem (`UiSession_proofs`) | Statement |
| --- | --- |
| `ViewStaysWellFormed` | `Spec => []ViewWellFormed` |
| `OutputContinues` | `Spec => TerminalsContinue`, an action property |
| `ViewComesToRest` | `Spec => []ComesToRest` |

`IInv` has what is under way well formed: the daemon's document, the copies its threads hold, each
event and request in a queue. `Attaching` is needed for the start: before `Attach` is done no event and
no terminal exists. `Streams` adds, for each pane, one run of chunks that goes through the
terminal, the queue and the buffer. `Settles` is the invariant behind `ComesToRest`: whatever the
application is ahead in (a focus, a workspace, a pane it is closing, a size) has its request in the
outbox or concerns something the daemon no longer has (`Focused`, `Closed`, `SizesKnown`); the last
snapshot sent is in the queue or in view (`Told`); and no status but `Running` is on its way to a
shell that runs (`Alive`). It also needs that nothing under way names an identifier that is still to be
given out (`Named`): a pane that is gone stays gone. The steps are grouped by what they can disturb:
those of the daemon that send no snapshot (`Inside`), those of the application that receive nothing
(`Outside`), publications, and receiving each kind of event.

The proof changed the model. `ComesToRest` used to compare the last snapshot that got *through* with the
daemon's, and that was false beyond the bounds of the run: the focus moves and its publication finds
the queue full, a pane is opened and exits with the same luck, and the daemon is back at the document
it sent before, while the application keeps the focus it chose; four actions and two events show it.
The premise is now that the last one sent got through (`Current`).

*Window.* For every behaviour of `AppWindow`, whichever part moves, for all sets of texts, commands, keys,
grids and frame sizes, every limit, buffer and queue, and any number of clicks, requests, installations,
windows and time, from the assumptions of the parts: `SelectionAssumption` (sizes are pairs of positive
numbers), `HeaderAssumption` (a blank text is no to-do), `ConnectionAssumption` (buffers and frames are
not empty; the smallest frame, which the first request is, is one unit), `GitAssumption` and
`UsageAssumption` (there is a directory and an answer, percentages are natural numbers),
`BytesAssumption` (the two terminators start with bytes that are not in the text they end),
`DirectoryReportsAssumption` (the prefix is not empty, a URI is such a text), `PaneOutputAssumption`
and those of `Dialogs` and `Updates`. `PaneOutputAssumption` is what the real escape sequences have in common:
the two markers and the two prefixes are at least two bytes long and begin with the same byte, which neither
marker contains again; the markers are equally long and differ; and a marker and a prefix differ in
their second byte, `[` and `]`:

| Theorem (`AppWindow_proofs`) | Statement |
| --- | --- |
| `CopiesAsMarked` | `WindowSpec => []CopiesWhatIsMarked` |
| `RestartsOnlyWhenAsked` | `WindowSpec => []RestartsWhenAsked` |
| `EachKeyActsOnce` | `WindowSpec => []KeysActOnce` |
| `ChoiceStaysListed` | `WindowSpec => []ChoiceIsListed` |
| `FramesStayWhole` | `WindowSpec => []FramesWholeAndInOrder` |
| `TodosStayKept` | `WindowSpec => []TodosKept` |
| `TimerIsFocused` | `WindowSpec => FocusKept`: types, the bounds, and the action property about the best session |
| `DirectoryIsFollowed` | `WindowSpec => []DirectoryFollows` |
| `HeaderStaysTrue` | `WindowSpec => []HeaderTells`, from `StatusStaysHere` (Git) and `UsageStaysAsTold` (Codex) |
| `NothingIsLost` | `WindowSpec => []NothingLost` |
| `FramesAreCommitted` | `WindowSpec => []FramesWhole` |
| `LittleIsHeldBack` | `WindowSpec => HeldBack`: types, what waits, and the action property about the clock |

`StepsOfParts` reduces each to the steps of one part. *Selection*: the two cells are compared by row and
then column where text is copied and by `row * width + column` where it is drawn; that the two orders are
one while both columns lie within the width is the lemma the proof turns on. *Updates*: `UpdatesInv` says
that there is one thread at a time, whose result comes when it is done, and that an installation that is
to restart the window was asked for. *Keys*: `KeysInv` ties `pasteDown` to whether the keys that paste are
down. *Palette*: the property is inductive, because the index is clamped to the rows of its own frame.
*Connection*: `Direction` is about one direction, with what is queued, begun and in the pipe as one
chain in which every unit follows the one before; it also needs that only a thread that writes has begun a
frame and that an end that is gone has nothing left. Each step is a move of one direction's writer or of its reader
(`WriterKeeps`, `ReaderKeeps`), and what a thread does at its end is a move in both directions
(`BothDirections`). *To-dos*: the list the user sees (`View`) and the stored one have at most `TodoLimit`
items, without which a restart would cut what it reads; each operation on the list is then the same one on
its view (`ViewOfAdded`, `ViewOfCompleted`, ...), by counting (`CountIn`). *Timer*: `TimerRuns` bounds `ran`
by what is counted and being counted, plus a half second per cut, up or not. *Directories*: `ReportsInv` says
what the tracker has let go of (`LetGo`). What was read is that and the buffer; the buffer holds
no report yet; no report has begun at the end of what is gone (`Clean`), so none lies across the two; and the last one in
it was reported. *Git*: a result says what its own thread read (`GitInv`), so that results for the
directory shown are about it. *Codex*: `ReadingInv` says how far the thread has read the lines of its app-server and
that nothing on the way answered what it waits for, `ToldInv` that the results drained are the oldest.

*Output* takes the most. `PaneInv` says of what was read, `read`, and what became of it, `shown \o pending`,
that the second is the first without sequences, each complete when it was taken out, whatever follows
(`Faithful`); that an open frame begins with its marker; what is held (`Held`); and that the screen is in
no frame unless one was cut, with no marker begun at its end (`FramedHere`). Three things carry the proof.
The loops: a round keeps what is to be kept, and shortens the bytes or lowers a measure (`Left`) or changes nothing;
there are more rounds than the measure, so the last one is the return (`HoldsForEver`, `ReturnIs`). The frames:
a round moves a cut through a text that stays the same (`Framed`), the screen being before it, and where the
last marker before the cut begins is a matter of the text. Taking out: a
sequence does not begin within a marker, so an open frame keeps its beginning; and what is left interrupts no marker that
what was read does not, whatever follows.

The proof changed the model twice. `FramesWhole` was false beyond the streams of the run: see the escape sequence that interrupts
a marker in section 6. `NothingLost` used to demand that every sequence that is missing be
complete in what was read. Taking one out may bring the halves of another together, which is then taken out as
well; the property now says that each is complete when it is taken out. The run has a stream for each of the two.

Only model-checked:

* all liveness, since fairness and ENABLED are beyond the prover: `DeliveredEventually`, `WorkFinishes`,
  `SessionObeys`, `InputAccepted`, `ShutdownFinishes`, `ThreadsSettle`, `BothAreHeard`;
* `TreeSound`, `FocusMovesAsSeen`, `EvenAtEverySize`, `MinimumsKept` and `DividerFollows`, about recursive
  operators on trees, which the prover does not take.

## 6. Where the code and its documents disagree

Each of the first four is a run that TLC finds violated; `PROJECT.json` has the quotes.

* `output_reader_dies` (`windows.rs:535`): a client that leaves while a reader waits to send to it
  makes `send` fail, and the reader thread ends; nothing reads that shell any more.
* `daemon_runtime_disk` (`windows.rs:778`): saves are not ordered like the changes they save.
* `ui_lossless` (`main.rs:1349`): output that arrives before the snapshot with its pane is dropped.
* `layout_exact` (`main.rs:7774`): three columns in a layout 672 points wide leave a split exactly the
  room of its minimums; the two bounds of its ratio are then equal but for rounding, the lower comes
  out one bit above the higher, and `clamp` panics.

Others met while modelling, with no run of their own:

* `apply_action` blocks in `session.input.send` (`windows.rs:469`) on the thread that empties the
  client's event queue, with two locks held. `docs/architecture.md:42` asks for output and input to be
  serviced independently. A console that echoes an input before it reads the next one closes the
  circle: full events, full output, full input and a full queue, each waiting for the next, for ever.
  `InputAccepted` names it (`Circle`) as the only way to hang; `pane_session` reaches it, and without it
  TLC finds the property violated. While it lasts, every request of every client waits for the lock.
* After the palette is closed it fades out for about 0.2 s, during which it still takes Enter and the
  arrows and runs the chosen command (`main.rs:2020`), while the terminal gets the same keys;
  `docs/features.md:347` says that terminal input is disabled while the palette is active. Escape and
  Enter in the question before closing and in the popup about the limit also reach the terminal.
* A command sequence that is cut between two chunks outside a frame is shown, not captured: its first
  bytes have already gone to the parser (`main.rs:5803` holds back only the start of a frame). The
  test at `main.rs:8346` sends the sequence whole. A bell anywhere in the
  bytes that wait ends a sequence before an earlier escape terminator (`main.rs:5714`), and takes what
  lies between with it. `NothingLost` admits both.
* `docs/features.md:217` says that frames are committed atomically. If a program stops within the marker that
  begins a frame and goes on with a clipboard or command sequence, and a read ends after the first byte of that,
  only this byte is held back (`main.rs:5803`): the first bytes of the marker have gone to the parser, the
  sequence is taken out, and what follows it may complete the marker on the screen, as a frame this loop does not know of. `FramesWhole` names it (`Interrupted`).
* `restart_after_update` starts the new window before the old one has exited, and so before it has saved
  its settings; the new window reads the older ones and the last to exit wins. The same goes for two
  windows side by side. `HeaderTools` has one window at a time.
* A thread that cannot be started leaves the Git status of its terminal alone until the directory
  changes (`main.rs:5682`). `ThreadsSettle` names the case.
* `read_codex_response` (`main.rs:560`) reads without a timeout: a Codex process that stays silent keeps
  its refresh pending for ever, and what is shown stays marked live. `ThreadsSettle` names the first case.
* An attach whose replay needs more than 256 events waits for its own queue with the output lock
  held (`windows.rs:381`), and with it every reader: two panes with full 8 MiB buffers make
  1 + 2 * 128. `docs/features.md:419` says that every non-empty buffer is replayed.
  `DeliveredEventually` names it (`TooLong`) as the only reason for an attach not to complete, and
  `BothAreHeard` (`WaitsForItself`) for requests not to be read. Both runs reach it; without it TLC finds
  each property violated.
* `docs/features.md:526` says that after a shutdown request the daemon exits. The thread of a
  connection whose client stays and is silent polls (`windows.rs:345`) without reading the flag,
  and `run` joins it: with a window open, `ade-cli shutdown` stops the shells and leaves the
  process, its mutex and the window's connection. `ShutdownFinishes` says that nothing else does;
  without the idle peer in it, TLC finds it violated.
* A client that opens the pipe and closes it before `ConnectNamedPipe` is called makes it return
  ERROR_NO_DATA, which `accept_pipe` treats as any error (`windows.rs:824`): `run` returns and the
  shells end. `ade-cli shutdown` or `new` in that moment is such a client, and so is
  `wake_accept_loop`, when it does no harm. `ShellsSurvive` names the case.
* `docs/features.md:554` says PTY startup failures become pane status updates rather than crashing
  the daemon. A stored size above 32767 (`lib.rs:380` refuses only zero; `docs/features.md:538`
  promises the COORD range) makes `PtySize::new` fail, and `run` returns with that error
  (`windows.rs:232`) at this start and at every later one. The same happens when a shell exits
  before `spawn_pane` has marked its pane: the pane is gone and `set_pane_status` fails.
  `DaemonRuntime` has both (`SpawnRefused`, `SpawnMarks` by the main thread, mode `failed`), and
  `WorkFinishes` names them beside the failed save.
* A size the client may set and ConPTY refuses (`windows.rs:493`) also meets a split, which copies it to the
  new pane: the client gets an error, and the pane stays `Starting` without a session, since nothing
  tells it or tries again before the next start. It takes three requests; `SessionsMatch` leaves such a
  pane out, and the theorem covers any number of requests.
* `control_session` returns without a status when a resize fails (`windows.rs:718`): the shell is
  closed, the pane stays `Running`.
* `close_pane` removes the replay buffer while the reader may append once more, which makes it anew
  for a pane that is gone (`windows.rs:774`).
* `find_adjacent` walks up to the nearest split with a matching axis, says its comment
  (`layout.rs:213`), and returns the sibling's first leaf. Going left or up it walks on when the
  sibling is on the other side; going right or down it gives up there (`layout.rs:233`), and the
  leaf is the one at the same position, not the first. In a managed grid neither shows
  (`FocusMovesAsSeen`).
* `docs/features.md:70` lists Ctrl+Shift+N; `handle_shortcuts` has no such branch.
* `docs/features.md:378` says that closing the window closes only the UI process; the close button
  calls `perform_shutdown` (`main.rs:1058`), which sends `Shutdown`, after a dialog that says so
  (`main.rs:2302`). The request is queued for the io thread and the window closed in the same frame;
  nothing waits for the frame to be written.
* A publication can overtake another (`windows.rs:416`, `:588`), and `emit` drops it when the queue
  is full; the application then shows the older one until the next change. `ComesToRest` is stated
  for the case that the last one got through, and as for sizes for the case that none in between
  lacked a pane: the terminal is then rebuilt from a stale size.

* At scales that do not divide a point (110 %), `MinimumsKept` fails by less than a pixel: each level of
  splits snaps once more. `constrained_split_ratio` drops the minimums altogether when one split has no
  room for both of its sides (`HasRoom`), even if one side could keep them.
* Only `show_terminal_pane` knows that the to-do draft has the focus; `raw_input_hook` does not look at it
  (`main.rs:2364`), so Ctrl+V with an image on the clipboard still pastes its path while a to-do is written.
  Enter in the frame of the close request confirms the question before it was seen (`main.rs:2316`).
* In a terminal that has been narrowed, what is copied is not what is highlighted: the selection is kept (`main.rs:5851`), and a cell beyond the last column moves into the next row when it is
  drawn (`main.rs:7586`) and not when it is copied. `docs/features.md:250` says that Ctrl+C copies the
  highlighted text.
* Both ends write before they read (`main.rs:764`, `windows.rs:339`). Two frames larger than 64 KiB, such as a paste
  into a terminal whose output is being replayed, fill both buffers and block both threads for ever.
  `BothAreHeard` names it (`WriteToEachOther`), beside the two blocks above, a replay that is too long and input
  that a session does not take. TLC finds it violated without any of the three.
* A request over 16 MiB ends the window's connection with the error of `write_frame` (`main.rs:765`).
* A malformed frame and a save that failed put an `Error` into the queue and return from `client_loop`
  (`windows.rs:361`, `:411`), so nobody writes it, although `docs/features.md:551` says that failures are
  delivered as `Error` events. The `Error` about a wrong version carries the daemon's version, and the
  application ends at a version it does not know before it reads the message (`main.rs:788`).
* `docs/features.md:300` says that reports of the directory are found even when reads split them.
  `CwdTracker::process` empties its buffer with a report (`windows.rs:105`) and forgets the first bytes of
  the next one, if the read ended in them; a report in the first half of a 16 KiB read falls out of the
  buffer of 8 KiB; and one that has begun behind a complete one hides it. `DirectoryFollows` has these
  three exceptions, and without any of them TLC finds it violated.

## 7. Not modelled

* Encoding of keys (`encode_key`) and mouse reports, as pure tables of bytes. What reading them showed:
  a release of the mouse outside the pane is not reported, so a program sees the button stuck; motion
  is reported in the mode that asks for presses and releases only; in the default encoding a
  column from 96 on becomes two bytes; and Ctrl with an arrow sends nothing (`main.rs:7163`).
* Migrations of the storage (one version so far).
* Error replies are frames like others in `Connection`; JSON and its errors are the end of a connection.
* Time: the sixty tries of a new window and the five hundred of `wake_accept_loop` are steps that may
  come at any moment (`TryFails`) or that find the pipe in the end (`Wake`).
* Building the command line and process attributes (`ade-pty`): Win32 calls without a state the
  rest depends on. `resolve_shell` and the process scan (`pane_agent_process`): pure lookups whose
  result is a label or a path, here a choice from a set.
* Drawing, themes, fonts, wording: no property is about them.
