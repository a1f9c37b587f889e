---- MODULE PaneSession ----
(***************************************************************************)
(* One pane with a shell, from spawn_pane to the last of its threads       *)
(* (ade-daemon/src/windows.rs, ade-pty/src/windows.rs): the input queue     *)
(* and its writer thread, the ConPTY and its two pipes, the reader thread,  *)
(* the control thread, and the thread of the one client that is attached,  *)
(* which sends the pane its input and reads its output.                    *)
(*                                                                         *)
(* Input is numbered in the order the client sends it; output is counted   *)
(* by the chunk.  The ConPTY and the shell in it are external.             *)
(***************************************************************************)
EXTENDS Integers, Sequences, SequencesExt

CONSTANTS InputCapacity,  \* CLIENT_EVENT_CAPACITY, of the input queue
          EventCapacity,  \* CLIENT_EVENT_CAPACITY, of the client's events
          PipeCapacity,   \* what the pipes of the ConPTY hold
          Sizes, InitialSize,
          MaxInputs, MaxOutputs, MaxResizes, \* bounds
          MaxWork         \* bound: what all of these come to

ASSUME SessionAssumption ==
    /\ {InputCapacity, EventCapacity, PipeCapacity} \subseteq Nat \ {0}
    /\ {MaxInputs, MaxOutputs, MaxResizes, MaxWork} \subseteq Nat
    /\ InitialSize \in Sizes

Stop == "Stop"

VARIABLES client,      \* the client's thread: draining, ready, sending, gone
          sent,        \* inputs the client has sent to a registered session
          inputQueue,  \* RuntimeSession.input
          writer,      \* the writer thread: what it holds, and whether it ended
          inPipe,      \* the input pipe of the ConPTY
          taken,       \* history: the inputs the console has read
          shell,       \* running or exited
          answers,     \* echoes the console owes
          written,     \* outputs of the shell so far
          outPipe,     \* chunks in the output pipe of the ConPTY
          reader,      \* the reader thread: reading, sending, ended
          events,      \* events queued for the client
          registered,  \* whether Shared.sessions holds the session
          controlQueue,\* RuntimeSession.control: sizes and Stop
          control,     \* where control_session is
          wanted,      \* history: the size asked for last
          size,        \* the size of the ConPTY
          resizes,     \* resizes asked for so far
          console,     \* the pseudoconsole: open or closed
          published    \* the last status published for the pane

inputVars   == <<sent, inputQueue, writer, inPipe, taken>>
outputVars  == <<written, answers, outPipe, reader, events>>
controlVars == <<registered, controlQueue, control, wanted, size, resizes,
                 console, published>>
vars        == <<client, inputVars, shell, outputVars, controlVars>>

TypeOK ==
    /\ client \in {"draining", "ready", "sending", "gone"}
    /\ sent \in 0..MaxInputs
    /\ Len(inputQueue) <= InputCapacity /\ Len(inPipe) <= PipeCapacity
    /\ writer.state \in {"receiving", "writing", "ended"}
    /\ shell \in {"running", "exited"} /\ console \in {"open", "closed"}
    /\ outPipe \in 0..PipeCapacity /\ events \in 0..EventCapacity
    /\ reader \in {"reading", "sending", "ended"}
    /\ registered \in BOOLEAN
    /\ control \in {"waiting", "checking", "closing", "dropping", "ended"}
    /\ {wanted, size} \subseteq Sizes
    /\ published \in {"Running", "Exited", "FailedToStart"}

\* What MaxWork bounds: a resize counts as four inputs or outputs.
Work == sent + written + 4 * resizes

Init ==
    /\ client = "draining"
    /\ sent = 0 /\ inputQueue = <<>> /\ inPipe = <<>> /\ taken = <<>>
    /\ writer = [state |-> "receiving", data |-> <<>>]
    /\ shell = "running"
    /\ written = 0 /\ answers = 0 /\ outPipe = 0 /\ reader = "reading" /\ events = 0
    /\ registered = TRUE /\ controlQueue = <<>> /\ control = "waiting"
    /\ wanted = InitialSize /\ size = InitialSize /\ resizes = 0
    /\ console = "open" /\ published = "Running"

----
(* The client's thread: client_loop and apply_action *)

\* Input for a registered session: the thread keeps the requests and sessions
\* locks until the queue has taken it.
SendInput ==
    /\ client = "ready" /\ registered
    /\ sent < MaxInputs /\ Work < MaxWork
    /\ client' = "sending"
    /\ sent' = sent + 1
    /\ UNCHANGED <<inputQueue, writer, inPipe, taken, shell, outputVars, controlVars>>

\* Mutant: try_send, which drops what does not fit.
InputTried ==
    /\ client = "sending" /\ writer.state # "ended"
    /\ inputQueue' = IF Len(inputQueue) < InputCapacity THEN Append(inputQueue, sent)
                     ELSE inputQueue
    /\ client' = "draining"
    /\ UNCHANGED <<sent, writer, inPipe, taken, shell, outputVars, controlVars>>

\* session.input.send: blocks while the queue is full.
InputQueued ==
    /\ client = "sending" /\ writer.state # "ended"
    /\ Len(inputQueue) < InputCapacity
    /\ inputQueue' = Append(inputQueue, sent)
    /\ client' = "draining"
    /\ UNCHANGED <<sent, writer, inPipe, taken, shell, outputVars, controlVars>>

\* Mutant: the send is tried again until it succeeds.
InputRetried ==
    /\ client = "sending" /\ writer.state = "ended"
    /\ UNCHANGED vars

\* The writer thread dropped the receiver: the error is ignored.
InputRefused ==
    /\ client = "sending" /\ writer.state = "ended"
    /\ client' = "draining"
    /\ UNCHANGED <<inputVars, shell, outputVars, controlVars>>

\* The top of client_loop: all queued events are written to a client that
\* reads its pipe, before the next request is looked for.
DrainEvents ==
    /\ client = "draining"
    /\ events' = 0
    /\ client' = "ready"
    /\ UNCHANGED <<inputVars, shell, written, answers, outPipe, reader, controlVars>>

\* There is none yet, or it does not concern the pane.
NextRound ==
    /\ client = "ready"
    /\ client' = "draining"
    /\ UNCHANGED <<inputVars, shell, outputVars, controlVars>>

ResizePane(s) ==
    /\ client = "ready" /\ registered
    /\ resizes < MaxResizes /\ Work + 4 <= MaxWork
    /\ resizes' = resizes + 1
    /\ wanted' = s
    /\ controlQueue' = Append(controlQueue, s)
    /\ client' = "draining"
    /\ UNCHANGED <<inputVars, shell, outputVars, registered, control, size,
                   console, published>>

\* close_pane: the entry goes, with the only sender of the input queue.
Unregister ==
    /\ registered' = FALSE
    /\ controlQueue' = IF registered THEN Append(controlQueue, Stop) ELSE controlQueue

ClosePane ==
    /\ client = "ready" /\ registered
    /\ Unregister
    /\ client' = "draining"
    /\ UNCHANGED <<inputVars, shell, outputVars, control, wanted, size,
                   resizes, console, published>>

\* The client disconnects and its queue is dropped.
Leave ==
    /\ client = "ready"
    /\ client' = "gone"
    /\ events' = 0
    /\ UNCHANGED <<inputVars, shell, written, answers, outPipe, reader, controlVars>>

----
(* The writer thread *)

WriterTakes ==
    /\ writer.state = "receiving" /\ inputQueue # <<>>
    /\ writer' = [state |-> "writing", data |-> <<Head(inputQueue)>>]
    /\ inputQueue' = Tail(inputQueue)
    /\ UNCHANGED <<client, sent, inPipe, taken, shell, outputVars, controlVars>>

WriterWrites ==
    /\ writer.state = "writing" /\ console = "open"
    /\ Len(inPipe) < PipeCapacity
    /\ inPipe' = inPipe \o writer.data
    /\ writer' = [state |-> "receiving", data |-> <<>>]
    /\ UNCHANGED <<client, sent, inputQueue, taken, shell, outputVars, controlVars>>

\* write_all fails on a broken pipe, or recv when the session was forgotten
\* and the queue is empty.
WriterEnds ==
    /\ \/ writer.state = "writing" /\ console = "closed"
       \/ writer.state = "receiving" /\ inputQueue = <<>> /\ ~registered
    /\ writer' = [state |-> "ended", data |-> <<>>]
    /\ inputQueue' = <<>>
    /\ UNCHANGED <<client, sent, inPipe, taken, shell, outputVars, controlVars>>

----
(* The ConPTY and its shell *)

\* The console owes every input an echo.  It may read on before it has written
\* the echoes it owes, but it need not.
ConsoleReads ==
    /\ console = "open"
    /\ inPipe # <<>>
    /\ taken' = Append(taken, Head(inPipe))
    /\ inPipe' = Tail(inPipe)
    /\ answers' = answers + 1
    /\ UNCHANGED <<client, sent, inputQueue, writer, shell, written, outPipe, reader,
                   events, controlVars>>

ConsoleEchoes ==
    /\ console = "open" /\ answers > 0
    /\ outPipe < PipeCapacity
    /\ answers' = answers - 1
    /\ outPipe' = outPipe + 1
    /\ UNCHANGED <<client, inputVars, shell, written, reader, events, controlVars>>

ShellWrites ==
    /\ shell = "running" /\ console = "open"
    /\ written < MaxOutputs /\ Work < MaxWork /\ outPipe < PipeCapacity
    /\ written' = written + 1
    /\ outPipe' = outPipe + 1
    /\ UNCHANGED <<client, inputVars, shell, answers, reader, events, controlVars>>

ShellExits ==
    /\ shell = "running" /\ console = "open"
    /\ shell' = "exited"
    /\ UNCHANGED <<client, inputVars, outputVars, controlVars>>

----
(* The reader thread; OutputHub has the rest of its path *)

ReaderReads ==
    /\ reader = "reading" /\ outPipe > 0
    /\ outPipe' = outPipe - 1
    /\ reader' = IF client = "gone" THEN "reading" ELSE "sending"
    /\ UNCHANGED <<client, inputVars, shell, written, answers, events, controlVars>>

\* client.send(event): blocks while the queue is full.
ReaderSends ==
    /\ reader = "sending" /\ client # "gone"
    /\ events < EventCapacity
    /\ events' = events + 1
    /\ reader' = "reading"
    /\ UNCHANGED <<client, inputVars, shell, written, answers, outPipe, controlVars>>

\* The client is gone, or the pipe is broken and empty.
ReaderEnds ==
    /\ \/ reader = "sending" /\ client = "gone"
       \/ reader = "reading" /\ outPipe = 0 /\ console = "closed"
    /\ reader' = "ended"
    /\ UNCHANGED <<client, inputVars, shell, written, answers, outPipe, events, controlVars>>

----
(* control_session *)

\* Mutant: the oldest size of a burst is applied.
NewestFirst(burst) == Head(burst)

\* Mutant: a Stop behind a resize is dropped with the burst.
NewestNoStop(burst) ==
    IF Head(burst) = Stop THEN Stop
    ELSE Last(SelectSeq(burst, LAMBDA message : message # Stop))

\* What a burst of control messages comes to: Stop if there is one, else the
\* newest size.
Newest(burst) == IF Stop \in ToSet(burst) THEN Stop ELSE Last(burst)

\* recv_timeout and try_iter.  A resize that fails ends the thread's loop.
ControlReceives ==
    /\ control = "waiting" /\ controlQueue # <<>>
    /\ controlQueue' = <<>>
    /\ LET message == Newest(controlQueue)
       IN  \/ message = Stop /\ control' = "dropping" /\ UNCHANGED size
           \/ message # Stop /\ control' = "checking" /\ size' = message
           \/ message # Stop /\ control' = "dropping" /\ UNCHANGED size
    /\ UNCHANGED <<client, inputVars, shell, outputVars, registered, wanted, resizes,
                   console, published>>

ControlTimesOut ==
    /\ control = "waiting" /\ controlQueue = <<>>
    /\ control' = "checking"
    /\ UNCHANGED <<client, inputVars, shell, outputVars, registered, controlQueue,
                   wanted, size, resizes, console, published>>

\* session.try_wait, and the status of the pane.
ControlChecks ==
    /\ control = "checking"
    /\ \/ shell = "running" /\ control' = "waiting" /\ UNCHANGED published
       \/ shell = "exited" /\ control' = "closing" /\ published' = "Exited"
       \/ control' = "dropping" /\ published' = "FailedToStart"
    /\ UNCHANGED <<client, inputVars, shell, outputVars, registered, controlQueue,
                   wanted, size, resizes, console>>

\* close_exited_pane: waits for the requests lock.
CloseExited ==
    /\ control = "closing" /\ client # "sending"
    /\ Unregister
    /\ control' = "dropping"
    /\ UNCHANGED <<client, inputVars, shell, outputVars, wanted, size, resizes,
                   console, published>>

\* control_session returns: ClosePseudoConsole ends the shell, and waits until
\* its last output is read or cannot be.
DropSession ==
    /\ control = "dropping"
    /\ outPipe = 0 \/ reader = "ended"
    /\ control' = "ended"
    /\ console' = "closed"
    /\ shell' = "exited"
    /\ UNCHANGED <<client, inputVars, outputVars, registered, controlQueue, wanted,
                   size, resizes, published>>

----
ClientSends == SendInput \/ \E s \in Sizes : ResizePane(s)

WriterStep == WriterTakes \/ WriterWrites \/ WriterEnds

ReaderStep == ReaderReads \/ ReaderSends \/ ReaderEnds

ControlStep == ControlReceives \/ ControlTimesOut \/ ControlChecks \/ CloseExited
                   \/ DropSession

Next ==
    \/ ClientSends \/ InputQueued \/ InputRefused \/ DrainEvents \/ NextRound
    \/ ClosePane \/ Leave
    \/ WriterStep
    \/ ConsoleReads \/ ConsoleEchoes \/ ShellWrites \/ ShellExits
    \/ ReaderStep
    \/ ControlStep

\* Every thread that can go on does, client_loop empties its queue, and a
\* console that is open goes on writing what it owes, and on reading its input
\* once it owes nothing.  Clients need not send, close or leave, and shells need
\* not exit.
Fairness ==
    /\ WF_vars(InputQueued) /\ WF_vars(InputRefused)
    /\ WF_vars(DrainEvents) /\ WF_vars(NextRound)
    /\ WF_vars(WriterStep) /\ WF_vars(ReaderStep) /\ WF_vars(ControlStep)
    /\ WF_vars(CloseExited)
    /\ WF_vars(answers = 0 /\ ConsoleReads) /\ WF_vars(ConsoleEchoes)

Spec == Init /\ [][Next]_vars

FairSpec == Spec /\ Fairness

----
(* Properties *)

\* The input the console reads is what the client sent, in order and without a
\* gap, and all of it is somewhere on the way while the writer thread lives:
\* the lock held across the send keeps the order of the requests.
InputInOrder ==
    LET way == taken \o inPipe \o writer.data \o inputQueue
                   \o (IF client = "sending" THEN <<sent>> ELSE <<>>)
    IN  /\ TypeOK
        /\ \A i \in DOMAIN taken : taken[i] = i
        /\ writer.state # "ended" => way = [i \in 1..sent |-> i]

\* docs/architecture.md: resize bursts are coalesced.  The console ends with
\* the newest size asked for, unless the session has begun to go.
SizeSettles ==
    \A s \in Sizes :
        (wanted = s) ~> \/ size = s \/ wanted # s
                        \/ control \in {"closing", "dropping", "ended"}

\* docs/features.md section 9.4 and docs/architecture.md: a pane that was
\* closed, by a client or because its shell exited, leaves nothing behind: the
\* pseudoconsole closes and its three threads end, whatever was queued.
CloseReleases ==
    ~registered ~> /\ console = "closed" /\ control = "ended"
                   /\ writer.state = "ended" /\ reader = "ended"

\* What a session is asked for happens: the newest size, and the end.
SessionObeys == SizeSettles /\ CloseReleases

\* Input and output wait for each other: the console for room for an echo, the
\* reader for a slot among the client's events, the client for one in the input
\* queue, and the writer for the console.
Circle ==
    /\ client = "sending" /\ events = EventCapacity /\ reader = "sending"
    /\ outPipe = PipeCapacity /\ answers > 0
    /\ Len(inPipe) = PipeCapacity /\ writer.state = "writing"
    /\ Len(inputQueue) = InputCapacity

\* docs/architecture.md: input and output are serviced independently, so that
\* backpressure cannot deadlock the session.  A request that sends input ends,
\* and with it the hold on the requests lock, whatever else is full or has
\* ended: nothing but the whole circle, with a console that never reads before
\* it has echoed, can hold it.
InputAccepted == (client = "sending") ~> (client # "sending" \/ []Circle)
====
