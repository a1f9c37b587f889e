---- MODULE Lifecycle ----
(***************************************************************************)
(* How the processes start, find each other and end: application windows   *)
(* (ade-app/src/main.rs) that open the daemon's pipe or launch a daemon    *)
(* first, the command line client (ade-cli/src/main.rs), and the daemon    *)
(* (ade-daemon/src/windows.rs) with its per-user mutex, its accept loop,   *)
(* one thread per connection and its shutdown.                             *)
(*                                                                         *)
(* A request is Attach, Spawn (any that adds a shell) or Shutdown; of the  *)
(* state only the number of shells is kept.  Every process is one element  *)
(* of Clients (a window or a tool) or Daemons and runs once.               *)
(***************************************************************************)
EXTENDS Integers, Sequences, FiniteSets

CONSTANTS Clients, Daemons,
          Launched,   \* bound: the clients that users may launch as windows;
                      \* any may be a tool, or opened by a restart
          None, Waker,
          MaxShells,  \* bound: the shells of a daemon
          MaxQueue    \* bound: a user asks for shells below this queue length

ASSUME LifecycleAssumption ==
    /\ Launched \subseteq Clients /\ None # Waker
    /\ {None, Waker} \cap (Clients \cup Daemons) = {}
    /\ MaxShells \in Nat /\ MaxQueue \in Nat

VARIABLES mutex,      \* the daemon that owns the per-user mutex, or None
          daemon,     \* [Daemons -> where run() is]
          pending,    \* [Daemons -> who has opened its free pipe instance]
          flag,       \* [Daemons -> Shared.shutdown]
          lock,       \* [Daemons -> the holder of Shared.requests]
          shells,     \* [Daemons -> sessions not stopped; none exits by itself]
          attached,   \* [Daemons -> the subscriber of its events]
          app,        \* [Clients -> where the process is]
          known,      \* [Clients -> what the window knows of sessions]
          confirming, \* [Clients -> AdeApp.close_requested]
          server,     \* [Clients -> the daemon whose pipe it has opened]
          thread,     \* [Clients -> where the thread that serves it is]
          inbox,      \* [Clients -> requests in the channel and the pipe]
          open,       \* [Clients -> its end of the pipe]
          listed,     \* [Clients -> in Shared.clients]
          asked       \* history: daemons a user has asked to end

daemonVars == <<mutex, daemon, pending, flag, lock, shells, attached>>
windowVars == <<app, known, confirming>>
linkVars   == <<server, thread, inbox, open, listed>>
vars       == <<daemonVars, windowVars, linkVars, asked>>

\* run() creates a pipe instance, waits for a client, dispatches it, again.
Accepting == {"creating", "created", "waiting", "accepted"}
Live      == Accepting \cup {"starting", "joining"}

\* The thread of a connection; holding the requests lock.
Holding == {"handling", "draining", "cancelling", "waking"}
Serving == Holding \cup {"listing", "checking", "polling", "writing", "locking", "leaving"}

Requests == {"Attach", "Spawn", "Shutdown"}

Connecting == {"unused", "opening", "retrying"}

TypeOK ==
    /\ mutex \in Daemons \cup {None} /\ asked \subseteq Daemons
    /\ daemon \in [Daemons -> Live \cup {"unused", "launched", "gone"}]
    /\ pending \in [Daemons -> Clients \cup {None, Waker}]
    /\ lock \in [Daemons -> Clients \cup {None}]
    /\ attached \in [Daemons -> Clients \cup {None}]
    /\ flag \in [Daemons -> BOOLEAN] /\ shells \in [Daemons -> 0..MaxShells]
    /\ app \in [Clients -> Connecting \cup {"tool", "open", "closing", "closed"}]
    /\ known \in [Clients -> {"unseen", "none", "active"}]
    /\ server \in [Clients -> Daemons \cup {None}]
    /\ thread \in [Clients -> Serving \cup {"none", "ended"}]
    /\ inbox \in [Clients -> Seq(Requests)]
    /\ confirming \in [Clients -> BOOLEAN]
    /\ open \in [Clients -> BOOLEAN] /\ listed \in [Clients -> BOOLEAN]

Init ==
    /\ mutex = None /\ asked = {}
    /\ daemon = [d \in Daemons |-> "unused"]
    /\ pending = [d \in Daemons |-> None] /\ lock = [d \in Daemons |-> None]
    /\ attached = [d \in Daemons |-> None]
    /\ flag = [d \in Daemons |-> FALSE] /\ shells = [d \in Daemons |-> 0]
    /\ app = [c \in Clients |-> "unused"] /\ known = [c \in Clients |-> "unseen"]
    /\ server = [c \in Clients |-> None] /\ thread = [c \in Clients |-> "none"]
    /\ inbox = [c \in Clients |-> <<>>]
    /\ confirming = [c \in Clients |-> FALSE]
    /\ open = [c \in Clients |-> FALSE] /\ listed = [c \in Clients |-> FALSE]

----
(* The daemon: starting and accepting *)

\* The pipes of the connections in C are closed on the daemon's side.
End(C) ==
    /\ thread' = [c \in Clients |-> IF c \in C THEN "ended" ELSE thread[c]]
    /\ inbox'  = [c \in Clients |-> IF c \in C THEN <<>> ELSE inbox[c]]
    /\ listed' = [c \in Clients |-> IF c \in C THEN FALSE ELSE listed[c]]

\* A process that ends: its handles are closed, and with them the mutex, the
\* pipes and the shells.
Vanish(d) ==
    /\ daemon' = [daemon EXCEPT ![d] = "gone"]
    /\ mutex' = IF mutex = d THEN None ELSE mutex
    /\ shells' = [shells EXCEPT ![d] = 0]
    /\ pending' = [pending EXCEPT ![d] = None]
    /\ lock' = [lock EXCEPT ![d] = None]
    /\ attached' = [attached EXCEPT ![d] = None]
    /\ End({c \in Clients : server[c] = d})
    /\ UNCHANGED <<flag, server, open, windowVars, asked>>

\* Mutant: nobody looks at ERROR_ALREADY_EXISTS.
AcquireAnyway(d) ==
    /\ daemon[d] = "launched"
    /\ mutex' = d /\ daemon' = [daemon EXCEPT ![d] = "starting"]
    /\ UNCHANGED <<pending, flag, lock, shells, attached, windowVars, linkVars, asked>>

\* DaemonSingleton::acquire; a second daemon returns AlreadyRunning.
Acquire(d) ==
    /\ daemon[d] = "launched"
    /\ \/ /\ mutex = None
          /\ mutex' = d /\ daemon' = [daemon EXCEPT ![d] = "starting"]
          /\ UNCHANGED <<pending, flag, lock, shells, attached, windowVars, linkVars, asked>>
       \/ mutex # None /\ Vanish(d)

\* run() starts the shells of the stored panes.
StartUp(d) ==
    /\ daemon[d] = "starting"
    /\ daemon' = [daemon EXCEPT ![d] = "creating"]
    /\ \E n \in 0..MaxShells : shells' = [shells EXCEPT ![d] = n]
    /\ UNCHANGED <<mutex, pending, flag, lock, attached, windowVars, linkVars, asked>>

\* A pane that cannot be started, or a failed save, ends run().
StartFails(d) == daemon[d] = "starting" /\ Vanish(d)

\* accept_pipe: CreateNamedPipeW.
CreateInstance(d) ==
    /\ daemon[d] = "creating"
    /\ daemon' = [daemon EXCEPT ![d] = "created"]
    /\ UNCHANGED <<mutex, pending, flag, lock, shells, attached, windowVars, linkVars, asked>>

CanOpen(d) == daemon[d] \in {"created", "waiting"} /\ pending[d] = None

PeerOpen(d) == pending[d] \in Clients /\ open[pending[d]]

\* accept_pipe: ConnectNamedPipe finds nobody and waits, or a client that came
\* before the call (ERROR_PIPE_CONNECTED), or is woken by one.
AwaitClient(d) ==
    /\ \/ daemon[d] = "created" /\ (pending[d] = None \/ PeerOpen(d))
       \/ daemon[d] = "waiting" /\ pending[d] # None
    /\ daemon' = [daemon EXCEPT ![d] = IF pending[d] = None THEN "waiting" ELSE "accepted"]
    /\ UNCHANGED <<mutex, pending, flag, lock, shells, attached, windowVars, linkVars, asked>>

\* A client that came and went before the call is ERROR_NO_DATA: run() returns.
AcceptFails(d) ==
    /\ daemon[d] = "created" /\ pending[d] # None /\ ~PeerOpen(d)
    /\ Vanish(d)

\* The accept loop hands the pipe to a thread, or stops for the shutdown flag.
Dispatch(d) ==
    /\ daemon[d] = "accepted"
    /\ daemon' = [daemon EXCEPT ![d] = IF flag[d] THEN "joining" ELSE "creating"]
    /\ pending' = [pending EXCEPT ![d] = None]
    /\ \/ flag[d] /\ End({pending[d]})
       \/ /\ ~flag[d]
          /\ thread' = [c \in Clients |-> IF c = pending[d] THEN "listing" ELSE thread[c]]
          /\ UNCHANGED <<inbox, listed>>
    /\ UNCHANGED <<mutex, flag, lock, shells, attached, windowVars, server, open, asked>>

\* run() waits for the threads of all connections, and returns.
Join(d) ==
    /\ daemon[d] = "joining"
    /\ \A c \in Clients : server[c] = d => thread[c] = "ended"
    /\ Vanish(d)

----
(* The daemon: the thread of a connection *)

Goes(c, from, next) == thread[c] = from /\ thread' = [thread EXCEPT ![c] = next]

\* What no thread of a connection changes.
ThreadFrame == UNCHANGED <<mutex, daemon, app, confirming, server, open, asked>>

\* serve_client enters the connection in Shared.clients ...
List(c) ==
    /\ Goes(c, "listing", "checking")
    /\ listed' = [listed EXCEPT ![c] = TRUE]
    /\ UNCHANGED <<pending, flag, lock, shells, attached, known, inbox>> /\ ThreadFrame

\* ... and only then reads the flag.
CheckFlag(c) ==
    /\ Goes(c, "checking", IF flag[server[c]] THEN "leaving" ELSE "polling")
    /\ UNCHANGED <<pending, flag, lock, shells, attached, known, inbox, listed>> /\ ThreadFrame

Truth(d) == IF shells[d] > 0 THEN "active" ELSE "none"

\* client_loop has an event to write: the snapshot of an attach, or a change.
WriteEvents(c) ==
    /\ Goes(c, "polling", "writing")
    /\ attached[server[c]] = c /\ known[c] # Truth(server[c])
    /\ UNCHANGED <<pending, flag, lock, shells, attached, known, inbox, listed>> /\ ThreadFrame

\* The window reads the event.
EventRead(c) ==
    /\ open[c]
    /\ Goes(c, "writing", "polling")
    /\ known' = [known EXCEPT ![c] = Truth(server[c])]
    /\ UNCHANGED <<pending, flag, lock, shells, attached, inbox, listed>> /\ ThreadFrame

\* Writing to a window that is gone ends the thread, unread requests or not.
WriteFails(c) ==
    /\ ~open[c]
    /\ Goes(c, "writing", "leaving")
    /\ UNCHANGED <<pending, flag, lock, shells, attached, known, inbox, listed>> /\ ThreadFrame

NextIs(c, request) == inbox[c] # <<>> /\ Head(inbox[c]) = request

Take(c) == inbox' = [inbox EXCEPT ![c] = Tail(inbox[c])]

\* Attach needs no lock.
HandleAttach(c) ==
    /\ NextIs(c, "Attach") /\ Take(c)
    /\ Goes(c, "polling", "polling")
    /\ attached' = [attached EXCEPT ![server[c]] = c]
    /\ UNCHANGED <<pending, flag, lock, shells, known, listed>> /\ ThreadFrame

\* Any other request is read, and waits for the requests lock.
ReadRequest(c) ==
    /\ inbox[c] # <<>> /\ ~NextIs(c, "Attach")
    /\ Goes(c, "polling", "locking")
    /\ UNCHANGED <<pending, flag, lock, shells, attached, known, inbox, listed>> /\ ThreadFrame

\* PeekNamedPipe reports the broken pipe once nothing is left to read.
PeerGone(c) ==
    /\ inbox[c] = <<>> /\ ~open[c]
    /\ Goes(c, "polling", "leaving")
    /\ UNCHANGED <<pending, flag, lock, shells, attached, known, inbox, listed>> /\ ThreadFrame

\* Mutant: the flag is not read again once the lock is held.
LockUnchecked(c) ==
    /\ Goes(c, "locking", "handling")
    /\ lock[server[c]] = None
    /\ lock' = [lock EXCEPT ![server[c]] = c]
    /\ UNCHANGED <<pending, flag, shells, attached, known, inbox, listed>> /\ ThreadFrame

\* The requests lock, and the flag once more.
Lock(c) ==
    /\ thread[c] = "locking" /\ lock[server[c]] = None
    /\ \/ flag[server[c]] /\ Goes(c, "locking", "leaving") /\ UNCHANGED lock
       \/ /\ ~flag[server[c]] /\ Goes(c, "locking", "handling")
          /\ lock' = [lock EXCEPT ![server[c]] = c]
    /\ UNCHANGED <<pending, flag, shells, attached, known, inbox, listed>> /\ ThreadFrame

\* handle and apply_action; beyond the limit of panes nothing is started.  The
\* connection ends if the change cannot be saved.
HandleSpawn(c) ==
    /\ NextIs(c, "Spawn") /\ Take(c)
    /\ Goes(c, "handling", "polling") \/ Goes(c, "handling", "leaving")
    /\ shells' = [shells EXCEPT ![server[c]] = IF @ < MaxShells THEN @ + 1 ELSE @]
    /\ lock' = [lock EXCEPT ![server[c]] = None]
    /\ UNCHANGED <<pending, flag, attached, known, listed>> /\ ThreadFrame

----
(* The daemon: begin_shutdown, with the requests lock held *)

RaiseFlag(c) ==
    /\ NextIs(c, "Shutdown") /\ Take(c)
    /\ Goes(c, "handling", "draining")
    /\ flag' = [flag EXCEPT ![server[c]] = TRUE]
    /\ UNCHANGED <<pending, lock, shells, attached, known, listed>> /\ ThreadFrame

DrainSessions(c) ==
    /\ Goes(c, "draining", "cancelling")
    /\ shells' = [shells EXCEPT ![server[c]] = 0]
    /\ UNCHANGED <<pending, flag, lock, attached, known, inbox, listed>> /\ ThreadFrame

\* cancel_clients: CancelIoEx fails what a listed connection is writing.
CancelClients(c) ==
    /\ thread[c] = "cancelling"
    /\ thread' = [k \in Clients |->
                     IF k = c THEN "waking"
                     ELSE IF server[k] = server[c] /\ listed[k] /\ thread[k] = "writing"
                     THEN "leaving" ELSE thread[k]]
    /\ UNCHANGED <<pending, flag, lock, shells, attached, known, inbox, listed>> /\ ThreadFrame

\* The pipe is opened, or there is none any more.
Woken(d) ==
    \/ CanOpen(d) /\ pending' = [pending EXCEPT ![d] = Waker]
    \/ daemon[d] = "joining" /\ UNCHANGED pending

\* Mutant: the wake loop tries once.
WakeOnce(c) ==
    /\ Goes(c, "waking", "leaving")
    /\ Woken(server[c]) \/ (~CanOpen(server[c]) /\ UNCHANGED pending)
    /\ lock' = [lock EXCEPT ![server[c]] = None]
    /\ UNCHANGED <<flag, shells, attached, known, inbox, listed>> /\ ThreadFrame

\* wake_accept_loop opens the pipe and closes it at once.  It tries for five
\* seconds, and gives up only when the accept loop has stopped by itself.
Wake(c) ==
    /\ Goes(c, "waking", "leaving")
    /\ Woken(server[c])
    /\ lock' = [lock EXCEPT ![server[c]] = None]
    /\ UNCHANGED <<flag, shells, attached, known, inbox, listed>> /\ ThreadFrame

\* serve_client detaches, takes the connection off the list, closes the pipe.
Leave(c) ==
    /\ thread[c] = "leaving"
    /\ attached' = [attached EXCEPT ![server[c]] = IF @ = c THEN None ELSE @]
    /\ End({c})
    /\ UNCHANGED <<pending, flag, lock, shells, known>> /\ ThreadFrame

----
(* The application *)

\* The daemon a process connects to finds it at its pipe.
Connect(c, d, first) ==
    /\ CanOpen(d)
    /\ pending' = [pending EXCEPT ![d] = c]
    /\ server' = [server EXCEPT ![c] = d]
    /\ open' = [open EXCEPT ![c] = TRUE]
    /\ inbox' = [inbox EXCEPT ![c] = <<first>>]
    /\ UNCHANGED <<mutex, daemon, flag, lock, shells, attached, thread, listed>>

LaunchApp(a) ==
    /\ a \in Launched /\ app[a] = "unused"
    /\ app' = [app EXCEPT ![a] = "opening"]
    /\ UNCHANGED <<daemonVars, linkVars, known, confirming, asked>>

\* connect_or_start_daemon opens the pipe; AdeApp::new then sends Attach.
OpenPipe(a) ==
    /\ app[a] \in {"opening", "retrying"}
    /\ \E d \in Daemons : Connect(a, d, "Attach")
    /\ app' = [app EXCEPT ![a] = "open"]
    /\ UNCHANGED <<known, confirming, asked>>

NoPipe == \A d \in Daemons : ~CanOpen(d)

\* There is no pipe: a daemon is launched, whether or not one is running.
LaunchDaemon(a) ==
    /\ app[a] = "opening" /\ NoPipe
    /\ \E d \in Daemons : daemon[d] = "unused" /\ daemon' = [daemon EXCEPT ![d] = "launched"]
    /\ app' = [app EXCEPT ![a] = "retrying"]
    /\ UNCHANGED <<mutex, pending, flag, lock, shells, attached, linkVars, known, confirming, asked>>

\* The pipe is tried again and again; in the end the window opens without.
TryFails(a) ==
    /\ app[a] = "retrying" /\ NoPipe
    /\ app' = [app EXCEPT ![a] = "open"]
    /\ UNCHANGED <<daemonVars, linkVars, known, confirming, asked>>

\* The channel to daemon_io_loop is there, and has its receiver.
HasClient(a) == server[a] # None /\ thread[a] # "ended"

Sends(a, request) ==
    inbox' = IF HasClient(a) THEN [inbox EXCEPT ![a] = Append(inbox[a], request)] ELSE inbox

UserSpawns(a) ==
    /\ app[a] = "open" /\ ~confirming[a]
    /\ HasClient(a) /\ Len(inbox[a]) < MaxQueue
    /\ Sends(a, "Spawn")
    /\ UNCHANGED <<daemonVars, windowVars, server, thread, open, listed, asked>>

\* perform_shutdown queues the request and closes the window.
PerformShutdown(a) ==
    /\ Sends(a, "Shutdown")
    /\ app' = [app EXCEPT ![a] = "closing"]
    /\ confirming' = [confirming EXCEPT ![a] = FALSE]
    /\ asked' = asked \cup ({server[a]} \ {None})
    /\ UNCHANGED <<daemonVars, server, thread, open, listed, known>>

\* The window asks first if it knows of sessions.
UserCloses(a) ==
    /\ app[a] = "open" /\ ~confirming[a]
    /\ \/ known[a] # "active" /\ PerformShutdown(a)
       \/ /\ known[a] = "active" /\ confirming' = [confirming EXCEPT ![a] = TRUE]
          /\ UNCHANGED <<daemonVars, linkVars, app, known, asked>>

UserConfirms(a) ==
    app[a] = "open" /\ confirming[a] /\ PerformShutdown(a)

UserCancels(a) ==
    /\ app[a] = "open" /\ confirming[a]
    /\ confirming' = [confirming EXCEPT ![a] = FALSE]
    /\ UNCHANGED <<daemonVars, linkVars, app, known, asked>>

\* Mutant: the restart closes the window the way a user does.
RestartShutsDown(a) ==
    /\ app[a] = "open"
    /\ \E b \in Clients :
          /\ app[b] = "unused"
          /\ app' = [app EXCEPT ![a] = "closing", ![b] = "opening"]
    /\ Sends(a, "Shutdown")
    /\ UNCHANGED <<daemonVars, server, thread, open, listed, known, confirming, asked>>

\* restart_after_update opens another window and closes only this one.
RestartAfterUpdate(a) ==
    /\ app[a] = "open"
    /\ \E b \in Clients :
          /\ app[b] = "unused"
          /\ app' = [app EXCEPT ![a] = "closing", ![b] = "opening"]
    /\ UNCHANGED <<daemonVars, linkVars, known, confirming, asked>>

\* A request is taken from the pipe, and its effects are still to come.
Taken(a) == IF thread[a] \in {"locking", "handling"} THEN 1 ELSE 0

\* The process of a window ends, closing or killed; the requests that
\* daemon_io_loop has not written by then are lost.
ExitApp(a) ==
    /\ app[a] \in {"open", "closing"}
    /\ app' = [app EXCEPT ![a] = "closed"]
    /\ known' = [known EXCEPT ![a] = "unseen"]
    /\ confirming' = [confirming EXCEPT ![a] = FALSE]
    /\ open' = [open EXCEPT ![a] = FALSE]
    /\ \E n \in Taken(a)..Len(inbox[a]) :
          inbox' = [inbox EXCEPT ![a] = SubSeq(inbox[a], 1, n)]
    /\ UNCHANGED <<daemonVars, server, thread, listed, asked>>

----
(* The command line client *)

\* new and shutdown: open the pipe once, write one request, exit.
RunTool(c) ==
    /\ app[c] = "unused"
    /\ \E request \in {"Spawn", "Shutdown"}, d \in Daemons :
          /\ Connect(c, d, request)
          /\ asked' = IF request = "Shutdown" THEN asked \cup {d} ELSE asked
    /\ app' = [app EXCEPT ![c] = "tool"]
    /\ UNCHANGED <<known, confirming>>

\* There is no pipe: the tool does not start a daemon, and does not wait.
ToolFails(c) ==
    /\ app[c] = "unused" /\ NoPipe
    /\ app' = [app EXCEPT ![c] = "closed"]
    /\ UNCHANGED <<daemonVars, linkVars, known, confirming, asked>>

ExitTool(c) ==
    /\ app[c] = "tool"
    /\ app' = [app EXCEPT ![c] = "closed"]
    /\ open' = [open EXCEPT ![c] = FALSE]
    /\ UNCHANGED <<daemonVars, server, thread, inbox, listed, known, confirming, asked>>

----
Accept(d) ==
    \/ Acquire(d) \/ StartUp(d) \/ StartFails(d)
    \/ CreateInstance(d) \/ AwaitClient(d) \/ AcceptFails(d)
    \/ Dispatch(d) \/ Join(d)

BeginShutdown(c) == RaiseFlag(c) \/ DrainSessions(c) \/ CancelClients(c) \/ Wake(c)

Serve(c) ==
    \/ List(c) \/ CheckFlag(c)
    \/ WriteEvents(c) \/ EventRead(c) \/ WriteFails(c)
    \/ HandleAttach(c) \/ ReadRequest(c) \/ PeerGone(c)
    \/ Lock(c) \/ HandleSpawn(c) \/ BeginShutdown(c)
    \/ Leave(c)

AppStep(a) ==
    \/ LaunchApp(a) \/ OpenPipe(a) \/ LaunchDaemon(a) \/ TryFails(a)
    \/ UserSpawns(a) \/ UserCloses(a) \/ UserConfirms(a) \/ UserCancels(a)
    \/ RestartAfterUpdate(a) \/ ExitApp(a)

Tool(c) == RunTool(c) \/ ToolFails(c) \/ ExitTool(c)

Next ==
    \/ \E d \in Daemons : Accept(d)
    \/ \E c \in Clients : Serve(c) \/ AppStep(c) \/ Tool(c)

Spec == Init /\ [][Next]_vars

\* The daemon's threads go on, waiting for the requests lock included (each
\* connection of an instance asks a bounded number of things), a window that is
\* open has a thread that writes requests and reads events, and a tool that has
\* written its request exits.  Users owe nothing.
Fairness ==
    /\ \A d \in Daemons : WF_vars(Accept(d))
    /\ \A c \in Clients : WF_vars(Serve(c))
    /\ \A c \in Clients : WF_vars(ExitTool(c))

FairSpec == Spec /\ Fairness

----
(* Properties *)

\* docs/features.md section 9.1: the mutex prevents several daemons.  However
\* many are launched, by windows that find no pipe for a moment, shells and
\* connections belong to the one that owns the mutex.
OneOwner ==
    \A d \in Daemons :
        daemon[d] \in Live \/ shells[d] > 0 \/ (\E c \in Clients : server[c] = d /\ thread[c] \in Serving)
            => mutex = d

\* Once the sessions have been drained none is added: the lock is held from
\* the flag to the drain, and everybody else reads the flag under the lock.
DrainedStaysEmpty ==
    \A d \in Daemons :
        flag[d] /\ shells[d] > 0 =>
            \E c \in Clients : server[c] = d /\ thread[c] = "draining"

\* docs/features.md sections 9.2 and 14: shells survive windows that close for
\* an update or are killed, and second daemons.  They end because a user asked
\* for it, or because run() returned on a client that was gone too soon.
ShellsSurvive ==
    [][\A d \in Daemons :
          shells[d] > 0 /\ shells'[d] = 0 =>
              d \in asked \/ (daemon[d] = "created" /\ pending[d] # None /\ ~PeerOpen(d))]_vars

\* The accept loop of a daemon that shuts down is woken, wherever it was.
AcceptLoopStops ==
    \A d \in Daemons : flag[d] ~> (daemon[d] \in {"joining", "gone"})

IdlePeer(d) ==
    \E c \in Clients : /\ server[c] = d /\ thread[c] \in {"polling", "writing"}
                       /\ open[c] /\ inbox[c] = <<>>

\* docs/features.md section 12: the daemon stops its sessions, cancels
\* connected pipe I/O, wakes its accept loop, and exits.  Nothing keeps it from
\* that but a client that stays connected and asks for nothing more: a thread
\* that polls does not read the flag.
OnlyIdlePeersHold ==
    \A d \in Daemons : flag[d] ~> (daemon[d] = "gone" \/ IdlePeer(d))

\* A shutdown gets to its end, in both respects.
ShutdownFinishes == AcceptLoopStops /\ OnlyIdlePeersHold
====
