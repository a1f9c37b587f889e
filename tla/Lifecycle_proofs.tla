---- MODULE Lifecycle_proofs ----
(***************************************************************************)
(* The safety properties of Lifecycle for every number of clients and of   *)
(* daemons, and every bound.                                               *)
(***************************************************************************)
EXTENDS Lifecycle, SequenceTheorems, TLAPS

----
(* Types *)

\* Nobody is connected at first.
LEMMA TypeInit == Init => TypeOK
  BY LifecycleAssumption, EmptySeq DEF Init, TypeOK, Connecting

\* Closing connections keeps the types of what belongs to them.
LEMMA EndType ==
    ASSUME TypeOK, NEW C, End(C)
    PROVE  /\ thread' \in [Clients -> Serving \cup {"none", "ended"}]
           /\ inbox' \in [Clients -> Seq(Requests)]
           /\ listed' \in [Clients -> BOOLEAN]
  BY EmptySeq DEF TypeOK, End

\* So does the end of a daemon.
LEMMA VanishType == ASSUME TypeOK, NEW d \in Daemons, Vanish(d) PROVE TypeOK'
  BY EndType, LifecycleAssumption DEF Vanish, TypeOK, windowVars

\* Every step of the accept loop, its start and its end.
LEMMA AcceptType == ASSUME TypeOK, NEW d \in Daemons, Accept(d) PROVE TypeOK'
  <1> USE DEF windowVars, linkVars, Live, Accepting
  <1>1. CASE Acquire(d)
    <2>1. CASE mutex = None
      <3>1. mutex' \in Daemons \cup {None} /\ daemon' = [daemon EXCEPT ![d] = "starting"]
        BY <1>1, <2>1 DEF Acquire
      <3> QED  BY <1>1, <2>1, <3>1 DEF Acquire, TypeOK
    <2>2. CASE mutex # None
      BY <1>1, <2>2, VanishType DEF Acquire
    <2> QED  BY <2>1, <2>2
  <1>2. CASE StartUp(d)
    BY <1>2 DEF StartUp, TypeOK
  <1>3. CASE StartFails(d)
    BY <1>3, VanishType DEF StartFails
  <1>4. CASE CreateInstance(d)
    BY <1>4 DEF CreateInstance, TypeOK
  <1>5. CASE AwaitClient(d)
    BY <1>5 DEF AwaitClient, TypeOK
  <1>6. CASE AcceptFails(d)
    BY <1>6, VanishType DEF AcceptFails
  <1>7. CASE Dispatch(d)
    BY <1>7, EndType DEF Dispatch, TypeOK, Serving
  <1>8. CASE Join(d)
    BY <1>8, VanishType DEF Join
  <1> QED  BY <1>1, <1>2, <1>3, <1>4, <1>5, <1>6, <1>7, <1>8 DEF Accept

\* What a thread and a window make of a queue of requests.
LEMMA InboxTypes ==
    ASSUME NEW s \in Seq(Requests)
    PROVE  /\ s # <<>> => Tail(s) \in Seq(Requests)
           /\ \A r \in Requests : Append(s, r) \in Seq(Requests)
           /\ \A n \in 0..Len(s) : SubSeq(s, 1, n) \in Seq(Requests)
  <1>1. ASSUME NEW n \in 0..Len(s)  PROVE SubSeq(s, 1, n) \in Seq(Requests)
    BY SubSeqProperties
  <1> QED  BY <1>1, HeadTailProperties, AppendProperties

\* Every step of the thread of a connection.
LEMMA ServeType == ASSUME TypeOK, NEW c \in Clients, Serve(c) PROVE TypeOK'
  <1> USE DEF Goes, ThreadFrame, Serving, Holding
  <1>1. CASE List(c) \/ WriteEvents(c) \/ WriteFails(c) \/ PeerGone(c) \/ ReadRequest(c)
    <2>1. CASE List(c)
      BY <2>1 DEF List, TypeOK
    <2>2. CASE ReadRequest(c)
      BY <2>2 DEF ReadRequest, TypeOK
    <2>3. CASE WriteEvents(c)
      BY <2>3 DEF WriteEvents, TypeOK
    <2>4. CASE WriteFails(c)
      BY <2>4 DEF WriteFails, TypeOK
    <2>5. CASE PeerGone(c)
      BY <2>5 DEF PeerGone, TypeOK
    <2> QED  BY <1>1, <2>1, <2>2, <2>3, <2>4, <2>5
  <1>2. CASE CheckFlag(c) \/ Lock(c)
    <2>1. CASE CheckFlag(c)
      BY <2>1 DEF CheckFlag, TypeOK
    <2>2. CASE Lock(c)
      <3>1. CASE flag[server[c]]
        BY <2>2, <3>1 DEF Lock, TypeOK
      <3>2. CASE ~flag[server[c]]
        <4>1. /\ lock' = [lock EXCEPT ![server[c]] = c]
              /\ thread' = [thread EXCEPT ![c] = "handling"]
          BY <2>2, <3>2 DEF Lock
        <4>2. /\ lock' \in [Daemons -> Clients \cup {None}]
              /\ thread' \in [Clients -> Serving \cup {"none", "ended"}]
          BY <4>1 DEF TypeOK
        <4> QED  BY <2>2, <4>2 DEF Lock, TypeOK
      <3> QED  BY <3>1, <3>2
    <2> QED  BY <1>2, <2>1, <2>2
  <1>3. CASE EventRead(c)
    BY <1>3 DEF EventRead, Truth, TypeOK
  <1>4. ASSUME Take(c), inbox[c] # <<>>  PROVE inbox' \in [Clients -> Seq(Requests)]
    BY <1>4, InboxTypes DEF Take, TypeOK
  <1>5. CASE HandleAttach(c)
    <2>1. inbox' \in [Clients -> Seq(Requests)]
      BY <1>5, <1>4 DEF HandleAttach, NextIs
    <2> QED  BY <1>5, <2>1 DEF HandleAttach, TypeOK
  <1>6. CASE HandleSpawn(c)
    <2>1. inbox' \in [Clients -> Seq(Requests)]
      BY <1>6, <1>4 DEF HandleSpawn, NextIs
    <2>2. shells' \in [Daemons -> 0..MaxShells]
      <3> DEFINE n == IF shells[server[c]] < MaxShells THEN shells[server[c]] + 1
                      ELSE shells[server[c]]
      <3>1. server[c] \in Daemons => n \in 0..MaxShells
        BY LifecycleAssumption DEF TypeOK
      <3>2. shells' = [shells EXCEPT ![server[c]] = n]
        BY <1>6 DEF HandleSpawn
      <3> HIDE DEF n
      <3> QED  BY <3>1, <3>2 DEF TypeOK
    <2>3. thread' \in [Clients -> Serving \cup {"none", "ended"}]
      <3>1. \E p \in Serving : thread' = [thread EXCEPT ![c] = p]
        BY <1>6 DEF HandleSpawn
      <3> QED  BY <3>1 DEF TypeOK
    <2> QED  BY <1>6, <2>1, <2>2, <2>3 DEF HandleSpawn, TypeOK
  <1>7. CASE RaiseFlag(c)
    <2>1. inbox' \in [Clients -> Seq(Requests)]
      BY <1>7, <1>4 DEF RaiseFlag, NextIs
    <2> QED  BY <1>7, <2>1 DEF RaiseFlag, TypeOK
  <1>8. CASE DrainSessions(c) \/ CancelClients(c)
    BY <1>8, LifecycleAssumption DEF DrainSessions, CancelClients, TypeOK
  <1>9. CASE Wake(c)
    BY <1>9, LifecycleAssumption DEF Wake, Woken, TypeOK
  <1>10. CASE Leave(c)
    BY <1>10, EndType DEF Leave, TypeOK
  <1> QED  BY <1>1, <1>2, <1>3, <1>5, <1>6, <1>7, <1>8, <1>9, <1>10 DEF Serve, BeginShutdown

\* Opening a pipe, with the first request in it.
LEMMA ConnectType ==
    ASSUME TypeOK, NEW c \in Clients, NEW d \in Daemons, NEW r \in Requests, Connect(c, d, r)
    PROVE  /\ pending' \in [Daemons -> Clients \cup {None, Waker}]
           /\ server' \in [Clients -> Daemons \cup {None}]
           /\ inbox' \in [Clients -> Seq(Requests)]
           /\ open' \in [Clients -> BOOLEAN]
  BY SMT DEF Connect, TypeOK

\* A request that a window queues.
LEMMA SendsType ==
    ASSUME TypeOK, NEW c \in Clients, NEW r \in Requests, Sends(c, r)
    PROVE  inbox' \in [Clients -> Seq(Requests)]
  BY InboxTypes DEF Sends, TypeOK

\* Every step of a window.
LEMMA AppType == ASSUME TypeOK, NEW a \in Clients, AppStep(a) PROVE TypeOK'
  <1> USE DEF daemonVars, windowVars, linkVars, Connecting, Requests
  <1>1. CASE LaunchApp(a) \/ TryFails(a) \/ UserCancels(a) \/ RestartAfterUpdate(a)
    <2>1. CASE LaunchApp(a)
      BY <2>1 DEF LaunchApp, TypeOK
    <2>2. CASE TryFails(a)
      BY <2>2 DEF TryFails, TypeOK
    <2>3. CASE UserCancels(a)
      BY <2>3 DEF UserCancels, TypeOK
    <2>4. CASE RestartAfterUpdate(a)
      BY <2>4 DEF RestartAfterUpdate, TypeOK
    <2> QED  BY <1>1, <2>1, <2>2, <2>3, <2>4
  <1>2. CASE OpenPipe(a)
    BY <1>2, ConnectType DEF OpenPipe, Connect, TypeOK
  <1>3. CASE LaunchDaemon(a)
    BY <1>3 DEF LaunchDaemon, TypeOK
  <1>4. CASE UserSpawns(a)
    BY <1>4, SendsType DEF UserSpawns, TypeOK
  <1>5. ASSUME PerformShutdown(a)  PROVE TypeOK'
    BY <1>5, SendsType DEF PerformShutdown, TypeOK
  <1>6. CASE UserCloses(a) \/ UserConfirms(a)
    BY <1>6, <1>5 DEF UserCloses, UserConfirms, TypeOK
  <1>7. CASE ExitApp(a)
    <2>1. inbox' \in [Clients -> Seq(Requests)]
      BY <1>7, InboxTypes DEF ExitApp, Taken, TypeOK
    <2> QED  BY <1>7, <2>1 DEF ExitApp, TypeOK
  <1> QED  BY <1>1, <1>2, <1>3, <1>4, <1>6, <1>7 DEF AppStep

\* Every step of a tool.
LEMMA ToolType == ASSUME TypeOK, NEW c \in Clients, Tool(c) PROVE TypeOK'
  <1> USE DEF daemonVars, windowVars, linkVars, Connecting, Requests
  <1>1. CASE RunTool(c)
    <2>1. PICK d \in Daemons, r \in Requests : Connect(c, d, r)
      BY <1>1 DEF RunTool
    <2>2. /\ pending' \in [Daemons -> Clients \cup {None, Waker}]
          /\ server' \in [Clients -> Daemons \cup {None}]
          /\ inbox' \in [Clients -> Seq(Requests)]
          /\ open' \in [Clients -> BOOLEAN]
      BY <2>1, ConnectType
    <2>3. asked' \in SUBSET Daemons /\ app' = [app EXCEPT ![c] = "tool"]
      BY <1>1 DEF RunTool, TypeOK
    <2>4. app' \in [Clients -> Connecting \cup {"tool", "open", "closing", "closed"}]
      BY <2>3 DEF TypeOK
    <2>5. UNCHANGED <<known, confirming>>
      BY <1>1 DEF RunTool
    <2>6. UNCHANGED <<mutex, daemon, flag, lock, shells, attached, thread, listed>>
      BY <2>1 DEF Connect
    <2>7. asked' \subseteq Daemons
      BY <2>3
    <2> QED  BY <2>2, <2>4, <2>5, <2>6, <2>7 DEF TypeOK
  <1>2. CASE ToolFails(c) \/ ExitTool(c)
    <2>1. CASE ToolFails(c)
      BY <2>1 DEF ToolFails, TypeOK
    <2>2. CASE ExitTool(c)
      BY <2>2 DEF ExitTool, TypeOK
    <2> QED  BY <1>2, <2>1, <2>2
  <1> QED  BY <1>1, <1>2 DEF Tool

\* Main theorem.  Every variable keeps its type; the shells of a daemon stay within the limit.
THEOREM TypeCorrect == Spec => []TypeOK
  <1>1. TypeOK /\ UNCHANGED vars => TypeOK'
    BY DEF TypeOK, vars, daemonVars, windowVars, linkVars
  <1>2. TypeOK /\ [Next]_vars => TypeOK'
    BY <1>1, AcceptType, ServeType, AppType, ToolType DEF Next
  <1> QED  BY TypeInit, <1>2, PTL DEF Spec

----
(* The inductive invariant *)

\* Where a daemon that serves connections is.
Up == Accepting \cup {"joining"}

\* Shells and the flag belong to a daemon that has started, and with it the
\* mutex.
Owned ==
    \A d \in Daemons :
        /\ daemon[d] \in Live => mutex = d
        /\ shells[d] > 0 => daemon[d] \in Up
        /\ flag[d] => daemon[d] \in Up \cup {"gone"}
        /\ daemon[d] = "joining" => flag[d]

\* A thread serves a connection of a daemon that runs; who is to connect is
\* not connected yet.
Connected ==
    /\ \A d \in Daemons :
          pending[d] \in Clients => server[pending[d]] = d /\ thread[pending[d]] = "none"
    /\ \A c \in Clients :
          /\ app[c] \in Connecting => server[c] = None /\ thread[c] = "none"
          /\ thread[c] \in Serving => server[c] \in Daemons /\ daemon[server[c]] \in Up

\* One thread at a time is past the lock, and before begin_shutdown it has
\* found the flag down.
Exclusive ==
    \A c \in Clients :
        /\ thread[c] \in Holding => lock[server[c]] = c
        /\ thread[c] = "handling" => ~flag[server[c]]
        /\ thread[c] \in {"draining", "cancelling", "waking"} => flag[server[c]]

ShutdownsAsked ==
    /\ \A d \in Daemons : flag[d] => d \in asked
    /\ \A c \in Clients :
          \A i \in 1..Len(inbox[c]) : inbox[c][i] = "Shutdown" => server[c] \in asked

IInv == TypeOK /\ Owned /\ Connected /\ Exclusive /\ ShutdownsAsked /\ DrainedStaysEmpty

\* At first there is no shell, no flag and no connection.
LEMMA InitIInv == Init => IInv
  <1> SUFFICES ASSUME Init  PROVE IInv
    OBVIOUS
  <1>1. Owned /\ Connected /\ Exclusive
    BY LifecycleAssumption DEF Init, Owned, Connected, Exclusive, Up, Live, Accepting, Serving, Holding
  <1>2. ShutdownsAsked /\ DrainedStaysEmpty
    BY DEF Init, ShutdownsAsked, DrainedStaysEmpty
  <1> QED  BY <1>1, <1>2, TypeInit DEF IInv

\* A daemon that ends takes its shells, its lock and its connections with it.
LEMMA VanishIInv ==
    ASSUME IInv, NEW d \in Daemons, Vanish(d)
    PROVE  IInv'
  <1> USE DEF windowVars
  <1>0. TypeOK /\ TypeOK'
    BY VanishType DEF IInv
  <1>1. /\ \A c \in Clients : /\ server[c] = d => thread'[c] = "ended" /\ inbox'[c] = <<>>
                              /\ server[c] # d => thread'[c] = thread[c] /\ inbox'[c] = inbox[c]
        /\ server' = server /\ flag' = flag /\ asked' = asked /\ app' = app
    BY DEF Vanish, End
  <1>2. \A e \in Daemons :
           /\ e = d => daemon'[e] = "gone" /\ shells'[e] = 0 /\ lock'[e] = None /\ pending'[e] = None
           /\ e # d => /\ daemon'[e] = daemon[e] /\ shells'[e] = shells[e]
                       /\ lock'[e] = lock[e] /\ pending'[e] = pending[e]
    BY <1>0 DEF Vanish, TypeOK
  <1>3. \A e \in Daemons \ {d} : mutex = e => mutex' = e
    BY DEF Vanish
  <1>4. Owned'
    BY <1>1, <1>2, <1>3 DEF IInv, Owned, Up, Live, Accepting
  <1>5. Connected'
    BY <1>0, <1>1, <1>2, LifecycleAssumption DEF IInv, Connected, Serving, Holding
  <1>6. Exclusive'
    BY <1>0, <1>1, <1>2 DEF IInv, Exclusive, Connected, Serving, Holding
  <1>7. ShutdownsAsked'
    BY <1>1 DEF IInv, ShutdownsAsked
  <1>8. DrainedStaysEmpty'
    BY <1>0, <1>1, <1>2 DEF IInv, DrainedStaysEmpty
  <1> QED  BY <1>0, <1>4, <1>5, <1>6, <1>7, <1>8 DEF IInv

\* The accept loop adds shells only before it accepts.
LEMMA AcceptIInv == ASSUME IInv, NEW d \in Daemons, Accept(d) PROVE IInv'
  <1>0. TypeOK /\ TypeOK'
    BY AcceptType DEF IInv
  <1> USE DEF windowVars, linkVars
  <1>1. CASE Acquire(d)
    <2>1. CASE mutex = None
      <3>1. /\ mutex' = d /\ daemon[d] = "launched" /\ daemon' = [daemon EXCEPT ![d] = "starting"]
            /\ UNCHANGED <<pending, flag, lock, shells, attached, windowVars, linkVars, asked>>
        BY <1>1, <2>1 DEF Acquire
      <3>2. Owned'
        BY <1>0, <2>1, <3>1, LifecycleAssumption DEF IInv, Owned, TypeOK, Up, Live, Accepting
      <3>3. Connected'
        BY <1>0, <3>1 DEF IInv, Connected, TypeOK, Up, Accepting
      <3>4. Exclusive' /\ ShutdownsAsked' /\ DrainedStaysEmpty'
        BY <3>1 DEF IInv, Exclusive, ShutdownsAsked, DrainedStaysEmpty
      <3> QED  BY <1>0, <3>2, <3>3, <3>4 DEF IInv
    <2>2. CASE mutex # None
      BY <1>1, <2>2, VanishIInv DEF Acquire
    <2> QED  BY <2>1, <2>2
  <1>2. CASE StartUp(d)
    <2>1. /\ daemon[d] = "starting" /\ daemon' = [daemon EXCEPT ![d] = "creating"]
          /\ \A e \in Daemons \ {d} : shells'[e] = shells[e]
          /\ UNCHANGED <<mutex, pending, flag, lock, attached, windowVars, linkVars, asked>>
      BY <1>0, <1>2 DEF StartUp, TypeOK
    <2>2. ~flag[d]
      BY <2>1 DEF IInv, Owned, Up, Accepting
    <2>3. Owned'
      BY <1>0, <2>1 DEF IInv, Owned, TypeOK, Up, Live, Accepting
    <2>4. Connected'
      BY <1>0, <2>1 DEF IInv, Connected, TypeOK, Up, Accepting
    <2>5. Exclusive' /\ ShutdownsAsked'
      BY <2>1 DEF IInv, Exclusive, ShutdownsAsked
    <2>6. DrainedStaysEmpty'
      BY <2>1, <2>2 DEF IInv, DrainedStaysEmpty
    <2> QED  BY <1>0, <2>3, <2>4, <2>5, <2>6 DEF IInv
  <1>3. CASE CreateInstance(d) \/ AwaitClient(d)
    <2>1. /\ daemon[d] \in Accepting
          /\ \E s \in Accepting : daemon' = [daemon EXCEPT ![d] = s]
          /\ UNCHANGED <<mutex, pending, flag, lock, shells, attached, windowVars, linkVars, asked>>
      BY <1>3 DEF CreateInstance, AwaitClient, Accepting
    <2>2. Owned'
      BY <1>0, <2>1 DEF IInv, Owned, TypeOK, Up, Live, Accepting
    <2>3. Connected'
      BY <1>0, <2>1 DEF IInv, Connected, TypeOK, Up
    <2>4. Exclusive' /\ ShutdownsAsked' /\ DrainedStaysEmpty'
      BY <2>1 DEF IInv, Exclusive, ShutdownsAsked, DrainedStaysEmpty
    <2> QED  BY <1>0, <2>2, <2>3, <2>4 DEF IInv
  <1>4. CASE StartFails(d) \/ AcceptFails(d) \/ Join(d)
    BY <1>4, VanishIInv DEF StartFails, AcceptFails, Join
  <1>5. CASE Dispatch(d)
    <2>1. /\ daemon[d] = "accepted"
          /\ daemon' = [daemon EXCEPT ![d] = IF flag[d] THEN "joining" ELSE "creating"]
          /\ pending' = [pending EXCEPT ![d] = None]
          /\ UNCHANGED <<mutex, flag, lock, shells, attached, windowVars, server, open, asked>>
      BY <1>5 DEF Dispatch
    <2>2. \A c \in Clients :
             /\ c # pending[d] => thread'[c] = thread[c] /\ inbox'[c] = inbox[c]
             /\ c = pending[d] => /\ thread'[c] \in {"listing", "ended"}
                                  /\ inbox'[c] = inbox[c] \/ inbox'[c] = <<>>
      <3>1. CASE flag[d]
        <4>1. End({pending[d]})
          BY <1>5, <3>1 DEF Dispatch
        <4> QED  BY <4>1 DEF End
      <3>2. CASE ~flag[d]
        <4>1. /\ thread' = [c \in Clients |-> IF c = pending[d] THEN "listing" ELSE thread[c]]
              /\ inbox' = inbox
          BY <1>5, <3>2 DEF Dispatch
        <4> QED  BY <4>1
      <3> QED  BY <3>1, <3>2
    <2>3. pending[d] \in Clients => server[pending[d]] = d /\ thread[pending[d]] = "none"
      BY DEF IInv, Connected
    <2>4. Owned'
      BY <1>0, <2>1 DEF IInv, Owned, TypeOK, Up, Live, Accepting
    <2>5. Connected'
      <3>1. \A e \in Daemons : pending'[e] \in Clients => e # d /\ pending'[e] = pending[e]
        BY <1>0, <2>1, LifecycleAssumption DEF TypeOK
      <3>2. \A e \in Daemons :
               pending'[e] \in Clients => server'[pending'[e]] = e /\ thread'[pending'[e]] = "none"
        BY <2>1, <2>2, <2>3, <3>1 DEF IInv, Connected
      <3>3. \A c \in Clients : app[c] \in Connecting => c # pending[d]
        BY <2>3, LifecycleAssumption DEF IInv, Connected
      <3>4. \A e \in Daemons : daemon[e] \in Up => daemon'[e] \in Up
        BY <1>0, <2>1 DEF TypeOK, Up, Accepting
      <3>5. \A c \in Clients : thread'[c] \in Serving => server'[c] \in Daemons /\ daemon'[server'[c]] \in Up
        BY <2>1, <2>2, <2>3, <3>4 DEF IInv, Connected, Up, Accepting
      <3> QED  BY <2>1, <2>2, <3>2, <3>3, <3>5 DEF IInv, Connected
    <2>6. Exclusive'
      BY <2>1, <2>2 DEF IInv, Exclusive, Holding
    <2>7. ShutdownsAsked'
      BY <2>1, <2>2 DEF IInv, ShutdownsAsked
    <2>8. DrainedStaysEmpty'
      BY <2>1, <2>2, <2>3 DEF IInv, DrainedStaysEmpty
    <2> QED  BY <1>0, <2>4, <2>5, <2>6, <2>7, <2>8 DEF IInv
  <1> QED  BY <1>1, <1>2, <1>3, <1>4, <1>5 DEF Accept

----
(* The thread of a connection *)

\* No queue gets a Shutdown that had none.
NoNewShutdown ==
    \A k \in Clients : \A i \in 1..Len(inbox'[k]) :
        inbox'[k][i] = "Shutdown" => \E j \in 1..Len(inbox[k]) : inbox[k][j] = "Shutdown"

\* Taking a request leaves those that follow it.
LEMMA TakeAddsNoShutdown ==
    ASSUME TypeOK, NEW c \in Clients, inbox[c] # <<>>, Take(c)
    PROVE  NoNewShutdown
  <1>1. inbox[c] \in Seq(Requests) /\ inbox'[c] = Tail(inbox[c])
    BY DEF Take, TypeOK
  <1>2. Len(inbox'[c]) = Len(inbox[c]) - 1 /\ \A i \in 1..Len(inbox'[c]) : inbox'[c][i] = inbox[c][i + 1]
    BY <1>1, HeadTailProperties
  <1>3. \A i \in 1..Len(inbox'[c]) : i + 1 \in 1..Len(inbox[c])
    BY <1>1, <1>2, LenProperties
  <1>4. \A k \in Clients \ {c} : inbox'[k] = inbox[k]
    BY DEF Take, TypeOK
  <1> QED  BY <1>2, <1>3, <1>4 DEF NoNewShutdown

\* While no Shutdown is added, those in the queues have been asked for.
LEMMA ShutdownsKept ==
    ASSUME IInv, NoNewShutdown, UNCHANGED <<server, flag, asked>>
    PROVE  ShutdownsAsked'
  BY DEF IInv, ShutdownsAsked, NoNewShutdown

\* A step outside of the lock.
LEMMA ThreadMoves ==
    ASSUME IInv, TypeOK', NEW c \in Clients, ThreadFrame, NoNewShutdown,
           UNCHANGED <<pending, flag, lock, shells>>,
           thread[c] \in Serving \ Holding,
           thread'[c] \in (Serving \ Holding) \cup {"ended"},
           \A k \in Clients \ {c} : thread'[k] = thread[k]
    PROVE  IInv'
  <1> USE DEF ThreadFrame
  <1>1. Owned'
    BY DEF IInv, Owned
  <1>2. Connected'
    BY DEF IInv, Connected, Serving, Holding
  <1>3. Exclusive'
    BY DEF IInv, Exclusive, Serving, Holding
  <1>4. ShutdownsAsked'
    BY ShutdownsKept
  <1>5. DrainedStaysEmpty'
    BY DEF IInv, DrainedStaysEmpty, Serving, Holding
  <1> QED  BY <1>1, <1>2, <1>3, <1>4, <1>5 DEF IInv

\* From the lock to its release: what the other threads of the daemon rely on.
LEMMA LockIInv == ASSUME IInv, NEW c \in Clients, Lock(c) PROVE IInv'
  <1> USE DEF ThreadFrame
  <1>0. TypeOK /\ TypeOK'
    BY ServeType DEF IInv, Serve
  <1>1. UNCHANGED inbox
    BY DEF Lock
  <1>2. NoNewShutdown
    BY <1>0, <1>1, LenProperties DEF NoNewShutdown, TypeOK
  <1>3. CASE flag[server[c]]
    <2>1. thread[c] = "locking" /\ thread' = [thread EXCEPT ![c] = "leaving"] /\ lock' = lock
      BY <1>3 DEF Lock, Goes
    <2>2. thread'[c] = "leaving" /\ \A k \in Clients \ {c} : thread'[k] = thread[k]
      BY <1>0, <2>1 DEF TypeOK
    <2> QED  BY <1>0, <1>2, <2>1, <2>2, ThreadMoves DEF Lock, Serving, Holding
  <1>4. CASE ~flag[server[c]]
    <2>1. /\ thread[c] = "locking" /\ thread' = [thread EXCEPT ![c] = "handling"]
          /\ lock' = [lock EXCEPT ![server[c]] = c] /\ lock[server[c]] = None
          /\ UNCHANGED <<pending, flag, shells>> /\ ThreadFrame
      BY <1>4 DEF Lock, Goes
    <2>2. server[c] \in Daemons /\ daemon[server[c]] \in Up
      BY <2>1 DEF IInv, Connected, Serving
    <2>3. thread'[c] = "handling" /\ \A k \in Clients \ {c} : thread'[k] = thread[k]
      BY <1>0, <2>1 DEF TypeOK
    <2>4. lock'[server[c]] = c /\ \A d \in Daemons \ {server[c]} : lock'[d] = lock[d]
      BY <1>0, <2>1, <2>2 DEF TypeOK
    <2>5. Owned'
      BY <2>1 DEF IInv, Owned
    <2>6. Connected'
      BY <2>1, <2>2, <2>3 DEF IInv, Connected, Serving
    <2>7. Exclusive'
      <3>1. \A k \in Clients \ {c} : thread[k] \in Holding => server[k] \in Daemons \ {server[c]}
        BY <2>1, LifecycleAssumption DEF IInv, Exclusive, Connected, Serving
      <3> QED  BY <1>4, <2>1, <2>3, <2>4, <3>1 DEF IInv, Exclusive, Holding
    <2>8. ShutdownsAsked'
      BY <1>2, <2>1, ShutdownsKept
    <2>9. DrainedStaysEmpty'
      BY <2>1, <2>3 DEF IInv, DrainedStaysEmpty
    <2> QED  BY <1>0, <2>5, <2>6, <2>7, <2>8, <2>9 DEF IInv
  <1> QED  BY <1>3, <1>4

\* Releasing the lock, with a shell more or less if the flag is down.
LEMMA ReleaseIInv ==
    ASSUME IInv, TypeOK', NEW c \in Clients, ThreadFrame, NoNewShutdown, UNCHANGED flag,
           thread[c] \in {"handling", "waking"},
           thread'[c] \in {"polling", "leaving"},
           \A k \in Clients \ {c} : thread'[k] = thread[k],
           lock' = [lock EXCEPT ![server[c]] = None],
           \A d \in Daemons : shells'[d] = shells[d] \/ (d = server[c] /\ thread[c] = "handling"),
           \A d \in Daemons : pending'[d] \in Clients => pending'[d] = pending[d]
    PROVE  IInv'
  <1> USE DEF ThreadFrame
  <1>1. server[c] \in Daemons /\ daemon[server[c]] \in Up /\ lock[server[c]] = c
    BY DEF IInv, Connected, Exclusive, Serving, Holding
  <1>2. Owned'
    BY <1>1 DEF IInv, Owned
  <1>3. Connected'
    BY DEF IInv, Connected, Serving, Holding
  <1>4. Exclusive'
    <2>1. \A k \in Clients \ {c} : thread[k] \in Holding => server[k] \in Daemons \ {server[c]}
      BY <1>1 DEF IInv, Exclusive, Connected, Serving
    <2>2. \A d \in Daemons \ {server[c]} : lock'[d] = lock[d]
      BY DEF IInv, TypeOK
    <2> QED  BY <2>1, <2>2 DEF IInv, Exclusive, Holding
  <1>5. ShutdownsAsked'
    BY ShutdownsKept
  <1>6. DrainedStaysEmpty'
    BY DEF IInv, DrainedStaysEmpty, Exclusive
  <1> QED  BY <1>2, <1>3, <1>4, <1>5, <1>6 DEF IInv

\* begin_shutdown up to the wake: the flag, the drain and the cancelling.
LEMMA ShutdownIInv ==
    ASSUME IInv, NEW c \in Clients, RaiseFlag(c) \/ DrainSessions(c) \/ CancelClients(c)
    PROVE  IInv'
  <1> USE DEF ThreadFrame, Goes
  <1>0. TypeOK /\ TypeOK'
    BY ServeType DEF IInv, Serve, BeginShutdown
  <1>1. /\ thread[c] \in Holding /\ thread'[c] \in Holding
        /\ UNCHANGED <<pending, lock>> /\ ThreadFrame
    BY <1>0 DEF RaiseFlag, DrainSessions, CancelClients, Holding, TypeOK
  <1>2. /\ server[c] \in Daemons /\ daemon[server[c]] \in Up /\ lock[server[c]] = c
    BY <1>1 DEF IInv, Connected, Exclusive, Serving
  <1>3. \A k \in Clients \ {c} :
            thread'[k] = thread[k] \/ (thread[k] = "writing" /\ thread'[k] = "leaving")
    <2>1. CASE RaiseFlag(c) \/ DrainSessions(c)
      BY <1>0, <2>1 DEF RaiseFlag, DrainSessions, TypeOK
    <2>2. CASE CancelClients(c)
      BY <2>2 DEF CancelClients
    <2> QED  BY <2>1, <2>2
  <1>4. Connected'
    BY <1>1, <1>2, <1>3 DEF IInv, Connected, Serving, Holding
  <1>5. \A k \in Clients \ {c} : thread[k] \in Holding => server[k] # server[c]
    BY <1>2 DEF IInv, Exclusive
  <1>6. \A k \in Clients \ {c} : thread'[k] \in Holding => thread[k] = thread'[k]
    BY <1>3 DEF Holding
  <1>7. CASE RaiseFlag(c)
    <2>1. /\ thread[c] = "handling" /\ thread'[c] = "draining" /\ shells' = shells
          /\ flag' = [flag EXCEPT ![server[c]] = TRUE]
          /\ inbox[c] # <<>> /\ Head(inbox[c]) = "Shutdown" /\ Take(c)
          /\ \A k \in Clients \ {c} : thread'[k] = thread[k]
      BY <1>0, <1>7 DEF RaiseFlag, NextIs, TypeOK
    <2>2. /\ flag'[server[c]] /\ \A d \in Daemons \ {server[c]} : flag'[d] = flag[d]
      BY <1>0, <1>2, <2>1 DEF TypeOK
    <2>3. Owned'
      BY <1>1, <1>2, <2>1, <2>2 DEF IInv, Owned
    <2>4. Exclusive'
      <3>1. \A k \in Clients \ {c} : thread[k] \in Holding => server[k] \in Daemons \ {server[c]}
        BY <1>5 DEF IInv, Connected, Serving
      <3>2. \A k \in Clients : thread[k] \in Holding => lock[server[k]] = k
        BY DEF IInv, Exclusive
      <3> QED  BY <1>1, <1>2, <2>1, <2>2, <3>1, <3>2 DEF IInv, Exclusive, Holding
    <2>5. server[c] \in asked
      <3>1. inbox[c] \in Seq(Requests)
        BY <1>0 DEF TypeOK
      <3>2. 1 \in 1..Len(inbox[c]) /\ inbox[c][1] = "Shutdown"
        BY <2>1, <3>1, LenProperties, EmptySeq, HeadTailProperties
      <3> QED  BY <3>2 DEF IInv, ShutdownsAsked
    <2>6. ShutdownsAsked'
      <3>1. NoNewShutdown
        BY <1>0, <2>1, TakeAddsNoShutdown
      <3> QED  BY <1>1, <2>2, <2>5, <3>1 DEF IInv, ShutdownsAsked, NoNewShutdown
    <2>7. DrainedStaysEmpty'
      BY <1>1, <2>1, <2>2 DEF IInv, DrainedStaysEmpty
    <2> QED  BY <1>0, <1>4, <2>3, <2>4, <2>6, <2>7 DEF IInv
  <1>8. CASE DrainSessions(c) \/ CancelClients(c)
    <2>1. /\ UNCHANGED <<flag, inbox>>
          /\ \/ thread[c] = "draining" /\ shells' = [shells EXCEPT ![server[c]] = 0]
             \/ thread[c] = "cancelling" /\ shells' = shells
          /\ thread'[c] \in {"cancelling", "waking"}
      BY <1>0, <1>8 DEF DrainSessions, CancelClients, TypeOK
    <2>2. \A d \in Daemons : shells'[d] = shells[d] \/ shells'[d] = 0
      BY <1>0, <2>1 DEF TypeOK
    <2>3. thread[c] = "draining" => shells'[server[c]] = 0
      BY <1>0, <1>2, <2>1 DEF TypeOK
    <2>4. Owned'
      BY <1>1, <2>1, <2>2 DEF IInv, Owned
    <2>5. Exclusive'
      BY <1>1, <1>2, <1>6, <2>1 DEF IInv, Exclusive, Holding
    <2>6. ShutdownsAsked'
      BY <1>1, <2>1 DEF IInv, ShutdownsAsked
    <2>7. DrainedStaysEmpty'
      BY <1>1, <1>3, <2>1, <2>2, <2>3 DEF IInv, DrainedStaysEmpty
    <2> QED  BY <1>0, <1>4, <2>4, <2>5, <2>6, <2>7 DEF IInv
  <1> QED  BY <1>7, <1>8

\* Every step of a thread.
LEMMA ServeIInv == ASSUME IInv, NEW c \in Clients, Serve(c) PROVE IInv'
  <1>0. TypeOK /\ TypeOK'
    BY ServeType DEF IInv
  <1>1. (UNCHANGED inbox) => NoNewShutdown
    BY <1>0, LenProperties DEF NoNewShutdown, TypeOK
  <1>2. ASSUME NEW p, NEW q, Goes(c, p, q)
        PROVE  thread[c] = p /\ thread'[c] = q /\ \A k \in Clients \ {c} : thread'[k] = thread[k]
    BY <1>0, <1>2 DEF Goes, TypeOK
  <1>3. CASE \/ List(c) \/ CheckFlag(c) \/ WriteEvents(c) \/ EventRead(c)
             \/ WriteFails(c) \/ ReadRequest(c) \/ PeerGone(c) \/ HandleAttach(c)
    <2>1. \E p \in Serving \ Holding, q \in Serving \ Holding : Goes(c, p, q)
      BY <1>3 DEF List, CheckFlag, WriteEvents, EventRead, WriteFails, ReadRequest, PeerGone,
                  HandleAttach, Serving, Holding
    <2>2. UNCHANGED <<pending, flag, lock, shells>> /\ ThreadFrame
      BY <1>3 DEF List, CheckFlag, WriteEvents, EventRead, WriteFails, ReadRequest, PeerGone, HandleAttach
    <2>3. NoNewShutdown
      BY <1>0, <1>1, <1>3, TakeAddsNoShutdown
         DEF List, CheckFlag, WriteEvents, EventRead, WriteFails, ReadRequest, PeerGone, HandleAttach, NextIs
    <2>4. thread[c] \in Serving \ Holding /\ thread'[c] \in Serving \ Holding
      BY <1>2, <2>1
    <2>5. \A k \in Clients \ {c} : thread'[k] = thread[k]
      BY <1>2, <2>1
    <2> QED  BY <1>0, <2>2, <2>3, <2>4, <2>5, ThreadMoves
  <1>4. CASE Lock(c)
    BY <1>4, LockIInv
  <1>5. CASE HandleSpawn(c)
    <2>1. \E q \in {"polling", "leaving"} : Goes(c, "handling", q)
      BY <1>5 DEF HandleSpawn
    <2>2. NoNewShutdown
      BY <1>0, <1>5, TakeAddsNoShutdown DEF HandleSpawn, NextIs
    <2>3. \A d \in Daemons : shells'[d] = shells[d] \/ d = server[c]
      BY <1>0, <1>5 DEF HandleSpawn, TypeOK
    <2>4. /\ lock' = [lock EXCEPT ![server[c]] = None]
          /\ UNCHANGED <<flag, pending>> /\ ThreadFrame
      BY <1>5 DEF HandleSpawn
    <2>5. /\ thread[c] = "handling" /\ thread'[c] \in {"polling", "leaving"}
          /\ \A k \in Clients \ {c} : thread'[k] = thread[k]
      BY <1>2, <2>1
    <2> QED  BY <1>0, <2>2, <2>3, <2>4, <2>5, ReleaseIInv
  <1>6. CASE RaiseFlag(c) \/ DrainSessions(c) \/ CancelClients(c)
    BY <1>6, ShutdownIInv
  <1>7. CASE Wake(c)
    <2>1. \A d \in Daemons : pending'[d] \in Clients => pending'[d] = pending[d]
      BY <1>0, <1>7, LifecycleAssumption DEF Wake, Woken, TypeOK
    <2>2. /\ lock' = [lock EXCEPT ![server[c]] = None]
          /\ UNCHANGED <<flag, shells, inbox>> /\ ThreadFrame /\ Goes(c, "waking", "leaving")
      BY <1>7 DEF Wake
    <2> QED  BY <1>0, <1>1, <1>2, <2>1, <2>2, ReleaseIInv
  <1>8. CASE Leave(c)
    <2>1. /\ thread[c] = "leaving" /\ thread'[c] = "ended"
          /\ \A k \in Clients \ {c} : thread'[k] = thread[k] /\ inbox'[k] = inbox[k]
          /\ inbox'[c] = <<>>
          /\ UNCHANGED <<pending, flag, lock, shells>> /\ ThreadFrame
      BY <1>8 DEF Leave, End
    <2>2. \A k \in Clients : Len(inbox[k]) \in Nat
      BY <1>0, LenProperties DEF TypeOK
    <2>3. 1..Len(inbox'[c]) = {}
      BY <2>1, EmptySeq
    <2>4. NoNewShutdown
      BY <2>1, <2>2, <2>3 DEF NoNewShutdown
    <2> QED  BY <1>0, <2>1, <2>4, ThreadMoves DEF Serving, Holding
  <1> QED  BY <1>3, <1>4, <1>5, <1>6, <1>7, <1>8 DEF Serve, BeginShutdown

----
(* Windows and tools *)

\* A step of a process that opens no pipe and asks for no shutdown.
LEMMA UserMoves ==
    ASSUME IInv, TypeOK', NoNewShutdown, UNCHANGED <<daemonVars, server, thread, asked>>,
           \A c \in Clients : app'[c] \in Connecting => app[c] \in Connecting
    PROVE  IInv'
  <1> USE DEF daemonVars
  <1>1. Owned' /\ Exclusive' /\ DrainedStaysEmpty'
    BY DEF IInv, Owned, Exclusive, DrainedStaysEmpty
  <1>2. Connected'
    BY DEF IInv, Connected
  <1>3. ShutdownsAsked'
    BY ShutdownsKept
  <1> QED  BY <1>1, <1>2, <1>3 DEF IInv

\* A process that opens a pipe is not served until it is dispatched.
LEMMA ConnectIInv ==
    ASSUME IInv, TypeOK', NEW c \in Clients, NEW d \in Daemons, NEW r \in Requests, Connect(c, d, r),
           app[c] \in Connecting, app'[c] \notin Connecting,
           \A k \in Clients \ {c} : app'[k] = app[k],
           asked \subseteq asked', r = "Shutdown" => d \in asked'
    PROVE  IInv'
  <1>1. /\ server[c] = None /\ thread[c] = "none"
        /\ UNCHANGED <<mutex, daemon, flag, lock, shells, thread>>
    BY DEF IInv, Connected, Connect
  <1>2. /\ server'[c] = d /\ inbox'[c] = <<r>>
        /\ \A k \in Clients \ {c} : server'[k] = server[k] /\ inbox'[k] = inbox[k]
        /\ \A e \in Daemons : pending'[e] = IF e = d THEN c ELSE pending[e]
    BY DEF Connect, IInv, TypeOK
  <1>3. Owned'
    BY <1>1 DEF IInv, Owned
  <1>4. \A k \in Clients : thread[k] \in Serving => k # c
    BY <1>1 DEF Serving, Holding
  <1>5. Connected'
    <2>1. \A e \in Daemons : pending'[e] \in Clients =>
             server'[pending'[e]] = e /\ thread'[pending'[e]] = "none"
      <3> SUFFICES ASSUME NEW e \in Daemons, pending'[e] \in Clients
                   PROVE  server'[pending'[e]] = e /\ thread'[pending'[e]] = "none"
        OBVIOUS
      <3>1. CASE e = d
        BY <1>1, <1>2, <3>1
      <3>2. CASE e # d
        <4>1. pending[e] \in Clients /\ server[pending[e]] = e /\ thread[pending[e]] = "none"
          BY <1>2, <3>2 DEF IInv, Connected
        <4>2. pending[e] # c
          BY <1>1, <4>1, LifecycleAssumption
        <4> QED  BY <1>1, <1>2, <3>2, <4>1, <4>2
      <3> QED  BY <3>1, <3>2
    <2>2. \A k \in Clients : app'[k] \in Connecting => server'[k] = None /\ thread'[k] = "none"
      BY <1>1, <1>2 DEF IInv, Connected
    <2>3. \A k \in Clients : thread'[k] \in Serving => server'[k] \in Daemons /\ daemon'[server'[k]] \in Up
      BY <1>1, <1>2, <1>4 DEF IInv, Connected
    <2> QED  BY <2>1, <2>2, <2>3 DEF Connected
  <1>6. Exclusive'
    BY <1>1, <1>2, <1>4 DEF IInv, Exclusive, Serving, Holding
  <1>7. ShutdownsAsked'
    <2>1. \A i \in 1..Len(inbox'[c]) : inbox'[c][i] = r
      BY <1>2
    <2> QED  BY <1>1, <1>2, <2>1 DEF IInv, ShutdownsAsked
  <1>8. DrainedStaysEmpty'
    BY <1>1, <1>2, <1>4 DEF IInv, DrainedStaysEmpty, Serving, Holding
  <1> QED  BY <1>3, <1>5, <1>6, <1>7, <1>8 DEF IInv

\* A window that closes has asked its daemon to end.
LEMMA PerformShutdownIInv ==
    ASSUME IInv, TypeOK', NEW a \in Clients, PerformShutdown(a)
    PROVE  IInv'
  <1> USE DEF daemonVars
  <1>1. Owned' /\ Exclusive' /\ DrainedStaysEmpty'
    BY DEF PerformShutdown, IInv, Owned, Exclusive, DrainedStaysEmpty
  <1>2. Connected'
    BY DEF PerformShutdown, IInv, Connected, TypeOK, Connecting
  <1>3. ShutdownsAsked'
    <2>1. /\ UNCHANGED <<server, flag>> /\ asked \subseteq asked'
          /\ \A k \in Clients \ {a} : inbox'[k] = inbox[k]
          /\ server[a] # None => server[a] \in asked'
          /\ server[a] = None => inbox'[a] = inbox[a]
      BY DEF PerformShutdown, Sends, HasClient, IInv, TypeOK
    <2> QED  BY <2>1 DEF IInv, ShutdownsAsked
  <1> QED  BY <1>1, <1>2, <1>3 DEF IInv

\* Every step of a window.
LEMMA AppIInv == ASSUME IInv, NEW a \in Clients, AppStep(a) PROVE IInv'
  <1>0. TypeOK /\ TypeOK'
    BY AppType DEF IInv
  <1> USE DEF daemonVars, windowVars, linkVars
  <1>1. ASSUME UNCHANGED inbox  PROVE NoNewShutdown
    BY <1>0, <1>1 DEF NoNewShutdown
  <1>2. CASE LaunchApp(a) \/ TryFails(a) \/ UserCancels(a) \/ RestartAfterUpdate(a)
    <2>1. UNCHANGED <<daemonVars, server, thread, inbox, asked>>
      BY <1>2 DEF LaunchApp, TryFails, UserCancels, RestartAfterUpdate
    <2>2. \A c \in Clients : app'[c] \in Connecting => app[c] \in Connecting
      <3>1. CASE LaunchApp(a) \/ TryFails(a) \/ UserCancels(a)
        BY <1>0, <3>1 DEF LaunchApp, TryFails, UserCancels, Connecting, TypeOK
      <3>2. CASE RestartAfterUpdate(a)
        <4>1. PICK b \in Clients : app[b] = "unused" /\ app' = [app EXCEPT ![a] = "closing", ![b] = "opening"]
          BY <3>2 DEF RestartAfterUpdate
        <4> QED  BY <1>0, <4>1 DEF Connecting, TypeOK
      <3> QED  BY <1>2, <3>1, <3>2
    <2> QED  BY <1>0, <1>1, <2>1, <2>2, UserMoves
  <1>3. CASE OpenPipe(a)
    <2>1. PICK d \in Daemons : Connect(a, d, "Attach")
      BY <1>3 DEF OpenPipe
    <2>2. /\ app[a] \in Connecting /\ app'[a] \notin Connecting /\ asked' = asked
          /\ \A k \in Clients \ {a} : app'[k] = app[k]
      BY <1>0, <1>3 DEF OpenPipe, Connecting, TypeOK
    <2> QED  BY <1>0, <2>1, <2>2, ConnectIInv DEF Requests
  <1>4. CASE LaunchDaemon(a)
    <2>1. PICK d \in Daemons : daemon[d] = "unused" /\ daemon' = [daemon EXCEPT ![d] = "launched"]
      BY <1>4 DEF LaunchDaemon
    <2>2. /\ \A c \in Clients : app'[c] \in Connecting => app[c] \in Connecting
          /\ UNCHANGED <<mutex, pending, flag, lock, shells, server, thread, inbox, asked>>
      BY <1>0, <1>4 DEF LaunchDaemon, Connecting, TypeOK
    <2>3. Owned'
      BY <1>0, <2>1, <2>2 DEF IInv, Owned, TypeOK, Up, Live, Accepting
    <2>4. Connected'
      BY <1>0, <2>1, <2>2 DEF IInv, Connected, TypeOK, Up, Accepting
    <2>5. Exclusive' /\ ShutdownsAsked' /\ DrainedStaysEmpty'
      BY <2>2 DEF IInv, Exclusive, ShutdownsAsked, DrainedStaysEmpty
    <2> QED  BY <1>0, <2>3, <2>4, <2>5 DEF IInv
  <1>5. CASE UserSpawns(a)
    <2>1. /\ inbox' = [inbox EXCEPT ![a] = Append(inbox[a], "Spawn")]
          /\ UNCHANGED <<daemonVars, app, server, thread, asked>>
      BY <1>5 DEF UserSpawns, Sends
    <2>2. /\ inbox[a] \in Seq(Requests) /\ inbox'[a] = Append(inbox[a], "Spawn")
          /\ \A k \in Clients \ {a} : inbox'[k] = inbox[k]
      BY <1>0, <2>1 DEF TypeOK
    <2>3. \A i \in 1..Len(inbox'[a]) :
             inbox'[a][i] = "Shutdown" => i \in 1..Len(inbox[a]) /\ inbox[a][i] = "Shutdown"
      BY <2>2, AppendProperties DEF Requests
    <2>4. NoNewShutdown
      BY <2>2, <2>3 DEF NoNewShutdown
    <2> QED  BY <1>0, <2>1, <2>4, UserMoves
  <1>6. CASE UserCloses(a) \/ UserConfirms(a)
    <2>1. CASE PerformShutdown(a)
      BY <1>0, <2>1, PerformShutdownIInv
    <2>2. CASE UNCHANGED <<daemonVars, linkVars, app, known, asked>>
      BY <1>0, <1>1, <2>2, UserMoves
    <2> QED  BY <1>6, <2>1, <2>2 DEF UserCloses, UserConfirms
  <1>7. CASE ExitApp(a)
    <2>1. /\ UNCHANGED <<daemonVars, server, thread, asked>>
          /\ \A c \in Clients : app'[c] \in Connecting => app[c] \in Connecting
      BY <1>0, <1>7 DEF ExitApp, Connecting, TypeOK
    <2>2. PICK n \in Taken(a)..Len(inbox[a]) : inbox' = [inbox EXCEPT ![a] = SubSeq(inbox[a], 1, n)]
      BY <1>7 DEF ExitApp
    <2>3. inbox[a] \in Seq(Requests) /\ n \in 0..Len(inbox[a])
      BY <1>0, <2>2 DEF Taken, TypeOK
    <2>4. Len(inbox'[a]) = n /\ \A i \in 1..n : inbox'[a][i] = inbox[a][i]
      BY <1>0, <2>2, <2>3, SubSeqProperties DEF TypeOK
    <2>5. \A k \in Clients \ {a} : inbox'[k] = inbox[k]
      BY <1>0, <2>2 DEF TypeOK
    <2>6. NoNewShutdown
      BY <2>3, <2>4, <2>5 DEF NoNewShutdown
    <2> QED  BY <1>0, <2>1, <2>6, UserMoves
  <1> QED  BY <1>2, <1>3, <1>4, <1>5, <1>6, <1>7 DEF AppStep

\* Every step of a tool.
LEMMA ToolIInv == ASSUME IInv, NEW c \in Clients, Tool(c) PROVE IInv'
  <1>0. TypeOK /\ TypeOK'
    BY ToolType DEF IInv
  <1>1. CASE RunTool(c)
    <2>1. PICK r \in {"Spawn", "Shutdown"}, d \in Daemons :
             /\ Connect(c, d, r)
             /\ asked' = IF r = "Shutdown" THEN asked \cup {d} ELSE asked
      BY <1>1 DEF RunTool
    <2>2. /\ app[c] \in Connecting /\ app'[c] \notin Connecting
          /\ \A k \in Clients \ {c} : app'[k] = app[k]
      BY <1>0, <1>1 DEF RunTool, Connecting, TypeOK
    <2> QED  BY <1>0, <2>1, <2>2, ConnectIInv DEF Requests
  <1>2. CASE ToolFails(c) \/ ExitTool(c)
    <2>1. UNCHANGED <<daemonVars, server, thread, inbox, asked>>
      BY <1>2 DEF ToolFails, ExitTool, linkVars
    <2>2. \A k \in Clients : app'[k] \in Connecting => app[k] \in Connecting
      BY <1>0, <1>2 DEF ToolFails, ExitTool, Connecting, TypeOK
    <2>3. NoNewShutdown
      BY <2>1 DEF NoNewShutdown
    <2> QED  BY <1>0, <2>1, <2>2, <2>3, UserMoves
  <1> QED  BY <1>1, <1>2 DEF Tool

\* The invariant holds in every reachable state.
THEOREM Inductive == Spec => []IInv
  <1>1. IInv /\ UNCHANGED vars => IInv'
    BY DEF vars, daemonVars, windowVars, linkVars, IInv, TypeOK, Owned, Connected, Exclusive,
           ShutdownsAsked, DrainedStaysEmpty
  <1>2. IInv /\ [Next]_vars => IInv'
    BY <1>1, AcceptIInv, ServeIInv, AppIInv, ToolIInv DEF Next
  <1> QED  BY InitIInv, <1>2, PTL DEF Spec

----
(* What follows *)

\* Main theorem.  However many daemons are launched, only the owner of the
\* mutex accepts connections, serves them and has shells (windows.rs run and
\* DaemonSingleton::acquire).
THEOREM OneDaemonOwns == Spec => []OneOwner
  <1>1. IInv => OneOwner
    BY DEF IInv, Owned, Connected, OneOwner, Up, Live
  <1> QED  BY <1>1, Inductive, PTL

\* Main theorem.  No request adds a shell behind the drain of begin_shutdown,
\* whatever the threads that wait for the requests lock want.
THEOREM NothingAfterDrain == Spec => []DrainedStaysEmpty
  <1>1. IInv => DrainedStaysEmpty
    BY DEF IInv
  <1> QED  BY <1>1, Inductive, PTL

\* Who sets the shells of a daemon to none.
LEMMA ShellsEnd ==
    ASSUME IInv, Next, NEW d \in Daemons, shells[d] > 0, shells'[d] = 0
    PROVE  d \in asked \/ (daemon[d] = "created" /\ pending[d] # None /\ ~PeerOpen(d))
  <1>0. TypeOK
    BY DEF IInv
  <1>1. daemon[d] \in Up /\ (flag[d] => d \in asked)
    BY DEF IInv, Owned, ShutdownsAsked
  <1>2. ASSUME NEW e \in Daemons, Accept(e)
        PROVE  d \in asked \/ (daemon[d] = "created" /\ pending[d] # None /\ ~PeerOpen(d))
    <2>1. CASE Acquire(e) \/ StartUp(e) \/ StartFails(e)
      <3>1. daemon[e] \in {"launched", "starting"}
        BY <2>1 DEF Acquire, StartUp, StartFails
      <3>2. \A k \in Daemons \ {e} : shells'[k] = shells[k]
        BY <1>0, <2>1 DEF Acquire, StartUp, StartFails, Vanish, TypeOK
      <3>3. d # e
        BY <1>1, <3>1 DEF Up, Accepting
      <3> QED  BY <3>2, <3>3
    <2>2. CASE CreateInstance(e) \/ AwaitClient(e) \/ Dispatch(e)
      <3>1. shells' = shells
        BY <2>2 DEF CreateInstance, AwaitClient, Dispatch
      <3> QED  BY <3>1
    <2>3. CASE AcceptFails(e) \/ Join(e)
      <3>1. d = e
        BY <1>0, <2>3 DEF AcceptFails, Join, Vanish, TypeOK
      <3>2. daemon[e] = "joining" => flag[e]
        BY DEF IInv, Owned
      <3> QED  BY <1>1, <2>3, <3>1, <3>2 DEF AcceptFails, Join
    <2> QED  BY <1>2, <2>1, <2>2, <2>3 DEF Accept
  <1>3. ASSUME NEW c \in Clients, Serve(c)  PROVE d \in asked
    <2>1. shells' # shells
      OBVIOUS
    <2>2. CASE HandleSpawn(c)
      <3>1. shells[d] \in Nat
        BY <1>0, LifecycleAssumption DEF TypeOK
      <3>2. shells'[d] = shells[d] \/ shells'[d] = shells[d] + 1
        BY <1>0, <2>2 DEF HandleSpawn, TypeOK
      <3> QED  BY <3>1, <3>2
    <2>3. CASE DrainSessions(c)
      <3>1. thread[c] = "draining" /\ d = server[c]
        BY <1>0, <2>3 DEF DrainSessions, Goes, TypeOK
      <3> QED  BY <1>1, <3>1 DEF IInv, Exclusive
    <2> QED
      BY <1>3, <2>1, <2>2, <2>3
         DEF Serve, List, CheckFlag, WriteEvents, EventRead, WriteFails, HandleAttach, ReadRequest,
             PeerGone, Lock, BeginShutdown, RaiseFlag, CancelClients, Wake, Leave
  <1>4. ASSUME NEW a \in Clients, AppStep(a) \/ Tool(a)  PROVE shells' = shells
    BY <1>4 DEF AppStep, LaunchApp, OpenPipe, LaunchDaemon, TryFails, UserSpawns, UserCloses,
                UserConfirms, UserCancels, PerformShutdown, RestartAfterUpdate, ExitApp,
                Tool, RunTool, ToolFails, ExitTool, Connect, daemonVars
  <1> QED  BY <1>2, <1>3, <1>4 DEF Next

\* Main theorem.  Every step that leaves a daemon without the shells it had
\* belongs to a shutdown that a user asked for, or is the return of run() on a
\* client that came and went.
THEOREM ShellsAreSafe == Spec => ShellsSurvive
  <1>1. IInv /\ [Next]_vars =>
           [\A d \in Daemons :
               shells[d] > 0 /\ shells'[d] = 0 =>
                   d \in asked \/ (daemon[d] = "created" /\ pending[d] # None /\ ~PeerOpen(d))]_vars
    BY ShellsEnd
  <1> QED  BY <1>1, Inductive, PTL DEF Spec, ShellsSurvive
====
