---- MODULE OutputHub ----
(***************************************************************************)
(* The output path of the daemon (ade-daemon/src/windows.rs): one reader   *)
(* thread per pane, the OutputHub behind its mutex, one bounded event      *)
(* queue per client connection, and the connection's thread, which both    *)
(* fills that queue when its client attaches and empties it into the pipe. *)
(*                                                                         *)
(* Bytes are their positions in the output of the pane.  Snapshots and     *)
(* notices carry no bytes; they matter because they take up queue slots.   *)
(***************************************************************************)
EXTENDS Integers, Sequences, Functions, FiniteSetsExt

CONSTANTS Panes,
          Conns,        \* client connections, each made once
          NoConn,
          Limit,        \* OUTPUT_LIMIT
          ReplayChunk,  \* REPLAY_CHUNK_SIZE
          Capacity,     \* CLIENT_EVENT_CAPACITY
          MaxRead,      \* the reader's buffer: most bytes of one read
          MaxBytes,     \* bound: bytes a shell writes
          MayLeave      \* bound: the connections that may end

ASSUME HubAssumption ==
    /\ {Limit, ReplayChunk, Capacity, MaxRead} \subseteq Nat \ {0} /\ MaxBytes \in Nat
    /\ MaxRead <= Limit /\ ReplayChunk <= Limit
    /\ NoConn \notin Conns \cup Panes /\ MayLeave \subseteq Conns /\ Panes # {}

VARIABLES written,  \* [Panes -> Nat], bytes the shell has written to its ConPTY
          reader,   \* [Panes -> reader thread]
          buffers,  \* OutputHub.buffers
          client,   \* OutputHub.client: the connection, or NoConn
          hubLock,  \* who holds the output mutex across steps
          phase,    \* [Conns -> where the connection's thread is]
          replay,   \* [Conns -> what is not yet queued: the snapshot, and of
                    \* each pane the bytes left; turn is the pane begun]
          queue,    \* [Conns -> the event channel]
          got,      \* [Conns -> [Panes -> bytes written to the pipe]]
          origin    \* history: [Conns -> [Panes -> first byte of the replay,
                    \* 0 before the connection attaches]]

hubVars  == <<buffers, client, hubLock>>
connVars == <<phase, replay, queue, got, origin>>
vars     == <<written, reader, hubVars, connVars>>

Notice == [pane |-> NoConn, data |-> <<>>]  \* an event without output

Output(p, bytes) == [pane |-> p, data |-> bytes]

Appended(p) == reader[p].read

NoReplay == [hello |-> FALSE, turn |-> NoConn, left |-> [p \in Panes |-> <<>>]]

TypeOK ==
    /\ written \in [Panes -> 0..MaxBytes]
    /\ \A p \in Panes :
          /\ reader[p].state \in {"reading", "sending", "dead"}
          /\ reader[p].read \in 0..written[p]
          /\ reader[p].to \in Conns \cup {NoConn}
          /\ Len(buffers[p]) <= Limit
    /\ client \in Conns \cup {NoConn}
    /\ hubLock \in Conns \cup {NoConn}
    /\ phase \in [Conns -> {"new", "open", "attaching", "attached",
                            "leaving", "detached", "closed"}]
    /\ \A c \in Conns : Len(queue[c]) <= Capacity

Init ==
    /\ written = [p \in Panes |-> 0]
    /\ reader = [p \in Panes |-> [state |-> "reading", read |-> 0,
                                  to |-> NoConn, data |-> <<>>]]
    /\ buffers = [p \in Panes |-> <<>>]
    /\ client = NoConn
    /\ hubLock = NoConn
    /\ phase = [c \in Conns |-> "new"]
    /\ replay = [c \in Conns |-> NoReplay]
    /\ queue = [c \in Conns |-> <<>>]
    /\ got = [c \in Conns |-> [p \in Panes |-> <<>>]]
    /\ origin = [c \in Conns |-> [p \in Panes |-> 0]]

----
(* Reader threads *)

ShellWrites(p) ==
    /\ written[p] < MaxBytes
    /\ written' = [written EXCEPT ![p] = @ + 1]
    /\ UNCHANGED <<reader, hubVars, connVars>>

\* Mutant: the excess is that of the buffer alone, not with the chunk.
AppendingLate(buffer, bytes) ==
    IF Len(bytes) >= Limit
    THEN SubSeq(bytes, Len(bytes) - Limit + 1, Len(bytes))
    ELSE SubSeq(buffer, Max({0, Len(buffer) - Limit}) + 1, Len(buffer)) \o bytes

\* How many bytes the buffer holds too many once the chunk is in it.
Excess(buffer, bytes) == Max({0, Len(buffer) + Len(bytes) - Limit})

\* OutputHub::append: a chunk as long as the limit replaces the buffer with its
\* own end; before a shorter one as many of the oldest bytes go as do not fit.
Appending(buffer, bytes) ==
    IF Len(bytes) >= Limit
    THEN SubSeq(bytes, Len(bytes) - Limit + 1, Len(bytes))
    ELSE SubSeq(buffer, Excess(buffer, bytes) + 1, Len(buffer)) \o bytes

\* read() returns, and append runs under the output lock: the sender of the
\* current client is cloned in the same critical section as the bytes enter
\* the buffer.
Read(p) ==
    /\ reader[p].state = "reading"
    /\ hubLock = NoConn
    /\ \E n \in 1..MaxRead :
          /\ Appended(p) + n <= written[p]
          /\ LET bytes == [i \in 1..n |-> Appended(p) + i]
             IN  /\ buffers' = [buffers EXCEPT ![p] = Appending(@, bytes)]
                 /\ reader' = [reader EXCEPT ![p] =
                       [state |-> IF client = NoConn THEN "reading" ELSE "sending",
                        read  |-> @.read + n,
                        to    |-> client,
                        data  |-> IF client = NoConn THEN <<>> ELSE bytes]]
    /\ UNCHANGED <<written, client, hubLock, connVars>>

BackToReading(p) == [reader[p] EXCEPT !.state = "reading", !.to = NoConn,
                                      !.data = <<>>]

\* Mutant: the sender is looked up when the chunk is sent.
SendToCurrent(p) ==
    /\ reader[p].state = "sending"
    /\ client # NoConn
    /\ Len(queue[client]) < Capacity
    /\ queue' = [queue EXCEPT ![client] = Append(@, Output(p, reader[p].data))]
    /\ reader' = [reader EXCEPT ![p] = BackToReading(p)]
    /\ UNCHANGED <<written, hubVars, phase, replay, got, origin>>

\* client.send: blocks while the queue is full.
Send(p) ==
    LET c == reader[p].to
    IN  /\ reader[p].state = "sending"
        /\ phase[c] # "closed"
        /\ Len(queue[c]) < Capacity
        /\ queue' = [queue EXCEPT ![c] = Append(@, Output(p, reader[p].data))]
        /\ reader' = [reader EXCEPT ![p] = BackToReading(p)]
        /\ UNCHANGED <<written, hubVars, phase, replay, got, origin>>

\* client.send(event).is_err(): the connection's thread dropped the receiver.
\* The reader thread leaves its loop and nobody reads the pane again.
SendFails(p) ==
    /\ reader[p].state = "sending"
    /\ phase[reader[p].to] = "closed"
    /\ reader' = [reader EXCEPT ![p].state = "dead"]
    /\ UNCHANGED <<written, hubVars, connVars>>

----
(* The connection's thread *)

Connect(c) ==
    /\ phase[c] = "new"
    /\ phase' = [phase EXCEPT ![c] = "open"]
    /\ UNCHANGED <<written, reader, hubVars, replay, queue, got, origin>>

\* replay_for_attach: the snapshot, and every buffer.
FullReplay == [hello |-> TRUE, turn |-> NoConn, left |-> buffers]

\* Attach: lock the hub, take the replay, and keep the lock while the replay
\* goes through the bounded queue that only this thread empties.
BeginAttach(c) ==
    /\ phase[c] = "open"
    /\ hubLock = NoConn
    /\ hubLock' = c
    /\ phase' = [phase EXCEPT ![c] = "attaching"]
    /\ replay' = [replay EXCEPT ![c] = FullReplay]
    /\ origin' = [origin EXCEPT ![c] =
                     [p \in Panes |-> Appended(p) - Len(buffers[p]) + 1]]
    /\ UNCHANGED <<written, reader, buffers, client, queue, got>>

\* data.chunks(REPLAY_CHUNK_SIZE): the next chunk, and what it leaves.
ChunkLength(bytes) == IF Len(bytes) < ReplayChunk THEN Len(bytes) ELSE ReplayChunk
FirstChunk(bytes)  == SubSeq(bytes, 1, ChunkLength(bytes))
OtherChunks(bytes) == SubSeq(bytes, ChunkLength(bytes) + 1, Len(bytes))

QueueHello(c) ==
    /\ replay[c].hello
    /\ queue' = [queue EXCEPT ![c] = Append(@, Notice)]
    /\ replay' = [replay EXCEPT ![c].hello = FALSE]

\* The hash map is visited in some order, one pane after the other.
QueueChunk(c, p) ==
    LET left == replay[c].left[p]
    IN  /\ ~replay[c].hello
        /\ left # <<>> /\ replay[c].turn \in {NoConn, p}
        /\ queue' = [queue EXCEPT ![c] = Append(@, Output(p, FirstChunk(left)))]
        /\ replay' = [replay EXCEPT ![c] =
                         [hello |-> FALSE,
                          turn  |-> IF OtherChunks(left) = <<>> THEN NoConn ELSE p,
                          left  |-> [@.left EXCEPT ![p] = OtherChunks(left)]]]

QueueReplay(c) ==
    /\ phase[c] = "attaching"
    /\ Len(queue[c]) < Capacity
    /\ QueueHello(c) \/ \E p \in Panes : QueueChunk(c, p)
    /\ UNCHANGED <<written, reader, hubVars, phase, got, origin>>

\* Mutant: the guard is kept until the client has read the replay.
FinishAttachRead(c) ==
    /\ phase[c] = "attaching"
    /\ replay[c] = NoReplay /\ queue[c] = <<>>
    /\ client' = c
    /\ hubLock' = NoConn
    /\ phase' = [phase EXCEPT ![c] = "attached"]
    /\ UNCHANGED <<written, reader, buffers, replay, queue, got, origin>>

\* OutputHub::activate, and the guard is dropped.
FinishAttach(c) ==
    /\ phase[c] = "attaching"
    /\ replay[c] = NoReplay
    /\ client' = c
    /\ hubLock' = NoConn
    /\ phase' = [phase EXCEPT ![c] = "attached"]
    /\ UNCHANGED <<written, reader, buffers, replay, queue, got, origin>>

\* write_frame of the next queued event, at the top of client_loop.
Drain(c) ==
    /\ phase[c] \in {"open", "attached"}
    /\ queue[c] # <<>>
    /\ queue' = [queue EXCEPT ![c] = Tail(@)]
    /\ LET event == Head(queue[c])
       IN  got' = IF event = Notice THEN got
                  ELSE [got EXCEPT ![c][event.pane] = @ \o event.data]
    /\ UNCHANGED <<written, reader, hubVars, phase, replay, origin>>

\* OutputHub::emit from any thread: try_send, dropped when the queue is full.
Emit ==
    /\ hubLock = NoConn
    /\ client # NoConn
    /\ phase[client] # "closed"
    /\ Len(queue[client]) < Capacity
    /\ queue' = [queue EXCEPT ![client] = Append(@, Notice)]
    /\ UNCHANGED <<written, reader, hubVars, phase, replay, got, origin>>

\* The pipe is closed or fails: client_loop returns.  A connection that never
\* attached has no subscription to detach.
Leave(c) ==
    /\ c \in MayLeave
    /\ phase[c] \in {"open", "attached"}
    /\ phase' = [phase EXCEPT ![c] = IF @ = "attached" THEN "leaving" ELSE "detached"]
    /\ UNCHANGED <<written, reader, hubVars, replay, queue, got, origin>>

\* Mutant: any connection that ends drops the subscription.
DetachAny(c) ==
    /\ phase[c] = "leaving"
    /\ hubLock = NoConn
    /\ client' = NoConn
    /\ phase' = [phase EXCEPT ![c] = "detached"]
    /\ UNCHANGED <<written, reader, buffers, hubLock, replay, queue, got, origin>>

\* OutputHub::detach: only the subscription this connection made.
Detach(c) ==
    /\ phase[c] = "leaving"
    /\ hubLock = NoConn
    /\ client' = IF client = c THEN NoConn ELSE client
    /\ phase' = [phase EXCEPT ![c] = "detached"]
    /\ UNCHANGED <<written, reader, buffers, hubLock, replay, queue, got, origin>>

\* serve_client returns and the receiver is dropped with what it holds.
Close(c) ==
    /\ phase[c] = "detached"
    /\ phase' = [phase EXCEPT ![c] = "closed"]
    /\ queue' = [queue EXCEPT ![c] = <<>>]
    /\ UNCHANGED <<written, reader, hubVars, replay, got, origin>>

----
Next ==
    \/ \E p \in Panes : ShellWrites(p) \/ Read(p) \/ Send(p) \/ SendFails(p)
    \/ \E c \in Conns :
          \/ Connect(c)
          \/ BeginAttach(c) \/ QueueReplay(c) \/ FinishAttach(c)
          \/ Drain(c)
          \/ Leave(c) \/ Detach(c) \/ Close(c)
    \/ Emit

\* Threads that can move do move: readers, and a connection's thread once its
\* client has asked for something; a client that stays reads its pipe.  A sender
\* that waits for a slot gets one in the end: notices come one per request or
\* monitor round and cannot take every slot that is freed.  Each connection
\* attaches once, so the lock is not contended for ever.  Shells, clients and
\* notices themselves owe nothing.
Fairness ==
    /\ \A p \in Panes : WF_vars(Read(p)) /\ SF_vars(Send(p))
    /\ \A c \in Conns :
          /\ WF_vars(QueueReplay(c)) /\ WF_vars(FinishAttach(c))
          /\ WF_vars(Drain(c))
          /\ WF_vars(Detach(c)) /\ WF_vars(Close(c))

Spec == Init /\ [][Next]_vars

FairSpec == Spec /\ Fairness

----
(* Properties *)

Attached(c) == \A p \in Panes : origin[c][p] # 0

InHand(c, p) == IF reader[p].to = c THEN reader[p].data ELSE <<>>

\* Of bytes, events, bytes and bytes: those of p, place by place.
Places(given, events, p, left, hand) ==
    LET length == Len(events)
    IN  [i \in 0..length + 2 |->
            IF i = 0 THEN given
            ELSE IF i <= length THEN (IF events[i].pane = p THEN events[i].data ELSE <<>>)
            ELSE IF i = length + 1 THEN left ELSE hand]

\* The bytes of p that have set out for c, as c will see them: what is on the
\* pipe, each event of the queue, what is still to be replayed, and what the
\* reader has in its hands.
Pieces(c, p) == Places(got[c][p], queue[c], p, replay[c].left[p], InHand(c, p))

BytesOf(pieces) == UNION {Range(pieces[i]) : i \in DOMAIN pieces}

\* The last byte that has set out, or the one before the replay.
LastOf(c, p) == Max({origin[c][p] - 1} \cup BytesOf(Pieces(c, p)))

\* Within a place bytes follow each other, and no place holds an earlier byte
\* than one before it, nor the same.
InOrder(pieces) ==
    /\ \A i \in DOMAIN pieces : \A k \in DOMAIN pieces[i] : pieces[i][k] = pieces[i][1] + k - 1
    /\ \A i, j \in DOMAIN pieces :
          i < j => \A k \in DOMAIN pieces[i], l \in DOMAIN pieces[j] : pieces[i][k] < pieces[j][l]

\* No byte is lost, repeated or reordered on its way to a connection: what has
\* set out for it is in order and is every byte from the replay's first to some
\* last one, for the current subscriber the last one read (append returns the
\* sender it must use; Attach holds the lock from the copy to activate).
ExactStream ==
    \A c \in Conns, p \in Panes :
        Attached(c) /\ phase[c] # "closed" =>
            /\ InOrder(Pieces(c, p))
            /\ BytesOf(Pieces(c, p)) = origin[c][p]..LastOf(c, p)
            /\ c = client => LastOf(c, p) = Appended(p)

\* A pane's buffer is exactly the newest bytes read from it, Limit at most:
\* what append owes to the next client that attaches, whichever of its branches
\* the chunks take and however much of the buffer each of them displaces.
BufferNewest ==
    /\ TypeOK
    /\ \A p \in Panes :
        LET length == IF Appended(p) < Limit THEN Appended(p) ELSE Limit
        IN  buffers[p] = [i \in 1..length |-> Appended(p) - length + i]

\* The hub implements the stream every client is promised.  The attach takes
\* effect when it locks the hub: nothing can be read until it lets go.
Stream == INSTANCE TerminalStream WITH
    appended <- [p \in Panes |-> Appended(p)],
    current  <- IF hubLock = NoConn THEN client ELSE hubLock,
    attached <- {c \in Conns : Attached(c)},
    gone     <- {c \in Conns : Attached(c) /\ phase[c] \in {"detached", "closed"}},
    next     <- [c \in Conns |-> [p \in Panes |->
                    IF Attached(c) THEN origin[c][p] + Len(got[c][p]) ELSE 1]],
    promised <- [c \in Conns |-> [p \in Panes |->
                    IF ~Attached(c) THEN 0
                    ELSE IF phase[c] = "closed" THEN origin[c][p] + Len(got[c][p]) - 1
                    ELSE LastOf(c, p)]]

ImplementsStream == Stream!Spec

\* The events an attach that has begun has still to queue.
Chunks(bytes) == (Len(bytes) + ReplayChunk - 1) \div ReplayChunk

ToQueue(c) == (IF replay[c].hello THEN 1 ELSE 0)
              + MapThenSumSet(LAMBDA p : Chunks(replay[c].left[p]), Panes)

\* The replay does not fit the queue: the thread that would empty it waits in
\* event_tx.send for a slot, with the lock on the hub.
TooLong(c) == phase[c] = "attaching" /\ Len(queue[c]) + ToQueue(c) > Capacity

\* Docs: on attach, every non-empty buffer is replayed.  An attach that has
\* begun is completed unless its replay is longer than the queue, and every byte
\* read while c is the subscriber reaches c, unless c leaves: the lock of
\* another connection whose replay is too long does not keep it back.
DeliveredEventually ==
    /\ \A c \in Conns :
          (phase[c] = "attaching" /\ ~TooLong(c)) ~> (phase[c] = "attached")
    /\ \A c \in Conns, p \in Panes, b \in 1..MaxBytes :
          (client = c /\ Appended(p) >= b)
              ~> (origin[c][p] + Len(got[c][p]) > b \/ phase[c] # "attached")

\* Docs: while no client is connected output keeps accumulating.  Whatever a
\* shell writes is read from its ConPTY.
OutputServiced ==
    \A p \in Panes, b \in 1..MaxBytes : (written[p] >= b) ~> (Appended(p) >= b)
====
