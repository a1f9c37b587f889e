---- MODULE Connection ----
(***************************************************************************)
(* A connection: a pipe with a buffer in each direction, and a thread at   *)
(* each end that both writes and reads (daemon_io_loop of ade-app, or one  *)
(* command of ade-cli; client_loop of ade-daemon).  A frame is one or more *)
(* units: its length and its JSON reach the pipe in pieces, and a reader   *)
(* that has seen the first waits for the last.                             *)
(***************************************************************************)
EXTENDS Naturals, SequencesExt

CONSTANTS PipeSize,     \* PIPE_BUFFER_SIZE, in units
          EventLimit,   \* CLIENT_EVENT_CAPACITY
          FrameSizes,   \* sizes of frames, in units
          TooLarge,     \* one beyond MAX_FRAME_SIZE
          MaxRequests   \* bound: what a window sends after Attach

ASSUME ConnectionAssumption ==
    /\ {PipeSize, EventLimit} \subseteq Nat \ {0} /\ MaxRequests \in Nat
    /\ 1 \in FrameSizes /\ FrameSizes \subseteq Nat \ {0} /\ TooLarge \notin FrameSizes

VARIABLES peer,         \* who opened the pipe: a "window", or ade-cli with
                        \* "list", "exec", or "send" (new, shutdown)
          sameVersion,  \* do both ends have the same PROTOCOL_VERSION?
          at,           \* end -> what its thread does
          queue,        \* end -> frames it has not begun to write
          out,          \* end -> units of a frame it has begun to write
          pipe,         \* end -> units it has written and nobody has read
          quota,        \* events client_loop still takes in this round
          attached,     \* OutputHub has the daemon's queue
          queued,       \* history: end -> number of the next frame, see Successor
          received,     \* history: end -> number of the next frame to come from it
          sends,        \* history: counted against MaxRequests
          why           \* history: end -> why it ended: "peer", or "other"

linkVars == <<peer, sameVersion, at, queue, out, pipe, quota, attached, queued, received, sends, why>>
histories == <<queued, received, sends, why>>

Ends == {"app", "daemon"}

\* The daemon's thread also answers ("replying", "attaching", "replaying") and
\* waits for a session to take input ("sending").
Doing == {"writing", "peeking", "reading", "replying", "attaching", "replaying", "sending", "gone"}

Other(e) == CHOOSE o \in Ends : o # e

\* Frames are numbered so that a gap or a repetition shows.
Numbers == 0..2
Successor(n) == (n + 1) % 3

Frames == [kind : {"attach", "get", "request", "attached", "event"},
           size : FrameSizes \cup {TooLarge}, n : Numbers]

\* The units of a frame, each with how many follow it.
Units(f) == [i \in 1..f.size |-> [frame |-> f, rest |-> f.size - i]]

TypeLink ==
    /\ peer \in {"window", "list", "exec", "send"} /\ {sameVersion, attached} \subseteq BOOLEAN
    /\ at \in [Ends -> Doing]
    /\ \A e \in Ends :
          /\ queue[e] \in Seq(Frames)
          /\ {out[e], pipe[e]} \subseteq Seq([frame : Frames, rest : Nat])
          /\ Len(pipe[e]) <= PipeSize
    /\ Len(queue["daemon"]) <= EventLimit /\ quota \in 0..EventLimit
    /\ {queued, received} \subseteq [Ends -> Numbers] /\ sends \in 0..MaxRequests
    /\ why \in [Ends -> {"none", "peer", "other"}]

FirstKind == CASE peer = "window" -> "attach" [] peer = "send" -> "request" [] OTHER -> "get"

InitLink ==
    /\ peer \in {"window", "list", "exec", "send"} /\ sameVersion \in BOOLEAN
    /\ at = [e \in Ends |-> "writing"]
    /\ queue = [e \in Ends |-> IF e = "app" THEN <<[kind |-> FirstKind, size |-> 1, n |-> 0]>> ELSE <<>>]
    /\ out = [e \in Ends |-> <<>>] /\ pipe = [e \in Ends |-> <<>>]
    /\ quota = EventLimit /\ attached = FALSE
    /\ queued = [e \in Ends |-> IF e = "app" THEN 1 ELSE 0]
    /\ received = [e \in Ends |-> 0] /\ sends = 0
    /\ why = [e \in Ends |-> "none"]

----
(* Ends *)

\* The thread returns and the pipe is closed; what was not written is lost.
Closes(e, cause) ==
    /\ at' = [at EXCEPT ![e] = "gone"]
    /\ why' = [why EXCEPT ![e] = cause]
    /\ queue' = [queue EXCEPT ![e] = <<>>] /\ out' = [out EXCEPT ![e] = <<>>]
    /\ attached' = (attached /\ e # "daemon")
    /\ UNCHANGED quota

\* Each round of client_loop takes its own number of events.
Goes(e, there) ==
    /\ at' = [at EXCEPT ![e] = there]
    /\ quota' = IF e = "daemon" /\ there = "writing" THEN EventLimit ELSE quota
    /\ UNCHANGED <<why, out>>

Queue(e, kind, size) ==
    /\ queue' = [queue EXCEPT ![e] = Append(@, [kind |-> kind, size |-> size, n |-> queued[e]])]
    /\ queued' = [queued EXCEPT ![e] = Successor(@)]

----
(* Writing: everything that waits, or as many events as the queue holds *)

\* Mutant: no limit to the events of a round.
Uncounted(e) == UNCHANGED quota

Counted(e) == quota' = IF e = "daemon" THEN quota - 1 ELSE quota

MoreToWrite(e) == queue[e] # <<>> /\ (e = "daemon" => quota > 0)

\* write_frame serialises; a frame that is too large fails before its first byte.
BeginFrame(e) ==
    /\ at[e] = "writing" /\ out[e] = <<>> /\ MoreToWrite(e)
    /\ \/ /\ Head(queue[e]).size = TooLarge /\ Closes(e, "other")
       \/ /\ Head(queue[e]).size # TooLarge
          /\ out' = [out EXCEPT ![e] = Units(Head(queue[e]))]
          /\ queue' = [queue EXCEPT ![e] = Tail(@)]
          /\ Counted(e)
          /\ UNCHANGED <<at, attached, why>>
    /\ UNCHANGED <<peer, sameVersion, pipe, queued, received, sends>>

\* A unit goes into the buffer as soon as it has room; nobody takes it any more
\* when the other end is closed.
WriteUnit(e) ==
    /\ at[e] = "writing" /\ out[e] # <<>>
    /\ \/ /\ at[Other(e)] = "gone" /\ Closes(e, "other") /\ UNCHANGED pipe
       \/ /\ at[Other(e)] # "gone" /\ Len(pipe[e]) < PipeSize
          /\ pipe' = [pipe EXCEPT ![e] = Append(@, Head(out[e]))]
          /\ out' = [out EXCEPT ![e] = Tail(@)]
          /\ UNCHANGED <<at, queue, quota, attached, why>>
    /\ UNCHANGED <<peer, sameVersion, queued, received, sends>>

\* A tool that has asked waits for the answer, any other one is done.
AllWritten(e) ==
    /\ at[e] = "writing" /\ out[e] = <<>> /\ ~MoreToWrite(e)
    /\ CASE e = "daemon" \/ peer = "window" -> Goes(e, "peeking") /\ UNCHANGED <<queue, attached>>
         [] e = "app" /\ peer \in {"list", "exec"} -> Goes(e, "reading") /\ UNCHANGED <<queue, attached>>
         [] e = "app" /\ peer = "send" -> Closes(e, "other")
    /\ UNCHANGED <<peer, sameVersion, pipe, queued, received, sends>>

----
(* Reading *)

\* pipe_bytes_available.  What was written before the other end was closed can
\* still be read.
Peek(e) ==
    /\ at[e] = "peeking"
    /\ IF pipe[Other(e)] # <<>> THEN Goes(e, "reading") /\ UNCHANGED <<queue, attached>>
       ELSE IF at[Other(e)] = "gone" THEN Closes(e, "peer")
       ELSE Goes(e, "writing") /\ UNCHANGED <<queue, attached>>
    /\ UNCHANGED <<peer, sameVersion, pipe, queued, received, sends>>

\* daemon_io_loop passes an event on; get_snapshot waits for an Attached, and
\* exec then sends its input if there is a pane.
AppReceives(event) ==
    \/ ~sameVersion /\ Closes("app", "other") /\ UNCHANGED <<peer, queued>>
    \/ /\ sameVersion /\ peer = "window"
       /\ Goes("app", "writing") /\ UNCHANGED <<peer, queue, queued, attached>>
    \/ /\ sameVersion /\ peer # "window" /\ event.kind # "attached"
       /\ Goes("app", "reading") /\ UNCHANGED <<peer, queue, queued, attached>>
    \/ /\ sameVersion /\ peer # "window" /\ event.kind = "attached"
       /\ Closes("app", "other") /\ UNCHANGED <<peer, queued>>
    \/ /\ sameVersion /\ peer = "exec" /\ event.kind = "attached"
       /\ peer' = "send" /\ Goes("app", "writing") /\ UNCHANGED attached
       /\ \E size \in FrameSizes : Queue("app", "request", size)

\* client_loop: an error, a snapshot or a replay waits for room in the queue, and
\* input for room in the session's; what any request may lead to besides does
\* not (try_send, emit), and a shutdown or a save that fails ends the connection.
DaemonReceives(request) ==
    /\ UNCHANGED peer
    /\ \/ /\ ~sameVersion \/ request.kind = "get"
          /\ Goes("daemon", "replying") /\ UNCHANGED <<queue, queued, attached>>
       \/ /\ sameVersion /\ request.kind = "attach"
          /\ Goes("daemon", "attaching") /\ UNCHANGED <<queue, queued, attached>>
       \/ /\ sameVersion /\ request.kind = "request"
          /\ \/ Goes("daemon", "sending") /\ UNCHANGED <<queue, queued, attached>>
             \/ Goes("daemon", "writing") /\ UNCHANGED <<queue, queued, attached>>
             \/ /\ Goes("daemon", "writing") /\ Len(queue["daemon"]) < EventLimit
                /\ \E size \in FrameSizes : Queue("daemon", "event", size)
                /\ UNCHANGED attached
             \/ Closes("daemon", "other") /\ UNCHANGED queued

Receive(e, frame) ==
    /\ received' = [received EXCEPT ![Other(e)] = Successor(@)]
    /\ IF e = "app" THEN AppReceives(frame) ELSE DaemonReceives(frame)

\* Mutant: what is in the buffer is taken for the whole frame.
ReadUnitShort(e) ==
    /\ at[e] = "reading" /\ pipe[Other(e)] # <<>>
    /\ pipe' = [pipe EXCEPT ![Other(e)] = Tail(@)]
    /\ Receive(e, Head(pipe[Other(e)]).frame)
    /\ UNCHANGED <<sameVersion, sends>>

\* read_frame, a unit at a time: the frame is read with its last unit, and lost
\* when that does not come.
ReadUnit(e) ==
    /\ at[e] = "reading"
    /\ \/ /\ pipe[Other(e)] # <<>>
          /\ pipe' = [pipe EXCEPT ![Other(e)] = Tail(@)]
          /\ IF Head(pipe[Other(e)]).rest = 0 THEN Receive(e, Head(pipe[Other(e)]).frame)
             ELSE UNCHANGED <<peer, at, queue, out, quota, attached, queued, received, why>>
       \/ /\ pipe[Other(e)] = <<>> /\ at[Other(e)] = "gone"
          /\ Closes(e, "peer") /\ UNCHANGED <<peer, pipe, queued, received>>
    /\ UNCHANGED <<sameVersion, sends>>

----
(* Answers of the daemon, each frame of which waits for room in the queue that *)
(* this thread alone empties                                                  *)

Answer(kind) ==
    /\ Len(queue["daemon"]) < EventLimit
    /\ \E size \in FrameSizes : Queue("daemon", kind, size)
    /\ UNCHANGED <<peer, sameVersion, pipe, received, sends>>

\* An error about the version, or GetSnapshot.
Reply ==
    /\ at["daemon"] = "replying"
    /\ Answer(IF sameVersion THEN "attached" ELSE "event")
    /\ Goes("daemon", "writing") /\ UNCHANGED attached

\* The buffers hold another chunk, or the queue is given to OutputHub::activate.
Replayed ==
    \/ Goes("daemon", "replaying") /\ UNCHANGED attached
    \/ Goes("daemon", "writing") /\ attached' = TRUE

\* Attach: the snapshot, and then one chunk after the other, under the lock of
\* the hub.
ReplyAttached == at["daemon"] = "attaching" /\ Answer("attached") /\ Replayed

Replay == at["daemon"] = "replaying" /\ Answer("event") /\ Replayed

\* apply_action: session.input.send returns, with nothing left to do for this
\* request.
InputTaken ==
    /\ at["daemon"] = "sending"
    /\ Goes("daemon", "writing")
    /\ UNCHANGED <<peer, sameVersion, queue, pipe, attached, queued, received, sends>>

----
(* What comes from outside *)

\* AdeApp::send.
UserSends ==
    /\ peer = "window" /\ at["app"] # "gone"
    /\ sends < MaxRequests /\ sends' = sends + 1
    /\ \E size \in FrameSizes \cup {TooLarge} : Queue("app", "request", size)
    /\ UNCHANGED <<peer, sameVersion, at, out, pipe, quota, attached, received, why>>

\* Another thread of the daemon emits an event.
OthersEmit ==
    /\ attached /\ Len(queue["daemon"]) < EventLimit
    /\ \E size \in FrameSizes : Queue("daemon", "event", size)
    /\ UNCHANGED <<peer, sameVersion, at, out, pipe, quota, attached, received, sends, why>>

\* A process ends in the middle of anything, or a shutdown cancels the thread.
Dies(e) ==
    /\ at[e] # "gone" /\ Closes(e, "other")
    /\ UNCHANGED <<peer, sameVersion, pipe, queued, received, sends>>

Thread(e) == BeginFrame(e) \/ WriteUnit(e) \/ AllWritten(e) \/ Peek(e) \/ ReadUnit(e)

NextLink ==
    \/ \E e \in Ends : Thread(e) \/ Dies(e)
    \/ Reply \/ ReplyAttached \/ Replay \/ InputTaken
    \/ UserSends \/ OthersEmit

----
(* Properties *)

\* What e has begun to write and the other end has not read, unit by unit.
Way(e) == pipe[e] \o out[e]

\* A frame is still to be read to its end.
OnTheWay(e) == queue[e] # <<>> \/ \E i \in DOMAIN Way(e) : Way(e)[i].rest = 0

\* After a frame comes the next one, from its first unit.
Follows(u, v) ==
    IF u.rest = 0 THEN v.rest = v.frame.size - 1 /\ v.frame.n = Successor(u.frame.n)
    ELSE v = [frame |-> u.frame, rest |-> u.rest - 1]

\* The frames are those from one number up to another.
InTurn(frames, from, to) ==
    /\ frames = <<>> => from = to
    /\ frames # <<>> => Head(frames).n = from /\ to = Successor(Last(frames).n)
    /\ \A i \in 1..Len(frames) - 1 : frames[i + 1].n = Successor(frames[i].n)

\* Both ends write and read the same pipe, in pieces (write_frame, read_frame of
\* ade-protocol): what is on the way is always the rest of the oldest frame and
\* then whole frames, in the order they were queued, none missing and none twice,
\* and a thread that does not read has read whole frames.  What one end has
\* written when it closes is read by the other, unless that one is ended by
\* something else than the close, such as an event it writes itself.
FramesWholeAndInOrder ==
    /\ TypeLink
    /\ \A e \in Ends :
          LET way == Way(e)
          IN  /\ \A i \in 1..Len(way) - 1 : Follows(way[i], way[i + 1])
              /\ way # <<>> => /\ way[1].frame.n = received[e]
                               /\ \/ at[Other(e)] \in {"reading", "gone"}
                                  \/ way[1].rest = way[1].frame.size - 1
              /\ at[e] # "gone" =>
                    IF way = <<>> THEN InTurn(queue[e], received[e], queued[e])
                    ELSE /\ Last(way).rest = 0
                         /\ InTurn(queue[e], Successor(Last(way).frame.n), queued[e])
              /\ why[Other(e)] = "peer" => way = <<>>

\* Both wait for room in a full buffer, with a frame they have begun.
WriteToEachOther ==
    \A e \in Ends : at[e] = "writing" /\ out[e] # <<>> /\ Len(pipe[e]) = PipeSize

\* A replay is longer than the queue, whose one reader is the thread that waits
\* for a slot in it.
WaitsForItself == at["daemon"] = "replaying" /\ Len(queue["daemon"]) = EventLimit
====
