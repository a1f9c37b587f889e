---- MODULE PaneSession_proofs ----
(***************************************************************************)
(* What a client sends to a shell arrives in the order it was sent, with   *)
(* nothing left out before what has arrived, for every capacity of the     *)
(* queue, the events and the pipes, and whatever the other threads of the  *)
(* session do meanwhile.                                                   *)
(***************************************************************************)
EXTENDS PaneSession, SequenceTheorems, TLAPS

----
(* Runs of inputs *)

\* The inputs after a, up to b.
Run(a, b) == [k \in 1..b - a |-> a + k]

LEMMA RunIsInputs ==
    ASSUME NEW a \in Nat, NEW b \in Nat, a <= b
    PROVE  /\ Run(a, b) \in Seq(Nat) /\ Len(Run(a, b)) = b - a
           /\ \A k \in 1..b - a : Run(a, b)[k] = a + k
  BY DEF Run

LEMMA EmptyRun == ASSUME NEW a \in Nat PROVE Run(a, a) = <<>>
  BY DEF Run

LEMMA OneRun == ASSUME NEW a \in Nat PROVE Run(a, a + 1) = <<a + 1>>
  BY DEF Run

LEMMA RunOfRuns ==
    ASSUME NEW a \in Nat, NEW b \in Nat, NEW c \in Nat, a <= b, b <= c
    PROVE  Run(a, b) \o Run(b, c) = Run(a, c)
  BY DEF Run

LEMMA FirstRuns ==
    ASSUME NEW a \in Nat
    PROVE  /\ \A b \in Nat : a <= b => Run(0, a) \o Run(a, b) = Run(0, b)
           /\ Append(Run(0, a), a + 1) = Run(0, a + 1)
  BY DEF Run

\* The first input of a run, and the others.
LEMMA HeadOfRun ==
    ASSUME NEW a \in Nat, NEW b \in Nat, a <= b, Run(a, b) # <<>>
    PROVE  a + 1 <= b /\ Head(Run(a, b)) = a + 1 /\ Tail(Run(a, b)) = Run(a + 1, b)
<1>1. a < b
  BY EmptyRun
<1>2. Run(a, b) \in Seq(Nat) /\ Len(Run(a, b)) = b - a
  BY RunIsInputs
<1>3. Head(Run(a, b)) = a + 1
  BY <1>1, RunIsInputs
<1>4. Tail(Run(a, b)) = Run(a + 1, b)
  <2>1. Tail(Run(a, b)) = [k \in 1..(b - a) - 1 |-> Run(a, b)[k + 1]]
    <3>1. PICK r \in Seq(Nat) : r = Run(a, b) /\ Len(r) = b - a
      BY <1>2
    <3>2. /\ Tail(r) \in Seq(Nat) /\ Len(Tail(r)) = (b - a) - 1
          /\ \A k \in 1..(b - a) - 1 : Tail(r)[k] = r[k + 1]
      BY <1>1, <3>1, HeadTailProperties
    <3>3. PICK t \in Seq(Nat) : t = Tail(r) /\ Len(t) = (b - a) - 1
      BY <3>2
    <3>4. t = [k \in 1..Len(t) |-> t[k]]
      BY LenProperties
    <3> QED BY <3>1, <3>2, <3>3, <3>4
  <2>2. \A k \in 1..b - (a + 1) : k + 1 \in 1..b - a /\ Run(a, b)[k + 1] = a + (k + 1)
    BY <1>1, RunIsInputs
  <2>3. (b - a) - 1 = b - (a + 1) /\ \A k \in 1..b - (a + 1) : a + (k + 1) = (a + 1) + k
    OBVIOUS
  <2> QED BY <2>1, <2>2, <2>3 DEF Run
<1> QED BY <1>1, <1>3, <1>4

\* One more input behind a run.
LEMMA RunGoesOn ==
    ASSUME NEW a \in Nat, NEW b \in Nat, a <= b
    PROVE  Append(Run(a, b), b + 1) = Run(a, b + 1)
  BY DEF Run

----
(* The invariant *)

Writer == [state : {"receiving", "writing", "ended"}, data : Seq(Nat)]

Typed ==
    /\ client \in {"draining", "ready", "sending", "gone"}
    /\ sent \in 0..MaxInputs
    /\ inputQueue \in Seq(Nat) /\ Len(inputQueue) <= InputCapacity
    /\ inPipe \in Seq(Nat) /\ Len(inPipe) <= PipeCapacity
    /\ taken \in Seq(Nat)
    /\ writer \in Writer
    /\ shell \in {"running", "exited"} /\ console \in {"open", "closed"}
    /\ outPipe \in 0..PipeCapacity /\ events \in 0..EventCapacity
    /\ reader \in {"reading", "sending", "ended"}
    /\ registered \in BOOLEAN
    /\ controlQueue \in Seq(Sizes \cup {Stop})
    /\ control \in {"waiting", "checking", "closing", "dropping", "ended"}
    /\ wanted \in Sizes /\ size \in Sizes
    /\ published \in {"Running", "Exited", "FailedToStart"}

\* The last input the queue has taken.
Queued == IF client = "sending" THEN sent - 1 ELSE sent

\* What the writer holds fits its state, and an input is sent before it is
\* queued.
Holds ==
    /\ client = "sending" => sent > 0
    /\ writer.state = "receiving" => writer.data = <<>>
    /\ writer.state = "writing" => Len(writer.data) = 1

\* The inputs up to a are taken, those up to b in the pipe, up to c in the
\* writer's hands and up to d queued; a writer that has ended holds none.
Cut(a, b, c, d) ==
    /\ a <= b /\ taken = Run(0, a) /\ inPipe = Run(a, b)
    /\ writer.state # "ended" =>
           /\ b <= c /\ c <= d /\ d = Queued
           /\ writer.data = Run(b, c) /\ inputQueue = Run(c, d)

Ordered == \E a, b, c, d \in Nat : Cut(a, b, c, d)

IInv == Typed /\ Holds /\ Ordered

LEMMA Constants ==
    /\ InputCapacity \in Nat \ {0} /\ EventCapacity \in Nat \ {0} /\ PipeCapacity \in Nat \ {0}
    /\ MaxInputs \in Nat /\ InitialSize \in Sizes
  BY SessionAssumption

LEMMA InitHolds == ASSUME Init PROVE IInv
<1> USE Constants
<1>1. Typed /\ Holds
  BY DEF Init, Typed, Holds, Writer
<1>2. Cut(0, 0, 0, 0)
  BY EmptyRun DEF Init, Cut, Queued
<1>3. Ordered
  BY <1>2 DEF Ordered
<1> QED BY <1>1, <1>3 DEF IInv

\* The steps that neither bring an input further nor end the writer.
Aside ==
    /\ UNCHANGED <<inputVars, client>> \/ (UNCHANGED inputVars /\ client # "sending" /\ client' # "sending")

LEMMA AsideOrdered == ASSUME Ordered, Aside PROVE Ordered'
<1>1. /\ Queued' = Queued
      /\ taken' = taken /\ inPipe' = inPipe /\ writer' = writer /\ inputQueue' = inputQueue
  BY DEF Aside, Queued, inputVars
<1>2. PICK a \in Nat, b \in Nat, c \in Nat, d \in Nat : Cut(a, b, c, d)
  BY DEF Ordered
<1>3. Cut(a, b, c, d)'
  BY <1>1, <1>2 DEF Cut
<1> QED BY <1>3 DEF Ordered

----
(* The invariant is kept *)

\* What Unregister queues is of the right kind.
LEMMA UnregisterTyped ==
    ASSUME Typed, Unregister
    PROVE  registered' \in BOOLEAN /\ controlQueue' \in Seq(Sizes \cup {Stop})
<1>1. controlQueue \in Seq(Sizes \cup {Stop}) /\ Stop \in Sizes \cup {Stop}
  BY DEF Typed
<1>2. Append(controlQueue, Stop) \in Seq(Sizes \cup {Stop})
  BY <1>1
<1> QED BY <1>1, <1>2 DEF Unregister

\* Only the newest of a burst of sizes is applied.
LEMMA NewestIsSize ==
    ASSUME NEW burst \in Seq(Sizes \cup {Stop}), burst # <<>>
    PROVE  Newest(burst) \in Sizes \cup {Stop}
  BY DEF Newest, Last

LEMMA ClientTyped ==
    ASSUME IInv, ClientSends \/ InputQueued \/ InputRefused \/ DrainEvents \/ NextRound
                     \/ ClosePane \/ Leave
    PROVE  Typed' /\ Holds'
<1> USE Constants DEF IInv, Typed, Holds, inputVars, outputVars, controlVars
<1>1. CASE SendInput
  BY <1>1 DEF SendInput
<1>2. ASSUME NEW s \in Sizes, ResizePane(s) PROVE Typed' /\ Holds'
  BY <1>2 DEF ResizePane
<1>3. CASE InputQueued
  <2>1. /\ inputQueue' \in Seq(Nat)
        /\ Len(inputQueue') <= InputCapacity
    <3>1. inputQueue \in Seq(Nat) /\ sent \in Nat /\ Len(inputQueue) < InputCapacity
      BY <1>3 DEF InputQueued
    <3>2. inputQueue' = Append(inputQueue, sent)
      BY <1>3 DEF InputQueued
    <3>3. Append(inputQueue, sent) \in Seq(Nat) /\ Len(Append(inputQueue, sent)) = Len(inputQueue) + 1
      BY ONLY <3>1, AppendProperties
    <3> QED BY ONLY <3>1, <3>2, <3>3, Constants, LenProperties
  <2>2. Typed'
    BY <1>3, <2>1 DEF InputQueued
  <2>3. Holds'
    BY <1>3 DEF InputQueued
  <2> QED BY <2>2, <2>3
<1>4. CASE InputRefused \/ NextRound
  BY <1>4 DEF InputRefused, NextRound
<1>5. CASE DrainEvents \/ Leave
  BY <1>5 DEF DrainEvents, Leave
<1>6. CASE ClosePane
  BY <1>6, UnregisterTyped DEF ClosePane
<1> QED BY <1>1, <1>2, <1>3, <1>4, <1>5, <1>6 DEF ClientSends

LEMMA WriterTyped == ASSUME IInv, WriterStep PROVE Typed' /\ Holds'
<1> USE Constants DEF IInv, Typed, Holds, inputVars, outputVars, controlVars
<1>1. CASE WriterTakes
  <2>1. Head(inputQueue) \in Nat /\ Tail(inputQueue) \in Seq(Nat)
        /\ Len(Tail(inputQueue)) <= Len(inputQueue)
    BY <1>1 DEF WriterTakes
  <2> QED BY <1>1, <2>1 DEF WriterTakes, Writer
<1>2. CASE WriterWrites
  <2>1. writer.data \in Seq(Nat) /\ Len(writer.data) = 1
    BY <1>2 DEF WriterWrites, Writer
  <2>2. inPipe \o writer.data \in Seq(Nat) /\ Len(inPipe \o writer.data) = Len(inPipe) + 1
    <3>1. PICK data \in Seq(Nat) : data = writer.data /\ Len(data) = 1
      BY <2>1
    <3>2. inPipe \o data \in Seq(Nat) /\ Len(inPipe \o data) = Len(inPipe) + Len(data)
      BY ConcatProperties
    <3> QED BY <3>1, <3>2
  <2> QED BY <1>2, <2>2 DEF WriterWrites, Writer
<1>3. CASE WriterEnds
  BY <1>3 DEF WriterEnds, Writer
<1> QED BY <1>1, <1>2, <1>3 DEF WriterStep

LEMMA ConsoleTyped ==
    ASSUME IInv, ConsoleReads \/ ConsoleEchoes \/ ShellWrites \/ ShellExits
    PROVE  Typed' /\ Holds'
<1> USE Constants DEF IInv, Typed, Holds, inputVars, outputVars, controlVars
<1>1. CASE ConsoleReads
  <2>1. inPipe \in Seq(Nat) /\ inPipe # <<>>
    BY <1>1 DEF ConsoleReads
  <2>2. Head(inPipe) \in Nat /\ Tail(inPipe) \in Seq(Nat) /\ Len(Tail(inPipe)) = Len(inPipe) - 1
    BY <2>1, HeadTailProperties
  <2> QED BY <1>1, <2>2 DEF ConsoleReads
<1>2. CASE ConsoleEchoes \/ ShellWrites
  BY <1>2 DEF ConsoleEchoes, ShellWrites
<1>3. CASE ShellExits
  BY <1>3 DEF ShellExits
<1> QED BY <1>1, <1>2, <1>3

LEMMA OthersTyped == ASSUME IInv, ReaderStep \/ ControlStep PROVE Typed' /\ Holds'
<1> USE Constants DEF IInv, Typed, Holds, inputVars, outputVars, controlVars
<1>1. CASE ReaderReads
  BY <1>1 DEF ReaderReads
<1>2. CASE ReaderSends
  BY <1>2 DEF ReaderSends
<1>3. CASE ReaderEnds
  BY <1>3 DEF ReaderEnds
<1>4. CASE ControlReceives
  <2>1. Newest(controlQueue) \in Sizes \cup {Stop}
    BY <1>4, NewestIsSize DEF ControlReceives
  <2>2. size' \in Sizes /\ control' \in {"checking", "dropping"} /\ controlQueue' = <<>>
    BY <1>4, <2>1 DEF ControlReceives
  <2> QED BY <1>4, <2>2 DEF ControlReceives
<1>5. CASE ControlTimesOut
  BY <1>5 DEF ControlTimesOut
<1>6. CASE ControlChecks
  BY <1>6 DEF ControlChecks
<1>7. CASE CloseExited
  BY <1>7, UnregisterTyped DEF CloseExited
<1>8. CASE DropSession
  BY <1>8 DEF DropSession
<1> QED BY <1>1, <1>2, <1>3, <1>4, <1>5, <1>6, <1>7, <1>8 DEF ReaderStep, ControlStep

\* The input that is sent is the next one, and the queue takes it as the last.
LEMMA ClientOrdered ==
    ASSUME IInv, SendInput \/ InputQueued \/ InputRefused PROVE Ordered'
<1> USE DEF IInv
<1>1. PICK a \in Nat, b \in Nat, c \in Nat, d \in Nat : Cut(a, b, c, d)
  BY DEF Ordered
<1>2. sent \in Nat
  BY Constants DEF Typed
<1>3. CASE SendInput
  <2>1. Queued' = Queued
    BY <1>2, <1>3 DEF SendInput, Queued
  <2>2. Cut(a, b, c, d)'
    BY <1>1, <1>3, <2>1 DEF Cut, SendInput
  <2> QED BY <2>2 DEF Ordered
<1>4. CASE InputQueued
  <2>1. Queued = sent - 1 /\ Queued' = sent
    BY <1>4 DEF InputQueued, Queued
  <2>2. b <= c /\ c <= d /\ d = Queued /\ inputQueue = Run(c, d) /\ writer.data = Run(b, c)
    BY <1>1, <1>4 DEF Cut, InputQueued
  <2>3. sent = d + 1
    BY <1>2, <2>1, <2>2
  <2>4. inputQueue' = Run(c, d + 1)
    BY <1>4, <2>2, <2>3, RunGoesOn DEF InputQueued
  <2>5. c <= d + 1
    BY <2>2
  <2>6. Cut(a, b, c, d + 1)'
    BY <1>1, <1>4, <2>1, <2>2, <2>3, <2>4, <2>5 DEF Cut, InputQueued
  <2> QED BY <2>6 DEF Ordered
<1>5. CASE InputRefused
  <2>1. Cut(a, b, c, d)'
    BY <1>1, <1>5 DEF Cut, InputRefused, inputVars
  <2> QED BY <2>1 DEF Ordered
<1> QED BY <1>3, <1>4, <1>5

\* The writer passes on the oldest input of the queue, and the console reads the
\* oldest of the pipe.
LEMMA PassedOrdered == ASSUME IInv, WriterStep \/ ConsoleReads PROVE Ordered'
<1> USE DEF IInv
<1>1. PICK a \in Nat, b \in Nat, c \in Nat, d \in Nat : Cut(a, b, c, d)
  BY DEF Ordered
<1>2. CASE WriterTakes
  <2>1. /\ b <= c /\ c <= d /\ d = Queued /\ inputQueue = Run(c, d) /\ writer.data = Run(b, c)
        /\ writer.data = <<>> /\ inputQueue # <<>>
    BY <1>1, <1>2 DEF Cut, WriterTakes, Holds
  <2>2. b = c
    <3>1. Len(Run(b, c)) = c - b /\ Run(b, c) = <<>>
      BY <2>1, RunIsInputs
    <3> QED BY <3>1
  <2>3. c + 1 <= d /\ Head(inputQueue) = c + 1 /\ Tail(inputQueue) = Run(c + 1, d)
    BY <2>1, HeadOfRun
  <2>4. writer'.data = Run(b, c + 1) /\ inputQueue' = Run(c + 1, d) /\ b <= c + 1
    <3>1. writer'.data = <<c + 1>> /\ inputQueue' = Tail(inputQueue)
      BY <1>2, <2>3 DEF WriterTakes
    <3> QED BY <2>2, <2>3, <3>1, OneRun
  <2>5. Queued' = Queued
    BY <1>2 DEF WriterTakes, Queued
  <2>6. Cut(a, b, c + 1, d)'
    BY <1>1, <1>2, <2>1, <2>3, <2>4, <2>5 DEF Cut, WriterTakes
  <2> QED BY <2>6 DEF Ordered
<1>3. CASE WriterWrites
  <2>1. /\ a <= b /\ b <= c /\ c <= d /\ d = Queued /\ inputQueue = Run(c, d)
        /\ writer.data = Run(b, c) /\ inPipe = Run(a, b)
    BY <1>1, <1>3 DEF Cut, WriterWrites
  <2>2. inPipe' = Run(a, c) /\ a <= c
    <3>1. inPipe' = Run(a, b) \o Run(b, c)
      BY <1>3, <2>1 DEF WriterWrites
    <3>2. a <= b /\ b <= c /\ a <= c
      BY <2>1
    <3>3. Run(a, b) \o Run(b, c) = Run(a, c)
      BY <3>2, RunOfRuns
    <3> QED BY <3>1, <3>2, <3>3
  <2>3. writer'.data = Run(c, c)
    BY <1>3, EmptyRun DEF WriterWrites
  <2>4. Queued' = Queued
    BY <1>3 DEF WriterWrites, Queued
  <2>5. Cut(a, c, c, d)'
    BY <1>1, <1>3, <2>1, <2>2, <2>3, <2>4 DEF Cut, WriterWrites
  <2> QED BY <2>5 DEF Ordered
<1>4. CASE WriterEnds
  <2>1. Cut(a, b, c, d)'
    BY <1>1, <1>4 DEF Cut, WriterEnds
  <2> QED BY <2>1 DEF Ordered
<1>5. CASE ConsoleReads
  <2>1. a <= b /\ taken = Run(0, a) /\ inPipe = Run(a, b) /\ inPipe # <<>>
    BY <1>1, <1>5 DEF Cut, ConsoleReads
  <2>2. a + 1 <= b /\ Head(inPipe) = a + 1 /\ Tail(inPipe) = Run(a + 1, b)
    BY <2>1, HeadOfRun
  <2>3. taken' = Run(0, a + 1) /\ inPipe' = Run(a + 1, b)
    <3>1. Append(Run(0, a), a + 1) = Run(0, a + 1)
      BY FirstRuns
    <3>2. taken' = Append(taken, Head(inPipe)) /\ inPipe' = Tail(inPipe)
      BY <1>5 DEF ConsoleReads
    <3> QED BY <2>1, <2>2, <3>1, <3>2
  <2>4. Queued' = Queued
    BY <1>5 DEF ConsoleReads, Queued
  <2>5. Cut(a + 1, b, c, d)'
    BY <1>1, <1>5, <2>2, <2>3, <2>4 DEF Cut, ConsoleReads
  <2> QED BY <2>5 DEF Ordered
<1> QED BY <1>2, <1>3, <1>4, <1>5 DEF WriterStep

LEMMA OrderedStep == ASSUME IInv, [Next]_vars PROVE Ordered'
<1>1. CASE SendInput \/ InputQueued \/ InputRefused
  BY <1>1, ClientOrdered
<1>2. CASE WriterStep \/ ConsoleReads
  BY <1>2, PassedOrdered
<1>3. CASE (\E s \in Sizes : ResizePane(s)) \/ DrainEvents \/ NextRound \/ ClosePane \/ Leave
  <2>1. Aside
    BY <1>3 DEF Aside, ResizePane, DrainEvents, NextRound, ClosePane, Leave
  <2> QED BY <2>1, AsideOrdered DEF IInv
<1>4. CASE ConsoleEchoes \/ ShellWrites \/ ShellExits \/ ReaderStep \/ ControlStep \/ UNCHANGED vars
  <2>1. UNCHANGED <<inputVars, client>>
    BY <1>4 DEF ConsoleEchoes, ShellWrites, ShellExits, ReaderStep, ReaderReads, ReaderSends,
                ReaderEnds, ControlStep, ControlReceives, ControlTimesOut, ControlChecks,
                CloseExited, DropSession, vars
  <2> QED BY <2>1, AsideOrdered DEF Aside, IInv
<1> QED BY <1>1, <1>2, <1>3, <1>4 DEF Next, ClientSends

LEMMA InvStep == ASSUME IInv, [Next]_vars PROVE IInv'
<1>1. CASE UNCHANGED vars
  BY <1>1 DEF IInv, Typed, Holds, vars, inputVars, outputVars, controlVars, Ordered, Cut, Queued
<1>2. CASE Next
  <2>1. Typed' /\ Holds'
    BY <1>2, ClientTyped, WriterTyped, ConsoleTyped, OthersTyped DEF Next
  <2> QED BY <1>2, <2>1, OrderedStep DEF IInv
<1> QED BY <1>1, <1>2

LEMMA Invariant == Spec => []IInv
<1>1. Init => IInv
  BY InitHolds
<1>2. IInv /\ [Next]_vars => IInv'
  BY InvStep
<1> QED BY <1>1, <1>2, PTL DEF Spec

\* The console reads the inputs in the order in which they were sent, without a
\* gap, and while the writer thread lives every input that was sent is taken or
\* on its way (client_loop, apply_action and the writer thread of spawn_pane).
THEOREM InputStaysInOrder == Spec => []InputInOrder
<1>1. ASSUME IInv PROVE InputInOrder
  <2> USE <1>1 DEF IInv
  <2>1. TypeOK
    BY DEF TypeOK, Typed, Writer
  <2>2. PICK a \in Nat, b \in Nat, c \in Nat, d \in Nat : Cut(a, b, c, d)
    BY DEF Ordered
  <2>3. \A i \in DOMAIN taken : taken[i] = i
    <3>1. taken = Run(0, a)
      BY <2>2 DEF Cut
    <3> QED BY <3>1 DEF Run
  <2>4. ASSUME writer.state # "ended"
        PROVE  taken \o inPipe \o writer.data \o inputQueue
                   \o (IF client = "sending" THEN <<sent>> ELSE <<>>) = [i \in 1..sent |-> i]
    <3>1. /\ a <= b /\ b <= c /\ c <= d /\ d = Queued
          /\ taken = Run(0, a) /\ inPipe = Run(a, b) /\ writer.data = Run(b, c)
          /\ inputQueue = Run(c, d)
      BY <2>2, <2>4 DEF Cut
    <3>2. taken \o inPipe = Run(0, b)
      BY <3>1, FirstRuns
    <3>3. Run(0, b) \o writer.data = Run(0, c)
      BY <3>1, FirstRuns
    <3>4. Run(0, c) \o inputQueue = Run(0, d)
      BY <3>1, FirstRuns
    <3>5. sent \in Nat /\ (client = "sending" => sent = d + 1) /\ (client # "sending" => sent = d)
      BY <3>1, Constants DEF Typed, Queued
    <3>6. Run(0, d) \o (IF client = "sending" THEN <<sent>> ELSE <<>>) = Run(0, sent)
      <4>1. CASE client = "sending"
        <5>1. PICK e \in Nat : e = d + 1 /\ d <= e
          OBVIOUS
        <5>2. Run(0, d) \o Run(d, e) = Run(0, e)
          BY <5>1, FirstRuns
        <5> QED BY <3>5, <4>1, <5>1, <5>2, OneRun
      <4>2. CASE client # "sending"
        BY <3>1, <3>5, <4>2, RunIsInputs
      <4> QED BY <4>1, <4>2
    <3>7. Run(0, sent) = [i \in 1..sent |-> i]
      BY <3>5 DEF Run
    <3> QED BY <3>2, <3>3, <3>4, <3>6, <3>7
  <2> QED BY <2>1, <2>3, <2>4 DEF InputInOrder
<1> QED BY <1>1, Invariant, PTL
====
