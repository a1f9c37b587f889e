---- MODULE OutputHub_proofs ----
(***************************************************************************)
(* The output path keeps every byte in its place, and implements the       *)
(* stream it promises, for every number of panes and connections, every    *)
(* length of a queue, a read, a chunk and a buffer.                        *)
(***************************************************************************)
EXTENDS OutputHub, SequenceTheorems, WellFoundedInduction, TLAPS

Bytes == Seq(Nat)
Events == {Notice} \cup [pane : Panes, data : {b \in Bytes : Len(b) \in 1..Limit}]

----
(* Runs of bytes *)

\* The bytes after a, up to b.
Run(a, b) == [k \in 1..b - a |-> a + k]

LEMMA RunIsBytes ==
    ASSUME NEW a \in Nat, NEW b \in Nat, a <= b
    PROVE  /\ Run(a, b) \in Bytes /\ Len(Run(a, b)) = b - a
           /\ DOMAIN Run(a, b) = 1..b - a
           /\ \A k \in 1..b - a : Run(a, b)[k] = a + k
  BY DEF Run, Bytes

LEMMA EmptyRun ==
    ASSUME NEW a \in Nat, NEW b \in Nat, a <= b
    PROVE  Run(a, b) = <<>> <=> a = b
<1>1. Run(a, b) \in Seq(Nat) /\ Len(Run(a, b)) = b - a
  BY RunIsBytes DEF Bytes
<1>2. Run(a, b) = <<>> <=> Len(Run(a, b)) = 0
  BY <1>1, EmptySeq
<1> QED BY <1>1, <1>2

LEMMA RunOfRuns ==
    ASSUME NEW a \in Nat, NEW b \in Nat, NEW c \in Nat, a <= b, b <= c
    PROVE  Run(a, b) \o Run(b, c) = Run(a, c)
  BY DEF Run

\* The first n bytes of a run, and the others.
LEMMA PartsOfRun ==
    ASSUME NEW a \in Nat, NEW b \in Nat, NEW n \in Nat, n <= b - a
    PROVE  /\ SubSeq(Run(a, b), 1, n) = Run(a, a + n)
           /\ SubSeq(Run(a, b), n + 1, b - a) = Run(a + n, b)
  BY DEF Run

\* What is left of a run without its first n bytes.
Without(bytes, n) == SubSeq(bytes, n + 1, Len(bytes))

LEMMA EndOfRun ==
    ASSUME NEW a \in Nat, NEW b \in Nat, NEW n \in Nat, n <= b - a,
           NEW begin \in Nat, begin = a + n
    PROVE  Without(Run(a, b), n) = Run(begin, b)
<1>1. SubSeq(Run(a, b), n + 1, b - a) = Run(a + n, b)
  BY DEF Run
<1>2. Len(Run(a, b)) = b - a
  BY RunIsBytes
<1> QED BY <1>1, <1>2 DEF Without

\* A byte is among those of the pieces if it has a place.
LEMMA BytesHavePlaces ==
    ASSUME NEW pieces, NEW byte
    PROVE  byte \in BytesOf(pieces)
               <=> \E i \in DOMAIN pieces : \E k \in DOMAIN pieces[i] : pieces[i][k] = byte
  BY DEF BytesOf, Range

----
(* A stream cut into places *)

Own(event, p) == IF event.pane = p THEN event.data ELSE <<>>

\* Place i holds the bytes after at[i], up to at[i + 1].
Cuts(given, events, p, left, hand, at) ==
    LET length == Len(events)
    IN  /\ at \in [0..length + 3 -> Nat]
        /\ \A i, j \in 0..length + 3 : i <= j => at[i] <= at[j]
        /\ given = Run(at[0], at[1])
        /\ \A i \in 1..length : Own(events[i], p) = Run(at[i], at[i + 1])
        /\ left = Run(at[length + 1], at[length + 2])
        /\ hand = Run(at[length + 2], at[length + 3])

\* Cut that way, the bytes that set out after first are those up to last.
Flow(given, events, p, left, hand, first, last) ==
    \E at : /\ Cuts(given, events, p, left, hand, at)
            /\ at[0] = first /\ at[Len(events) + 3] = last

\* An event joins the queue; what it carries is taken from what was left, and
\* what is left from what was in the reader's hands.
LEMMA FlowQueues ==
    ASSUME NEW given, NEW events \in Seq(Events), NEW p, NEW at, NEW left, NEW hand,
           Cuts(given, events, p, left, hand, at),
           NEW event \in Events, NEW middle \in Nat, NEW rest \in Nat,
           at[Len(events) + 1] <= middle, middle <= rest, rest <= at[Len(events) + 3],
           Own(event, p) = Run(at[Len(events) + 1], middle)
    PROVE  Flow(given, Append(events, event), p, Run(middle, rest),
                Run(rest, at[Len(events) + 3]), at[0], at[Len(events) + 3])
<1> DEFINE length == Len(events)
           end == at[length + 3]
           after == [i \in 0..length + 4 |-> IF i <= length + 1 THEN at[i]
                                             ELSE IF i = length + 2 THEN middle
                                             ELSE IF i = length + 3 THEN rest ELSE end]
<1>1. length \in Nat /\ Len(Append(events, event)) = length + 1
  BY AppendProperties
<1>2. /\ \A i \in 1..length : Append(events, event)[i] = events[i]
      /\ Append(events, event)[length + 1] = event
  BY AppendProperties
<1>3. /\ at \in [0..length + 3 -> Nat]
      /\ \A i, j \in 0..length + 3 : i <= j => at[i] <= at[j]
      /\ given = Run(at[0], at[1])
      /\ \A i \in 1..length : Own(events[i], p) = Run(at[i], at[i + 1])
  BY DEF Cuts
<1>4. after \in [0..length + 4 -> Nat]
  BY <1>1, <1>3
<1>5. \A i, j \in 0..length + 4 : i <= j => after[i] <= after[j]
  <2>1. ASSUME NEW i \in 0..length + 1
        PROVE  after[i] = at[i] /\ at[i] \in Nat /\ at[i] <= at[length + 1]
    <3>1. i \in 0..length + 4 /\ i <= length + 1
      BY <1>1, <2>1
    <3>2. after[i] = at[i]
      BY <3>1
    <3> HIDE DEF after
    <3>3. i \in 0..length + 3 /\ length + 1 \in 0..length + 3
      BY <1>1, <2>1
    <3>4. at[i] \in Nat /\ at[i] <= at[length + 1]
      BY <1>3, <3>1, <3>3
    <3> QED BY <3>2, <3>4
  <2>2. ASSUME NEW i \in length + 2..length + 4
        PROVE  after[i] = (IF i = length + 2 THEN middle ELSE IF i = length + 3 THEN rest ELSE end)
    BY <1>1, <2>2
  <2>3. end \in Nat /\ at[length + 1] \in Nat
    BY <1>1, <1>3
  <2> HIDE DEF after, end
  <2>4. at[length + 1] <= middle /\ middle <= rest /\ rest <= end
    BY DEF end
  <2>5. ASSUME NEW i \in 0..length + 4, NEW j \in 0..length + 4, i <= j PROVE after[i] <= after[j]
    <3>1. CASE j <= length + 1
      BY <1>1, <1>3, <2>1, <2>5, <3>1
    <3>2. CASE i <= length + 1 /\ j > length + 1
      <4>1. j \in length + 2..length + 4 /\ i \in 0..length + 1
        BY <1>1, <2>5, <3>2
      <4>2. after[i] \in Nat /\ after[i] <= middle
        BY <2>1, <2>3, <2>4, <4>1
      <4>3. after[j] \in Nat /\ middle <= after[j]
        BY <2>2, <2>3, <2>4, <4>1
      <4> QED BY <4>2, <4>3
    <3>3. CASE i > length + 1
      <4>1. i \in length + 2..length + 4 /\ j \in length + 2..length + 4
        BY <1>1, <2>5, <3>3
      <4> QED BY <1>1, <2>2, <2>3, <2>4, <2>5, <4>1
    <3> QED BY <1>1, <3>1, <3>2, <3>3
  <2> QED BY <2>5
<1>6. after[0] = at[0] /\ after[1] = at[1] /\ after[length + 2] = middle
      /\ after[length + 3] = rest /\ after[length + 4] = end /\ after[length + 1] = at[length + 1]
  BY <1>1
<1>7. \A i \in 1..length + 1 : Own(Append(events, event)[i], p) = Run(after[i], after[i + 1])
  <2>1. ASSUME NEW i \in 1..length
        PROVE  Own(Append(events, event)[i], p) = Run(after[i], after[i + 1])
    <3>1. after[i] = at[i] /\ after[i + 1] = at[i + 1]
      BY <1>1, <2>1
    <3> QED BY <3>1, <1>2, <1>3
  <2>2. Own(Append(events, event)[length + 1], p) = Run(after[length + 1], after[(length + 1) + 1])
    <3>1. (length + 1) + 1 = length + 2
      BY <1>1
    <3> HIDE DEF after
    <3> QED BY <3>1, <1>2, <1>6
  <2> HIDE DEF after
  <2>3. ASSUME NEW i \in 1..length + 1
        PROVE  Own(Append(events, event)[i], p) = Run(after[i], after[i + 1])
    <3>1. i \in 1..length \/ i = length + 1
      BY <1>1, <2>3
    <3> QED BY <2>1, <2>2, <3>1
  <2> QED BY <2>3
<1> HIDE DEF after
<1>8. Cuts(given, Append(events, event), p, Run(middle, rest), Run(rest, end), after)
  BY <1>1, <1>3, <1>4, <1>5, <1>6, <1>7 DEF Cuts
<1>9. after[Len(Append(events, event)) + 3] = end
  BY <1>1, <1>6
<1> QED BY <1>6, <1>8, <1>9 DEF Flow

\* The connection's thread writes the first event of the queue.
LEMMA FlowDrains ==
    ASSUME NEW given, NEW events \in Seq(Events), NEW p, NEW left, NEW hand, NEW at,
           Cuts(given, events, p, left, hand, at), events # <<>>
    PROVE  /\ Own(Head(events), p) = Run(at[1], at[2]) /\ at[2] <= at[Len(events) + 3]
           /\ Flow(given \o Own(Head(events), p), Tail(events), p, left, hand,
                   at[0], at[Len(events) + 3])
<1> DEFINE length == Len(events)
           after == [i \in 0..length + 2 |-> IF i = 0 THEN at[0] ELSE at[i + 1]]
<1>1. /\ length \in Nat \ {0} /\ Len(Tail(events)) = length - 1 /\ Head(events) = events[1]
      /\ \A i \in 1..length - 1 : Tail(events)[i] = events[i + 1]
  OBVIOUS
<1>2. /\ at \in [0..length + 3 -> Nat]
      /\ \A i, j \in 0..length + 3 : i <= j => at[i] <= at[j]
      /\ given = Run(at[0], at[1])
      /\ \A i \in 1..length : Own(events[i], p) = Run(at[i], at[i + 1])
  BY DEF Cuts
<1>3. Own(Head(events), p) = Run(at[1], at[2]) /\ at[2] <= at[length + 3]
  BY <1>1, <1>2
<1>4. given \o Own(Head(events), p) = Run(at[0], at[2])
  <2>1. at[0] \in Nat /\ at[1] \in Nat /\ at[2] \in Nat /\ at[0] <= at[1] /\ at[1] <= at[2]
    BY <1>1, <1>2
  <2>2. PICK a \in Nat, b \in Nat, c \in Nat : a = at[0] /\ b = at[1] /\ c = at[2]
    BY <2>1
  <2>3. Run(a, b) \o Run(b, c) = Run(a, c)
    BY <2>1, <2>2, RunOfRuns
  <2> QED BY <1>2, <1>3, <2>2, <2>3
<1>5. after \in [0..length + 2 -> Nat]
  BY <1>1, <1>2
<1>6. \A i \in 0..length + 2 : after[i] = IF i = 0 THEN at[0] ELSE at[i + 1]
  OBVIOUS
<1> HIDE DEF after
<1>7. \A i, j \in 0..length + 2 : i <= j => after[i] <= after[j]
  BY <1>1, <1>2, <1>6
<1>8. /\ after[0] = at[0] /\ after[1] = at[2] /\ after[length] = at[length + 1]
      /\ after[length + 1] = at[length + 2] /\ after[length + 2] = at[length + 3]
  BY <1>1, <1>6
<1>9. \A i \in 1..length - 1 : Own(Tail(events)[i], p) = Run(after[i], after[i + 1])
  <2>1. ASSUME NEW i \in 1..length - 1
        PROVE  Own(Tail(events)[i], p) = Run(after[i], after[i + 1])
    <3>1. i + 1 \in 1..length /\ after[i] = at[i + 1] /\ after[i + 1] = at[(i + 1) + 1]
      BY <1>1, <1>6, <2>1
    <3>2. Own(events[i + 1], p) = Run(at[i + 1], at[(i + 1) + 1])
      BY <1>2, <3>1
    <3> QED BY <1>1, <2>1, <3>1, <3>2
  <2> QED BY <2>1
<1>10. Cuts(given \o Own(Head(events), p), Tail(events), p, left, hand, after)
  <2>1. left = Run(at[length + 1], at[length + 2]) /\ hand = Run(at[length + 2], at[length + 3])
    BY DEF Cuts
  <2>2. /\ (length - 1) + 1 = length /\ (length - 1) + 2 = length + 1 /\ (length - 1) + 3 = length + 2
    BY <1>1
  <2> QED BY <1>1, <1>4, <1>5, <1>7, <1>8, <1>9, <2>1, <2>2 DEF Cuts
<1>11. after[Len(Tail(events)) + 3] = at[length + 3]
  BY <1>1, <1>8
<1> QED BY <1>3, <1>8, <1>10, <1>11 DEF Flow

\* The reader takes up the bytes that follow what has set out.
LEMMA FlowReads ==
    ASSUME NEW given, NEW events \in Seq(Events), NEW p, NEW left, NEW at,
           Cuts(given, events, p, left, <<>>, at),
           NEW end \in Nat, at[Len(events) + 3] <= end
    PROVE  Flow(given, events, p, left, Run(at[Len(events) + 3], end), at[0], end)
<1> DEFINE length == Len(events)
           after == [at EXCEPT ![length + 3] = end]
<1>1. length \in Nat
  OBVIOUS
<1>2. /\ at \in [0..length + 3 -> Nat]
      /\ \A i, j \in 0..length + 3 : i <= j => at[i] <= at[j]
      /\ given = Run(at[0], at[1])
      /\ \A i \in 1..length : Own(events[i], p) = Run(at[i], at[i + 1])
      /\ left = Run(at[length + 1], at[length + 2])
      /\ <<>> = Run(at[length + 2], at[length + 3])
  BY DEF Cuts
<1>3. /\ at[length + 2] \in Nat /\ at[length + 3] \in Nat /\ at[length + 2] <= at[length + 3]
  BY <1>1, <1>2
<1>4. at[length + 2] = at[length + 3]
  BY <1>2, <1>3, EmptyRun
<1>5. after \in [0..length + 3 -> Nat] /\ after[length + 3] = end
  BY <1>1, <1>2
<1>6. \A i \in 0..length + 2 : after[i] = at[i]
  BY <1>1, <1>2
<1> HIDE DEF after
<1>7. \A i, j \in 0..length + 3 : i <= j => after[i] <= after[j]
  <2>1. ASSUME NEW i \in 0..length + 2 PROVE after[i] <= end /\ end <= end
    <3>1. i \in 0..length + 3 /\ length + 3 \in 0..length + 3 /\ i <= length + 3
      BY <1>1, <2>1
    <3>2. at[i] \in Nat /\ at[i] <= at[length + 3]
      BY <1>2, <3>1
    <3> QED BY <1>3, <1>6, <2>1, <3>2
  <2>2. ASSUME NEW i \in 0..length + 3, NEW j \in 0..length + 3, i <= j PROVE after[i] <= after[j]
    <3>1. CASE j = length + 3
      <4>1. i \in 0..length + 2 \/ i = length + 3
        BY <1>1, <2>2
      <4> QED BY <2>1, <3>1, <4>1, <1>5
    <3>2. CASE j # length + 3
      <4>1. i \in 0..length + 2 /\ j \in 0..length + 2
        BY <1>1, <2>2, <3>2
      <4> QED BY <1>1, <1>2, <1>6, <2>2, <4>1
    <3> QED BY <3>1, <3>2
  <2> QED BY <2>2
<1>8. Cuts(given, events, p, left, Run(at[length + 3], end), after)
  <2>1. /\ after[0] = at[0] /\ after[1] = at[1] /\ after[length + 1] = at[length + 1]
        /\ after[length + 2] = at[length + 2]
    BY <1>1, <1>6
  <2>2. ASSUME NEW i \in 1..length PROVE after[i] = at[i] /\ after[i + 1] = at[i + 1]
    BY <1>1, <1>6, <2>2
  <2>3. \A i \in 1..length : Own(events[i], p) = Run(after[i], after[i + 1])
    BY <1>2, <2>2
  <2> QED BY <1>2, <1>4, <1>5, <1>7, <2>1, <2>3 DEF Cuts
<1> QED
  <2>1. after[0] = at[0]
    BY <1>1, <1>6
  <2> QED BY <1>5, <1>8, <2>1 DEF Flow

\* A replay that begins: everything is still to be queued.
LEMMA FlowStarts ==
    ASSUME NEW p, NEW first \in Nat, NEW last \in Nat, first <= last
    PROVE  Flow(<<>>, <<>>, p, Run(first, last), <<>>, first, last)
<1> DEFINE at == [i \in 0..3 |-> IF i <= 1 THEN first ELSE last]
<1>1. /\ at \in [0..0 + 3 -> Nat] /\ at[0] = first /\ at[1] = first /\ at[2] = last /\ at[3] = last
      /\ \A i, j \in 0..3 : i <= j => at[i] <= at[j]
  OBVIOUS
<1>2. Run(first, first) = <<>> /\ Run(last, last) = <<>>
  BY EmptyRun
<1>3. Len(<<>>) = 0
  OBVIOUS
<1> HIDE DEF at
<1>4. Cuts(<<>>, <<>>, p, Run(first, last), <<>>, at)
  BY <1>1, <1>2, <1>3 DEF Cuts
<1> QED BY <1>1, <1>3, <1>4 DEF Flow

----
(* What a stream cut that way holds *)

LEMMA LeastNumber ==
    ASSUME NEW T, T \subseteq Nat, T # {}
    PROVE  \E m \in T : \A k \in T : m <= k
<1>1. IsWellFoundedOn(OpToRel(<, Nat), Nat)
  BY NatLessThanWellFounded
<1>2. PICK m \in T : \A k \in T : ~ (<<k, m>> \in OpToRel(<, Nat))
  BY <1>1, WFMin
<1>3. ASSUME NEW k \in T PROVE m <= k
  <2>1. ~ (k < m)
    BY <1>2 DEF OpToRel
  <2> QED BY <2>1
<1> QED BY <1>3

CutInto(pieces, at, size) ==
    /\ DOMAIN pieces = 0..size
    /\ \A i \in 0..size : /\ at[i] \in Nat /\ at[i + 1] \in Nat /\ at[i] <= at[i + 1]
                          /\ pieces[i] = Run(at[i], at[i + 1])

\* Place by place.
LEMMA CutsArePlaces ==
    ASSUME NEW given, NEW events \in Seq(Events), NEW p, NEW left, NEW hand, NEW at,
           Cuts(given, events, p, left, hand, at),
           NEW pieces, pieces = Places(given, events, p, left, hand)
    PROVE  CutInto(pieces, at, Len(events) + 2)
<1> DEFINE length == Len(events)
<1>1. length \in Nat
  OBVIOUS
<1>2. /\ at \in [0..length + 3 -> Nat]
      /\ \A i, j \in 0..length + 3 : i <= j => at[i] <= at[j]
      /\ given = Run(at[0], at[1])
      /\ \A i \in 1..length : Own(events[i], p) = Run(at[i], at[i + 1])
      /\ left = Run(at[length + 1], at[length + 2])
      /\ hand = Run(at[length + 2], at[length + 3])
  BY DEF Cuts
<1>3. /\ DOMAIN pieces = 0..length + 2 /\ pieces[0] = given
      /\ pieces[length + 1] = left /\ pieces[length + 2] = hand
      /\ \A i \in 1..length : pieces[i] = Own(events[i], p)
  BY <1>1 DEF Places, Own
<1>4. ASSUME NEW i \in 0..length + 2
      PROVE  at[i] \in Nat /\ at[i + 1] \in Nat /\ at[i] <= at[i + 1]
  <2>1. i \in 0..length + 3 /\ i + 1 \in 0..length + 3 /\ i <= i + 1
    BY <1>1, <1>4
  <2>2. at[i] <= at[i + 1]
    BY <1>2, <2>1
  <2> QED BY <1>2, <2>1, <2>2
<1>5. ASSUME NEW i \in 0..length + 2 PROVE pieces[i] = Run(at[i], at[i + 1])
  <2>1. i = 0 \/ i \in 1..length \/ i = length + 1 \/ i = length + 2
    BY <1>1, <1>5
  <2>2. CASE i = 0
    BY <1>2, <1>3, <2>2
  <2>3. CASE i \in 1..length
    BY <1>2, <1>3, <2>3
  <2>4. CASE i = length + 1
    <3>1. i + 1 = length + 2
      BY <1>1, <2>4
    <3> QED BY <1>2, <1>3, <2>4, <3>1
  <2>5. CASE i = length + 2
    <3>1. i + 1 = length + 3
      BY <1>1, <2>5
    <3> QED BY <1>2, <1>3, <2>5, <3>1
  <2> QED BY <2>1, <2>2, <2>3, <2>4, <2>5
<1> QED BY <1>3, <1>4, <1>5 DEF CutInto

\* The places are in order and hold every byte after first up to last, once.
LEMMA FlowIsExact ==
    ASSUME NEW given, NEW events \in Seq(Events), NEW p, NEW left, NEW hand,
           NEW first \in Nat, NEW last, Flow(given, events, p, left, hand, first, last)
    PROVE  /\ last \in Nat /\ first <= last
           /\ InOrder(Places(given, events, p, left, hand))
           /\ BytesOf(Places(given, events, p, left, hand)) = first + 1..last
<1>1. PICK at : /\ Cuts(given, events, p, left, hand, at)
                /\ at[0] = first /\ at[Len(events) + 3] = last
  BY DEF Flow
<1> DEFINE size == Len(events) + 2
           pieces == Places(given, events, p, left, hand)
<1>2. size \in Nat
  OBVIOUS
<1>3. /\ DOMAIN pieces = 0..size
      /\ \A i \in 0..size : /\ at[i] \in Nat /\ at[i + 1] \in Nat /\ at[i] <= at[i + 1]
                            /\ pieces[i] = Run(at[i], at[i + 1])
  <2>1. Cuts(given, events, p, left, hand, at)
    BY <1>1
  <2>2. pieces = Places(given, events, p, left, hand)
    OBVIOUS
  <2>3. CutInto(pieces, at, Len(events) + 2)
    BY <2>1, <2>2, CutsArePlaces
  <2> QED BY <2>3 DEF CutInto
<1>4. /\ at \in [0..size + 1 -> Nat] /\ at[size + 1] = last
      /\ \A i, j \in 0..size + 1 : i <= j => at[i] <= at[j]
  BY <1>1 DEF Cuts
<1> HIDE DEF size, pieces
<1>5. last \in Nat /\ first <= last
  BY <1>1, <1>2, <1>4
<1>6. \A i \in 0..size : /\ DOMAIN pieces[i] = 1..at[i + 1] - at[i]
                         /\ \A k \in 1..at[i + 1] - at[i] : pieces[i][k] = at[i] + k
  BY <1>3, RunIsBytes
<1>7. InOrder(pieces)
  <2>1. ASSUME NEW i \in 0..size, NEW k \in DOMAIN pieces[i]
        PROVE  pieces[i][k] = pieces[i][1] + k - 1
    <3>1. k \in 1..at[i + 1] - at[i] /\ 1 \in 1..at[i + 1] - at[i]
      BY <1>3, <1>6, <2>1
    <3>2. pieces[i][k] = at[i] + k /\ pieces[i][1] = at[i] + 1
      BY <1>6, <3>1
    <3> QED BY <1>3, <3>1, <3>2
  <2>2. ASSUME NEW i \in 0..size, NEW j \in 0..size, i < j,
               NEW k \in DOMAIN pieces[i], NEW l \in DOMAIN pieces[j]
        PROVE  pieces[i][k] < pieces[j][l]
    <3>1. k \in 1..at[i + 1] - at[i] /\ l \in 1..at[j + 1] - at[j]
      BY <1>6, <2>2
    <3>2. pieces[i][k] = at[i] + k /\ pieces[j][l] = at[j] + l
      BY <1>6, <3>1
    <3>3. at[i + 1] <= at[j]
      BY <1>2, <1>4, <2>2
    <3>4. PICK a \in Nat, b \in Nat, c \in Nat, d \in Nat :
             a = at[i] /\ b = at[i + 1] /\ c = at[j] /\ d = at[j + 1]
      <4>1. \A n \in 0..size : at[n] \in Nat /\ at[n + 1] \in Nat
        BY <1>3
      <4>2. at[i] \in Nat /\ at[i + 1] \in Nat /\ at[j] \in Nat /\ at[j + 1] \in Nat
        BY <2>2, <4>1
      <4> QED BY <4>2
    <3>5. k \in 1..b - a /\ l \in 1..d - c /\ b <= c
      BY <3>1, <3>3, <3>4, Zenon
    <3>6. a + k < c + l
      BY ONLY <3>5, a \in Nat, b \in Nat, c \in Nat, d \in Nat
    <3> QED BY <3>2, <3>4, <3>6
  <2> QED BY <1>3, <2>1, <2>2 DEF InOrder
<1>8. ASSUME NEW b \in BytesOf(pieces) PROVE b \in first + 1..last
  <2>1. PICK i \in 0..size : \E k \in DOMAIN pieces[i] : pieces[i][k] = b
    <3>1. \E i \in DOMAIN pieces : \E k \in DOMAIN pieces[i] : pieces[i][k] = b
      BY <1>8, BytesHavePlaces, Zenon
    <3> QED BY <1>3, <3>1, Zenon
  <2>2. PICK k \in 1..at[i + 1] - at[i] : b = at[i] + k
    BY <1>6, <2>1
  <2>3. first <= at[i] /\ at[i + 1] <= last
    <3>1. /\ 0 \in 0..size + 1 /\ i \in 0..size + 1 /\ 0 <= i
          /\ i + 1 \in 0..size + 1 /\ size + 1 \in 0..size + 1 /\ i + 1 <= size + 1
      BY <1>2
    <3> QED BY <1>1, <1>4, <3>1
  <2>4. PICK x \in Nat, y \in Nat : x = at[i] /\ y = at[i + 1]
    BY <1>3
  <2>5. first <= x /\ y <= last /\ k \in 1..y - x /\ b = x + k
    BY <2>2, <2>3, <2>4
  <2> QED BY ONLY <1>5, <2>5, first \in Nat, x \in Nat, y \in Nat
<1>9. ASSUME NEW b \in first + 1..last PROVE b \in BytesOf(pieces)
  <2> DEFINE T == {i \in 0..size + 1 : b <= at[i]}
  <2>1. size + 1 \in T /\ T \subseteq Nat
    BY <1>2, <1>4, <1>5, <1>9
  <2>2. PICK m \in T : \A i \in T : m <= i
    BY <2>1, LeastNumber
  <2>3. m \in 0..size + 1 /\ b <= at[m] /\ m # 0
    BY <1>1, <1>9
  <2>4. m - 1 \in 0..size /\ m - 1 \in 0..size + 1 /\ m - 1 \notin T /\ m = (m - 1) + 1
    BY <1>2, <2>2, <2>3
  <2>5. at[m - 1] \in Nat /\ at[m - 1] < b
    BY <1>3, <1>9, <2>4
  <2> HIDE DEF T
  <2>6. b - at[m - 1] \in 1..at[(m - 1) + 1] - at[m - 1]
    BY <1>3, <1>9, <2>3, <2>4, <2>5
  <2>7. pieces[m - 1][b - at[m - 1]] = at[m - 1] + (b - at[m - 1])
    BY <1>6, <2>4, <2>6
  <2>8. b - at[m - 1] \in DOMAIN pieces[m - 1] /\ pieces[m - 1][b - at[m - 1]] = b
    <3>1. b - at[m - 1] \in DOMAIN pieces[m - 1]
      BY <1>6, <2>4, <2>6
    <3>2. at[m - 1] + (b - at[m - 1]) = b
      BY <1>9, <2>5
    <3> QED BY <2>7, <3>1, <3>2
  <2> QED BY <1>3, <2>4, <2>8, BytesHavePlaces
<1>10. BytesOf(pieces) = first + 1..last
  BY <1>8, <1>9
<1> QED BY <1>5, <1>7, <1>10 DEF pieces

LEMMA MaxIs ==
    ASSUME NEW S, S \subseteq Int, NEW m \in S, \A n \in S : m >= n
    PROVE  Max(S) = m
<1>1. \E x \in S : \A y \in S : x >= y
  OBVIOUS
<1>2. Max(S) \in S /\ \A n \in S : Max(S) >= n
  BY <1>1 DEF Max
<1>3. Max(S) \in Int /\ m \in Int /\ Max(S) >= m /\ m >= Max(S)
  BY <1>2
<1> QED BY <1>3

----
(* The inductive invariant *)

ReaderThread == [state : {"reading", "sending", "dead"}, read : Nat,
                 to : Conns \cup {NoConn}, data : Bytes]
Phase  == {"new", "open", "attaching", "attached", "leaving", "detached", "closed"}
Replay == [hello : BOOLEAN, turn : Panes \cup {NoConn}, left : [Panes -> Bytes]]

Typed ==
    /\ written \in [Panes -> 0..MaxBytes]
    /\ reader \in [Panes -> ReaderThread]
    /\ \A p \in Panes : reader[p].read <= written[p]
    /\ buffers \in [Panes -> Bytes]
    /\ client \in Conns \cup {NoConn} /\ hubLock \in Conns \cup {NoConn}
    /\ phase \in [Conns -> Phase]
    /\ replay \in [Conns -> Replay]
    /\ queue \in [Conns -> Seq(Events)] /\ \A c \in Conns : Len(queue[c]) <= Capacity
    /\ got \in [Conns -> [Panes -> Bytes]]
    /\ origin \in [Conns -> [Panes -> Nat]]

\* What a reader has in its hands is for a connection that has subscribed.
Readers ==
    \A p \in Panes :
        IF reader[p].state = "reading" THEN reader[p].to = NoConn /\ reader[p].data = <<>>
        ELSE /\ reader[p].to \in Conns /\ Len(reader[p].data) \in 1..Limit
             /\ phase[reader[p].to] \in {"attached", "leaving", "detached", "closed"}

\* The lock is held by the connection that attaches, the subscription by one
\* that has attached and not yet detached, and only an attach has a replay.
Control ==
    /\ Readers
    /\ \A c \in Conns : phase[c] = "attaching" <=> hubLock = c
    /\ client # NoConn => phase[client] \in {"attached", "leaving"}
    /\ \A c \in Conns : phase[c] # "attaching" => replay[c] = NoReplay

\* Nothing has set out for a connection that has not attached.
Fresh(c) ==
    /\ origin[c] = [p \in Panes |-> 0] /\ got[c] = [p \in Panes |-> <<>>]
    /\ queue[c] = <<>> /\ phase[c] \notin {"attaching", "attached", "leaving"}
    /\ \A p \in Panes : reader[p].to # c

Begun ==
    \A c \in Conns : IF Attached(c) THEN phase[c] \notin {"new", "open"} ELSE Fresh(c)

\* How many of n bytes the buffer has let go.
Trim(n) == IF n < Limit THEN 0 ELSE n - Limit

Newest == \A p \in Panes : buffers[p] = Run(Trim(Appended(p)), Appended(p))

LEMMA TrimIs == ASSUME NEW n \in Nat PROVE Trim(n) \in Nat /\ Trim(n) <= n
  BY HubAssumption DEF Trim

\* What has set out for c, as far as last.
Flows(c, p, last) ==
    Flow(got[c][p], queue[c], p, replay[c].left[p], InHand(c, p), origin[c][p] - 1, last)

Flowing ==
    \A c \in Conns, p \in Panes :
        Attached(c) /\ phase[c] # "closed" =>
            \E last : /\ Flows(c, p, last)
                      /\ c \in {client, hubLock} => last = Appended(p)

IInv == Typed /\ Control /\ Begun /\ Newest /\ Flowing

LEMMA Constants ==
    /\ Limit \in Nat \ {0} /\ ReplayChunk \in Nat \ {0} /\ Capacity \in Nat \ {0}
    /\ MaxRead \in Nat \ {0} /\ MaxBytes \in Nat /\ MaxRead <= Limit /\ ReplayChunk <= Limit
    /\ NoConn \notin Conns /\ NoConn \notin Panes /\ Panes # {}
  BY HubAssumption

LEMMA NoticeIsEvent == Notice \in Events /\ Notice.pane = NoConn /\ Notice.data = <<>>
  BY DEF Events, Notice

LEMMA OutputIsEvent ==
    ASSUME NEW p \in Panes, NEW bytes \in Bytes, Len(bytes) \in 1..Limit
    PROVE  Output(p, bytes) \in Events /\ Own(Output(p, bytes), p) = bytes
  BY DEF Events, Output, Own

LEMMA NoReplayIsReplay == NoReplay \in Replay
<1>1. <<>> \in Bytes
  BY DEF Bytes
<1> QED BY <1>1 DEF NoReplay, Replay

LEMMA InitHolds == ASSUME Init PROVE IInv
<1> USE Constants
<1>1. <<>> \in Bytes /\ <<>> \in Seq(Events) /\ Len(<<>>) = 0
  BY DEF Bytes
<1>2. Typed
  BY <1>1, NoReplayIsReplay DEF Init, Typed, ReaderThread, Phase
<1>3. Control
  BY DEF Init, Control, Readers
<1>4. \A c \in Conns : Fresh(c) /\ ~Attached(c)
  BY DEF Init, Fresh, Attached
<1>5. Begun /\ Flowing
  BY <1>4 DEF Begun, Flowing
<1>6. Newest
  <2>1. Run(0, 0) = <<>>
    BY EmptyRun
  <2>2. Trim(0) = 0
    BY DEF Trim
  <2> QED BY <2>1, <2>2 DEF Init, Newest, Appended
<1> QED BY <1>2, <1>3, <1>5, <1>6 DEF IInv

----
(* Types *)

LEMMA ChunksOf ==
    ASSUME NEW bytes \in Bytes, bytes # <<>>
    PROVE  LET n == ChunkLength(bytes)
           IN  /\ n \in 1..Limit /\ n <= Len(bytes)
               /\ FirstChunk(bytes) = SubSeq(bytes, 1, n) /\ Len(FirstChunk(bytes)) = n
               /\ OtherChunks(bytes) = SubSeq(bytes, n + 1, Len(bytes))
               /\ FirstChunk(bytes) \in Bytes /\ OtherChunks(bytes) \in Bytes
<1> USE Constants
<1>1. Len(bytes) \in Nat \ {0}
  BY EmptySeq DEF Bytes
<1>2. ChunkLength(bytes) \in 1..Limit /\ ChunkLength(bytes) <= Len(bytes)
  BY <1>1 DEF ChunkLength
<1>3. /\ SubSeq(bytes, 1, ChunkLength(bytes)) \in Seq(Nat)
      /\ Len(SubSeq(bytes, 1, ChunkLength(bytes))) = ChunkLength(bytes)
      /\ SubSeq(bytes, ChunkLength(bytes) + 1, Len(bytes)) \in Seq(Nat)
  BY <1>2 DEF Bytes
<1> QED BY <1>2, <1>3 DEF FirstChunk, OtherChunks, Bytes

\* saturating_sub never goes below zero.
LEMMA ExcessIs ==
    ASSUME NEW buffer \in Bytes, NEW bytes \in Bytes, NEW k \in Int,
           k = Len(buffer) + Len(bytes) - Limit
    PROVE  Excess(buffer, bytes) = (IF k > 0 THEN k ELSE 0) /\ Excess(buffer, bytes) \in Nat
<1>1. Excess(buffer, bytes) = Max({0, k})
  BY DEF Excess
<1>2. CASE k > 0
  <2>1. {0, k} \subseteq Int /\ k \in {0, k} /\ \A n \in {0, k} : k >= n
    BY <1>2
  <2>2. Max({0, k}) = k
    BY ONLY <2>1, MaxIs
  <2> QED BY <1>1, <1>2, <2>2
<1>3. CASE ~(k > 0)
  <2>1. {0, k} \subseteq Int /\ 0 \in {0, k} /\ \A n \in {0, k} : 0 >= n
    BY <1>3
  <2>2. Max({0, k}) = 0
    BY ONLY <2>1, MaxIs
  <2> QED BY <1>1, <1>3, <2>2
<1> QED BY <1>2, <1>3

LEMMA AppendingIsBytes ==
    ASSUME NEW buffer \in Bytes, NEW bytes \in Bytes
    PROVE  Appending(buffer, bytes) \in Bytes
<1> USE Constants
<1>1. CASE Len(bytes) >= Limit
  <2>1. SubSeq(bytes, Len(bytes) - Limit + 1, Len(bytes)) \in Seq(Nat)
    BY <1>1 DEF Bytes
  <2> QED BY <1>1, <2>1 DEF Appending, Bytes
<1>2. CASE ~(Len(bytes) >= Limit)
  <2>1. Len(buffer) \in Nat /\ Len(bytes) \in Nat /\ Limit \in Nat
    BY DEF Bytes
  <2>2. Excess(buffer, bytes) \in Nat
    <3>1. Len(buffer) + Len(bytes) - Limit \in Int
      BY ONLY <2>1
    <3>2. PICK k \in Int : k = Len(buffer) + Len(bytes) - Limit
      BY ONLY <3>1, Zenon
    <3> QED BY <3>2, ExcessIs
  <2>3. SubSeq(buffer, Excess(buffer, bytes) + 1, Len(buffer)) \in Seq(Nat)
    BY <2>2 DEF Bytes
  <2>4. SubSeq(buffer, Excess(buffer, bytes) + 1, Len(buffer)) \o bytes \in Seq(Nat)
    BY <2>3 DEF Bytes
  <2> QED BY <1>2, <2>4 DEF Appending, Bytes
<1> QED BY <1>1, <1>2

\* Nothing that is queued overruns the channel or has the wrong shape.
LEMMA QueueTyped ==
    ASSUME Typed, NEW c \in Conns, NEW event \in Events, Len(queue[c]) < Capacity,
           queue' = [queue EXCEPT ![c] = Append(@, event)]
    PROVE  queue' \in [Conns -> Seq(Events)] /\ \A d \in Conns : Len(queue'[d]) <= Capacity
<1> USE Constants
<1>1. queue \in [Conns -> Seq(Events)] /\ \A d \in Conns : Len(queue[d]) <= Capacity
  BY DEF Typed
<1>2. Append(queue[c], event) \in Seq(Events) /\ Len(Append(queue[c], event)) = Len(queue[c]) + 1
  BY <1>1, AppendProperties
<1> QED BY <1>1, <1>2

LEMMA ReadTyped == ASSUME Typed, NEW p \in Panes, Read(p) PROVE Typed'
<1> USE Constants
<1>1. PICK n \in 1..MaxRead :
         LET bytes == [i \in 1..n |-> Appended(p) + i]
         IN  /\ Appended(p) + n <= written[p]
             /\ buffers' = [buffers EXCEPT ![p] = Appending(@, bytes)]
             /\ reader' = [reader EXCEPT ![p] =
                   [state |-> IF client = NoConn THEN "reading" ELSE "sending",
                    read  |-> @.read + n,
                    to    |-> client,
                    data  |-> IF client = NoConn THEN <<>> ELSE bytes]]
  BY DEF Read
<1> DEFINE bytes == [i \in 1..n |-> Appended(p) + i]
<1>2. reader[p] \in ReaderThread /\ reader[p].read \in Nat
  BY DEF Typed, ReaderThread
<1>3. bytes \in Bytes
  BY <1>2 DEF Bytes, Appended
<1>4. buffers' \in [Panes -> Bytes]
  <2>1. buffers[p] \in Bytes
    BY DEF Typed
  <2>2. Appending(buffers[p], bytes) \in Bytes
    BY <1>3, <2>1, AppendingIsBytes
  <2> QED BY <1>1, <2>2 DEF Typed
<1>5. reader' \in [Panes -> ReaderThread] /\ \A q \in Panes : reader'[q].read <= written[q]
  <2>1. /\ reader' = [reader EXCEPT ![p] =
                [state |-> IF client = NoConn THEN "reading" ELSE "sending",
                 read  |-> reader[p].read + n,
                 to    |-> client,
                 data  |-> IF client = NoConn THEN <<>> ELSE bytes]]
        /\ reader[p].read + n <= written[p]
    BY <1>1 DEF Appended, Typed
  <2> HIDE DEF bytes
  <2>2. (IF client = NoConn THEN <<>> ELSE bytes) \in Bytes
    BY <1>3 DEF Bytes
  <2>3. reader'[p] \in ReaderThread
    BY <1>2, <2>1, <2>2 DEF Typed, ReaderThread
  <2>4. reader'[p].read = reader[p].read + n
    BY <2>1 DEF Typed
  <2> QED BY <2>1, <2>3, <2>4 DEF Typed
<1> QED BY <1>4, <1>5 DEF Read, Typed, hubVars, connVars

LEMMA ReaderTyped ==
    ASSUME Typed, Readers, NEW p \in Panes, Send(p) \/ SendFails(p) PROVE Typed'
<1> USE Constants
<1>1. reader[p] \in ReaderThread /\ <<>> \in Bytes
  BY DEF Typed, Bytes
<1>2. CASE Send(p)
  <2> DEFINE c == reader[p].to
  <2>1. /\ reader[p].state = "sending" /\ c \in Conns /\ Len(reader[p].data) \in 1..Limit
        /\ reader[p].data \in Bytes
    BY <1>1, <1>2 DEF Send, Readers, ReaderThread
  <2>2. Output(p, reader[p].data) \in Events
    BY <2>1, OutputIsEvent
  <2>3. queue' \in [Conns -> Seq(Events)] /\ \A d \in Conns : Len(queue'[d]) <= Capacity
    BY <1>2, <2>1, <2>2, QueueTyped DEF Send
  <2>4. reader' = [reader EXCEPT ![p] = BackToReading(p)]
    BY <1>2 DEF Send
  <2>5. BackToReading(p) \in ReaderThread /\ BackToReading(p).read = reader[p].read
    BY <1>1 DEF BackToReading, ReaderThread
  <2>6. reader' \in [Panes -> ReaderThread] /\ \A q \in Panes : reader'[q].read <= written[q]
    BY <2>4, <2>5 DEF Typed
  <2> QED BY <1>2, <2>3, <2>6 DEF Send, Typed, hubVars
<1>3. CASE SendFails(p)
  <2>1. reader' = [reader EXCEPT ![p].state = "dead"]
    BY <1>3 DEF SendFails
  <2>2. reader'[p] \in ReaderThread /\ reader'[p].read = reader[p].read
    BY <1>1, <2>1 DEF Typed, ReaderThread
  <2>3. reader' \in [Panes -> ReaderThread] /\ \A q \in Panes : reader'[q].read <= written[q]
    BY <2>1, <2>2 DEF Typed
  <2> QED BY <1>3, <2>3 DEF SendFails, Typed, hubVars, connVars
<1> QED BY <1>2, <1>3

LEMMA ReplayTyped == ASSUME Typed, NEW c \in Conns, QueueReplay(c) PROVE Typed'
<1> USE Constants
<1>1. replay[c] \in Replay /\ \A p \in Panes : replay[c].left[p] \in Bytes
  BY DEF Typed, Replay
<1>2. CASE QueueHello(c)
  <2>1. queue' \in [Conns -> Seq(Events)] /\ \A d \in Conns : Len(queue'[d]) <= Capacity
    BY <1>2, NoticeIsEvent, QueueTyped DEF QueueReplay, QueueHello
  <2>2. replay' \in [Conns -> Replay]
    BY <1>1, <1>2 DEF QueueHello, Typed, Replay
  <2> QED BY <2>1, <2>2 DEF QueueReplay, Typed, hubVars
<1>3. ASSUME NEW p \in Panes, QueueChunk(c, p) PROVE Typed'
  <2> DEFINE left == replay[c].left[p]
  <2>1. left \in Bytes /\ left # <<>>
    BY <1>1, <1>3 DEF QueueChunk
  <2>2. FirstChunk(left) \in Bytes /\ Len(FirstChunk(left)) \in 1..Limit /\ OtherChunks(left) \in Bytes
    BY <2>1, ChunksOf
  <2>3. queue' \in [Conns -> Seq(Events)] /\ \A d \in Conns : Len(queue'[d]) <= Capacity
    <3>1. Output(p, FirstChunk(left)) \in Events
      BY <2>2, OutputIsEvent
    <3> QED BY <1>3, <3>1, QueueTyped DEF QueueReplay, QueueChunk
  <2>4. replay' \in [Conns -> Replay]
    <3>1. replay' = [replay EXCEPT ![c] =
                        [hello |-> FALSE,
                         turn  |-> IF OtherChunks(left) = <<>> THEN NoConn ELSE p,
                         left  |-> [replay[c].left EXCEPT ![p] = OtherChunks(left)]]]
      BY <1>3 DEF QueueChunk, Typed
    <3>2. [replay[c].left EXCEPT ![p] = OtherChunks(left)] \in [Panes -> Bytes]
      BY <1>1, <2>2 DEF Replay
    <3> QED BY <3>1, <3>2 DEF Typed, Replay
  <2> QED BY <2>3, <2>4 DEF QueueReplay, Typed, hubVars
<1> QED BY <1>2, <1>3 DEF QueueReplay

LEMMA DrainTyped == ASSUME Typed, NEW c \in Conns, Drain(c) PROVE Typed'
<1> USE Constants
<1>1. queue[c] \in Seq(Events) /\ queue[c] # <<>> /\ Len(queue[c]) <= Capacity
  BY DEF Typed, Drain
<1>2. /\ Head(queue[c]) \in Events /\ Tail(queue[c]) \in Seq(Events)
      /\ Len(Tail(queue[c])) <= Capacity
  BY <1>1, HeadTailProperties
<1>3. queue' \in [Conns -> Seq(Events)] /\ \A d \in Conns : Len(queue'[d]) <= Capacity
  BY <1>2 DEF Typed, Drain
<1>4. got' \in [Conns -> [Panes -> Bytes]]
  <2>1. CASE Head(queue[c]) = Notice
    BY <2>1 DEF Drain, Typed
  <2>2. CASE Head(queue[c]) # Notice
    <3>1. Head(queue[c]).pane \in Panes /\ Head(queue[c]).data \in Bytes
      BY <1>2, <2>2 DEF Events
    <3>2. got[c][Head(queue[c]).pane] \o Head(queue[c]).data \in Bytes
      BY <3>1 DEF Typed, Bytes
    <3> QED BY <2>2, <3>1, <3>2 DEF Drain, Typed
  <2> QED BY <2>1, <2>2
<1> QED BY <1>3, <1>4 DEF Drain, Typed, hubVars

LEMMA AttachTyped == ASSUME Typed, Newest, NEW c \in Conns, BeginAttach(c) PROVE Typed'
<1> USE Constants
<1>1. replay' \in [Conns -> Replay]
  BY DEF BeginAttach, FullReplay, Typed, Replay
<1>2. origin' \in [Conns -> [Panes -> Nat]]
  <2>1. ASSUME NEW p \in Panes PROVE Appended(p) - Len(buffers[p]) + 1 \in Nat
    <3>1. Appended(p) \in Nat
      BY DEF Typed, ReaderThread, Appended
    <3>2. PICK start \in Nat : start <= Appended(p) /\ buffers[p] = Run(start, Appended(p))
      BY <3>1, TrimIs DEF Newest
    <3>3. Len(buffers[p]) = Appended(p) - start
      BY <3>1, <3>2, RunIsBytes
    <3> QED BY <3>1, <3>2, <3>3
  <2> QED BY <2>1 DEF BeginAttach, Typed
<1> QED BY <1>1, <1>2 DEF BeginAttach, Typed, Phase

LEMMA ConnectionTyped ==
    ASSUME Typed, NEW c \in Conns,
           Connect(c) \/ FinishAttach(c) \/ Leave(c) \/ Detach(c) \/ Close(c)
    PROVE  Typed'
<1> USE Constants
<1>1. CASE Connect(c)
  BY <1>1 DEF Connect, Typed, Phase, hubVars
<1>2. CASE FinishAttach(c)
  BY <1>2 DEF FinishAttach, Typed, Phase
<1>3. CASE Leave(c)
  BY <1>3 DEF Leave, Typed, Phase, hubVars
<1>4. CASE Detach(c)
  BY <1>4 DEF Detach, Typed, Phase
<1>5. CASE Close(c)
  <2>1. <<>> \in Seq(Events) /\ Len(<<>>) <= Capacity
    OBVIOUS
  <2>2. queue' \in [Conns -> Seq(Events)] /\ \A d \in Conns : Len(queue'[d]) <= Capacity
    BY <1>5, <2>1 DEF Close, Typed
  <2> QED BY <1>5, <2>2 DEF Close, Typed, Phase, hubVars
<1> QED BY <1>1, <1>2, <1>3, <1>4, <1>5

LEMMA TypedStep == ASSUME Typed, Readers, Newest, [Next]_vars PROVE Typed'
<1>1. ASSUME NEW p \in Panes, ShellWrites(p) PROVE Typed'
  <2>1. /\ written' \in [Panes -> 0..MaxBytes] /\ \A q \in Panes : written[q] <= written'[q]
        /\ reader' = reader
    <3>1. written \in [Panes -> 0..MaxBytes] /\ MaxBytes \in Nat
      BY Constants DEF Typed
    <3>2. written' = [written EXCEPT ![p] = @ + 1] /\ written[p] < MaxBytes /\ reader' = reader
      BY <1>1 DEF ShellWrites
    <3> QED BY <3>1, <3>2
  <2>2. \A q \in Panes : reader[q].read \in Nat /\ written[q] \in Nat /\ written'[q] \in Nat
    BY <2>1, Constants DEF Typed, ReaderThread
  <2>3. \A q \in Panes : reader'[q].read <= written'[q]
    BY <2>1, <2>2 DEF Typed
  <2> QED BY <1>1, <2>1, <2>3 DEF ShellWrites, Typed, hubVars, connVars
<1>2. CASE Emit
  <2>1. client \in Conns /\ Len(queue[client]) < Capacity
    BY <1>2 DEF Emit, Typed
  <2>2. queue' \in [Conns -> Seq(Events)] /\ \A d \in Conns : Len(queue'[d]) <= Capacity
    BY <1>2, <2>1, NoticeIsEvent, QueueTyped DEF Emit
  <2> QED BY <1>2, <2>2 DEF Emit, Typed, hubVars
<1>3. CASE UNCHANGED vars
  BY <1>3 DEF vars, hubVars, connVars, Typed
<1> QED BY <1>1, <1>2, <1>3, ReadTyped, ReaderTyped, ReplayTyped, DrainTyped, AttachTyped,
           ConnectionTyped DEF Next

----
(* Control *)

LEMMA ReadersStep == ASSUME Typed, Control, [Next]_vars PROVE Readers'
<1> USE Constants
<1>1. ASSUME NEW p \in Panes, Read(p) PROVE Readers'
  <2>1. PICK n \in 1..MaxRead :
           reader' = [reader EXCEPT ![p] =
               [state |-> IF client = NoConn THEN "reading" ELSE "sending",
                read  |-> reader[p].read + n,
                to    |-> client,
                data  |-> IF client = NoConn THEN <<>> ELSE [i \in 1..n |-> Appended(p) + i]]]
    BY <1>1 DEF Read, Typed
  <2>2. Len([i \in 1..n |-> Appended(p) + i]) = n
    OBVIOUS
  <2>3. /\ reader'[p].state = (IF client = NoConn THEN "reading" ELSE "sending")
        /\ reader'[p].to = client
        /\ reader'[p].data = (IF client = NoConn THEN <<>> ELSE [i \in 1..n |-> Appended(p) + i])
        /\ \A q \in Panes : q # p => reader'[q] = reader[q]
    BY <2>1 DEF Typed
  <2>4. phase' = phase
    BY <1>1 DEF Read, connVars
  <2>5. client # NoConn => client \in Conns /\ phase[client] \in {"attached", "leaving"}
    BY DEF Control, Typed
  <2>6. ASSUME NEW q \in Panes
        PROVE  IF reader'[q].state = "reading" THEN reader'[q].to = NoConn /\ reader'[q].data = <<>>
               ELSE /\ reader'[q].to \in Conns /\ Len(reader'[q].data) \in 1..Limit
                    /\ phase'[reader'[q].to] \in {"attached", "leaving", "detached", "closed"}
    <3>1. CASE q # p
      BY <2>3, <2>4, <3>1 DEF Control, Readers
    <3>2. CASE q = p /\ client = NoConn
      BY <2>3, <3>2
    <3>3. CASE q = p /\ client # NoConn
      <4>1. Len(reader'[q].data) \in 1..Limit
        BY <2>2, <2>3, <3>3
      <4> QED BY <2>3, <2>4, <2>5, <3>3, <4>1
    <3> QED BY <3>1, <3>2, <3>3
  <2> QED BY <2>6 DEF Readers
<1>2. ASSUME NEW p \in Panes, Send(p) \/ SendFails(p) PROVE Readers'
  <2>1. phase' = phase /\ reader \in [Panes -> ReaderThread]
    BY <1>2 DEF Send, SendFails, connVars, Typed
  <2>2. CASE Send(p)
    <3>1. /\ \A q \in Panes : q # p => reader'[q] = reader[q]
          /\ reader'[p].state = "reading" /\ reader'[p].to = NoConn /\ reader'[p].data = <<>>
      BY <2>1, <2>2 DEF Send, BackToReading, ReaderThread
    <3> QED BY <2>1, <3>1 DEF Control, Readers
  <2>3. CASE SendFails(p)
    <3>1. reader' = [reader EXCEPT ![p].state = "dead"] /\ reader[p].state = "sending"
      BY <2>3 DEF SendFails
    <3>2. /\ \A q \in Panes : q # p => reader'[q] = reader[q]
          /\ reader'[p].state = "dead" /\ reader'[p].to = reader[p].to
          /\ reader'[p].data = reader[p].data
      BY <2>1, <3>1 DEF ReaderThread
    <3> QED BY <2>1, <3>1, <3>2 DEF Control, Readers
  <2> QED BY <1>2, <2>2, <2>3
<1>3. ASSUME reader' = reader,
             \A c \in Conns : phase[c] \in {"attached", "leaving", "detached", "closed"}
                 => phase'[c] \in {"attached", "leaving", "detached", "closed"}
      PROVE  Readers'
  BY <1>3 DEF Control, Readers
<1>4. ASSUME NEW c \in Conns,
             \/ Connect(c) \/ BeginAttach(c) \/ QueueReplay(c) \/ FinishAttach(c)
             \/ Drain(c) \/ Leave(c) \/ Detach(c) \/ Close(c)
      PROVE  /\ reader' = reader
             /\ \A d \in Conns : phase[d] \in {"attached", "leaving", "detached", "closed"}
                    => phase'[d] \in {"attached", "leaving", "detached", "closed"}
  BY <1>4 DEF Connect, BeginAttach, QueueReplay, FinishAttach, Drain, Leave, Detach, Close, Typed
<1>5. CASE \/ \E p \in Panes : ShellWrites(p)
           \/ Emit
           \/ UNCHANGED vars
  BY <1>3, <1>5 DEF ShellWrites, Emit, vars, connVars
<1> QED BY <1>1, <1>2, <1>3, <1>4, <1>5 DEF Next

LEMMA ControlStep == ASSUME Typed, Control, [Next]_vars PROVE Control'
<1> USE Constants
<1>1. ASSUME phase' = phase, hubLock' = hubLock, client' = client, replay' = replay
      PROVE  Control'
  BY <1>1, ReadersStep DEF Control
<1>2. CASE \/ \E p \in Panes : ShellWrites(p) \/ Read(p) \/ Send(p) \/ SendFails(p)
           \/ \E c \in Conns : Drain(c)
           \/ Emit
           \/ UNCHANGED vars
  BY <1>1, <1>2 DEF ShellWrites, Read, Send, SendFails, Drain, Emit, vars, hubVars, connVars
<1>3. ASSUME NEW c \in Conns, Connect(c) \/ Leave(c) \/ Detach(c) \/ Close(c) PROVE Control'
  BY <1>3, ReadersStep DEF Connect, Leave, Detach, Close, Control, Typed, hubVars
<1>4. ASSUME NEW c \in Conns, BeginAttach(c) PROVE Control'
  BY <1>4, ReadersStep DEF BeginAttach, Control, Typed
<1>5. ASSUME NEW c \in Conns, FinishAttach(c) PROVE Control'
  BY <1>5, ReadersStep DEF FinishAttach, Control, Typed
<1>6. ASSUME NEW c \in Conns, QueueReplay(c) PROVE Control'
  <2>1. \A d \in Conns : d # c => replay'[d] = replay[d]
    BY <1>6 DEF QueueReplay, QueueHello, QueueChunk, Typed
  <2> QED BY <1>6, <2>1, ReadersStep DEF QueueReplay, Control, hubVars
<1> QED BY <1>2, <1>3, <1>4, <1>5, <1>6 DEF Next

\* A connection that has attached stays so, and where the others begin is
\* settled when they attach.
LEMMA OriginStep ==
    ASSUME Typed, Newest, [Next]_vars
    PROVE  /\ \A c \in Conns : origin'[c] # origin[c] => BeginAttach(c)
           /\ \A c \in Conns : BeginAttach(c) => Attached(c)'
<1> USE Constants
<1>1. ASSUME NEW c \in Conns, BeginAttach(c) PROVE Attached(c)'
  <2>1. ASSUME NEW p \in Panes PROVE origin'[c][p] # 0
    <3>1. Appended(p) \in Nat
      BY DEF Typed, ReaderThread, Appended
    <3>2. PICK start \in Nat : start <= Appended(p) /\ buffers[p] = Run(start, Appended(p))
      BY <3>1, TrimIs DEF Newest
    <3>3. Len(buffers[p]) = Appended(p) - start
      BY <3>1, <3>2, RunIsBytes
    <3>4. origin'[c][p] = Appended(p) - Len(buffers[p]) + 1
      BY <1>1 DEF BeginAttach, Typed
    <3> QED BY <3>1, <3>2, <3>3, <3>4
  <2> QED BY <2>1 DEF Attached
<1>2. ASSUME NEW c \in Conns, origin'[c] # origin[c] PROVE BeginAttach(c)
  BY <1>2 DEF Next, vars, connVars, ShellWrites, Read, Send, SendFails, Connect, BeginAttach,
              QueueReplay, FinishAttach, Drain, Leave, Detach, Close, Emit, Typed
<1> QED BY <1>1, <1>2

LEMMA BegunStep == ASSUME Typed, Control, Begun, Newest, [Next]_vars PROVE Begun'
<1> USE Constants
<1>1. ASSUME NEW c \in Conns, Attached(c), ~BeginAttach(c)
      PROVE  Attached(c)' /\ phase'[c] \notin {"new", "open"}
  <2>1. Attached(c)'
    BY <1>1, OriginStep DEF Attached
  <2>2. phase[c] \notin {"new", "open"} /\ phase \in [Conns -> Phase]
    BY <1>1 DEF Begun, Typed
  <2>3. phase'[c] \notin {"new", "open"}
    BY <1>1, <2>2 DEF Next, vars, connVars, ShellWrites, Read, Send, SendFails, Connect,
              BeginAttach, QueueReplay, FinishAttach, Drain, Leave, Detach, Close, Emit
  <2> QED BY <2>1, <2>3
<1>2. ASSUME NEW c \in Conns, BeginAttach(c)
      PROVE  Attached(c)' /\ phase'[c] \notin {"new", "open"}
  BY <1>2, OriginStep DEF BeginAttach, Typed
<1>3. ASSUME NEW c \in Conns, ~Attached(c), ~BeginAttach(c) PROVE Fresh(c)' /\ ~Attached(c)'
  <2>1. Fresh(c) /\ phase[c] \notin {"attaching", "attached", "leaving"}
    BY <1>3 DEF Begun, Fresh
  <2>2. origin'[c] = origin[c] /\ ~Attached(c)'
    BY <1>3, OriginStep DEF Attached
  <2>3. c # client
    BY <2>1 DEF Control
  <2>4. phase'[c] \notin {"attaching", "attached", "leaving"}
    <3>1. phase \in [Conns -> Phase]
      BY DEF Typed
    <3>2. CASE \/ Emit \/ UNCHANGED vars
               \/ \E p \in Panes : ShellWrites(p) \/ Read(p) \/ Send(p) \/ SendFails(p)
      BY <2>1, <3>1, <3>2 DEF vars, connVars, ShellWrites, Read, Send, SendFails, Emit
    <3>3. CASE \E d \in Conns : Connect(d) \/ BeginAttach(d) \/ QueueReplay(d) \/ FinishAttach(d)
      BY <1>3, <2>1, <3>1, <3>3 DEF Connect, BeginAttach, QueueReplay, FinishAttach, connVars
    <3>4. CASE \E d \in Conns : Drain(d) \/ Leave(d) \/ Detach(d) \/ Close(d)
      BY <2>1, <3>1, <3>4 DEF Drain, Leave, Detach, Close, connVars
    <3> QED BY <3>2, <3>3, <3>4 DEF Next
  <2>5. queue'[c] = <<>>
    <3>1. CASE \E p \in Panes : Send(p)
      <4>1. PICK p \in Panes : Send(p)
        BY <3>1
      <4>2. reader[p].to # c
        BY <2>1 DEF Fresh
      <4> QED BY <2>1, <4>1, <4>2 DEF Send, Fresh, Typed
    <3>2. CASE \E d \in Conns : QueueReplay(d)
      BY <2>1, <3>2 DEF QueueReplay, QueueHello, QueueChunk, Fresh, Typed
    <3>3. CASE \E d \in Conns : Drain(d) \/ Close(d)
      BY <2>1, <3>3 DEF Drain, Close, Fresh, Typed
    <3>4. CASE Emit
      BY <2>1, <2>3, <3>4 DEF Emit, Fresh, Typed
    <3>5. CASE queue' = queue
      BY <2>1, <3>5 DEF Fresh
    <3> QED BY <3>1, <3>2, <3>3, <3>4, <3>5 DEF Next, vars, connVars, ShellWrites, Read,
              SendFails, Connect, BeginAttach, FinishAttach, Leave, Detach
  <2>6. got'[c] = [p \in Panes |-> <<>>]
    <3>1. ASSUME NEW d \in Conns, Drain(d) PROVE got'[c] = got[c]
      <4>1. d # c
        BY <2>1, <3>1 DEF Drain, Fresh
      <4>2. CASE Head(queue[d]) = Notice
        BY <3>1, <4>2 DEF Drain
      <4>3. CASE Head(queue[d]) # Notice
        <5>1. got' = [got EXCEPT ![d][Head(queue[d]).pane] = @ \o Head(queue[d]).data]
          BY <3>1, <4>3 DEF Drain
        <5> QED BY <4>1, <5>1 DEF Typed
      <4> QED BY <4>2, <4>3
    <3>2. CASE got' = got
      BY <2>1, <3>2 DEF Fresh
    <3> QED BY <2>1, <3>1, <3>2 DEF Fresh, Next, vars, connVars, ShellWrites, Read, Send, SendFails,
              Connect, BeginAttach, QueueReplay, FinishAttach, Leave, Detach, Close, Emit
  <2>7. ASSUME NEW p \in Panes PROVE reader'[p].to # c
    <3>1. reader[p].to # c /\ reader \in [Panes -> ReaderThread]
      BY <2>1 DEF Fresh, Typed
    <3>2. CASE \E q \in Panes : Read(q)
      BY <2>3, <3>1, <3>2 DEF Read
    <3>3. CASE \E q \in Panes : Send(q) \/ SendFails(q)
      <4>1. PICK q \in Panes : Send(q) \/ SendFails(q)
        BY <3>3
      <4>2. CASE Send(q)
        <5>1. reader' = [reader EXCEPT ![q] = BackToReading(q)] /\ BackToReading(q).to = NoConn
          BY <3>1, <4>2 DEF Send, BackToReading, ReaderThread
        <5> QED BY <3>1, <5>1
      <4>3. CASE SendFails(q)
        <5>1. reader' = [reader EXCEPT ![q].state = "dead"]
          BY <4>3 DEF SendFails
        <5> QED BY <3>1, <5>1 DEF ReaderThread
      <4> QED BY <4>1, <4>2, <4>3
    <3>4. CASE reader' = reader
      BY <3>1, <3>4
    <3> QED BY <3>2, <3>3, <3>4 DEF Next, vars, connVars, ShellWrites, Connect, BeginAttach,
              QueueReplay, FinishAttach, Drain, Leave, Detach, Close, Emit
  <2> QED BY <2>1, <2>2, <2>4, <2>5, <2>6, <2>7 DEF Fresh
<1> QED BY <1>1, <1>2, <1>3 DEF Begun

----
(* The buffers *)

\* A chunk as long as the limit: append keeps its end, and nothing else.
LEMMA LongChunk ==
    ASSUME NEW a \in Nat, NEW b \in Nat, NEW start \in Nat, start <= a,
           b - a >= Limit, NEW begin \in Nat, begin = b - Limit
    PROVE  Appending(Run(start, a), Run(a, b)) = Run(begin, b)
<1> USE Constants
<1>1. PICK k \in Nat : k = b - a - Limit
  OBVIOUS
<1>2. k <= b - a /\ a + k = begin /\ a <= b
  BY <1>1
<1>3. Len(Run(a, b)) = b - a
  BY <1>2, RunIsBytes
<1>4. Appending(Run(start, a), Run(a, b)) = Without(Run(a, b), k)
  BY <1>1, <1>3 DEF Appending, Without
<1>5. Without(Run(a, b), k) = Run(begin, b)
  BY <1>2, EndOfRun
<1> QED BY <1>2, <1>4, <1>5

\* A shorter one: what the buffer holds too many goes from its front, and the
\* chunk follows what is left of it.
LEMMA ShortChunk ==
    ASSUME NEW a \in Nat, NEW b \in Nat, NEW start \in Nat, start <= a, a <= b,
           a - start <= Limit, b - a < Limit,
           NEW begin \in Nat, begin = (IF b - start > Limit THEN b - Limit ELSE start)
    PROVE  Appending(Run(start, a), Run(a, b)) = Run(begin, b)
<1> USE Constants
<1>1. /\ Run(start, a) \in Bytes /\ Len(Run(start, a)) = a - start
      /\ Run(a, b) \in Bytes /\ Len(Run(a, b)) = b - a
  BY RunIsBytes
<1>2. PICK k \in Int : k = b - start - Limit
  OBVIOUS
<1>3. PICK e \in Nat : e = Excess(Run(start, a), Run(a, b)) /\ e = (IF k > 0 THEN k ELSE 0)
  <2>1. k = Len(Run(start, a)) + Len(Run(a, b)) - Limit
    BY <1>1, <1>2
  <2> QED BY <1>1, <2>1, ExcessIs
<1>4. e <= a - start /\ start + e = begin /\ begin <= a
  BY <1>2, <1>3
<1>5. Appending(Run(start, a), Run(a, b)) = Without(Run(start, a), e) \o Run(a, b)
  BY <1>1, <1>3 DEF Appending, Without
<1>6. Without(Run(start, a), e) = Run(begin, a)
  BY <1>4, EndOfRun
<1>7. Run(begin, a) \o Run(a, b) = Run(begin, b)
  BY <1>4, RunOfRuns
<1> QED BY <1>4, <1>5, <1>6, <1>7

\* append keeps the newest bytes, whichever of its branches it takes.
LEMMA AppendingIsNewest ==
    ASSUME NEW a \in Nat, NEW n \in 1..Limit, NEW b \in Nat, b = a + n,
           NEW start \in Nat, start = Trim(a), NEW begin \in Nat, begin = Trim(b)
    PROVE  Appending(Run(start, a), Run(a, b)) = Run(begin, b)
<1> USE Constants
<1>1. start <= a /\ a <= b /\ a - start <= Limit
  BY TrimIs DEF Trim
<1>2. CASE b - a >= Limit
  <2>1. begin = b - Limit
    BY <1>2 DEF Trim
  <2> QED BY <1>1, <1>2, <2>1, LongChunk
<1>3. CASE ~(b - a >= Limit)
  <2>1. begin = (IF b - start > Limit THEN b - Limit ELSE start)
    BY DEF Trim
  <2>2. b - a < Limit
    BY <1>3
  <2> QED BY <1>1, <2>1, <2>2, ShortChunk
<1> QED BY <1>2, <1>3

LEMMA NewestStep == ASSUME Typed, Newest, [Next]_vars PROVE Newest'
<1> USE Constants
<1>1. ASSUME NEW p \in Panes, Read(p) PROVE Newest'
  <2>1. PICK n \in 1..MaxRead :
           /\ buffers' = [buffers EXCEPT ![p] = Appending(@, [i \in 1..n |-> Appended(p) + i])]
           /\ reader' = [reader EXCEPT ![p] =
                  [state |-> IF client = NoConn THEN "reading" ELSE "sending",
                   read  |-> reader[p].read + n,
                   to    |-> client,
                   data  |-> IF client = NoConn THEN <<>> ELSE [i \in 1..n |-> Appended(p) + i]]]
    BY <1>1 DEF Read, Typed
  <2>2. Appended(p) \in Nat
    BY DEF Typed, ReaderThread, Appended
  <2>3. /\ Appended(p)' = Appended(p) + n
        /\ \A q \in Panes : q # p => Appended(q)' = Appended(q) /\ buffers'[q] = buffers[q]
    BY <2>1 DEF Typed, Appended
  <2>4. [i \in 1..n |-> Appended(p) + i] = Run(Appended(p), Appended(p) + n)
    BY <2>2 DEF Run
  <2>5. PICK start \in Nat : start = Trim(Appended(p)) /\ buffers[p] = Run(start, Appended(p))
    BY <2>2, TrimIs DEF Newest
  <2>6. PICK begin \in Nat : begin = Trim(Appended(p) + n)
    BY <2>2, TrimIs
  <2>7. buffers'[p] = Appending(buffers[p], Run(Appended(p), Appended(p) + n))
    BY <2>1, <2>4 DEF Typed
  <2>8. buffers'[p] = Run(begin, Appended(p) + n)
    <3>1. PICK a \in Nat : a = Appended(p)
      BY <2>2
    <3>2. PICK b \in Nat : b = a + n
      BY <2>2
    <3>3. n \in 1..Limit
      OBVIOUS
    <3>4. Appending(Run(start, a), Run(a, b)) = Run(begin, b)
      BY <2>5, <2>6, <3>1, <3>2, <3>3, AppendingIsNewest
    <3> QED BY <2>5, <2>7, <3>1, <3>2, <3>4
  <2>9. ASSUME NEW q \in Panes
        PROVE  buffers'[q] = Run(Trim(Appended(q)'), Appended(q)')
    <3>1. CASE q = p
      BY <2>3, <2>6, <2>8, <3>1
    <3>2. CASE q # p
      BY <2>3, <3>2 DEF Newest
    <3> QED BY <3>1, <3>2
  <2> QED BY <2>9 DEF Newest
<1>2. ASSUME NEW p \in Panes, Send(p) \/ SendFails(p)
      PROVE  buffers' = buffers /\ \A q \in Panes : Appended(q)' = Appended(q)
  <2>1. reader[p] \in ReaderThread /\ reader \in [Panes -> ReaderThread]
    BY DEF Typed
  <2>2. CASE Send(p)
    <3>1. reader' = [reader EXCEPT ![p] = BackToReading(p)] /\ BackToReading(p).read = reader[p].read
      BY <2>1, <2>2 DEF Send, BackToReading, ReaderThread
    <3>2. \A q \in Panes : reader'[q].read = reader[q].read
      BY <2>1, <3>1
    <3> QED BY <2>2, <3>2 DEF Send, hubVars, Appended
  <2>3. CASE SendFails(p)
    BY <2>1, <2>3 DEF SendFails, hubVars, Appended, ReaderThread
  <2> QED BY <1>2, <2>2, <2>3
<1>3. ASSUME buffers' = buffers, \A q \in Panes : Appended(q)' = Appended(q) PROVE Newest'
  BY <1>3 DEF Newest
<1>4. CASE \/ \E p \in Panes : ShellWrites(p)
           \/ \E c \in Conns : \/ Connect(c) \/ BeginAttach(c) \/ QueueReplay(c) \/ FinishAttach(c)
                               \/ Drain(c) \/ Leave(c) \/ Detach(c) \/ Close(c)
           \/ Emit \/ UNCHANGED vars
  <2>1. buffers' = buffers /\ reader' = reader
    BY <1>4 DEF ShellWrites, Connect, BeginAttach, QueueReplay, FinishAttach, Drain, Leave,
             Detach, Close, Emit, vars, hubVars
  <2> QED BY <1>3, <2>1 DEF Appended
<1> QED BY <1>1, <1>2, <1>3, <1>4 DEF Next

----
(* The streams *)

\* Nothing of the stream moves.
LEMMA FlowIdle ==
    ASSUME NEW c \in Conns, NEW p \in Panes, NEW last, Flows(c, p, last),
           got'[c][p] = got[c][p], queue'[c] = queue[c],
           replay'[c].left[p] = replay[c].left[p], InHand(c, p)' = InHand(c, p),
           origin'[c][p] = origin[c][p]
    PROVE  Flows(c, p, last)'
  BY DEF Flows

\* The queue of c ends at a, the replay at b, and all that has set out at z.
CutAt(c, p, at, a, b, z) ==
    /\ Cuts(got[c][p], queue[c], p, Run(a, b), Run(b, z), at) /\ at[0] = origin[c][p] - 1
    /\ a = at[Len(queue[c]) + 1] /\ z = at[Len(queue[c]) + 3] /\ a <= b /\ b <= z
    /\ replay[c].left[p] = Run(a, b) /\ InHand(c, p) = Run(b, z)

LEMMA FlowCuts ==
    ASSUME Typed, NEW c \in Conns, NEW p \in Panes, NEW last, Flows(c, p, last)
    PROVE  \E at : \E a \in Nat, b \in Nat, z \in Nat : CutAt(c, p, at, a, b, z) /\ z = last
<1> DEFINE length == Len(queue[c])
<1>1. length \in Nat
  BY DEF Typed
<1>2. PICK at : /\ Cuts(got[c][p], queue[c], p, replay[c].left[p], InHand(c, p), at)
                /\ at[0] = origin[c][p] - 1 /\ at[length + 3] = last
  BY DEF Flows, Flow
<1>3. PICK a \in Nat, b \in Nat, z \in Nat :
         /\ a = at[length + 1] /\ b = at[length + 2] /\ z = at[length + 3] /\ a <= b /\ b <= z
         /\ replay[c].left[p] = Run(a, b) /\ InHand(c, p) = Run(b, z)
  <2>1. /\ at \in [0..length + 3 -> Nat]
        /\ \A i, j \in 0..length + 3 : i <= j => at[i] <= at[j]
        /\ replay[c].left[p] = Run(at[length + 1], at[length + 2])
        /\ InHand(c, p) = Run(at[length + 2], at[length + 3])
    BY <1>2 DEF Cuts
  <2> HIDE DEF length
  <2>2. /\ at[length + 1] \in Nat /\ at[length + 2] \in Nat /\ at[length + 3] \in Nat
        /\ at[length + 1] <= at[length + 2] /\ at[length + 2] <= at[length + 3]
    BY <1>1, <2>1
  <2> QED BY <2>1, <2>2, Zenon
<1>4. CutAt(c, p, at, a, b, z)
  BY <1>2, <1>3 DEF CutAt
<1> QED BY <1>2, <1>3, <1>4

\* An event joins the queue of c and leaves m..r of the stream to be replayed.
LEMMA FlowJoins ==
    ASSUME Typed, NEW c \in Conns, NEW p \in Panes, NEW at,
           NEW a \in Nat, NEW b \in Nat, NEW z \in Nat, CutAt(c, p, at, a, b, z),
           NEW m \in Nat, NEW r \in Nat, a <= m, m <= r, r <= z,
           NEW event \in Events, Own(event, p) = Run(a, m),
           queue'[c] = Append(queue[c], event), got'[c][p] = got[c][p],
           origin'[c][p] = origin[c][p],
           replay'[c].left[p] = Run(m, r), InHand(c, p)' = Run(r, z)
    PROVE  Flows(c, p, z)'
<1>1. queue[c] \in Seq(Events)
  BY DEF Typed
<1>2. /\ Cuts(got[c][p], queue[c], p, Run(a, b), Run(b, z), at)
      /\ Own(event, p) = Run(at[Len(queue[c]) + 1], m) /\ at[Len(queue[c]) + 1] <= m
      /\ r <= at[Len(queue[c]) + 3]
  BY DEF CutAt
<1>3. Flow(got[c][p], Append(queue[c], event), p, Run(m, r), Run(r, at[Len(queue[c]) + 3]),
           at[0], at[Len(queue[c]) + 3])
  BY <1>1, <1>2, FlowQueues
<1> QED BY <1>3 DEF Flows, CutAt

\* An event that carries nothing of the stream joins the queue.
LEMMA FlowPassed ==
    ASSUME Typed, NEW c \in Conns, NEW p \in Panes, NEW last, Flows(c, p, last),
           NEW event \in Events, Own(event, p) = <<>>, queue'[c] = Append(queue[c], event),
           got'[c][p] = got[c][p], origin'[c][p] = origin[c][p],
           replay'[c].left[p] = replay[c].left[p], InHand(c, p)' = InHand(c, p)
    PROVE  Flows(c, p, last)'
<1>1. PICK at : \E a \in Nat, b \in Nat, z \in Nat : CutAt(c, p, at, a, b, z) /\ z = last
  BY FlowCuts
<1>2. PICK a \in Nat, b \in Nat, z \in Nat : CutAt(c, p, at, a, b, z) /\ z = last
  BY <1>1
<1>3. Own(event, p) = Run(a, a) /\ a <= a
  BY EmptyRun
<1>4. a <= b /\ b <= z /\ replay'[c].left[p] = Run(a, b) /\ InHand(c, p)' = Run(b, z)
  BY <1>2 DEF CutAt
<1> QED BY <1>2, <1>3, <1>4, FlowJoins

\* The reader sends what it has in its hands.
LEMMA FlowSent ==
    ASSUME Typed, Control, NEW p \in Panes, NEW c \in Conns, reader[p].to = c, Send(p),
           NEW last, Flows(c, p, last)
    PROVE  Flows(c, p, last)'
<1> USE Constants
<1>1. PICK at : \E a \in Nat, b \in Nat, z \in Nat : CutAt(c, p, at, a, b, z) /\ z = last
  BY FlowCuts
<1>2. PICK a \in Nat, b \in Nat, z \in Nat : CutAt(c, p, at, a, b, z) /\ z = last
  BY <1>1
<1>3. reader[p] \in ReaderThread /\ reader \in [Panes -> ReaderThread]
  BY DEF Typed
<1>4. /\ phase[c] \in {"attached", "leaving", "detached", "closed"}
      /\ Len(reader[p].data) \in 1..Limit /\ reader[p].data \in Bytes
  BY <1>3 DEF Send, Control, Readers, ReaderThread
<1>5. replay[c] = NoReplay
  BY <1>4 DEF Control
<1>6. a = b /\ a <= z /\ InHand(c, p) = Run(a, z)
  <2>1. Run(a, b) = <<>> /\ a <= b /\ b <= z /\ InHand(c, p) = Run(b, z)
    BY <1>2, <1>5 DEF NoReplay, CutAt
  <2>2. a = b
    BY <2>1, EmptyRun
  <2> QED BY <2>1, <2>2
<1>7. Output(p, reader[p].data) \in Events /\ Own(Output(p, reader[p].data), p) = Run(a, z)
  <2>1. InHand(c, p) = reader[p].data
    BY DEF InHand
  <2> QED BY <1>4, <1>6, <2>1, OutputIsEvent
<1>8. /\ queue'[c] = Append(queue[c], Output(p, reader[p].data)) /\ got' = got /\ origin' = origin
      /\ replay' = replay /\ reader' = [reader EXCEPT ![p] = BackToReading(p)]
  BY DEF Send, Typed
<1>9. replay'[c].left[p] = Run(z, z) /\ InHand(c, p)' = Run(z, z)
  <2>1. Run(z, z) = <<>>
    BY EmptyRun
  <2>2. reader'[p].to = NoConn
    BY <1>3, <1>8 DEF BackToReading, ReaderThread
  <2> QED BY <1>5, <1>8, <2>1, <2>2 DEF NoReplay, InHand
<1>10. z <= z /\ got'[c][p] = got[c][p] /\ origin'[c][p] = origin[c][p]
  BY <1>8
<1>11. Flows(c, p, z)'
  BY <1>2, <1>6, <1>7, <1>8, <1>9, <1>10, FlowJoins
<1> QED BY <1>2, <1>11

LEMMA ChunkOfRun ==
    ASSUME NEW a \in Nat, NEW b \in Nat, a <= b, Run(a, b) # <<>>
    PROVE  \E m \in Nat :
               /\ a <= m /\ m <= b
               /\ FirstChunk(Run(a, b)) = Run(a, m) /\ OtherChunks(Run(a, b)) = Run(m, b)
               /\ FirstChunk(Run(a, b)) \in Bytes /\ Len(FirstChunk(Run(a, b))) \in 1..Limit
<1>1. Run(a, b) \in Bytes /\ Len(Run(a, b)) = b - a
  BY RunIsBytes
<1>2. /\ ChunkLength(Run(a, b)) \in 1..Limit /\ ChunkLength(Run(a, b)) <= b - a
      /\ FirstChunk(Run(a, b)) = SubSeq(Run(a, b), 1, ChunkLength(Run(a, b)))
      /\ Len(FirstChunk(Run(a, b))) = ChunkLength(Run(a, b))
      /\ OtherChunks(Run(a, b)) = SubSeq(Run(a, b), ChunkLength(Run(a, b)) + 1, b - a)
      /\ FirstChunk(Run(a, b)) \in Bytes
  BY <1>1, ChunksOf
<1>3. PICK n \in Nat : n = ChunkLength(Run(a, b))
  BY <1>2
<1>4. n <= b - a
  BY <1>2, <1>3
<1>5. SubSeq(Run(a, b), 1, n) = Run(a, a + n) /\ SubSeq(Run(a, b), n + 1, b - a) = Run(a + n, b)
  BY <1>4, PartsOfRun
<1>6. a + n \in Nat /\ a <= a + n /\ a + n <= b
  BY <1>4
<1> QED BY <1>2, <1>3, <1>5, <1>6

\* The next chunk of the replay joins the queue.
LEMMA FlowChunked ==
    ASSUME Typed, NEW p \in Panes, NEW c \in Conns, QueueReplay(c), QueueChunk(c, p),
           NEW last, Flows(c, p, last)
    PROVE  Flows(c, p, last)'
<1> USE Constants
<1>1. PICK at : \E a \in Nat, b \in Nat, z \in Nat : CutAt(c, p, at, a, b, z) /\ z = last
  BY FlowCuts
<1>2. PICK a \in Nat, b \in Nat, z \in Nat : CutAt(c, p, at, a, b, z) /\ z = last
  BY <1>1
<1>3. PICK left \in Bytes : left = replay[c].left[p]
  BY DEF Typed, Replay
<1>4. left # <<>> /\ left = Run(a, b) /\ a <= b /\ b <= z /\ InHand(c, p) = Run(b, z)
  BY <1>2, <1>3 DEF QueueChunk, CutAt
<1>5. PICK m \in Nat : /\ a <= m /\ m <= b
                       /\ FirstChunk(left) = Run(a, m) /\ OtherChunks(left) = Run(m, b)
                       /\ FirstChunk(left) \in Bytes /\ Len(FirstChunk(left)) \in 1..Limit
  BY <1>4, ChunkOfRun
<1>6. Output(p, FirstChunk(left)) \in Events /\ Own(Output(p, FirstChunk(left)), p) = Run(a, m)
  BY <1>5, OutputIsEvent
<1>7. /\ queue'[c] = Append(queue[c], Output(p, FirstChunk(left)))
      /\ got' = got /\ origin' = origin /\ reader' = reader
  BY <1>3 DEF QueueReplay, QueueChunk, Typed
<1>8. replay'[c].left[p] = OtherChunks(left)
  BY <1>3 DEF QueueChunk, Typed, Replay
<1>9. /\ InHand(c, p)' = Run(b, z) /\ replay'[c].left[p] = Run(m, b)
      /\ got'[c][p] = got[c][p] /\ origin'[c][p] = origin[c][p]
  BY <1>4, <1>5, <1>7, <1>8 DEF InHand
<1>10. Flows(c, p, z)'
  BY <1>2, <1>4, <1>5, <1>6, <1>7, <1>9, FlowJoins
<1> QED BY <1>2, <1>10

\* An event goes into the pipe.
LEMMA FlowDrained ==
    ASSUME Typed, NEW c \in Conns, Drain(c), NEW p \in Panes, NEW last, Flows(c, p, last)
    PROVE  Flows(c, p, last)'
<1> USE Constants
<1> DEFINE event == Head(queue[c])
<1>1. queue[c] \in Seq(Events) /\ queue[c] # <<>> /\ event \in Events
  BY HeadTailProperties DEF Typed, Drain
<1>2. PICK at : /\ Cuts(got[c][p], queue[c], p, replay[c].left[p], InHand(c, p), at)
                /\ at[0] = origin[c][p] - 1 /\ at[Len(queue[c]) + 3] = last
  BY DEF Flows, Flow
<1>3. Flow(got[c][p] \o Own(event, p), Tail(queue[c]), p, replay[c].left[p], InHand(c, p),
           origin[c][p] - 1, last)
  BY <1>1, <1>2, FlowDrains
<1>4. got'[c][p] = got[c][p] \o Own(event, p)
  <2>1. got[c][p] \o <<>> = got[c][p]
    BY DEF Typed, Bytes
  <2>2. CASE event = Notice
    BY <2>1, <2>2, NoticeIsEvent DEF Drain, Own
  <2>3. CASE event # Notice
    <3>1. event.pane \in Panes
      BY <1>1, <2>3 DEF Events
    <3>2. got' = [got EXCEPT ![c][event.pane] = @ \o event.data]
      BY <2>3 DEF Drain
    <3>3. CASE event.pane = p
      BY <3>2, <3>3 DEF Own, Typed
    <3>4. CASE event.pane # p
      BY <2>1, <3>1, <3>2, <3>4 DEF Own, Typed
    <3> QED BY <3>3, <3>4
  <2> QED BY <2>2, <2>3
<1>5. /\ queue'[c] = Tail(queue[c]) /\ replay' = replay /\ reader' = reader /\ origin' = origin
  BY DEF Drain, Typed
<1>6. InHand(c, p)' = InHand(c, p)
  BY <1>5 DEF InHand
<1> QED BY <1>3, <1>4, <1>5, <1>6 DEF Flows

\* The reader of p takes up bytes for the subscriber.
LEMMA FlowRead ==
    ASSUME Typed, Control, NEW p \in Panes, NEW c \in Conns, client = c, Read(p),
           Flows(c, p, Appended(p)), NEW last, last = reader'[p].read
    PROVE  Flows(c, p, last)'
<1> USE Constants
<1>1. PICK n \in 1..MaxRead :
         reader' = [reader EXCEPT ![p] =
             [state |-> "sending", read |-> reader[p].read + n,
              to |-> client, data |-> [i \in 1..n |-> Appended(p) + i]]]
  BY DEF Read, Typed
<1>2. Appended(p) \in Nat /\ last = Appended(p) + n /\ reader[p].to = NoConn
  BY <1>1 DEF Typed, ReaderThread, Appended, Control, Readers, Read
<1>3. PICK a \in Nat, z \in Nat : a = Appended(p) /\ z = a + n
  BY <1>2
<1>4. InHand(c, p) = <<>>
  BY <1>2 DEF InHand
<1>5. InHand(c, p)' = Run(a, z)
  <2>1. InHand(c, p)' = [i \in 1..n |-> Appended(p) + i]
    BY <1>1 DEF InHand, Typed
  <2> QED BY <1>3, <2>1 DEF Run
<1>6. PICK at : /\ Cuts(got[c][p], queue[c], p, replay[c].left[p], <<>>, at)
                /\ at[0] = origin[c][p] - 1 /\ at[Len(queue[c]) + 3] = a
  BY <1>3, <1>4 DEF Flows, Flow
<1>7. queue[c] \in Seq(Events) /\ at[Len(queue[c]) + 3] <= z
  BY <1>3, <1>6 DEF Typed
<1>8. Flow(got[c][p], queue[c], p, replay[c].left[p], Run(at[Len(queue[c]) + 3], z), at[0], z)
  BY <1>6, <1>7, FlowReads
<1>9. got' = got /\ queue' = queue /\ replay' = replay /\ origin' = origin
  BY DEF Read, connVars
<1>10. Flows(c, p, z)'
  BY <1>5, <1>6, <1>8, <1>9 DEF Flows
<1> QED BY <1>2, <1>3, <1>10

\* A connection attaches: everything the buffer holds is to be replayed.
LEMMA FlowBegins ==
    ASSUME Typed, Control, Begun, Newest, NEW c \in Conns, BeginAttach(c), NEW p \in Panes,
           NEW last, last = Appended(p)
    PROVE  Flows(c, p, last)'
<1> USE Constants
<1>1. PICK a \in Nat, z \in Nat : /\ z = Appended(p) /\ a = Trim(z) /\ a <= z
                                  /\ buffers[p] = Run(a, z)
  <2>1. Appended(p) \in Nat
    BY DEF Typed, ReaderThread, Appended
  <2> QED BY <2>1, TrimIs DEF Newest
<1>2. Fresh(c)
  BY DEF BeginAttach, Begun
<1>3. origin'[c][p] - 1 = a
  <2>1. origin'[c][p] = Appended(p) - Len(buffers[p]) + 1
    BY DEF BeginAttach, Typed
  <2>2. Len(buffers[p]) = z - a
    BY <1>1, RunIsBytes
  <2> QED BY <1>1, <2>1, <2>2
<1>4. got'[c][p] = <<>> /\ queue'[c] = <<>> /\ replay'[c].left[p] = Run(a, z)
  BY <1>1, <1>2 DEF BeginAttach, Fresh, FullReplay, Typed
<1>5. InHand(c, p)' = <<>>
  BY <1>2 DEF BeginAttach, Fresh, InHand
<1>6. Flow(<<>>, <<>>, p, Run(a, z), <<>>, a, z)
  BY <1>1, FlowStarts
<1> QED BY <1>1, <1>3, <1>4, <1>5, <1>6 DEF Flows

\* The connection that a step of a reader or of another thread is about keeps
\* its stream, and so do the others, unless the reader takes up more of it.
LEMMA ReaderFlow ==
    ASSUME Typed, Control, NEW c \in Conns, NEW p \in Panes, NEW last, Flows(c, p, last),
           NEW q \in Panes, Read(q) \/ Send(q) \/ SendFails(q),
           ~(Read(p) /\ client = c)
    PROVE  Flows(c, p, last)'
<1> USE Constants
<1>1. reader \in [Panes -> ReaderThread] /\ reader[q] \in ReaderThread /\ queue \in [Conns -> Seq(Events)]
  BY DEF Typed
<1>2. q # p => InHand(c, p)' = InHand(c, p)
  BY <1>1 DEF Read, Send, SendFails, InHand
<1>3. CASE Read(q)
  <2>1. q = p => InHand(c, p)' = <<>> /\ InHand(c, p) = <<>>
    <3>1. ASSUME q = p PROVE reader[p].to = NoConn /\ reader'[p].to = client /\ client # c
      <4>1. Read(p) /\ client # c
        BY <1>3, <3>1
      <4>2. reader[p].state = "reading"
        BY <4>1 DEF Read
      <4>3. reader[p].to = NoConn
        BY <4>2 DEF Control, Readers
      <4>4. reader'[p].to = client
        BY <1>1, <4>1 DEF Read
      <4> QED BY <4>1, <4>3, <4>4
    <3> QED BY <3>1 DEF InHand
  <2> QED BY <1>2, <1>3, <2>1, FlowIdle DEF Read, connVars
<1>4. CASE SendFails(q)
  <2>1. q = p => InHand(c, p)' = InHand(c, p)
    <3>1. reader' = [reader EXCEPT ![q].state = "dead"]
      BY <1>4 DEF SendFails
    <3>2. reader'[q].to = reader[q].to /\ reader'[q].data = reader[q].data
      BY <1>1, <3>1 DEF ReaderThread
    <3> QED BY <3>2 DEF InHand
  <2> QED BY <1>2, <1>4, <2>1, FlowIdle DEF SendFails, connVars
<1>5. CASE Send(q) /\ reader[q].to = c /\ q = p
  BY <1>5, FlowSent
<1>6. CASE Send(q) /\ ~(reader[q].to = c /\ q = p)
  <2> DEFINE event == Output(q, reader[q].data)
  <2>1. /\ reader[q].to \in Conns /\ event \in Events
    <3>1. reader[q].to \in Conns /\ Len(reader[q].data) \in 1..Limit /\ reader[q].data \in Bytes
      BY <1>1, <1>6 DEF Send, Control, Readers, ReaderThread
    <3> QED BY <3>1, OutputIsEvent
  <2>2. InHand(c, p)' = InHand(c, p)
    <3>1. reader' = [reader EXCEPT ![q] = BackToReading(q)] /\ BackToReading(q).to = NoConn
      BY <1>1, <1>6 DEF Send, BackToReading, ReaderThread
    <3>2. CASE q = p
      BY <1>1, <1>6, <3>1, <3>2 DEF InHand
    <3> QED BY <1>2, <3>2
  <2>3. replay' = replay /\ got' = got /\ origin' = origin
    BY <1>6 DEF Send
  <2>4. CASE reader[q].to = c
    <3>1. queue'[c] = Append(queue[c], event)
      BY <1>1, <1>6, <2>4 DEF Send
    <3>2. Own(event, p) = <<>>
      BY <1>6, <2>4 DEF Own, Output
    <3> HIDE DEF event
    <3> QED BY <2>1, <2>2, <2>3, <3>1, <3>2, FlowPassed
  <2>5. CASE reader[q].to # c
    <3>1. queue'[c] = queue[c]
      BY <1>1, <1>6, <2>1, <2>5 DEF Send
    <3> QED BY <2>2, <2>3, <3>1, FlowIdle
  <2> QED BY <2>4, <2>5
<1> QED BY <1>3, <1>4, <1>5, <1>6

LEMMA ConnectionFlow ==
    ASSUME Typed, Control, NEW c \in Conns, NEW p \in Panes, NEW last, Flows(c, p, last),
           Attached(c), Begun, phase'[c] # "closed", NEW d \in Conns,
           \/ Connect(d) \/ BeginAttach(d) \/ QueueReplay(d) \/ FinishAttach(d)
           \/ Drain(d) \/ Leave(d) \/ Detach(d) \/ Close(d)
    PROVE  Flows(c, p, last)'
<1> USE Constants
<1>1. /\ queue \in [Conns -> Seq(Events)] /\ replay \in [Conns -> Replay]
      /\ got \in [Conns -> [Panes -> Bytes]] /\ origin \in [Conns -> [Panes -> Nat]]
      /\ phase \in [Conns -> Phase]
  BY DEF Typed
<1>2. reader' = reader /\ InHand(c, p)' = InHand(c, p)
  BY DEF Connect, BeginAttach, QueueReplay, FinishAttach, Drain, Leave, Detach, Close, InHand
<1>3. CASE Connect(d) \/ FinishAttach(d) \/ Leave(d) \/ Detach(d)
  BY <1>2, <1>3, FlowIdle DEF Connect, FinishAttach, Leave, Detach
<1>4. CASE BeginAttach(d)
  <2>1. phase[c] # "open"
    BY DEF Begun
  <2>2. d # c
    BY <1>4, <2>1 DEF BeginAttach
  <2>3. replay'[c] = replay[c] /\ origin'[c] = origin[c] /\ queue' = queue /\ got' = got
    BY <1>1, <1>4, <2>2 DEF BeginAttach
  <2> QED BY <1>2, <2>3, FlowIdle
<1>5. CASE Close(d)
  <2>1. d # c
    BY <1>1, <1>5 DEF Close
  <2>2. replay' = replay /\ origin' = origin /\ queue'[c] = queue[c] /\ got' = got
    BY <1>1, <1>5, <2>1 DEF Close
  <2> QED BY <1>2, <2>2, FlowIdle
<1>6. CASE Drain(d)
  <2>1. CASE d = c
    BY <1>6, <2>1, FlowDrained
  <2>2. CASE d # c
    <3>1. queue'[c] = queue[c] /\ replay' = replay /\ origin' = origin
      BY <1>1, <1>6, <2>2 DEF Drain
    <3>2. got'[c] = got[c]
      <4>1. CASE Head(queue[d]) = Notice
        BY <1>6, <4>1 DEF Drain
      <4>2. CASE Head(queue[d]) # Notice
        <5>1. got' = [got EXCEPT ![d][Head(queue[d]).pane] = @ \o Head(queue[d]).data]
          BY <1>6, <4>2 DEF Drain
        <5> QED BY <1>1, <2>2, <5>1
      <4> QED BY <4>1, <4>2
    <3> QED BY <1>2, <3>1, <3>2, FlowIdle
  <2> QED BY <2>1, <2>2
<1>7. CASE QueueReplay(d)
  <2>1. got' = got /\ origin' = origin
    BY <1>7 DEF QueueReplay
  <2>2. CASE d # c
    <3>1. queue'[c] = queue[c] /\ replay'[c] = replay[c]
      BY <1>1, <1>7, <2>2 DEF QueueReplay, QueueHello, QueueChunk
    <3> QED BY <1>2, <2>1, <3>1, FlowIdle
  <2>3. CASE d = c /\ QueueHello(c)
    <3>1. queue'[c] = Append(queue[c], Notice) /\ replay'[c].left[p] = replay[c].left[p]
      BY <1>1, <2>3 DEF QueueHello, Replay
    <3>2. Notice \in Events /\ Own(Notice, p) = <<>>
      BY NoticeIsEvent DEF Own
    <3> QED BY <1>2, <2>1, <3>1, <3>2, FlowPassed
  <2>4. CASE d = c /\ QueueChunk(c, p)
    BY <1>7, <2>4, FlowChunked
  <2>5. ASSUME NEW q \in Panes, q # p, d = c, QueueChunk(c, q) PROVE Flows(c, p, last)'
    <3>1. PICK left \in Bytes : left = replay[c].left[q]
      BY <1>1 DEF Replay
    <3>2. left # <<>>
      BY <2>5, <3>1 DEF QueueChunk
    <3>3. Output(q, FirstChunk(left)) \in Events
      BY <3>2, ChunksOf, OutputIsEvent
    <3>4. /\ queue'[c] = Append(queue[c], Output(q, FirstChunk(left)))
          /\ replay'[c].left[p] = replay[c].left[p]
      BY <1>1, <2>5, <3>1 DEF QueueChunk, Replay
    <3>5. Own(Output(q, FirstChunk(left)), p) = <<>>
      BY <2>5 DEF Own, Output
    <3> QED BY <1>2, <2>1, <3>3, <3>4, <3>5, FlowPassed
  <2>6. QueueHello(d) \/ \E q \in Panes : QueueChunk(d, q)
    BY <1>7 DEF QueueReplay
  <2> QED BY <2>2, <2>3, <2>4, <2>5, <2>6
<1> QED BY <1>3, <1>4, <1>5, <1>6, <1>7

LEMMA FlowStays ==
    ASSUME IInv, [Next]_vars, NEW c \in Conns, NEW p \in Panes, Attached(c),
           phase'[c] # "closed", ~(Read(p) /\ client = c), NEW last, Flows(c, p, last)
    PROVE  Flows(c, p, last)'
<1> USE Constants DEF IInv
<1>1. CASE Emit
  <2>1. client \in Conns
    BY <1>1 DEF Emit, Typed
  <2>2. InHand(c, p)' = InHand(c, p) /\ replay' = replay /\ got' = got /\ origin' = origin
    BY <1>1 DEF Emit, InHand
  <2>3. CASE c = client
    <3>1. queue'[c] = Append(queue[c], Notice)
      BY <1>1, <2>1, <2>3 DEF Emit, Typed
    <3>2. Notice \in Events /\ Own(Notice, p) = <<>>
      BY NoticeIsEvent DEF Own
    <3> QED BY <2>2, <3>1, <3>2, FlowPassed
  <2>4. CASE c # client
    <3>1. queue'[c] = queue[c]
      BY <1>1, <2>1, <2>4 DEF Emit, Typed
    <3> QED BY <2>2, <3>1, FlowIdle
  <2> QED BY <2>3, <2>4, Zenon
<1>2. CASE UNCHANGED vars \/ \E q \in Panes : ShellWrites(q)
  <2>1. InHand(c, p)' = InHand(c, p) /\ replay' = replay /\ got' = got /\ origin' = origin /\ queue' = queue
    BY <1>2 DEF vars, ShellWrites, connVars, InHand
  <2> QED BY <2>1, FlowIdle
<1>3. ASSUME NEW q \in Panes, Read(q) \/ Send(q) \/ SendFails(q) PROVE Flows(c, p, last)'
  BY <1>3, ReaderFlow
<1>4. ASSUME NEW d \in Conns,
             \/ Connect(d) \/ BeginAttach(d) \/ QueueReplay(d) \/ FinishAttach(d)
             \/ Drain(d) \/ Leave(d) \/ Detach(d) \/ Close(d)
      PROVE  Flows(c, p, last)'
  BY <1>4, ConnectionFlow
<1> QED BY <1>1, <1>2, <1>3, <1>4 DEF Next

\* The stream of a connection is kept, and that of the subscriber goes as far
\* as its pane has been read.
LEMMA FlowingStep == ASSUME IInv, [Next]_vars PROVE Flowing'
<1> USE Constants DEF IInv
<1>1. ASSUME NEW c \in Conns, NEW p \in Panes, BeginAttach(c)
      PROVE  \E last : Flows(c, p, last)' /\ last = Appended(p)'
  <2>1. Flows(c, p, Appended(p))'
    <3>1. PICK last : last = Appended(p)
      OBVIOUS
    <3>2. Flows(c, p, last)'
      BY <1>1, <3>1, FlowBegins
    <3>3. reader' = reader
      BY <1>1 DEF BeginAttach
    <3> QED BY <3>1, <3>2, <3>3 DEF Appended
  <2> QED BY <2>1
<1>2. ASSUME NEW c \in Conns, NEW p \in Panes, ~BeginAttach(c), Attached(c)', phase'[c] # "closed"
      PROVE  \E last : Flows(c, p, last)' /\ (c \in {client', hubLock'} => last = Appended(p)')
  <2>1. Attached(c)
    BY <1>2, OriginStep DEF Attached
  <2>2. phase[c] # "closed"
    BY <1>2 DEF Typed, Next, vars, connVars, ShellWrites, Read, Send, SendFails, Connect,
              BeginAttach, QueueReplay, FinishAttach, Drain, Leave, Detach, Close, Emit
  <2>3. PICK last : Flows(c, p, last) /\ (c \in {client, hubLock} => last = Appended(p))
    BY <2>1, <2>2 DEF Flowing
  <2>4. CASE Read(p) /\ client = c
    <3>1. PICK end : end = reader'[p].read
      OBVIOUS
    <3>2. Flows(c, p, end)'
      BY <2>3, <2>4, <3>1, FlowRead
    <3> QED BY <3>1, <3>2 DEF Appended
  <2>5. CASE ~(Read(p) /\ client = c)
    <3>1. Flows(c, p, last)'
      BY <1>2, <2>1, <2>3, <2>5, FlowStays
    <3>2. c \in {client', hubLock'} => c \in {client, hubLock}
      BY <1>2 DEF Control, Typed, Next, vars, hubVars, ShellWrites, Read, Send, SendFails, Connect,
              BeginAttach, QueueReplay, FinishAttach, Drain, Leave, Detach, Close, Emit
    <3>3. c \in {client, hubLock} => Appended(p)' = Appended(p)
      <4>1. CASE \E q \in Panes : Read(q)
        <5>1. PICK q \in Panes : Read(q)
          BY <4>1
        <5>2. c \in {client, hubLock} => q # p
          BY <2>5, <5>1 DEF Read
        <5>3. \A r \in Panes : r # q => reader'[r] = reader[r]
          BY <5>1 DEF Read, Typed
        <5> QED BY <5>2, <5>3 DEF Appended
      <4>2. CASE \E q \in Panes : Send(q) \/ SendFails(q)
        <5>1. PICK q \in Panes : Send(q) \/ SendFails(q)
          BY <4>2
        <5>2. reader \in [Panes -> ReaderThread] /\ reader[q] \in ReaderThread
          BY DEF Typed
        <5>3. reader'[q].read = reader[q].read /\ \A r \in Panes : r # q => reader'[r] = reader[r]
          <6>1. CASE Send(q)
            BY <5>2, <6>1 DEF Send, BackToReading, ReaderThread
          <6>2. CASE SendFails(q)
            <7>1. reader' = [reader EXCEPT ![q].state = "dead"]
              BY <6>2 DEF SendFails
            <7> QED BY <5>2, <7>1 DEF ReaderThread
          <6> QED BY <5>1, <6>1, <6>2
        <5> QED BY <5>3 DEF Appended
      <4>3. CASE reader' = reader
        BY <4>3 DEF Appended
      <4> QED BY <4>1, <4>2, <4>3 DEF Next, vars, ShellWrites, Connect, BeginAttach, QueueReplay,
              FinishAttach, Drain, Leave, Detach, Close, Emit
    <3> QED BY <2>3, <3>1, <3>2, <3>3
  <2> QED BY <2>4, <2>5
<1>3. ASSUME NEW c \in Conns, NEW p \in Panes, Attached(c)', phase'[c] # "closed"
      PROVE  \E last : Flows(c, p, last)' /\ (c \in {client', hubLock'} => last = Appended(p)')
  BY <1>1, <1>2, <1>3
<1> QED BY <1>3 DEF Flowing

LEMMA InvStep == ASSUME IInv, [Next]_vars PROVE IInv'
<1>1. Typed' /\ Control' /\ Begun' /\ Newest'
  BY TypedStep, ControlStep, BegunStep, NewestStep DEF IInv, Control
<1>2. Flowing'
  BY FlowingStep
<1> QED BY <1>1, <1>2 DEF IInv

LEMMA Invariant == Spec => []IInv
<1>1. Init => IInv
  BY InitHolds
<1>2. IInv /\ [Next]_vars => IInv'
  BY InvStep
<1> QED BY <1>1, <1>2, PTL DEF Spec

----
(* No byte is lost, repeated or reordered *)

\* How far a stream goes, and how far it is on the pipe.
LEMMA StreamOf ==
    ASSUME Typed, NEW c \in Conns, NEW p \in Panes, Attached(c), NEW last, Flows(c, p, last)
    PROVE  /\ InOrder(Pieces(c, p)) /\ BytesOf(Pieces(c, p)) = origin[c][p]..last
           /\ LastOf(c, p) = last /\ last \in Nat
           /\ origin[c][p] \in Nat \ {0} /\ Len(got[c][p]) \in Nat
           /\ origin[c][p] + Len(got[c][p]) - 1 <= last
<1>1. PICK first \in Nat : origin[c][p] = first + 1
  <2>1. origin[c][p] \in Nat /\ origin[c][p] # 0
    BY DEF Typed, Attached
  <2>2. origin[c][p] - 1 \in Nat /\ origin[c][p] = (origin[c][p] - 1) + 1
    BY <2>1
  <2> QED BY <2>2
<1>2. queue[c] \in Seq(Events) /\ got[c][p] \in Bytes /\ first = origin[c][p] - 1
  <2>1. first = origin[c][p] - 1
    BY <1>1
  <2> QED BY <2>1 DEF Typed
<1>3. Flow(got[c][p], queue[c], p, replay[c].left[p], InHand(c, p), first, last)
  BY <1>2 DEF Flows
<1>4. /\ last \in Nat /\ first <= last /\ InOrder(Pieces(c, p))
      /\ BytesOf(Pieces(c, p)) = first + 1..last
  BY <1>2, <1>3, FlowIsExact DEF Pieces
<1>5. LastOf(c, p) = last
  <2>1. {first} \cup (first + 1..last) \subseteq Int
    BY <1>4
  <2>2. last \in {first} \cup (first + 1..last) /\ \A n \in {first} \cup (first + 1..last) : last >= n
    BY <1>4
  <2>3. Max({first} \cup (first + 1..last)) = last
    BY <2>1, <2>2, MaxIs
  <2> QED BY <1>2, <1>4, <2>3 DEF LastOf
<1>6. Len(got[c][p]) \in Nat /\ first + Len(got[c][p]) <= last
  <2>1. PICK at : /\ Cuts(got[c][p], queue[c], p, replay[c].left[p], InHand(c, p), at)
                  /\ at[0] = first /\ at[Len(queue[c]) + 3] = last
    BY <1>3 DEF Flow
  <2>2. PICK a \in Nat : got[c][p] = Run(first, a) /\ first <= a /\ a <= last
    <3>1. Len(queue[c]) \in Nat
      BY <1>2
    <3>2. /\ at \in [0..Len(queue[c]) + 3 -> Nat]
          /\ \A i, j \in 0..Len(queue[c]) + 3 : i <= j => at[i] <= at[j]
          /\ got[c][p] = Run(at[0], at[1])
      BY <2>1 DEF Cuts
    <3> QED BY <2>1, <3>1, <3>2
  <2>3. Len(got[c][p]) = a - first
    BY <2>2, RunIsBytes
  <2>4. a - first \in Nat /\ first + (a - first) <= last
    BY <1>4, <2>2
  <2> QED BY <2>3, <2>4, Zenon
<1>7. BytesOf(Pieces(c, p)) = origin[c][p]..last
  BY <1>1, <1>4
<1>8. origin[c][p] \in Nat \ {0} /\ origin[c][p] + Len(got[c][p]) - 1 <= last
  <2>1. PICK n \in Nat : n = Len(got[c][p]) /\ first + n <= last
    BY <1>6
  <2>2. PICK m \in Nat, o \in Nat : m = last /\ o = origin[c][p] /\ o = first + 1
    BY <1>1, <1>4
  <2>3. first + n <= m
    BY <2>1, <2>2
  <2>4. o # 0 /\ o + n - 1 <= m
    BY <2>2, <2>3
  <2> QED BY <2>1, <2>2, <2>4
<1> QED BY <1>4, <1>5, <1>6, <1>7, <1>8, Zenon

\* Output reaches a connection exactly as it was read: what has set out for it
\* is in order and complete, and for the current subscriber nothing that append
\* has kept is missing (ade-daemon OutputHub, BufferedClient and Attach).
THEOREM StreamIsExact == Spec => []ExactStream
<1>1. ASSUME IInv PROVE ExactStream
  <2> USE <1>1 DEF IInv
  <2>1. ASSUME NEW c \in Conns, NEW p \in Panes, Attached(c), phase[c] # "closed"
        PROVE  /\ InOrder(Pieces(c, p))
               /\ BytesOf(Pieces(c, p)) = origin[c][p]..LastOf(c, p)
               /\ c = client => LastOf(c, p) = Appended(p)
    <3>1. PICK last : Flows(c, p, last) /\ (c \in {client, hubLock} => last = Appended(p))
      BY <2>1 DEF Flowing
    <3> QED BY <2>1, <3>1, StreamOf
  <2> QED BY <2>1 DEF ExactStream
<1> QED BY <1>1, Invariant, PTL

\* The buffer of a pane is the newest output that was read from it, as long as
\* the limit allows (OutputHub::append).
THEOREM BufferIsNewest == Spec => []BufferNewest
<1>1. ASSUME IInv PROVE BufferNewest
  <2> USE <1>1, Constants DEF IInv
  <2>1. ASSUME NEW p \in Panes
        PROVE  /\ Len(buffers[p]) <= Limit
               /\ LET length == IF Appended(p) < Limit THEN Appended(p) ELSE Limit
                  IN  buffers[p] = [i \in 1..length |-> Appended(p) - length + i]
    <3>1. PICK n \in Nat : n = Appended(p)
      BY DEF Typed, ReaderThread, Appended
    <3>2. PICK length \in Nat : length = IF n < Limit THEN n ELSE Limit
      OBVIOUS
    <3>3. Trim(n) = n - length /\ n - length \in Nat
      BY <3>2 DEF Trim
    <3>4. buffers[p] = Run(n - length, n)
      BY <3>1, <3>3 DEF Newest
    <3>5. buffers[p] = [i \in 1..length |-> n - length + i] /\ Len(buffers[p]) = length
      <4>1. n - (n - length) = length
        BY <3>1, <3>2
      <4> QED BY <3>4, <4>1 DEF Run
    <3> QED BY <3>1, <3>2, <3>5
  <2>2. TypeOK
    BY <2>1 DEF TypeOK, Typed, ReaderThread, Phase, Appended
  <2> QED BY <2>1, <2>2 DEF BufferNewest
<1> QED BY <1>1, Invariant, PTL

----
(* The hub implements the stream it promises *)

\* The state of TerminalStream, seen from the hub.
Current   == IF hubLock = NoConn THEN client ELSE hubLock
Joined    == {c \in Conns : Attached(c)}
Gone      == {c \in Conns : Attached(c) /\ phase[c] \in {"detached", "closed"}}
Sent(c, p) == IF Attached(c) THEN origin[c][p] + Len(got[c][p]) ELSE 1
Owed(c, p) == IF ~Attached(c) THEN 0
              ELSE IF phase[c] = "closed" THEN origin[c][p] + Len(got[c][p]) - 1
              ELSE LastOf(c, p)
AllRead   == [p \in Panes |-> Appended(p)]
AllSent   == [c \in Conns |-> [p \in Panes |-> Sent(c, p)]]
AllOwed   == [c \in Conns |-> [p \in Panes |-> Owed(c, p)]]

LEMMA StreamVars ==
    UNCHANGED <<AllRead, Current, Joined, Gone, AllSent, AllOwed>> <=> UNCHANGED Stream!vars
  BY DEF Stream!vars, AllRead, Current, Joined, Gone, AllSent, AllOwed, Sent, Owed

\* The actions of TerminalStream, seen from the hub.
LEMMA StreamProduces ==
    ASSUME NEW p \in Panes, NEW n
    PROVE  Stream!Produce(p, n) <=>
                 /\ AllRead' = [AllRead EXCEPT ![p] = @ + n]
                 /\ AllOwed' = IF Current = NoConn THEN AllOwed
                               ELSE [AllOwed EXCEPT ![Current][p] = @ + n]
                 /\ UNCHANGED <<Current, Joined, Gone, AllSent>>
  BY DEF Stream!Produce, AllRead, Current, Joined, Gone, AllSent, AllOwed, Sent, Owed

LEMMA StreamActions ==
    ASSUME NEW c \in Conns, NEW p \in Panes, NEW n
    PROVE  /\ Stream!Attach(c) <=>
                 /\ c \notin Joined /\ Joined' = Joined \cup {c} /\ Current' = c
                 /\ AllSent' = [AllSent EXCEPT ![c] = [q \in Panes |->
                                   IF AllRead[q] > Limit THEN AllRead[q] - Limit + 1 ELSE 1]]
                 /\ AllOwed' = [AllOwed EXCEPT ![c] = AllRead]
                 /\ UNCHANGED <<AllRead, Gone>>
           /\ Stream!Deliver(c, p, n) <=>
                 /\ AllSent[c][p] + n - 1 <= AllOwed[c][p]
                 /\ AllSent' = [AllSent EXCEPT ![c][p] = @ + n]
                 /\ UNCHANGED <<AllRead, Current, Joined, Gone, AllOwed>>
           /\ Stream!Detach(c) <=>
                 /\ c \in Joined \ Gone /\ Gone' = Gone \cup {c}
                 /\ Current' = IF Current = c THEN NoConn ELSE Current
                 /\ UNCHANGED <<AllRead, Joined, AllSent, AllOwed>>
           /\ Stream!Forget(c) <=>
                 /\ c \in Gone
                 /\ AllOwed' = [AllOwed EXCEPT ![c] = [q \in Panes |-> AllSent[c][q] - 1]]
                 /\ UNCHANGED <<AllRead, Current, Joined, Gone, AllSent>>
<1> USE DEF AllRead, Current, Joined, Gone, AllSent, AllOwed, Sent, Owed
<1>1. Stream!Attach(c) <=>
                 /\ c \notin Joined /\ Joined' = Joined \cup {c} /\ Current' = c
                 /\ AllSent' = [AllSent EXCEPT ![c] = [q \in Panes |->
                                   IF AllRead[q] > Limit THEN AllRead[q] - Limit + 1 ELSE 1]]
                 /\ AllOwed' = [AllOwed EXCEPT ![c] = AllRead]
                 /\ UNCHANGED <<AllRead, Gone>>
  BY DEF Stream!Attach, Stream!Oldest
<1>2. Stream!Deliver(c, p, n) <=>
                 /\ AllSent[c][p] + n - 1 <= AllOwed[c][p]
                 /\ AllSent' = [AllSent EXCEPT ![c][p] = @ + n]
                 /\ UNCHANGED <<AllRead, Current, Joined, Gone, AllOwed>>
  BY DEF Stream!Deliver
<1>3. Stream!Detach(c) <=>
                 /\ c \in Joined \ Gone /\ Gone' = Gone \cup {c}
                 /\ Current' = IF Current = c THEN NoConn ELSE Current
                 /\ UNCHANGED <<AllRead, Joined, AllSent, AllOwed>>
  BY DEF Stream!Detach
<1>4. Stream!Forget(c) <=>
                 /\ c \in Gone
                 /\ AllOwed' = [AllOwed EXCEPT ![c] = [q \in Panes |-> AllSent[c][q] - 1]]
                 /\ UNCHANGED <<AllRead, Current, Joined, Gone, AllSent>>
  BY DEF Stream!Forget
<1> QED BY <1>1, <1>2, <1>3, <1>4

\* The hub starts as the stream does.
LEMMA StreamInit == ASSUME Init PROVE Stream!Init
<1> USE Constants
<1>1. \A c \in Conns : ~Attached(c)
  BY DEF Init, Attached
<1>2. /\ AllRead = [p \in Panes |-> 0] /\ Current = NoConn /\ Joined = {} /\ Gone = {}
      /\ AllSent = [c \in Conns |-> [p \in Panes |-> 1]]
      /\ AllOwed = [c \in Conns |-> [p \in Panes |-> 0]]
  BY <1>1 DEF Init, AllRead, Current, Joined, Gone, AllSent, AllOwed, Sent, Owed, Appended
<1> QED BY <1>2 DEF Stream!Init, AllRead, Current, Joined, Gone, AllSent, AllOwed, Sent, Owed

\* The last byte, in the state after a step.
StreamsEnd ==
    \A c \in Conns, p \in Panes : \A last :
        Typed /\ Attached(c) /\ Flows(c, p, last)
            => LastOf(c, p) = last /\ origin[c][p] + Len(got[c][p]) - 1 <= last

LEMMA StreamsHaveEnds == StreamsEnd
  BY StreamOf DEF StreamsEnd

LEMMA StreamsHaveEndsNext == StreamsEnd'
  BY StreamsHaveEnds, PTL

LEMMA ReadMoves ==
    ASSUME Typed, NEW p \in Panes, Read(p) PROVE reader'[p].read # reader[p].read
<1>1. reader \in [Panes -> ReaderThread] /\ reader[p].read \in Nat
  BY DEF Typed, ReaderThread
<1>2. PICK n \in 1..MaxRead : reader'[p].read = reader[p].read + n
  BY <1>1 DEF Read
<1> QED BY <1>1, <1>2, Constants

\* What a connection is owed changes when it attaches, closes or subscribes to
\* a pane that is read.
LEMMA OwedStays ==
    ASSUME IInv, IInv', [Next]_vars, NEW c \in Conns, NEW p \in Panes,
           origin'[c] = origin[c], phase'[c] = "closed" <=> phase[c] = "closed",
           phase[c] = "closed" => got'[c] = got[c],
           reader'[p].read = reader[p].read \/ client # c
    PROVE  Owed(c, p)' = Owed(c, p)
<1> USE DEF IInv
<1>1. Attached(c)' <=> Attached(c)
  BY DEF Attached
<1>2. CASE ~Attached(c)
  BY <1>1, <1>2 DEF Owed
<1>3. CASE Attached(c) /\ phase[c] = "closed"
  BY <1>1, <1>3 DEF Owed
<1>4. CASE Attached(c) /\ phase[c] # "closed"
  <2>1. PICK last : Flows(c, p, last)
    BY <1>4 DEF Flowing
  <2>2. ~(Read(p) /\ client = c)
    BY ReadMoves
  <2>3. Flows(c, p, last)'
    BY <1>4, <2>1, <2>2, FlowStays
  <2>4. LastOf(c, p) = last
    BY <1>4, <2>1, StreamOf
  <2>5. LastOf(c, p)' = last
    BY <1>1, <1>4, <2>3, StreamsHaveEndsNext DEF StreamsEnd
  <2> QED BY <1>1, <1>4, <2>4, <2>5 DEF Owed
<1> QED BY <1>2, <1>3, <1>4

\* Nothing that the stream shows has changed.
LEMMA Stutters ==
    ASSUME IInv, IInv', [Next]_vars, origin' = origin, got' = got,
           \A p \in Panes : reader'[p].read = reader[p].read,
           \A c \in Conns : phase'[c] = "closed" <=> phase[c] = "closed",
           \A c \in Conns : Attached(c) => (phase'[c] = "detached" <=> phase[c] = "detached"),
           Current' = Current
    PROVE  UNCHANGED Stream!vars
<1>1. AllRead' = AllRead
  BY DEF AllRead, Appended
<1>2. Joined' = Joined /\ Gone' = Gone
  BY DEF Joined, Gone, Attached
<1>3. AllSent' = AllSent
  BY DEF AllSent, Sent, Attached
<1>4. AllOwed' = AllOwed
  BY OwedStays DEF AllOwed
<1> QED BY <1>1, <1>2, <1>3, <1>4, StreamVars

\* A read is what the stream produces, for the subscriber there is.
LEMMA ReadProduces ==
    ASSUME IInv, IInv', NEW p \in Panes, Read(p)
    PROVE  \E n \in 1..Limit : Stream!Produce(p, n)
<1> USE Constants DEF IInv
<1>1. reader \in [Panes -> ReaderThread] /\ reader[p].read \in Nat
  BY DEF Typed, ReaderThread
<1>2. PICK n \in 1..MaxRead : reader'[p].read = reader[p].read + n
  BY <1>1 DEF Read
<1>3. \A q \in Panes : q # p => reader'[q] = reader[q]
  BY <1>1 DEF Read
<1>4. AllRead' = [AllRead EXCEPT ![p] = @ + n]
  BY <1>2, <1>3 DEF AllRead, Appended
<1>5. /\ hubLock = NoConn /\ hubLock' = hubLock /\ client' = client
      /\ phase' = phase /\ got' = got /\ origin' = origin
  BY DEF Read, connVars
<1>6. Current = client /\ UNCHANGED <<Current, Joined, Gone, AllSent>>
  BY <1>5 DEF Current, Joined, Gone, AllSent, Sent, Attached
<1>7. ASSUME NEW c \in Conns, NEW q \in Panes, ~(c = client /\ q = p) PROVE Owed(c, q)' = Owed(c, q)
  BY <1>3, <1>5, <1>7, OwedStays DEF Next
<1>8. ASSUME client # NoConn PROVE Owed(client, p)' = Owed(client, p) + n
  <2>1. client \in Conns /\ Attached(client) /\ phase[client] # "closed"
    BY <1>8 DEF Typed, Control, Begun, Fresh
  <2>2. PICK last : Flows(client, p, last) /\ last = Appended(p)
    BY <2>1 DEF Flowing
  <2>3. PICK end : end = reader'[p].read
    OBVIOUS
  <2>4. Flows(client, p, end)'
    <3>1. PICK c \in Conns : c = client
      BY <2>1
    <3>2. Flows(c, p, end)'
      BY <2>2, <2>3, <3>1, FlowRead
    <3> QED BY <1>5, <3>1, <3>2
  <2>5. Owed(client, p) = last
    BY <2>1, <2>2, StreamOf DEF Owed
  <2>6. Owed(client, p)' = end
    BY <1>5, <2>1, <2>4, StreamsHaveEndsNext DEF Owed, StreamsEnd, Attached
  <2> QED BY <1>2, <2>2, <2>3, <2>5, <2>6 DEF Appended
<1>9. AllOwed' = IF Current = NoConn THEN AllOwed ELSE [AllOwed EXCEPT ![Current][p] = @ + n]
  <2>1. CASE client = NoConn
    BY <1>6, <1>7, <2>1 DEF AllOwed
  <2>2. CASE client # NoConn
    <3>1. client \in Conns
      BY <2>2 DEF Typed
    <3>2. \A c \in Conns, q \in Panes :
             Owed(c, q)' = IF c = client /\ q = p THEN Owed(c, q) + n ELSE Owed(c, q)
      BY <1>5, <1>7, <1>8, <2>2
    <3> QED BY <1>6, <2>2, <3>1, <3>2 DEF AllOwed
  <2> QED BY <2>1, <2>2
<1>10. n \in 1..Limit
  OBVIOUS
<1> QED BY <1>4, <1>6, <1>9, <1>10, StreamProduces

\* An attach that takes the lock is the stream's: it is owed all that has been
\* read, from the oldest byte the buffers have.
LEMMA AttachStep ==
    ASSUME IInv, IInv', NEW c \in Conns, BeginAttach(c) PROVE Stream!Attach(c)
<1> USE Constants DEF IInv
<1>1. /\ phase' = [phase EXCEPT ![c] = "attaching"] /\ hubLock = NoConn /\ hubLock' = c
      /\ origin' = [origin EXCEPT ![c] = [p \in Panes |-> Appended(p) - Len(buffers[p]) + 1]]
      /\ reader' = reader /\ got' = got /\ phase[c] = "open"
  BY DEF BeginAttach
<1>2. ~Attached(c) /\ got[c] = [p \in Panes |-> <<>>]
  BY <1>1 DEF Begun, Fresh
<1>3. phase'[c] = "attaching" /\ \A d \in Conns \ {c} : origin'[d] = origin[d] /\ phase'[d] = phase[d]
  BY <1>1 DEF Typed
<1>4. Attached(c)'
  BY <1>3 DEF Begun, Fresh
<1>5. \A d \in Conns \ {c} : Attached(d)' <=> Attached(d)
  BY <1>3 DEF Attached
<1>6. /\ c \notin Joined /\ Joined' = Joined \cup {c} /\ Gone' = Gone
      /\ Current' = c /\ AllRead' = AllRead
  <2>1. c # NoConn
    OBVIOUS
  <2>2. Gone' = Gone
    BY <1>2, <1>3, <1>5 DEF Gone
  <2>3. c \notin Joined /\ Joined' = Joined \cup {c}
    BY <1>2, <1>4, <1>5 DEF Joined
  <2> QED BY <1>1, <2>1, <2>2, <2>3 DEF Current, AllRead, Appended
<1>7. ASSUME NEW p \in Panes
      PROVE  /\ Sent(c, p)' = IF AllRead[p] > Limit THEN AllRead[p] - Limit + 1 ELSE 1
             /\ Owed(c, p)' = AllRead[p]
  <2>1. PICK n \in Nat : n = Appended(p)
    BY DEF Typed, ReaderThread, Appended
  <2>2. PICK a \in Nat : a = Trim(n) /\ a <= n
    BY <2>1, TrimIs
  <2>3. Len(buffers[p]) = n - a
    BY <2>1, <2>2, RunIsBytes DEF Newest
  <2>4. origin'[c][p] = a + 1
    <3>1. origin'[c][p] = n - (n - a) + 1
      BY <1>1, <2>1, <2>3 DEF Typed
    <3> QED BY <2>1, <2>2, <3>1
  <2>5. Sent(c, p)' = a + 1
    BY <1>1, <1>2, <1>4, <2>4 DEF Sent
  <2>6. Sent(c, p)' = IF n > Limit THEN n - Limit + 1 ELSE 1
    BY <2>1, <2>2, <2>5 DEF Trim
  <2>7. Flows(c, p, n)'
    BY <2>1, FlowBegins
  <2>8. Owed(c, p)' = n
    BY <1>3, <1>4, <2>7, StreamsHaveEndsNext DEF StreamsEnd, Owed
  <2> QED BY <2>1, <2>6, <2>8 DEF AllRead
<1>8. ASSUME NEW d \in Conns \ {c}, NEW p \in Panes
      PROVE  Sent(d, p)' = Sent(d, p) /\ Owed(d, p)' = Owed(d, p)
  <2>1. Sent(d, p)' = Sent(d, p)
    BY <1>1, <1>3, <1>5 DEF Sent
  <2>2. [Next]_vars
    BY DEF Next
  <2>3. reader'[p].read = reader[p].read
    BY <1>1
  <2>4. Owed(d, p)' = Owed(d, p)
    BY <1>1, <1>3, <2>2, <2>3, OwedStays
  <2> QED BY <2>1, <2>4
<1>9. AllSent' = [AllSent EXCEPT ![c] = [q \in Panes |->
                     IF AllRead[q] > Limit THEN AllRead[q] - Limit + 1 ELSE 1]]
  <2>1. \A q \in Panes : AllSent'[c][q] = IF AllRead[q] > Limit THEN AllRead[q] - Limit + 1 ELSE 1
    BY <1>7 DEF AllSent
  <2>2. \A d \in Conns \ {c} : AllSent'[d] = AllSent[d]
    BY <1>8 DEF AllSent
  <2>3. AllSent' = [d \in Conns |-> [q \in Panes |->
                       IF d = c THEN (IF AllRead[q] > Limit THEN AllRead[q] - Limit + 1 ELSE 1)
                       ELSE AllSent[d][q]]]
    BY <2>1, <2>2 DEF AllSent
  <2> QED BY <2>3 DEF AllSent
<1>10. AllOwed' = [AllOwed EXCEPT ![c] = AllRead]
  <2>1. AllRead = [p \in Panes |-> AllRead[p]]
    BY DEF AllRead
  <2>2. AllOwed'[c] = AllRead /\ \A d \in Conns \ {c} : AllOwed'[d] = AllOwed[d]
    BY <1>7, <1>8, <2>1 DEF AllOwed
  <2>3. AllOwed' = [d \in Conns |-> IF d = c THEN AllRead ELSE AllOwed[d]]
    BY <2>2 DEF AllOwed
  <2> QED BY <2>3 DEF AllOwed
<1>11. PICK p \in Panes : TRUE
  BY HubAssumption
<1> QED BY <1>6, <1>9, <1>10, <1>11, StreamActions

\* What the hub's connection writes to its pipe is delivered by the stream;
\* an event without output leaves the stream as it is.
LEMMA DrainStep ==
    ASSUME IInv, IInv', NEW c \in Conns, Drain(c)
    PROVE  \/ \E p \in Panes, n \in 1..Limit : Stream!Deliver(c, p, n)
           \/ UNCHANGED Stream!vars
<1> USE Constants DEF IInv
<1> DEFINE event == Head(queue[c])
<1>1. /\ queue[c] # <<>> /\ queue[c] \in Seq(Events) /\ event \in Events
      /\ UNCHANGED <<written, reader, hubVars, phase, replay, origin>>
      /\ phase[c] \in {"open", "attached"}
  BY HeadTailProperties DEF Typed, Drain
<1>2. [Next]_vars
  BY DEF Next
<1>3. CASE event = Notice
  <2>1. got' = got
    BY <1>3 DEF Drain
  <2>2. Current' = Current
    BY <1>1 DEF Current, hubVars
  <2> QED BY <1>1, <1>2, <2>1, <2>2, Stutters
<1>4. CASE event # Notice
  <2>1. PICK p \in Panes : p = event.pane
    BY <1>1, <1>4 DEF Events
  <2>2. PICK n \in 1..Limit : n = Len(event.data) /\ event.data \in Bytes
    BY <1>1, <1>4 DEF Events
  <2>3. got' = [got EXCEPT ![c][p] = @ \o event.data]
    BY <1>4, <2>1 DEF Drain
  <2>4. Attached(c) /\ phase[c] # "closed"
    BY <1>1 DEF Begun, Fresh
  <2>5. Len(got'[c][p]) = Len(got[c][p]) + n
    BY <2>2, <2>3 DEF Typed, Bytes
  <2>6. \A d \in Conns, q \in Panes : ~(d = c /\ q = p) => got'[d][q] = got[d][q]
    BY <2>3 DEF Typed
  <2>7. \A d \in Conns : Attached(d)' <=> Attached(d)
    BY <1>1 DEF Attached
  <2>8. PICK m \in Nat, o \in Nat : m = Len(got[c][p]) /\ o = origin[c][p]
    <3>1. got[c][p] \in Seq(Nat) /\ origin[c][p] \in Nat
      BY DEF Typed, Bytes
    <3>2. Len(got[c][p]) \in Nat
      BY <3>1
    <3> QED BY <3>1, <3>2
  <2>9. Sent(c, p) = o + m /\ Sent(c, p)' = o + (m + n)
    BY <1>1, <2>4, <2>5, <2>7, <2>8 DEF Sent
  <2>10. AllSent' = [AllSent EXCEPT ![c][p] = @ + n]
    <3>1. Sent(c, p)' = Sent(c, p) + n
      BY <2>8, <2>9
    <3>2. \A d \in Conns, q \in Panes : ~(d = c /\ q = p) => Sent(d, q)' = Sent(d, q)
      BY <1>1, <2>6, <2>7 DEF Sent
    <3>3. AllSent' = [d \in Conns |-> [q \in Panes |->
                         IF d = c /\ q = p THEN AllSent[d][q] + n ELSE AllSent[d][q]]]
      BY <3>1, <3>2 DEF AllSent
    <3> QED BY <3>3 DEF AllSent
  <2>11. \A d \in Conns : phase[d] = "closed" => got'[d] = got[d]
    BY <2>3, <2>4 DEF Typed
  <2>12. AllOwed' = AllOwed
    <3>1. \A d \in Conns, q \in Panes : Owed(d, q)' = Owed(d, q)
      BY <1>1, <1>2, <2>11, OwedStays
    <3> QED BY <3>1 DEF AllOwed
  <2>13. Sent(c, p)' - 1 <= Owed(c, p)
    <3>1. PICK last : Flows(c, p, last)'
      BY <1>1, <2>4, <2>7 DEF Flowing
    <3>2. LastOf(c, p)' = last /\ origin'[c][p] + Len(got'[c][p]) - 1 <= last
      BY <2>4, <2>7, <3>1, StreamsHaveEndsNext DEF StreamsEnd
    <3>3. Owed(c, p)' = last
      BY <1>1, <2>4, <2>7, <3>2 DEF Owed
    <3>4. Owed(c, p)' = Owed(c, p)
      BY <1>1, <1>2, <2>11, OwedStays
    <3>5. Sent(c, p)' = origin'[c][p] + Len(got'[c][p])
      BY <2>4, <2>7 DEF Sent
    <3>6. o + (m + n) - 1 <= last
      BY <1>1, <2>5, <2>8, <3>2
    <3>7. Owed(c, p) = last
      BY <3>3, <3>4
    <3> QED BY <2>9, <3>6, <3>7
  <2>14. AllSent[c][p] + n - 1 <= AllOwed[c][p]
    <3>1. Sent(c, p)' - 1 = Sent(c, p) + n - 1
      <4>1. (o + (m + n)) - 1 = (o + m) + n - 1
        OBVIOUS
      <4> QED BY <2>9, <4>1
    <3>2. Sent(c, p) + n - 1 <= Owed(c, p)
      BY <2>13, <3>1
    <3> QED BY <3>2 DEF AllSent, AllOwed
  <2>15. UNCHANGED <<AllRead, Current, Joined, Gone>>
    BY <1>1, <2>7 DEF AllRead, Appended, Current, Joined, Gone, hubVars
  <2> QED BY <2>10, <2>12, <2>14, <2>15, StreamActions
<1> QED BY <1>3, <1>4

\* Only the subscriber that leaves ends its subscription.
LEMMA DetachStep ==
    ASSUME IInv, IInv', NEW c \in Conns, Detach(c) PROVE Stream!Detach(c)
<1> USE Constants DEF IInv
<1>1. /\ phase[c] = "leaving" /\ phase' = [phase EXCEPT ![c] = "detached"]
      /\ hubLock = NoConn /\ client' = IF client = c THEN NoConn ELSE client
      /\ UNCHANGED <<reader, hubLock, got, origin>>
  BY DEF Detach
<1>2. \A d \in Conns : Attached(d)' <=> Attached(d)
  BY <1>1 DEF Attached
<1>3. Attached(c)
  BY <1>1 DEF Begun, Fresh
<1>4. phase'[c] = "detached" /\ \A d \in Conns \ {c} : phase'[d] = phase[d]
  BY <1>1 DEF Typed
<1>5. c \in Joined \ Gone /\ Gone' = Gone \cup {c} /\ Joined' = Joined
  BY <1>1, <1>2, <1>3, <1>4 DEF Joined, Gone
<1>6. Current' = (IF Current = c THEN NoConn ELSE Current) /\ AllRead' = AllRead
  BY <1>1 DEF Current, AllRead, Appended
<1>7. AllSent' = AllSent
  BY <1>1, <1>2 DEF AllSent, Sent
<1>8. \A d \in Conns, q \in Panes : Owed(d, q)' = Owed(d, q)
  <2>1. [Next]_vars
    BY DEF Next
  <2>2. \A d \in Conns : phase'[d] = "closed" <=> phase[d] = "closed"
    BY <1>1, <1>4
  <2> QED BY <1>1, <2>1, <2>2, OwedStays
<1>9. AllOwed' = AllOwed
  BY <1>8 DEF AllOwed
<1>10. PICK p \in Panes : TRUE
  BY HubAssumption
<1> QED BY <1>5, <1>6, <1>7, <1>9, <1>10, StreamActions

\* A connection that closes drops what its queue holds.
LEMMA CloseStep ==
    ASSUME IInv, IInv', NEW c \in Conns, Close(c)
    PROVE  Stream!Forget(c) \/ UNCHANGED Stream!vars
<1> USE Constants DEF IInv
<1>1. /\ phase[c] = "detached" /\ phase' = [phase EXCEPT ![c] = "closed"]
      /\ UNCHANGED <<reader, hubVars, got, origin>>
  BY DEF Close
<1>2. \A d \in Conns : Attached(d)' <=> Attached(d)
  BY <1>1 DEF Attached
<1>3. phase'[c] = "closed" /\ \A d \in Conns \ {c} : phase'[d] = phase[d]
  BY <1>1 DEF Typed
<1>4. UNCHANGED <<AllRead, Current, Joined, Gone>>
  BY <1>1, <1>2, <1>3 DEF AllRead, Appended, Current, Joined, Gone, hubVars
<1>5. AllSent' = AllSent
  BY <1>1, <1>2 DEF AllSent, Sent
<1>6. \A d \in Conns \ {c}, q \in Panes : Owed(d, q)' = Owed(d, q)
  <2>1. [Next]_vars
    BY DEF Next
  <2> QED BY <1>1, <1>3, <2>1, OwedStays
<1>7. CASE Attached(c)
  <2>1. \A q \in Panes : Owed(c, q)' = Sent(c, q) - 1
    <3>1. \A q \in Panes : Sent(c, q) = origin[c][q] + Len(got[c][q])
      BY <1>7 DEF Sent
    <3>2. \A q \in Panes : Owed(c, q)' = origin'[c][q] + Len(got'[c][q]) - 1
      BY <1>2, <1>3, <1>7 DEF Owed
    <3>3. ASSUME NEW q \in Panes PROVE Owed(c, q)' = Sent(c, q) - 1
      <4>1. PICK o \in Nat, m \in Nat : o = origin[c][q] /\ m = Len(got[c][q])
        <5>1. got[c][q] \in Seq(Nat) /\ origin[c][q] \in Nat
          BY DEF Typed, Bytes
        <5> QED BY <5>1
      <4>2. Sent(c, q) = o + m
        BY <3>1, <4>1
      <4>3. Owed(c, q)' = o + m - 1
        BY <1>1, <3>2, <4>1
      <4> QED BY <4>2, <4>3
    <3> QED BY <3>3
  <2>2. AllOwed' = [d \in Conns |-> [q \in Panes |-> IF d = c THEN AllSent[c][q] - 1
                                                     ELSE AllOwed[d][q]]]
    BY <1>6, <2>1 DEF AllOwed, AllSent
  <2>3. AllOwed' = [AllOwed EXCEPT ![c] = [q \in Panes |-> AllSent[c][q] - 1]]
    BY <2>2 DEF AllOwed
  <2>4. c \in Gone
    BY <1>1, <1>7 DEF Gone
  <2>5. PICK p \in Panes : TRUE
    BY HubAssumption
  <2> QED BY <1>4, <1>5, <2>3, <2>4, <2>5, StreamActions
<1>8. CASE ~Attached(c)
  <2>1. \A q \in Panes : Owed(c, q)' = Owed(c, q)
    BY <1>2, <1>8 DEF Owed
  <2>2. AllOwed' = AllOwed
    BY <1>6, <2>1 DEF AllOwed
  <2> QED BY <1>4, <1>5, <2>2, StreamVars
<1> QED BY <1>7, <1>8

\* No other step is one of the stream's.
LEMMA OtherStutters ==
    ASSUME IInv, IInv', [Next]_vars,
           \/ \E p \in Panes : ShellWrites(p) \/ Send(p) \/ SendFails(p)
           \/ \E c \in Conns : Connect(c) \/ QueueReplay(c) \/ FinishAttach(c) \/ Leave(c)
           \/ Emit \/ UNCHANGED vars
    PROVE  UNCHANGED Stream!vars
<1> USE Constants DEF IInv
<1>1. origin' = origin /\ got' = got
  BY DEF ShellWrites, Send, SendFails, Connect, QueueReplay, FinishAttach, Leave, Emit, vars,
         connVars
<1>2. \A p \in Panes : reader'[p].read = reader[p].read
  <2>1. reader \in [Panes -> ReaderThread]
    BY DEF Typed
  <2>2. ASSUME NEW q \in Panes, Send(q) \/ SendFails(q), NEW p \in Panes
        PROVE  reader'[p].read = reader[p].read
    <3>1. CASE Send(q)
      BY <2>1, <3>1 DEF Send, BackToReading, ReaderThread
    <3>2. CASE SendFails(q)
      BY <2>1, <3>2 DEF SendFails, ReaderThread
    <3> QED BY <2>2, <3>1, <3>2
  <2>3. CASE ~\E q \in Panes : Send(q) \/ SendFails(q)
    BY <2>3 DEF ShellWrites, Connect, QueueReplay, FinishAttach, Leave, Emit, vars
  <2> QED BY <2>2, <2>3
<1>3. Current' = Current
  <2>1. ASSUME NEW c \in Conns, FinishAttach(c) PROVE Current' = Current
    <3>1. hubLock = c /\ hubLock' = NoConn /\ client' = c /\ c # NoConn
      BY <2>1 DEF FinishAttach, Control
    <3> QED BY <3>1 DEF Current
  <2>2. CASE ~\E c \in Conns : FinishAttach(c)
    <3>1. client' = client /\ hubLock' = hubLock
      BY <2>2 DEF ShellWrites, Send, SendFails, Connect, QueueReplay, Leave, Emit, vars, hubVars
    <3> QED BY <3>1 DEF Current
  <2> QED BY <2>1, <2>2
<1>4. ASSUME NEW d \in Conns
      PROVE  /\ phase'[d] = "closed" <=> phase[d] = "closed"
             /\ Attached(d) => (phase'[d] = "detached" <=> phase[d] = "detached")
  <2>1. ASSUME NEW c \in Conns, Connect(c) \/ FinishAttach(c) \/ Leave(c)
        PROVE  /\ phase'[d] = "closed" <=> phase[d] = "closed"
               /\ Attached(d) => (phase'[d] = "detached" <=> phase[d] = "detached")
    <3>1. phase \in [Conns -> Phase]
      BY DEF Typed
    <3>2. CASE Connect(c)
      BY <3>1, <3>2 DEF Connect
    <3>3. CASE FinishAttach(c)
      BY <3>1, <3>3 DEF FinishAttach
    <3>4. CASE Leave(c)
      <4>1. Attached(c) => phase[c] # "open"
        BY DEF Begun
      <4> QED BY <3>1, <3>4, <4>1 DEF Leave
    <3> QED BY <2>1, <3>2, <3>3, <3>4
  <2>2. CASE ~\E c \in Conns : Connect(c) \/ FinishAttach(c) \/ Leave(c)
    <3>1. phase' = phase
      BY <2>2 DEF ShellWrites, Send, SendFails, QueueReplay, Emit, vars, connVars
    <3> QED BY <3>1
  <2> QED BY <2>1, <2>2
<1> QED BY <1>1, <1>2, <1>3, <1>4, Stutters

LEMMA StreamStep ==
    ASSUME IInv, IInv', [Next]_vars PROVE [Stream!Next]_(Stream!vars)
<1>1. ASSUME NEW p \in Panes, Read(p) PROVE Stream!Next
  BY <1>1, ReadProduces DEF Stream!Next
<1>2. ASSUME NEW c \in Conns, BeginAttach(c) \/ Detach(c) PROVE Stream!Next
  BY <1>2, AttachStep, DetachStep DEF Stream!Next
<1>3. ASSUME NEW c \in Conns, Drain(c) PROVE Stream!Next \/ UNCHANGED Stream!vars
  BY <1>3, DrainStep DEF Stream!Next
<1>4. ASSUME NEW c \in Conns, Close(c) PROVE Stream!Next \/ UNCHANGED Stream!vars
  BY <1>4, CloseStep DEF Stream!Next
<1>5. CASE \/ \E p \in Panes : ShellWrites(p) \/ Send(p) \/ SendFails(p)
           \/ \E c \in Conns : Connect(c) \/ QueueReplay(c) \/ FinishAttach(c) \/ Leave(c)
           \/ Emit \/ UNCHANGED vars
  BY <1>5, OtherStutters
<1> QED BY <1>1, <1>2, <1>3, <1>4, <1>5 DEF Next

\* To its clients the hub is the stream it promises: threads, lock, queue and
\* replay make no difference that a client could see.
THEOREM HubImplementsStream == Spec => ImplementsStream
<1>1. Init => Stream!Init
  BY StreamInit
<1>2. IInv /\ IInv' /\ [Next]_vars => [Stream!Next]_(Stream!vars)
  BY StreamStep
<1> QED BY <1>1, <1>2, Invariant, PTL DEF Spec, ImplementsStream, Stream!Spec
====
