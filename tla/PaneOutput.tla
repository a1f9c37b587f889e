---- MODULE PaneOutput ----
(***************************************************************************)
(* What a terminal of the application does with the bytes it is sent       *)
(* (TerminalPane in ade-app/src/main.rs): it takes out the sequences that  *)
(* carry a recent command or a clipboard text, holds back frames of        *)
(* synchronized output until they are whole, too long or too old, and      *)
(* gives the rest to the parser.                                           *)
(*                                                                         *)
(* Begin, End, Command and Clip stand for the escape sequences, and the    *)
(* values of those two are base64 texts of Letters.  What a shell writes   *)
(* is fixed at first; reads cut it anywhere.                               *)
(***************************************************************************)
EXTENDS ByteSearch, SequencesExt

CONSTANTS Begin, End,      \* SYNCHRONIZED_OUTPUT_BEGIN and _END
          Command, Clip,   \* RECENT_COMMAND_OSC_PREFIX, and that of OSC 52
          Streams,         \* bound: what a shell may write, as sequences of bytes
          FrameLimit,      \* SYNCHRONIZED_OUTPUT_LIMIT
          NoCommand,
          MaxRead          \* bound: bytes of one chunk

\* All of them start with the same byte, which no marker of a frame contains a
\* second time.
ASSUME PaneOutputAssumption ==
    /\ {Begin, End, Command, Clip} \subseteq {s \in Seq(Bytes) : Len(s) >= 2 /\ s[1] = Begin[1]}
    /\ \A k \in 2..Len(Begin) : Begin[1] \notin {Begin[k], End[k]}
    /\ Len(End) = Len(Begin) /\ End # Begin /\ Begin[2] \notin {Command[2], Clip[2]}
    /\ Streams \subseteq Seq(Bytes) /\ FrameLimit \in Nat /\ MaxRead \in Nat \ {0}

VARIABLES wire,      \* written and not yet read
          read,      \* history: what was read
          pending,   \* TerminalPane.pending_output
          since,     \* how long a frame has been open: "none", "fresh", "expired"
          shown,     \* what the parser was given
          recent,    \* TerminalPane.recent_command
          torn       \* history: the frame on the screen was cut

outputVars == <<wire, read, pending, since, shown, recent, torn>>

TypeOutput ==
    /\ {wire, read, pending, shown} \subseteq Seq(Bytes)
    /\ since \in {"none", "fresh", "expired"}
    /\ recent \in Seq(Letters) \cup {NoCommand}
    /\ torn \in BOOLEAN

InitOutput ==
    /\ wire \in Streams /\ read = <<>> /\ pending = <<>> /\ shown = <<>>
    /\ since = "none" /\ recent = NoCommand /\ torn = FALSE

----
(* The sequences that are taken out *)

\* What ends the sequence whose value starts with rest: a bell anywhere, and
\* only if there is none an escape sequence.
Terminator(rest) == IF Has(rest, <<Bell>>) THEN <<Bell>> ELSE St

\* Mutant: a sequence is taken to end with one byte.
TakeOutShort(s, prefix) ==
    LET start == Find(s, prefix)
        rest  == From(s, start + Len(prefix))
        end   == Find(rest, Terminator(rest))
    IN  [value |-> SubSeq(rest, 1, end - 1), left |-> SubSeq(s, 1, start - 1) \o From(rest, end + 1)]

\* The first sequence with this prefix, if it is complete.
TakeOut(s, prefix) ==
    LET start == Find(s, prefix)
        rest  == From(s, start + Len(prefix))
        end   == Find(rest, Terminator(rest))
    IN  [value |-> SubSeq(rest, 1, end - 1),
         left  |-> SubSeq(s, 1, start - 1) \o From(rest, end + Len(Terminator(rest)))]

IsComplete(s, prefix) ==
    /\ Has(s, prefix)
    /\ LET rest == From(s, Find(s, prefix) + Len(prefix)) IN Has(rest, Terminator(rest))

\* One round of the loop of both handlers; the return is a round that changes
\* nothing.
TakeOutOnce(r, prefix) ==
    IF ~IsComplete(r.bytes, prefix) THEN r
    ELSE LET t == TakeOut(r.bytes, prefix) IN
         [bytes |-> t.left,
          last  |-> IF t.value # <<>> /\ t.value \in Seq(Letters) THEN t.value ELSE r.last]

\* Each round before the return shortens the bytes.
TakeOutAll(s, prefix, last) ==
    LET round[n \in Nat] ==
            IF n = 0 THEN [bytes |-> s, last |-> last] ELSE TakeOutOnce(round[n - 1], prefix)
    IN  round[Len(s)]

----
(* process_complete_output_frames *)

\* The first n bytes are given to the parser.
Give(r, n) == [r EXCEPT !.shown = @ \o SubSeq(r.pending, 1, n), !.pending = From(@, n + 1)]

\* Mutant: the timeout is forgotten.
OverdueLong(r) == Len(r.pending) >= FrameLimit

\* Mutant: the limit is forgotten.
OverdueOld(r) == r.since = "expired"

Overdue(r) == Len(r.pending) >= FrameLimit \/ r.since = "expired"

\* One round of the loop; the return is a round that changes nothing.
Round(r) ==
    CASE r.since = "none" /\ Has(r.pending, Begin) ->
            [Give(r, Find(r.pending, Begin) - 1) EXCEPT !.since = "fresh"]
      [] r.since = "none" /\ ~Has(r.pending, Begin) ->
            Give(r, Len(r.pending) - PartialSuffix(r.pending, Begin))
      [] r.since # "none" /\ Has(r.pending, End) ->
            [Give(r, Find(r.pending, End) + Len(End) - 1) EXCEPT !.since = "none"]
      [] r.since # "none" /\ ~Has(r.pending, End) /\ Overdue(r) ->
            [Give(r, Len(r.pending)) EXCEPT !.since = "none", !.torn = TRUE]
      [] OTHER -> r

\* Two rounds take a byte away at least, so this reaches the return.
Rounds(r) ==
    LET round[n \in Nat] == IF n = 0 THEN r ELSE Round(round[n - 1])
    IN  round[2 * Len(r.pending) + 2]

\* Is the last frame that begins on the screen without its end there?
InFrame(s) ==
    Has(s, Begin) /\ (Has(s, End) => Max(Places(s, Begin)) > Max(Places(s, End)))

\* The whole function, on the bytes that are pending with those that arrived.
Process(bytes) ==
    LET cleared == TakeOutAll(bytes, Clip, NoCommand).bytes
        taken   == TakeOutAll(cleared, Command, recent)
        r       == Rounds([pending |-> taken.bytes, since |-> since, shown |-> shown, torn |-> torn])
    IN  /\ pending' = r.pending /\ since' = r.since /\ shown' = r.shown
        /\ recent' = taken.last
        /\ torn' = (r.torn /\ InFrame(r.shown))

----
(* Actions *)

\* process_output: a chunk of any length arrives.
ProcessOutput ==
    \E n \in 1..MaxRead :
        /\ n <= Len(wire)
        /\ Process(pending \o SubSeq(wire, 1, n))
        /\ read' = read \o SubSeq(wire, 1, n)
        /\ wire' = From(wire, n + 1)

\* SYNCHRONIZED_OUTPUT_TIMEOUT passes.
Expire ==
    /\ since = "fresh"
    /\ since' = "expired"
    /\ UNCHANGED <<wire, read, pending, shown, recent, torn>>

\* flush_expired_synchronized_output, when the pane is drawn: only while its
\* workspace is the active one, so this may take any time.
FlushExpired ==
    /\ since = "expired"
    /\ Process(pending)
    /\ UNCHANGED <<wire, read>>

NextOutput == ProcessOutput \/ Expire \/ FlushExpired

----
(* Properties *)

\* A sequence, from its prefix to the first thing that ends it.
IsSequence(q) ==
    \E prefix \in {Command, Clip}, end \in {<<Bell>>, St} :
        LET value == SubSeq(q, Len(prefix) + 1, Len(q) - Len(end))
        IN  q = prefix \o value \o end /\ ~Has(value, <<Bell>>) /\ ~Has(value, end)

\* What is left of s without one complete sequence.
Without(s) ==
    UNION {{SubSeq(s, 1, i - 1) \o From(s, j + 1) : j \in {k \in i..Len(s) : IsSequence(SubSeq(s, i, k))}} :
              i \in 1..Len(s)}

\* s is what is left of r without some sequences, each complete when it is
\* taken out.
Explained(r, s) ==
    LET left[n \in Nat] == IF n = 0 THEN {r} ELSE UNION {Without(t) : t \in left[n - 1]}
    IN  \E n \in 0..(Len(r) - Len(s)) : s \in left[n]

\* docs/architecture.md, "never discarded": however the output is cut into
\* chunks, the parser gets every byte once and in order, except the sequences
\* that are taken out from their prefix to a terminator.
NothingLost == Explained(read, shown \o pending)

\* Something stops within the first bytes of Begin and goes on with an escape
\* sequence.  If that one is taken out, what follows it may complete Begin on the
\* screen.
Interrupted(r) == \E n \in 1..(Len(Begin) - 1) : Has(r, SubSeq(Begin, 1, n) \o <<Begin[1]>>)

\* docs/features.md section 4.1, "committed atomically": the screen never ends
\* inside a frame, wherever the bytes of its markers were cut, unless this
\* frame grew too long or too old.
FramesWhole == InFrame(shown) => torn \/ Interrupted(read)

\* Nothing else is held back: outside of a frame less than a marker, inside of
\* one its bytes, up to the limit and without its end.  And "a bounded timeout
\* for malformed or interrupted streams": what arrives after the timeout ends
\* the old frame.
HeldBack ==
    /\ []TypeOutput
    /\ [](IF since = "none" THEN Len(pending) < Len(Begin) /\ pending = SubSeq(Begin, 1, Len(pending))
          ELSE /\ SubSeq(pending, 1, Len(Begin)) = Begin /\ ~Has(pending, End)
               /\ Len(pending) < FrameLimit)
    /\ [][since = "expired" /\ read' # read => since' # "expired"]_outputVars
====
