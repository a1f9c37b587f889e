---- MODULE DirectoryReports ----
(***************************************************************************)
(* How the daemon learns the directory of a pane (CwdTracker in            *)
(* ade-daemon/src/windows.rs): the reader thread looks for the OSC 7       *)
(* sequence of the prompt in what it reads, and keeps what it has read in  *)
(* a buffer until there is one.                                            *)
(***************************************************************************)
EXTENDS ByteSearch

CONSTANTS Report,        \* "\x1b]7;"
          Uris,          \* texts that are a file URI
          Transcripts,   \* bound: what a shell may write, as sequences of bytes
          BufferLimit,   \* OSC_BUFFER_LIMIT
          LargestRead,   \* bound: bytes of one read
          NoReport

ASSUME DirectoryReportsAssumption ==
    /\ Report \in Seq(Bytes) \ {<<>>} /\ Uris \subseteq Seq(Letters)
    /\ Transcripts \subseteq Seq(Bytes) /\ {BufferLimit, LargestRead} \subseteq Nat \ {0}
    /\ NoReport \notin Uris

VARIABLES typed,     \* written by the shell and not yet read
          scanned,   \* history: what was read
          buffer,    \* CwdTracker.buffer
          reported,  \* the last directory given to set_pane_cwd
          missed     \* history: bytes were dropped that may belong to a report

reportVars == <<typed, scanned, buffer, reported, missed>>

InitReports ==
    /\ typed \in Transcripts /\ scanned = <<>> /\ buffer = <<>> /\ reported = NoReport
    /\ missed = FALSE

\* Where the text that begins a tail ends: before the first of both.
Ends7(tail) == Places(tail, <<Bell>>) \cup Places(tail, St)

\* Mutant: the first one counts.
ExtractedFirst(bytes) ==
    IF ~Has(bytes, Report) THEN NoReport
    ELSE LET tail == From(bytes, Find(bytes, Report) + Len(Report))
             uri  == SubSeq(tail, 1, Min(Ends7(tail)) - 1)
         IN  IF Ends7(tail) # {} /\ uri \in Uris THEN uri ELSE NoReport

\* extract_osc7_cwd: only the last sequence that has begun counts.
Extracted(bytes) ==
    IF ~Has(bytes, Report) THEN NoReport
    ELSE LET tail == From(bytes, Max(Places(bytes, Report)) + Len(Report))
             uri  == SubSeq(tail, 1, Min(Ends7(tail)) - 1)
         IN  IF Ends7(tail) # {} /\ uri \in Uris THEN uri ELSE NoReport

\* CwdTracker::process.  A report takes everything out of the buffer with it.
Scan(bytes) ==
    LET all   == buffer \o bytes
        held  == From(all, Max({1, Len(all) - BufferLimit + 1}))
        found == Extracted(held)
    IN  /\ buffer' = IF found = NoReport THEN held ELSE <<>>
        /\ reported' = IF found = NoReport THEN reported ELSE found
        /\ missed' = (missed \/ held # all
                             \/ (found # NoReport /\ PartialSuffix(held, Report) > 0))

ReadOutput ==
    \E n \in 1..LargestRead :
        /\ n <= Len(typed)
        /\ typed' = From(typed, n + 1)
        /\ scanned' = scanned \o SubSeq(typed, 1, n)
        /\ Scan(SubSeq(typed, 1, n))

----
(* Properties *)

\* The directories reported by a sequence that begins at this place of a text.
At(s, i) ==
    {u \in Uris : i + Len(Report) \in Places(s, u \o <<Bell>>) \cup Places(s, u \o St)}

Valid(s) == {i \in Places(s, Report) : At(s, i) # {}}

\* "The daemon parses OSC 7 sequences even when they are split across output
\* reads" (docs/features.md:300): when everything is read, the directory is that
\* of the last report, wherever the reads cut it.  There are three exceptions: a
\* sequence that has begun after it, or is no file URI, hides it; the limit drops
\* its first bytes; and so does an earlier report whose read ends in its prefix.
DirectoryFollows ==
    /\ Len(buffer) <= BufferLimit
    /\ typed = <<>> /\ Valid(scanned) # {} =>
        \/ reported \in At(scanned, Max(Valid(scanned)))
        \/ Max(Places(scanned, Report)) > Max(Valid(scanned))
        \/ missed
====
