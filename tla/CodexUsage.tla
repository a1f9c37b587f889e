---- MODULE CodexUsage ----
(***************************************************************************)
(* The Codex usage in the title bar (ade-app/src/main.rs): a thread asks a *)
(* `codex app-server` of its own for the account's limits every 20 seconds *)
(* and reads line after line until the answer, the frames show what it     *)
(* found.  The app-server is the environment: it may answer, refuse, write *)
(* something nobody asked for, die, or stay silent.                        *)
(***************************************************************************)
EXTENDS Subsequences, FiniteSetsExt

CONSTANTS Answers,     \* results of account/rateLimits/read: their buckets
          NoLimits,    \* a bucket that is not there
          NoWindow,    \* a window that is not there, or has no usedPercent
          MaxPolls,    \* bound: polls in an instance
          MaxLines     \* bound: lines of one app-server

\* A bucket: the percentage used in each of its windows.
Limits == [primary : Nat \cup {NoWindow}, secondary : Nat \cup {NoWindow}]

ASSUME UsageAssumption ==
    /\ Answers # {} /\ Answers \subseteq [own : Limits \cup {NoLimits}, codex : Limits \cup {NoLimits},
                                       other : Limits \cup {NoLimits}]
    /\ NoLimits \notin Limits /\ NoWindow \notin Nat
    /\ {MaxPolls, MaxLines} \subseteq Nat

VARIABLES poll,         \* the thread: "idle", "greeting", "asking" or "ended"
          child,        \* the app-server: "none", "up" or "dead"
          unread,       \* its lines the thread has not read
          found,        \* the channel results
          usage,        \* CodexUsageMonitor.snapshot
          unavailable,  \* CodexUsageMonitor.unavailable
          written,      \* history: the lines of the present app-server
          before        \* history: what each of the earlier ones let know, oldest first

usageVars == <<poll, child, unread, found, usage, unavailable, written, before>>

\* A line: the id it answers, NotAsked for a notification, and what it says.
NotAsked == -1
Plain == {[id |-> NotAsked, is |-> "notice"], [id |-> NotAsked, is |-> "garbled"]}
        \cup [id : {0, 1}, is : {"error", "nothing"}]
Limited == {[id |-> 1, is |-> "limits", limits |-> a] : a \in Answers}
Lines == Plain \cup Limited

Windows(limits) == {limits.primary, limits.secondary} \ {NoWindow}

\* parse_codex_usage_snapshot.  The plain bucket must be there even where it is
\* not the one that counts.
Clamped(percent) == IF percent = NoWindow \/ percent <= 100 THEN percent ELSE 100

Bucket(a) == IF a.codex # NoLimits THEN a.codex
             ELSE IF a.other # NoLimits THEN a.other ELSE a.own

Parsed(a) ==
    IF a.own = NoLimits \/ Windows(Bucket(a)) = {} THEN NoLimits
    ELSE [primary   |-> Clamped(Bucket(a).primary),
          secondary |-> Clamped(Bucket(a).secondary)]

\* minimum_codex_remaining_percent: with saturating_sub, in u8.
Remaining(limits) == Min({100 - percent : percent \in Windows(limits)})

Outcomes == {NoLimits} \cup {Parsed(a) : a \in Answers}

TypeUsage ==
    /\ poll \in {"idle", "greeting", "asking", "ended"} /\ child \in {"none", "up", "dead"}
    /\ {unread, written} \subseteq Seq(Lines)
    /\ {found, before} \subseteq Seq(Outcomes) /\ usage \in Outcomes
    /\ unavailable \in BOOLEAN

\* CodexUsageMonitor::new: without a thread there will never be a result.
InitUsage ==
    /\ poll \in {"idle", "ended"} /\ unavailable = (poll = "ended")
    /\ child = "none" /\ usage = NoLimits
    /\ unread = <<>> /\ found = <<>> /\ written = <<>> /\ before = <<>>

----
(* The thread *)

\* What an app-server let its reader know: the limits of its answer, unless it
\* refused something or wrote something garbled first.
LetKnow(lines) ==
    LET good == {i \in DOMAIN lines : /\ lines[i].is = "limits"
                                      /\ \A j \in 1..i : lines[j].is \notin {"garbled", "error"}}
    IN  IF good = {} THEN NoLimits ELSE Parsed(lines[Min(good)].limits)

\* poll_codex_usage is over: the child is killed, whatever it still says, and
\* the result sent.  NoLimits stands for an error.
PollEnds(result) ==
    /\ poll' = "idle" /\ child' = "none"
    /\ found' = Append(found, result)
    /\ before' = Append(before, LetKnow(written))
    /\ unread' = <<>> /\ written' = <<>>

\* The first poll, or CODEX_USAGE_REFRESH_INTERVAL is over.  There may be no
\* executable; otherwise it is started and sent `initialize`.
BeginPoll ==
    /\ poll = "idle" /\ Len(before) < MaxPolls
    /\ \/ PollEnds(NoLimits)
       \/ /\ poll' = "greeting" /\ child' = "up"
          /\ UNCHANGED <<unread, written, before, found>>
    /\ UNCHANGED <<usage, unavailable>>

Expected == IF poll = "greeting" THEN 0 ELSE 1

\* Mutant: the next line is the answer, whatever it answers.
AnswersAny(line) == TRUE

\* read_codex_response skips what does not bear the id it waits for.
AnswersIt(line) == line.id = Expected

\* `initialized` and the question are sent: not to a process that is gone.
Ask ==
    IF child = "dead" THEN PollEnds(NoLimits)
    ELSE poll' = "asking" /\ unread' = Tail(unread) /\ UNCHANGED <<child, written, before, found>>

\* read_codex_response, a line.
ReadLine ==
    /\ poll \in {"greeting", "asking"} /\ unread # <<>>
    /\ LET line == Head(unread)
       IN  \/ line.is = "garbled" /\ PollEnds(NoLimits)
           \/ /\ line.is # "garbled" /\ ~AnswersIt(line)
              /\ unread' = Tail(unread)
              /\ UNCHANGED <<poll, child, written, before, found>>
           \/ /\ line.is # "garbled" /\ AnswersIt(line)
              /\ IF line.is = "error" THEN PollEnds(NoLimits)
                 ELSE IF poll = "greeting" THEN Ask
                 ELSE PollEnds(IF line.is = "limits" THEN Parsed(line.limits) ELSE NoLimits)
    /\ UNCHANGED <<usage, unavailable>>

\* read_codex_response: the end of the output is an error.
ReadEnd ==
    /\ poll \in {"greeting", "asking"} /\ unread = <<>> /\ child = "dead"
    /\ PollEnds(NoLimits)
    /\ UNCHANGED <<usage, unavailable>>

----
(* The app-server, and a frame *)

\* It may answer what it was asked, once, and add what it likes.
CodexWrites ==
    /\ child = "up" /\ Len(written) < MaxLines
    /\ \E line \in Lines :
          /\ line.id # NotAsked => /\ line.id <= Expected
                                   /\ \A i \in DOMAIN written : written[i].id # line.id
          /\ unread' = Append(unread, line) /\ written' = Append(written, line)
    /\ UNCHANGED <<poll, child, found, usage, unavailable, before>>

CodexDies ==
    /\ child = "up" /\ child' = "dead"
    /\ UNCHANGED <<poll, unread, found, usage, unavailable, written, before>>

\* CodexUsageMonitor::drain: an error leaves the last snapshot.
DrawUsage ==
    LET good == Among(found, Outcomes \ {NoLimits})
    IN  /\ found # <<>> /\ found' = <<>>
        /\ usage' = IF good = <<>> THEN usage ELSE good[Len(good)]
        /\ unavailable' = (found[Len(found)] = NoLimits)
        /\ UNCHANGED <<poll, child, unread, written, before>>

NextUsage == BeginPoll \/ ReadLine \/ ReadEnd \/ CodexWrites \/ CodexDies \/ DrawUsage

----
(* Properties *)

\* "Live" or "Reconnecting, showing last update" (show_codex_usage_footer): once
\* the results are drained, the panel has the limits of the last app-server
\* that let the reader know any, however much else it wrote and whatever became
\* of the later ones, and it is live exactly if that was the last one.  What is
\* left is a percentage.
UsageAsTold ==
    /\ TypeUsage
    /\ usage # NoLimits => Remaining(usage) \in 0..100
    /\ found = <<>> /\ before # <<>> =>
          LET told == {i \in DOMAIN before : before[i] # NoLimits}
          IN  /\ usage = IF told = {} THEN NoLimits ELSE before[Max(told)]
              /\ unavailable <=> Len(before) \notin told

\* "Connecting to Codex": neither limits nor the notice that there are none.
Connecting == usage = NoLimits /\ ~unavailable

\* The app-server is up and silent.
Silent == child = "up" /\ unread = <<>>

\* Nothing but a silent app-server, for which there is no timeout, keeps the
\* title bar without an answer.
UsageArrives == Connecting ~> (~Connecting \/ []Silent)
====
