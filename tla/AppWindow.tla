---- MODULE AppWindow ----
(***************************************************************************)
(* The parts of the application's window that answer to nothing but the    *)
(* user, the clock and their own threads: the output of a terminal, its    *)
(* Git status, updates, the tools of the title bar, the dialogs, the       *)
(* selection in a terminal, the usage Codex reports, the directories a     *)
(* shell reports, and the connection to the daemon.  They share no state,  *)
(* so a step of one commutes with every step of another: a behaviour moves *)
(* one of them, and the others stay as they are at first.                  *)
(***************************************************************************)
EXTENDS PaneOutput, GitStatus, Updates, HeaderTools, Dialogs, Connection, Selection,
        DirectoryReports, CodexUsage

VARIABLE part  \* the one that moves

windowVars == <<outputVars, gitVars, updateVars, toolVars, dialogVars, linkVars, markVars, reportVars,
                usageVars, part>>

Parts == {"output", "git", "updates", "todos", "timer", "keys", "marks", "link", "reports", "usage"}

WindowInit ==
    /\ part \in Parts
    /\ part # "output" => wire = (CHOOSE s \in Streams : TRUE)
    /\ part # "updates" => worker = "none"
    /\ part # "link" => peer = "window" /\ sameVersion = TRUE
    /\ part # "reports" => typed = (CHOOSE t \in Transcripts : TRUE)
    /\ part # "usage" => poll = "idle"
    /\ part # "marks" => grid = (CHOOSE g \in GridSizes : TRUE)
    /\ InitOutput /\ InitGit /\ InitUpdates /\ InitTools /\ InitDialogs /\ InitLink /\ InitSelection
    /\ InitReports /\ InitUsage

WindowNext ==
    \/ /\ part = "output" /\ NextOutput
       /\ UNCHANGED <<gitVars, updateVars, toolVars, dialogVars, linkVars, markVars, reportVars, usageVars, part>>
    \/ /\ part = "git" /\ NextGit
       /\ UNCHANGED <<outputVars, updateVars, toolVars, dialogVars, linkVars, markVars, reportVars, usageVars, part>>
    \/ /\ part = "updates" /\ NextUpdates
       /\ UNCHANGED <<outputVars, gitVars, toolVars, dialogVars, linkVars, markVars, reportVars, usageVars, part>>
    \/ /\ part \in {"todos", "timer"} /\ WindowStep
       /\ UNCHANGED <<outputVars, gitVars, updateVars, dialogVars, linkVars, markVars, reportVars, usageVars, part>>
    \/ /\ part = "todos" /\ TodoStep
       /\ UNCHANGED <<outputVars, gitVars, updateVars, dialogVars, linkVars, markVars, reportVars, usageVars, part>>
    \/ /\ part = "timer" /\ TimerStep
       /\ UNCHANGED <<outputVars, gitVars, updateVars, dialogVars, linkVars, markVars, reportVars, usageVars, part>>
    \/ /\ part = "keys" /\ NextDialogs
       /\ UNCHANGED <<outputVars, gitVars, updateVars, toolVars, linkVars, markVars, reportVars, usageVars, part>>
    \/ /\ part = "link" /\ NextLink
       /\ UNCHANGED <<outputVars, gitVars, updateVars, toolVars, dialogVars, markVars, reportVars, usageVars, part>>
    \/ /\ part = "marks" /\ NextSelection
       /\ UNCHANGED <<outputVars, gitVars, updateVars, toolVars, dialogVars, linkVars, reportVars, usageVars, part>>
    \/ /\ part = "reports" /\ ReadOutput
       /\ UNCHANGED <<outputVars, gitVars, updateVars, toolVars, dialogVars, linkVars, markVars, usageVars, part>>
    \/ /\ part = "usage" /\ NextUsage
       /\ UNCHANGED <<outputVars, gitVars, updateVars, toolVars, dialogVars, linkVars, markVars, reportVars,
                      part>>

\* Fairness for the parts that promise something, each while it is the one that
\* moves.  AdeApp::ui asks for a frame every GIT_REFRESH_INTERVAL, git ends, and
\* so do both calls of self_update; both threads of a connection run, but a
\* session need not take its input; the thread that asks Codex runs and asks for
\* a frame, but Codex need not answer.
WindowSpec ==
    /\ WindowInit /\ [][WindowNext]_windowVars
    /\ WF_gitVars(part = "git" /\ DrawGit) /\ WF_gitVars(part = "git" /\ ThreadSends)
    /\ WF_updateVars(part = "updates" /\ FrameUpdates)
    /\ WF_updateVars(part = "updates" /\ CheckEnds)
    /\ WF_updateVars(part = "updates" /\ InstallEnds)
    /\ WF_updateVars(part = "updates" /\ IdlePasses)
    /\ WF_usageVars(part = "usage" /\ (BeginPoll \/ ReadLine \/ ReadEnd))
    /\ WF_usageVars(part = "usage" /\ DrawUsage)
    /\ WF_linkVars(part = "link" /\ Thread("app"))
    /\ WF_linkVars(part = "link" /\ (Thread("daemon") \/ Reply \/ ReplyAttached \/ Replay))

----
(* Properties *)

\* What the header and the title bar say is never about another directory and
\* never older than what Codex told last.
HeaderTells == StatusOfHere /\ UsageAsTold

\* What a thread of the window is to find out or to do gets done: a result for
\* the directory arrives after every change, unless a thread could not be started
\* (docs/features.md section 5.3, "about every 1.5 seconds"); the title bar learns
\* what Codex reports or that it reports nothing, unless Codex stays silent; and
\* when the user stays away no update remains to be installed.
ThreadsSettle ==
    /\ (part = "git" /\ gitAge = "never") ~> (gitAge # "never" \/ gitLost)
    /\ part = "usage" => UsageArrives
    /\ UpdateSettles

\* "Keep request handling responsive even while a process continuously produces
\* output" (ade-daemon/src/windows.rs:339), and the other way round: the oldest
\* frame of each end is read, however much the other one has to say, until the
\* connection ends.  The exceptions are the three ways in which a single
\* connection's client_loop waits for ever: both ends write to each other more
\* than the buffers hold, the replay of an attach is longer than the queue, and a
\* session never takes the input that was sent to it (InputAccepted of
\* PaneSession says when).
BothAreHeard ==
    \A e \in Ends : \A n \in Numbers :
        (part = "link" /\ OnTheWay(e) /\ received[e] = n)
            ~> \/ received[e] # n \/ at[Other(e)] = "gone" \/ ~OnTheWay(e)
               \/ WriteToEachOther \/ WaitsForItself \/ [](at["daemon"] = "sending")
====
