---- MODULE Updates ----
(***************************************************************************)
(* How the application updates itself (AdeApp in ade-app/src/main.rs): a   *)
(* thread looks for a release when the window opens, a notice offers it,   *)
(* and another thread installs it, at once or when the user is away.  The  *)
(* version is one value: a window looks once.                              *)
(***************************************************************************)
EXTENDS Naturals, Sequences

CONSTANTS MaxInstalls  \* bound: installations in an instance

ASSUME UpdatesAssumption == MaxInstalls \in Nat

VARIABLES app,        \* see AppRecord
          worker,     \* what a thread is at: "none", "check" or "install"
          results,    \* the channel update_results
          away,       \* is the last activity UPDATE_IDLE_DURATION ago?
          gone,       \* history: the user has left for good
          staged,     \* history: an installation has replaced the executable
          asked,      \* history: the user's last answer, "none", "now" or "later"
          installs    \* history: counted against MaxInstalls

updateVars == <<app, worker, results, away, gone, staged, asked, installs>>

\* AdeApp's fields: update_state, its restart_after, deferred_update is Some,
\* and shutdown_requested as restart_after_update sets it.
AppRecord == [state : {"Idle", "Checking", "Available", "Installing"},
              restartAfter : BOOLEAN, deferred : BOOLEAN, restarting : BOOLEAN]

Events == {"CheckComplete", "CheckCompleteNone", "Installed", "Failed"}

TypeUpdates ==
    /\ app \in AppRecord
    /\ worker \in {"none", "check", "install"}
    /\ results \in Seq(Events) /\ Len(results) <= 1
    /\ {away, gone, staged} \subseteq BOOLEAN
    /\ asked \in {"none", "now", "later"} /\ installs \in 0..MaxInstalls

\* AdeApp::new.  Only an official build looks for a release, if the thread starts.
InitUpdates ==
    /\ \/ app = [state |-> "Checking", restartAfter |-> FALSE, deferred |-> FALSE, restarting |-> FALSE]
          /\ worker = "check"
       \/ app = [state |-> "Idle", restartAfter |-> FALSE, deferred |-> FALSE, restarting |-> FALSE]
          /\ worker = "none"
    /\ results = <<>> /\ away = FALSE /\ gone = FALSE /\ staged = FALSE
    /\ asked = "none" /\ installs = 0

----
(* The parts of a frame *)

\* Mutant: every installation restarts the window.
DrainAlwaysRestart(a, event, launched) ==
    CASE event = "CheckComplete"     -> [a EXCEPT !.state = "Available"]
      [] event = "CheckCompleteNone" -> [a EXCEPT !.state = "Idle"]
      [] event = "Failed"            -> [a EXCEPT !.state = IF @ = "Installing" THEN "Available" ELSE "Idle"]
      [] event = "Installed"         ->
            [a EXCEPT !.deferred = FALSE, !.state = IF launched THEN "Idle" ELSE "Available",
                      !.restarting = launched]

\* drain_update_results, for one event; launched tells whether
\* restart_after_update, when it is called, could start the new window.
DrainUpdateResult(a, event, launched) ==
    CASE event = "CheckComplete"     -> [a EXCEPT !.state = "Available"]
      [] event = "CheckCompleteNone" -> [a EXCEPT !.state = "Idle"]
      [] event = "Failed"            -> [a EXCEPT !.state = IF @ = "Installing" THEN "Available" ELSE "Idle"]
      [] event = "Installed"         ->
            LET restart == a.state = "Installing" /\ a.restartAfter
            IN  [a EXCEPT !.deferred = FALSE,
                          !.state = IF restart /\ ~launched THEN "Available" ELSE "Idle",
                          !.restarting = restart /\ launched]

Drained(launched) == IF results = <<>> THEN app ELSE DrainUpdateResult(app, Head(results), launched)

\* start_update, when the thread starts and when it does not.
Started(a, restart, spawned) ==
    [a EXCEPT !.state = IF spawned THEN "Installing" ELSE "Available",
              !.restartAfter = restart, !.deferred = FALSE]

\* start_deferred_update_if_idle: is it time?
Due(a, idle) == a.state = "Idle" /\ a.deferred /\ idle

\* Mutant: the notice stays.
PostponedOpen(a) == [a EXCEPT !.deferred = TRUE]

\* "Later" in show_update_notice.
Postponed(a) == [a EXCEPT !.deferred = TRUE, !.state = "Idle"]

Install(a, restart) ==
    \E spawned \in BOOLEAN :
        /\ app' = Started(a, restart, spawned)
        /\ worker' = IF spawned THEN "install" ELSE worker
        /\ installs < MaxInstalls /\ installs' = installs + 1

----
(* Actions *)

\* AdeApp::ui: note_user_activity, drain_update_results,
\* start_deferred_update_if_idle and show_update_notice, in this order.  A click
\* is an activity.
FrameUpdates ==
    \E active \in {FALSE, ~gone}, launched \in BOOLEAN, click \in {"none", "now", "later"} :
        LET drained == Drained(launched)
            idle    == away /\ ~active
        IN  /\ ~app.restarting
            /\ results' = <<>>
            /\ away' = (idle /\ click # "later")
            /\ asked' = IF click = "none" THEN asked ELSE click
            /\ IF Due(drained, idle)
               THEN click = "none" /\ Install(drained, FALSE)
               ELSE \/ /\ click = "none"
                       /\ app' = drained
                       /\ UNCHANGED <<worker, installs>>
                    \/ /\ click = "now" /\ active /\ drained.state = "Available"
                       /\ Install(drained, TRUE)
                    \/ /\ click = "later" /\ active /\ drained.state = "Available"
                       /\ app' = Postponed(drained)
                       /\ UNCHANGED <<worker, installs>>
            /\ UNCHANGED <<gone, staged>>

\* check_latest_release ends.
CheckEnds ==
    /\ worker = "check" /\ worker' = "none"
    /\ \E event \in Events \ {"Installed"} : results' = Append(results, event)
    /\ UNCHANGED <<app, away, gone, staged, asked, installs>>

\* install_release ends.
InstallEnds ==
    /\ worker = "install" /\ worker' = "none"
    /\ \E event \in {"Installed", "Failed"} :
          /\ results' = Append(results, event)
          /\ staged' = (staged \/ event = "Installed")
    /\ UNCHANGED <<app, away, gone, asked, installs>>

\* UPDATE_IDLE_DURATION passes without input.
IdlePasses ==
    /\ ~away /\ away' = TRUE
    /\ UNCHANGED <<app, worker, results, gone, staged, asked, installs>>

UserLeaves ==
    /\ ~gone /\ gone' = TRUE
    /\ UNCHANGED <<app, worker, results, away, staged, asked, installs>>

NextUpdates == FrameUpdates \/ CheckEnds \/ InstallEnds \/ IdlePasses \/ UserLeaves

----
(* Properties *)

\* docs/features.md section 14: only "Update and restart" reopens the window,
\* and only once the new executable is in place.
RestartsWhenAsked == TypeUpdates /\ (app.restarting => asked = "now" /\ staged)

\* "Deferred updates install in the background after five minutes without
\* keyboard or pointer activity": when the user stays away nothing remains to be
\* done; what is not installed is on offer.
UpdateSettles ==
    gone ~> (\/ app.state \in {"Idle", "Available"} /\ ~app.deferred
             \/ app.restarting \/ installs = MaxInstalls)
====
