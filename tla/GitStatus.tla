---- MODULE GitStatus ----
(***************************************************************************)
(* The Git status in the header of a terminal (TerminalPane in             *)
(* ade-app/src/main.rs).  A thread of its own runs git for each refresh,   *)
(* and nothing stops it when the shell changes its directory meanwhile.    *)
(***************************************************************************)
EXTENDS Subsequences

CONSTANTS GitDirs,      \* directories
          NoDir,
          MaxMoves      \* bound: changes of the directory

ASSUME GitAssumption == GitDirs # {} /\ NoDir \notin GitDirs /\ MaxMoves \in Nat

VARIABLES cwd,         \* TerminalPane.cwd
          gitShown,    \* git_status: the directory it describes, or NoDir
          gitAge,      \* git_last_refreshed: "never", "fresh" or "due"
          gitPending,  \* git_refresh_pending
          gitReading,  \* directories the running threads read, oldest first
          gitResults,  \* the channel git_results
          moves,       \* history: counted against MaxMoves
          gitLost      \* history: a thread could not be started

gitVars == <<cwd, gitShown, gitAge, gitPending, gitReading, gitResults, moves, gitLost>>

Results == [dir : GitDirs, status : GitDirs \cup {NoDir}]

TypeGit ==
    /\ cwd \in GitDirs /\ gitShown \in GitDirs \cup {NoDir}
    /\ gitAge \in {"never", "fresh", "due"}
    /\ {gitPending, gitLost} \subseteq BOOLEAN
    /\ gitReading \in Seq(GitDirs) /\ gitResults \in Seq(Results)
    /\ moves \in 0..MaxMoves

\* TerminalPane::new
InitGit ==
    /\ cwd = (CHOOSE d \in GitDirs : TRUE) /\ gitShown = NoDir
    /\ gitAge = "never" /\ gitPending = FALSE
    /\ gitReading = <<>> /\ gitResults = <<>> /\ moves = 0
    /\ gitLost = FALSE

\* Mutant: the pending flag survives the change.
UpdateMetadataPending(d) ==
    /\ cwd' = d /\ gitShown' = NoDir /\ gitAge' = "never"
    /\ UNCHANGED gitPending

\* update_metadata for another directory.
UpdateMetadata(d) ==
    /\ cwd' = d /\ gitShown' = NoDir /\ gitAge' = "never" /\ gitPending' = FALSE

ChangeDirectory ==
    /\ moves < MaxMoves /\ moves' = moves + 1
    /\ \E d \in GitDirs \ {cwd} : UpdateMetadata(d)
    /\ UNCHANGED <<gitReading, gitResults, gitLost>>

\* Mutant: the results of threads that read another directory count too.
ArrivedAny == gitResults

\* The results for the present directory.
Arrived == Among(gitResults, {r \in Results : r.dir = cwd})

\* refresh_git_status, whenever the pane is drawn: the results first, then
\* perhaps another thread.  A thread that could not be started leaves the flag.
DrawGit ==
    LET got == Arrived # <<>>
        pendingNow == gitPending /\ ~got
        due == ~got /\ gitAge # "fresh"
    IN  /\ gitResults' = <<>>
        /\ gitAge' = IF got THEN "fresh" ELSE gitAge
        /\ gitShown' = IF got THEN Arrived[Len(Arrived)].status ELSE gitShown
        /\ gitPending' = (pendingNow \/ due)
        /\ \/ (pendingNow \/ ~due)
              /\ UNCHANGED <<gitReading, gitLost>>
           \/ ~pendingNow /\ due
              /\ gitReading' = Append(gitReading, cwd) /\ UNCHANGED gitLost
           \/ ~pendingNow /\ due
              /\ gitLost' = TRUE /\ UNCHANGED gitReading
        /\ UNCHANGED <<cwd, moves>>

\* A thread is done: read_git_status gave a status, or None when git failed or
\* there is no repository.
ThreadSends ==
    \E i \in DOMAIN gitReading, repository \in BOOLEAN :
        /\ gitResults' = Append(gitResults, [dir |-> gitReading[i],
                                             status |-> IF repository THEN gitReading[i] ELSE NoDir])
        /\ gitReading' = SubSeq(gitReading, 1, i - 1) \o SubSeq(gitReading, i + 1, Len(gitReading))
        /\ UNCHANGED <<cwd, gitShown, gitAge, gitPending, moves, gitLost>>

\* GIT_REFRESH_INTERVAL passes.
GitIntervalPasses ==
    /\ gitAge = "fresh" /\ gitAge' = "due"
    /\ UNCHANGED <<cwd, gitShown, gitPending, gitReading, gitResults, moves, gitLost>>

NextGit == ChangeDirectory \/ DrawGit \/ ThreadSends \/ GitIntervalPasses

----
(* Properties *)

\* docs/features.md section 5.3, "checks the current directory": whichever
\* threads answer late and in which order, the header never shows the status of
\* another one.
StatusOfHere == TypeGit /\ gitShown \in {cwd, NoDir}
====
