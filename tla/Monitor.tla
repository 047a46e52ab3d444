------------------------------ MODULE Monitor -------------------------------
(***************************************************************************)
(* ncollectdmon: it forks ncollectd, waits for it in waitpid, and starts   *)
(* it again when it has terminated.  SIGINT and SIGTERM end the monitor,   *)
(* SIGHUP restarts the daemon.  The signal handlers only set flags, which  *)
(* the monitor looks at when a signal interrupts waitpid.                  *)
(*                                                                         *)
(* The model begins once the handlers are installed.  Time is relative:    *)
(* the age of an instant is how long ago it was.                           *)
(***************************************************************************)
EXTENDS Naturals

CONSTANTS
  Window,   \* 120: deaths this close together are counted
  Limit,    \* 10: so many of them disable the respawning
  Pause     \* 300: for so long

ASSUME RespawnAssumption ==
  /\ Window \in Nat /\ Limit \in Nat \ {0} /\ Pause \in Nat
  /\ Pause > Window

VARIABLES
  loop,      \* loop # 0: SIGINT or SIGTERM has arrived
  restart,   \* restart # 0: SIGHUP has arrived
  monpc,     \* where main is
  child,     \* the process ncollectd_pid
  age,       \* age of timestamp; Window + 1 stands for any greater age
  counter,   \* check_respawn's counter
  left,      \* what remains of the pause
  starts,    \* history: the ages of the last starts, the latest first;
             \* Window + 1 stands for any greater age and for no start
  heeded,    \* history: SIGTERM interrupted waitpid and found the daemon running
  owed,      \* history: no daemon was started since the last SIGHUP
  missed     \* history: a signal arrived in a gap where nothing acts on it

monvars ==
  <<loop, restart, monpc, child, age, counter, left, starts, heeded, owed, missed>>

respawnVars == <<age, counter, left>>
flagVars == <<loop, restart, heeded, missed>>

Recent == 1..2 * Limit + 1    \* the starts that are remembered
Older(a) == IF a <= Window THEN a + 1 ELSE a

MonInit ==
  /\ loop = FALSE /\ restart = FALSE
  /\ monpc = "test"
  /\ child = "none"
  /\ age = Window + 1 /\ counter = 0 /\ left = 0
  /\ starts = [k \in Recent |-> Window + 1]
  /\ heeded = FALSE /\ owed = FALSE /\ missed = FALSE

-----------------------------------------------------------------------------
(***************************************************************************)
(* The handlers.  A signal interrupts a blocked waitpid.  It also makes    *)
(* sleep return, and the loop of check_respawn ends if loop is set by      *)
(* then; but a SIGTERM between its test of loop and its next call of sleep *)
(* does not shorten the pause, and after SIGHUP it sleeps on.              *)
(*                                                                         *)
(* Nothing acts on a signal that arrives when main has done its last test  *)
(* of the flags and has not blocked in waitpid yet, nor on the SIGTERM of  *)
(* ncollectd_stop to a child that has not called execvp.                   *)
(***************************************************************************)
Gap == child = "forked" \/ (monpc = "wait" /\ child = "running")

sig_int_term_handler ==
  /\ monpc # "done"
  /\ loop' = TRUE
  /\ \/ monpc = "blocked" /\ monpc' = "interrupted"
     \/ monpc = "sleep" /\ monpc' = "respawn"
     \/ monpc # "blocked" /\ UNCHANGED monpc
  /\ heeded' = (heeded \/ (monpc = "blocked" /\ child = "running"))
  /\ missed' = (missed \/ Gap \/ monpc = "start")
  /\ left' = IF monpc' = "respawn" THEN 0 ELSE left
  /\ UNCHANGED <<restart, child, age, counter, starts, owed>>

sig_hup_handler ==
  /\ monpc # "done"
  /\ restart' = TRUE
  /\ monpc' = IF monpc = "blocked" THEN "interrupted" ELSE monpc
  /\ owed' = TRUE
  /\ missed' = (missed \/ Gap)
  /\ UNCHANGED <<loop, heeded, child, respawnVars, starts>>

-----------------------------------------------------------------------------
(***************************************************************************)
(* The loop of main.                                                       *)
(***************************************************************************)
TestLoop ==
  /\ monpc = "test"
  /\ monpc' = IF loop THEN "done" ELSE "start"
  /\ UNCHANGED <<flagVars, child, respawnVars, starts, owed>>

(* fork succeeds, or main leaves its loop *)
ncollectd_start ==
  /\ monpc = "start"
  /\ \/ /\ monpc' = "wait"
        /\ child' = "forked"
        /\ starts' = [k \in Recent |-> IF k = 1 THEN 0 ELSE starts[k - 1]]
        /\ owed' = FALSE
     \/ /\ monpc' = "done"
        /\ UNCHANGED <<child, starts, owed>>
  /\ UNCHANGED <<flagVars, respawnVars>>

(* waitpid, which reaps a dead child at once or blocks *)
WaitPid ==
  /\ monpc = "wait" /\ child # "dead"
  /\ monpc' = "blocked"
  /\ UNCHANGED <<flagVars, child, respawnVars, starts, owed>>

Reap ==
  /\ monpc \in {"wait", "blocked"} /\ child = "dead"
  /\ monpc' = "reaped"
  /\ child' = "none"
  /\ UNCHANGED <<flagVars, respawnVars, starts, owed>>

\* Mutant: SIGHUP is not acted upon.
NoStopOnHup ==
  /\ monpc = "interrupted"
  /\ child' = IF loop /\ child = "running" THEN "terminating" ELSE child
  /\ monpc' = "wait"
  /\ UNCHANGED <<flagVars, respawnVars, starts, owed>>

\* Mutant: SIGTERM is not acted upon.
StopOnHupOnly ==
  /\ monpc = "interrupted"
  /\ child' = IF restart /\ child = "running" THEN "terminating" ELSE child
  /\ monpc' = "wait"
  /\ UNCHANGED <<flagVars, respawnVars, starts, owed>>

\* Mutant: main does not wait for the daemon it told to terminate.
StopAndLeave ==
  /\ monpc = "interrupted"
  /\ child' = IF (loop \/ restart) /\ child = "running" THEN "terminating" ELSE child
  /\ monpc' = IF loop THEN "test" ELSE "wait"
  /\ UNCHANGED <<flagVars, respawnVars, starts, owed>>

(***************************************************************************)
(* waitpid returned with EINTR: ncollectd_stop sends SIGTERM if a flag is  *)
(* set, and main waits again.  Before execvp the child still has the       *)
(* handlers of the monitor, and the signal only sets its copy of loop.     *)
(***************************************************************************)
ncollectd_stop ==
  /\ monpc = "interrupted"
  /\ child' = IF (loop \/ restart) /\ child = "running" THEN "terminating" ELSE child
  /\ monpc' = "wait"
  /\ UNCHANGED <<flagVars, respawnVars, starts, owed>>

\* Mutant: timestamp is never set.
RespawnForgetsTimestamp ==
  /\ monpc = "reaped"
  /\ IF age <= Window
     THEN counter' = counter + 1 /\ UNCHANGED age
     ELSE counter' = 0 /\ UNCHANGED age
  /\ IF counter' >= Limit
     THEN monpc' = "sleep" /\ left' = Pause
     ELSE monpc' = "respawn" /\ UNCHANGED left
  /\ UNCHANGED <<flagVars, child, starts, owed>>

(* count the deaths in the window that timestamp began; pause after Limit *)
check_respawn ==
  /\ monpc = "reaped"
  /\ IF age <= Window
     THEN counter' = counter + 1 /\ UNCHANGED age
     ELSE counter' = 0 /\ age' = 0
  /\ IF counter' >= Limit
     THEN monpc' = "sleep" /\ left' = Pause
     ELSE monpc' = "respawn" /\ UNCHANGED left
  /\ UNCHANGED <<flagVars, child, starts, owed>>

Awake ==
  /\ monpc = "sleep" /\ left = 0
  /\ monpc' = "respawn"
  /\ UNCHANGED <<flagVars, child, respawnVars, starts, owed>>

ClearRestart ==
  /\ monpc = "respawn"
  /\ restart' = FALSE
  /\ monpc' = "test"
  /\ UNCHANGED <<loop, heeded, missed, child, respawnVars, starts, owed>>

-----------------------------------------------------------------------------
(***************************************************************************)
(* The child: it becomes ncollectd (or execvp fails and it exits), may     *)
(* terminate at any time, and does so after SIGTERM.                       *)
(***************************************************************************)
Exec ==
  /\ child = "forked"
  /\ child' \in {"running", "dead"}
  /\ UNCHANGED <<flagVars, monpc, respawnVars, starts, owed>>

Crash ==
  /\ child = "running"
  /\ child' = "dead"
  /\ UNCHANGED <<flagVars, monpc, respawnVars, starts, owed>>

Terminate ==
  /\ child = "terminating"
  /\ child' = "dead"
  /\ UNCHANGED <<flagVars, monpc, respawnVars, starts, owed>>

Tick ==
  /\ monpc # "done"
  /\ ~(monpc = "sleep" /\ left = 0)
  /\ age' = Older(age)
  /\ left' = IF left > 0 THEN left - 1 ELSE 0
  /\ starts' = [k \in Recent |-> Older(starts[k])]
  /\ UNCHANGED <<flagVars, monpc, child, counter, owed>>

Main ==
  \/ TestLoop \/ ncollectd_start \/ WaitPid \/ Reap \/ ncollectd_stop
  \/ check_respawn \/ Awake \/ ClearRestart

MonNext ==
  \/ Main
  \/ sig_int_term_handler \/ sig_hup_handler
  \/ Exec \/ Crash \/ Terminate
  \/ Tick

MonSpec == MonInit /\ [][MonNext]_monvars

(* The monitor runs when it can, execvp returns or not, a daemon told to   *)
(* terminate does so (module ReadScheduler looks at that), time passes.    *)
MonFairness ==
  /\ WF_monvars(Main)
  /\ WF_monvars(Exec) /\ WF_monvars(Terminate)
  /\ WF_monvars(Tick)

MonFairSpec == MonSpec /\ MonFairness

-----------------------------------------------------------------------------
(* Every variable keeps its type.  That counter never passes Limit needs   *)
(* the pause: it is longer than the window, so the death after a pause     *)
(* begins a new window.                                                    *)
MonTypeOK ==
  /\ loop \in BOOLEAN /\ restart \in BOOLEAN /\ heeded \in BOOLEAN
  /\ owed \in BOOLEAN /\ missed \in BOOLEAN
  /\ monpc \in {"test", "start", "wait", "blocked", "interrupted", "reaped",
              "sleep", "respawn", "done"}
  /\ child \in {"none", "forked", "running", "terminating", "dead"}
  /\ age \in 0..Window + 1
  /\ counter \in 0..Limit
  /\ left \in 0..Pause
  /\ starts \in [Recent -> 0..Window + 1]

(* ncollectdmon never leaves a daemon behind and never starts a second     *)
(* one: whatever interrupts waitpid, the child has been reaped before main *)
(* tests loop, forks again or ends.                                        *)
NoOrphan == monpc \in {"reaped", "sleep", "respawn", "test", "start", "done"} => child = "none"

(* A daemon that dies at once is not started again and again: no Window    *)
(* holds more than 2 * Limit starts, although check_respawn keeps only     *)
(* one timestamp and two windows may meet.  Of the last 2 * Limit + 1      *)
(* starts the first was before the window.                                 *)
RespawnRate == starts[2 * Limit + 1] > Window

(* SIGTERM that interrupts the waitpid for a running daemon does end       *)
(* ncollectdmon, however many other signals arrive and even if the daemon  *)
(* dies by itself at that moment.                                          *)
HeededTermEnds == heeded ~> monpc = "done"

(* A signal takes effect wherever it finds main, but for the gaps above:   *)
(* after SIGHUP a new daemon is started or ncollectdmon ends, and after    *)
(* SIGTERM ncollectdmon ends, even if the signal comes during the pause of *)
(* check_respawn, while another daemon is dying or while the flags of an   *)
(* earlier signal are being cleared.                                       *)
SignalTakesEffect ==
  /\ owed ~> (~owed \/ missed \/ monpc = "done")
  /\ loop ~> (missed \/ monpc = "done")

(* ncollectdmon.pod: SIGINT and SIGTERM "cause ncollectdmon to terminate   *)
(* ncollectd, wait for its termination and then shut down".  A signal that *)
(* arrives between the test of loop and waitpid, or while the child has    *)
(* not called execvp, is not acted upon.                                   *)
TermEnds == loop ~> monpc = "done"
=============================================================================
