-------------------------------- MODULE Host --------------------------------
(***************************************************************************)
(* Starting and stopping the server, again and again in one process:       *)
(*   LinqoraHost/cmd/linqora_cli.go (runServer, StartServerBackground,     *)
(*     gracefulShutdown, safeCloseStop, StopServer, main)                  *)
(*   LinqoraHost/cmd/linqora_gui.go (Start/Stop button, tray, watchAuth)   *)
(*   LinqoraHost/internal/ws/server.go (NewWSServer, Start, Shutdown)      *)
(*   LinqoraHost/internal/mdns/mdns.go                                     *)
(*                                                                         *)
(* Threads: the window or the console; the goroutine that stops a run; of  *)
(* every run the goroutine in Start, the one that listens, the watcher of  *)
(* authorization requests, and the background loops: the lock and the      *)
(* inactivity monitor and cron end with s.ctx, the battery loop with a     *)
(* context of its own, which nobody cancels (Battery.tla).                 *)
(* stopCh, stopOnce and mdnsServer are global: those of the latest run.    *)
(***************************************************************************)
EXTENDS Naturals, Sequences

CONSTANT MaxRuns  \* bound: servers started

ASSUME HostAssumption == MaxRuns \in Nat

VARIABLES
  mode,  \* "window" (RunGUI) or "console" (serve)
  ui,    \* what the window or the console is doing, see Doing
  runs   \* the servers started so far: a sequence of Run

serverVars == <<mode, ui, runs>>

(* "cancelling", "withdrawing" and "signalling" are in gracefulShutdown.     *)
Doing == {"stopped", "running", "cancelling", "withdrawing", "signalling", "exited"}

ContextLoops == {"lock", "inactivity", "cron"}  \* those that end with s.ctx

Run == [cancelled : BOOLEAN,   \* the context given to Start
        serve : {"serving", "closing", "draining", "failed", "ended", "erred"},  \* Start
        port : {"none", "bound", "refused", "closed"},  \* ListenAndServe
        loops : SUBSET (ContextLoops \cup {"battery"}),  \* that run
        advert : BOOLEAN,      \* announced on the network
        stopped : BOOLEAN,     \* its stopCh is closed
        watched : BOOLEAN]     \* its watcher runs (of the console: ProcessAuthRequests)

HostTypeOK ==
  /\ mode \in {"window", "console"}
  /\ ui \in Doing
  /\ runs \in Seq(Run) /\ Len(runs) <= MaxRuns

HostInit == mode \in {"window", "console"} /\ ui = "stopped" /\ runs = <<>>

Newest == Len(runs)

-----------------------------------------------------------------------------
(* A run that came up, and one whose mDNS server did not start: everything   *)
(* before that is undone by nobody, and the console gives up.                *)
NewRun ==
  [cancelled |-> FALSE, serve |-> "serving", port |-> "none",
   loops |-> ContextLoops \cup {"battery"},
   advert |-> TRUE, stopped |-> FALSE, watched |-> TRUE]
StillbornRun ==
  [cancelled |-> FALSE, serve |-> "erred", port |-> "closed", loops |-> {},
   advert |-> FALSE, stopped |-> FALSE, watched |-> FALSE]

StartServerBackground ==
  /\ ui = "stopped" /\ Newest < MaxRuns
  /\ \/ runs' = Append(runs, NewRun) /\ ui' = "running"
     \/ runs' = Append(runs, StillbornRun) /\ ui' = IF mode = "console" THEN "exited" ELSE ui
  /\ UNCHANGED mode

(* ListenAndServe, of a server not shut down yet: the port may be another    *)
(* run's, or another program's.                                              *)
Listen(r) ==
  /\ ui # "exited" /\ runs[r].port = "none"
  /\ \E outcome \in
       IF runs[r].serve \notin {"serving", "closing"} THEN {"closed"}
       ELSE IF \E q \in DOMAIN runs : runs[q].port = "bound" THEN {"refused"}
       ELSE {"bound", "refused"} :
         runs' = [runs EXCEPT ![r].port = outcome]
  /\ UNCHANGED <<mode, ui>>

(* The select of Start: the error of the listener... *)
ServeFails(r) ==
  /\ ui # "exited" /\ runs[r].serve = "serving" /\ runs[r].port = "refused"
  /\ runs' = [runs EXCEPT ![r].serve = "failed"]
  /\ UNCHANGED <<mode, ui>>

(* ... or the context: Shutdown closes the clients (Client.tla)... *)
Shutdown(r) ==
  /\ ui # "exited" /\ runs[r].serve = "serving" /\ runs[r].cancelled
  /\ runs' = [runs EXCEPT ![r].serve = "closing"]
  /\ UNCHANGED <<mode, ui>>

(* Mutant of CloseListener: a server with requests under way is left alone. *)
CloseListenerIfIdle(r) ==
  /\ ui # "exited" /\ runs[r].serve = "closing"
  /\ \E port \in {runs[r].port, "closed"} :
       runs' = [runs EXCEPT ![r].serve = "draining", ![r].port = port]
  /\ UNCHANGED <<mode, ui>>

(* ... then httpServer.Shutdown closes the listener... *)
CloseListener(r) ==
  /\ ui # "exited" /\ runs[r].serve = "closing"
  /\ runs' = [runs EXCEPT ![r].serve = "draining",
                          ![r].port = IF @ = "bound" THEN "closed" ELSE @]
  /\ UNCHANGED <<mode, ui>>

(* Mutant of Drained: stopCh is closed whatever Start returned. *)
DrainedAnyhow(r) ==
  /\ ui # "exited" /\ runs[r].serve = "draining"
  /\ runs' = [runs EXCEPT ![r].serve = "ended", ![r].loops = @ \ ContextLoops,
                          ![Newest].stopped = TRUE]
  /\ UNCHANGED <<mode, ui>>

(* ... and waits for the requests under way: when they are done s.ctx is     *)
(* cancelled, and after 15 seconds it is not.  The battery loop goes on.     *)
Drained(r) ==
  /\ ui # "exited" /\ runs[r].serve = "draining"
  /\ \/ runs' = [runs EXCEPT ![r].serve = "ended", ![r].loops = @ \ ContextLoops]
     \/ runs' = [runs EXCEPT ![r].serve = "failed"]
  /\ UNCHANGED <<mode, ui>>

(* Start has returned an error: safeCloseStop, of the run that is the latest *)
(* by now.                                                                   *)
CloseStopOnError(r) ==
  /\ ui # "exited" /\ runs[r].serve = "failed"
  /\ runs' = [[runs EXCEPT ![r].serve = "erred"] EXCEPT ![Newest].stopped = TRUE]
  /\ UNCHANGED <<mode, ui>>

WatchEnds(r) ==
  /\ ui # "exited" /\ runs[r].watched /\ runs[r].stopped
  /\ runs' = [runs EXCEPT ![r].watched = FALSE]
  /\ UNCHANGED <<mode, ui>>

-----------------------------------------------------------------------------
(* The button, the signal, or for the console a closed stopCh. *)
StopServer ==
  /\ ui = "running"
  /\ ui' = "cancelling"
  /\ UNCHANGED <<mode, runs>>

(* gracefulShutdown: cancel()... *)
Cancel ==
  /\ ui = "cancelling"
  /\ ui' = "withdrawing"
  /\ runs' = [runs EXCEPT ![Newest].cancelled = TRUE]
  /\ UNCHANGED mode

(* ... mdnsServer.Stop()... *)
Withdraw ==
  /\ ui = "withdrawing"
  /\ ui' = "signalling"
  /\ runs' = [runs EXCEPT ![Newest].advert = FALSE]
  /\ UNCHANGED mode

(* ... and safeCloseStop, which is all it waits for: the button is ready for *)
(* the next run, or the console returns from main.                           *)
Signal ==
  /\ ui = "signalling"
  /\ ui' = IF mode = "window" THEN "stopped" ELSE "exited"
  /\ runs' = [runs EXCEPT ![Newest].stopped = TRUE]
  /\ UNCHANGED mode

(* Quit in the tray: gracefulShutdown runs on while the application quits,   *)
(* and the process ends wherever it has got to.                              *)
Quit ==
  /\ mode = "window" /\ ui # "exited"
  /\ ui' = "exited"
  /\ UNCHANGED <<mode, runs>>

Serve(r) ==
  Listen(r) \/ ServeFails(r) \/ Shutdown(r) \/ CloseListener(r) \/ Drained(r)
    \/ CloseStopOnError(r)

GracefulShutdown == Cancel \/ Withdraw \/ Signal

HostNext ==
  \/ StartServerBackground \/ StopServer \/ GracefulShutdown \/ Quit
  \/ \E r \in DOMAIN runs : Serve(r) \/ WatchEnds(r)

HostSpec == HostInit /\ [][HostNext]_serverVars

-----------------------------------------------------------------------------
Failed == \E r \in DOMAIN runs : runs[r].serve \in {"failed", "erred"}

(* What the network is told is the run the host stands for: an announcement  *)
(* of an earlier run, or of one the window shows as stopped, is never left.  *)
AdvertEndsWithRun ==
  \A r \in DOMAIN runs : runs[r].advert =>
    r = Newest /\ ui # "stopped" /\ (mode = "console" => ui # "exited")

(* linqora_gui.go:65: watchAuth "exits when the server stops": as long as no *)
(* Start has returned an error, the shutdown of one run, which outlasts the  *)
(* button, does not take the next run's watcher.                             *)
RunningIsWatched == ui = "running" /\ ~Failed => runs[Newest].watched

(* However starts and stops overlap, of a run that was told to stop, and has *)
(* no step left to take, nothing is left but the loop server.go:95 calls     *)
(* "always active": it has given up its port and, unless its Start ended     *)
(* with an error, the loops of its context.  The battery loop is never       *)
(* stopped: each start and stop leaves one behind, until the process ends.   *)
StoppedRunEnds ==
  \A r \in DOMAIN runs :
    runs[r].cancelled /\ ~ENABLED Serve(r) /\ ui # "exited" =>
      /\ runs[r].port # "bound"
      /\ runs[r].serve # "erred" => runs[r].loops = {"battery"}
=============================================================================
