------------------------- MODULE TgProxyController -------------------------
(***************************************************************************)
(* One process of the Telegram proxy, services/tg-ws-proxy/tgproxy.py: the *)
(* main thread in serve, start and stop of TelegramProxyController, and    *)
(* the daemon thread with its asyncio loop, on which _run_flowseal_proxy   *)
(* polls until the task of _run of tg_ws_proxy.py has its listener up.     *)
(*                                                                         *)
(* The threads share attributes and two threading events, and what one     *)
(* does falls between any two accesses of the other.  How long eight or    *)
(* six seconds are is left open: a wait with a timeout may run out         *)
(* whenever what it waits for has not happened.  stop is called once, so   *)
(* the attributes it resets at its end are read by nobody.                 *)
(***************************************************************************)
CONSTANTS BindMayFail,    \* whether another program may hold the port
          BindMayLast,    \* whether it may take longer than the polling
          WaitsForClients \* whether wait_closed waits for them (Python >= 3.12)

VARIABLES
  main,       \* where the main thread is
  ready,      \* the ready file is written and READY is printed
  worker,     \* where _thread_main is
  poll,       \* where _run_flowseal_proxy is
  run,        \* where the task of _run is
  stopEvent,  \* self._stop_event
  started, stopped,  \* the threading events
  lastError,  \* _last_error is not empty
  instance,   \* the global _server_instance is not None
  listening,  \* the port is open
  clients     \* a client is connected

mainVars == <<main, ready>>
loopVars == <<worker, poll, run>>
shared == <<stopEvent, started, stopped, lastError, instance>>
socket == <<listening, clients>>
vars == <<mainVars, loopVars, shared, socket>>

MainPc == {"start", "wait", "error?", "running?", "ready", "serving", "timed_out",
           "stop", "join", "joined", "fatal", "exited"}
WorkerPc == {"none", "boot", "event", "running", "raised", "finally", "close", "dead"}
PollPc == {"none", "polling", "awaiting"}
RunPc == {"none", "binding", "serving", "closing", "failed", "done"}

Init ==
  /\ main = "start" /\ ready = FALSE
  /\ worker = "none" /\ poll = "none" /\ run = "none"
  /\ stopEvent = "none"
  /\ started = FALSE /\ stopped = FALSE /\ lastError = FALSE
  /\ instance = FALSE
  /\ listening = FALSE /\ clients = FALSE

(* Operators named Bug... are what a definition below would be if the code *)
(* had a certain mistake; no specification uses them.                      *)

-----------------------------------------------------------------------------
(* The main thread *)

(* start: everything is reset, and the thread is started. *)
MainStart ==
  /\ main = "start"
  /\ main' = "wait"
  /\ started' = FALSE /\ stopped' = FALSE /\ lastError' = FALSE
  /\ worker' = "boot"
  /\ UNCHANGED <<ready, poll, run, stopEvent, instance, socket>>

(* _started.wait(8.0) *)
MainWait ==
  /\ main = "wait"
  /\ main' = IF started THEN "error?" ELSE "timed_out"
  /\ UNCHANGED <<ready, loopVars, shared, socket>>

(* err = self._last_error; without one start returns. *)
MainError ==
  /\ main = "error?"
  /\ main' = IF lastError THEN "running?" ELSE "ready"
  /\ UNCHANGED <<ready, loopVars, shared, socket>>

IsRunning == worker \notin {"none", "dead"} /\ started /\ ~stopped

(* "if err and not self.is_running()": the error goes to serve, ... *)
MainRunning ==
  /\ main = "running?"
  /\ main' = IF IsRunning THEN "ready" ELSE "fatal"
  /\ UNCHANGED <<ready, loopVars, shared, socket>>

(* ... and without one serve writes the ready file and sleeps. *)
MainReady ==
  /\ main = "ready"
  /\ main' = "serving"
  /\ ready' = TRUE
  /\ UNCHANGED <<loopVars, shared, socket>>

(* KeyboardInterrupt while it sleeps. *)
Interrupt ==
  /\ main = "serving"
  /\ main' = "stop"
  /\ UNCHANGED <<ready, loopVars, shared, socket>>

(* stop: with the loop running, the event is set on it; then the thread is *)
(* joined.                                                                 *)
SignalStop == stopEvent' = IF worker = "running" THEN "set" ELSE stopEvent

MainStop ==
  /\ main = "stop"
  /\ main' = "join"
  /\ SignalStop
  /\ UNCHANGED <<ready, loopVars, started, stopped, lastError, instance, socket>>

(* The join has no timeout. *)
BugMainJoin ==
  /\ main = "join"
  /\ worker = "dead"
  /\ main' = "joined"
  /\ UNCHANGED <<ready, loopVars, shared, socket>>

(* The join succeeds, or six seconds pass and serve returns all the same. *)
MainJoin ==
  /\ main = "join"
  /\ main' = IF worker = "dead" THEN "joined" ELSE "fatal"
  /\ UNCHANGED <<ready, loopVars, shared, socket>>

(* start has timed out: it calls stop, and raises. *)
MainAbort ==
  /\ main = "timed_out"
  /\ main' = "fatal"
  /\ SignalStop
  /\ UNCHANGED <<ready, loopVars, started, stopped, lastError, instance, socket>>

(* The process ends, and with it the daemon thread and all sockets. *)
MainExit ==
  /\ main \in {"fatal", "joined"}
  /\ main' = "exited"
  /\ listening' = FALSE /\ clients' = FALSE
  /\ UNCHANGED <<ready, loopVars, shared>>

Main == \/ MainStart \/ MainWait \/ MainError \/ MainRunning \/ MainReady
        \/ MainStop \/ MainJoin \/ MainAbort \/ MainExit

-----------------------------------------------------------------------------
(* The daemon thread; none of its steps follows the end of the process. *)
Alive == main # "exited"

(* The loop, then the stop event, ... *)
WorkerBoot ==
  /\ Alive
  /\ worker = "boot"
  /\ worker' = "event"
  /\ UNCHANGED <<mainVars, poll, run, shared, socket>>

(* ... and run_until_complete starts both coroutines. *)
WorkerRun ==
  /\ Alive
  /\ worker = "event"
  /\ worker' = "running"
  /\ stopEvent' = "clear"
  /\ poll' = "polling"
  /\ run' = "binding"
  /\ UNCHANGED <<mainVars, started, stopped, lastError, instance, socket>>

(* The coroutine polls for the listener only. *)
BugPoll ==
  /\ Alive
  /\ worker = "running" /\ poll = "polling"
  /\ instance \/ run \in {"failed", "done"} \/ BindMayLast
  /\ instance
  /\ started' = TRUE
  /\ poll' = "awaiting"
  /\ UNCHANGED <<mainVars, worker, run, stopEvent, stopped, lastError, instance, socket>>

(* The listener is up, or _run has ended, or the 160 rounds are over:      *)
(* _started is set in each case, and the task is awaited.                  *)
Poll ==
  /\ Alive
  /\ worker = "running" /\ poll = "polling"
  /\ instance \/ run \in {"failed", "done"} \/ BindMayLast
  /\ started' = TRUE
  /\ poll' = "awaiting"
  /\ UNCHANGED <<mainVars, worker, run, stopEvent, stopped, lastError, instance, socket>>

(* What _run raised comes out of run_until_complete, or it returns. *)
RunEnded ==
  /\ Alive
  /\ worker = "running" /\ poll = "awaiting"
  /\ run \in {"failed", "done"}
  /\ worker' = IF run = "failed" THEN "raised" ELSE "finally"
  /\ UNCHANGED <<mainVars, poll, run, shared, socket>>

WorkerRaised ==
  /\ Alive
  /\ worker = "raised"
  /\ worker' = "finally"
  /\ lastError' = TRUE /\ started' = TRUE
  /\ UNCHANGED <<mainVars, poll, run, stopEvent, stopped, instance, socket>>

WorkerFinally ==
  /\ Alive
  /\ worker = "finally"
  /\ worker' = "close"
  /\ stopped' = TRUE
  /\ UNCHANGED <<mainVars, poll, run, stopEvent, started, lastError, instance, socket>>

WorkerClose ==
  /\ Alive
  /\ worker = "close"
  /\ worker' = "dead"
  /\ UNCHANGED <<mainVars, poll, run, shared, socket>>

Worker == \/ WorkerBoot \/ WorkerRun \/ Poll \/ RunEnded
          \/ WorkerRaised \/ WorkerFinally \/ WorkerClose

-----------------------------------------------------------------------------
(* _run *)
OnLoop == Alive /\ worker = "running"

(* start_server *)
Bind ==
  /\ OnLoop
  /\ run = "binding"
  /\ \/ run' = "serving" /\ listening' = TRUE /\ instance' = TRUE
     \/ BindMayFail /\ run' = "failed" /\ UNCHANGED <<listening, instance>>
  /\ UNCHANGED <<mainVars, worker, poll, stopEvent, started, stopped, lastError, clients>>

(* The stop event ends serve_forever without the server being closed. *)
BugCloseServer ==
  /\ OnLoop
  /\ run = "serving" /\ stopEvent = "set"
  /\ run' = "closing"
  /\ UNCHANGED <<mainVars, worker, poll, shared, socket>>

(* The stop event: server.close ... *)
CloseServer ==
  /\ OnLoop
  /\ run = "serving" /\ stopEvent = "set"
  /\ run' = "closing"
  /\ listening' = FALSE
  /\ UNCHANGED <<mainVars, worker, poll, shared, clients>>

(* ... and wait_closed. *)
ServerClosed ==
  /\ OnLoop
  /\ run = "closing"
  /\ WaitsForClients => ~clients
  /\ run' = "done"
  /\ instance' = FALSE
  /\ UNCHANGED <<mainVars, worker, poll, stopEvent, started, stopped, lastError, socket>>

(* The task of _run. *)
Run == Bind \/ CloseServer \/ ServerClosed

ClientComes ==
  /\ Alive /\ listening /\ ~clients
  /\ clients' = TRUE
  /\ UNCHANGED <<mainVars, loopVars, shared, listening>>

ClientsLeave ==
  /\ clients
  /\ clients' = FALSE
  /\ UNCHANGED <<mainVars, loopVars, shared, listening>>

-----------------------------------------------------------------------------
Next == Main \/ Interrupt \/ Worker \/ Run \/ ClientComes \/ ClientsLeave

Spec == Init /\ [][Next]_vars

(* Each thread is scheduled.  Nobody need press Ctrl-C or disconnect, and  *)
(* the eight seconds of start need not ever be over.                       *)
Fairness ==
  /\ WF_vars(Main /\ (main = "wait" => started))
  /\ WF_vars(Worker)
  /\ WF_vars(Run)

FairSpec == Spec /\ Fairness

-----------------------------------------------------------------------------
(* Every variable keeps to the values its comment names. *)
TypeOK ==
  /\ main \in MainPc /\ ready \in BOOLEAN
  /\ worker \in WorkerPc /\ poll \in PollPc /\ run \in RunPc
  /\ stopEvent \in {"none", "clear", "set"}
  /\ started \in BOOLEAN /\ stopped \in BOOLEAN /\ lastError \in BOOLEAN
  /\ instance \in BOOLEAN /\ listening \in BOOLEAN /\ clients \in BOOLEAN

(* The stop event of stop reaches _run, whatever the worker was doing when *)
(* stop looked: once the thread has been joined, no listener is left and   *)
(* the global _server_instance is None again.                              *)
StopClosesListener == main = "joined" => ~listening /\ ~instance

(* Ctrl-C ends the process, even with clients that never disconnect.       *)
StopEnds == main = "stop" ~> main = "exited"

(* _started is set on every path through the worker, the failed bind       *)
(* included: start never needs its timeout to return.                      *)
StartedIsSet ==
  worker = "boot" ~> started \/ main \in {"timed_out", "fatal", "exited"}

(* tgproxy.py:258 "Writes its PID to ready_file once the listener is up".  *)
ReadyMeansListening == main = "serving" => listening
=============================================================================
