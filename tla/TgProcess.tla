----------------------------- MODULE TgProcess ------------------------------
(***************************************************************************)
(* One process of the Telegram proxy with all its threads: the main thread *)
(* and the event loop of TgProxyController, and beside them the refresh    *)
(* thread and the handlers of CfDomains.  _run starts the refresh before   *)
(* it listens, a handler runs while its client is there, and all of it     *)
(* ends with the process.  Its secret (TgSecret) is fixed at the start.    *)
(***************************************************************************)
EXTENDS CfDomains, TgSecret

CONSTANTS BindMayFail, BindMayLast, WaitsForClients

ASSUME SwitchAssumption == {BindMayFail, BindMayLast, WaitsForClients} \subseteq BOOLEAN

VARIABLES main, ready, worker, poll, run, stopEvent, started, stopped,
          lastError, instance, listening, clients

C == INSTANCE TgProxyController

controller == <<main, ready, worker, poll, run, stopEvent, started, stopped,
                lastError, instance, listening, clients>>
vars == <<dvars, controller>>

ProcessInit == Init /\ C!Init

(* The loop starts _run, which fills list and map, starts the refresh      *)
(* thread, and only then waits for start_server.                           *)
Boot == C!WorkerRun /\ StartRefresh

Thread == C!Alive /\ (Refresh \/ Refill \/ NextRound) /\ UNCHANGED controller

(* A handler begins with its client, and goes on while the loop runs. *)
Handle(h) ==
  /\ C!OnLoop
  /\ (clients /\ Begin(h)) \/ Fallback(h)
  /\ UNCHANGED controller

(* run_until_complete returns, and no handler goes any further. *)
Halt == C!RunEnded /\ Leave(Handler) /\ UNCHANGED <<balancer, refresher, mapped>>

(* A connection stays until its handler is through with it. *)
Disconnect ==
  /\ \A h \in Handler : at[h] = "idle"
  /\ C!ClientsLeave
  /\ UNCHANGED dvars

Controller ==
  /\ \/ C!Main \/ C!Interrupt \/ C!WorkerBoot \/ C!Poll \/ C!WorkerRaised
     \/ C!WorkerFinally \/ C!WorkerClose
     \/ C!Run \/ C!ClientComes
  /\ UNCHANGED dvars

ProcessNext == Controller \/ Boot \/ Halt \/ Thread \/ (\E h \in Handler : Handle(h)) \/ Disconnect

ProcessSpec == ProcessInit /\ [][ProcessNext]_vars

(* The fairness of the controller, and no more: neither GitHub nor the CF  *)
(* proxy owes the process an answer.                                       *)
ProcessFairSpec == ProcessSpec /\ C!Fairness
-----------------------------------------------------------------------------
(* Every variable keeps to the values its comment names. *)
TypeOK == DomainsTypeOK /\ C!TypeOK

(* A process starts with a secret that its restart will find again, before *)
(* it does anything else.                                                  *)
SecretIsKept == main = "start" => SecretKept

StopClosesListener == C!StopClosesListener
StopEnds == C!StopEnds
StartedIsSet == C!StartedIsSet
=============================================================================
