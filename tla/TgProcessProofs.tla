-------------------------- MODULE TgProcessProofs ---------------------------
(***************************************************************************)
(* The process as a whole, for any handlers, data centres and domains: a   *)
(* joined stop has closed the listener, and what CfDomainsProofs shows of  *)
(* the attempts holds between start and stop of the process, too.          *)
(*                                                                         *)
(* The worker's place tells how far _run is, and _run's what is open       *)
(* (ControllerInv); the refresh thread is there as soon as the loop runs   *)
(* (RefreshFirst), so that every handler finds a list.  The process also   *)
(* refines the controller, step by step and without an invariant, and when *)
(* it may say that it listens follows from the controller's steps.         *)
(***************************************************************************)
EXTENDS TgProcess, CfDomainsProofs

Before == {"none", "boot", "event"}
After == {"raised", "finally", "close", "dead"}

ControllerInv ==
  /\ main = "start" => worker = "none"
  /\ main = "joined" => worker = "dead"
  /\ worker \in Before => run = "none" /\ ~started
  /\ worker = "running" => run # "none"
  /\ worker \in After => run \in {"failed", "done"}
  /\ listening => run = "serving"
  /\ instance => run \in {"serving", "closing"}

RefreshFirst == worker \in Before <=> refresher = "off"

ProcessInv == C!TypeOK /\ ControllerInv /\ RefreshFirst /\ DomainsInv

-----------------------------------------------------------------------------
(* The controller.  Its steps know nothing of the handlers. *)

LEMMA MainSteps ==
  ASSUME C!TypeOK, ControllerInv, C!Main \/ C!Interrupt
  PROVE  C!TypeOK' /\ ControllerInv' /\ (worker \in Before <=> (worker \in Before)')
  <1> USE DEF C!TypeOK, ControllerInv, Before, After, C!loopVars, C!shared, C!socket,
              C!MainPc, C!WorkerPc, C!PollPc, C!RunPc
  <1>1. CASE C!MainStart
    BY <1>1 DEF C!MainStart
  <1>2. CASE C!MainWait \/ C!MainError \/ C!MainRunning \/ C!MainReady \/ C!Interrupt \/ C!MainJoin
    <2>1. /\ UNCHANGED <<worker, poll, run, stopEvent, started, stopped, lastError, instance, listening, clients>>
          /\ main' \in C!MainPc \ {"start"} /\ ready' \in BOOLEAN
          /\ main' = "joined" => worker = "dead"
      BY <1>2 DEF C!MainWait, C!MainError, C!MainRunning, C!MainReady, C!Interrupt, C!MainJoin
    <2> QED BY <2>1
  <1>3. CASE C!MainStop \/ C!MainAbort
    BY <1>3 DEF C!MainStop, C!MainAbort, C!SignalStop
  <1>4. CASE C!MainExit
    BY <1>4 DEF C!MainExit
  <1> QED BY <1>1, <1>2, <1>3, <1>4 DEF C!Main

(* The step that starts _run leads from before to behind the start of the  *)
(* refresh, no other one does.                                             *)
LEMMA WorkerSteps ==
  ASSUME C!TypeOK, ControllerInv, C!Worker
  PROVE  /\ C!TypeOK' /\ ControllerInv'
         /\ ~C!WorkerRun => (worker \in Before <=> (worker \in Before)')
         /\ C!WorkerRun => worker \in Before /\ (worker \notin Before)'
  <1> USE DEF C!TypeOK, ControllerInv, Before, After, C!mainVars, C!shared, C!socket,
              C!MainPc, C!WorkerPc, C!PollPc, C!RunPc
  <1>1. CASE C!WorkerBoot
    BY <1>1 DEF C!WorkerBoot, C!WorkerRun
  <1>2. CASE C!WorkerRun
    BY <1>2 DEF C!WorkerRun
  <1>3. CASE C!Poll
    BY <1>3 DEF C!Poll, C!WorkerRun
  <1>4. CASE C!RunEnded
    BY <1>4 DEF C!RunEnded, C!WorkerRun
  <1>5. CASE C!WorkerRaised \/ C!WorkerFinally \/ C!WorkerClose
    <2>1. /\ UNCHANGED <<main, ready, poll, run, stopEvent, instance, listening, clients>>
          /\ worker \in {"raised", "finally", "close"} /\ worker' \in {"finally", "close", "dead"}
          /\ started' \in BOOLEAN /\ stopped' \in BOOLEAN /\ lastError' \in BOOLEAN
      BY <1>5 DEF C!WorkerRaised, C!WorkerFinally, C!WorkerClose
    <2> QED BY <2>1 DEF C!WorkerRun
  <1> QED BY <1>1, <1>2, <1>3, <1>4, <1>5 DEF C!Worker

LEMMA RunSteps ==
  ASSUME C!TypeOK, ControllerInv, C!Run \/ C!ClientComes \/ C!ClientsLeave
  PROVE  C!TypeOK' /\ ControllerInv' /\ UNCHANGED worker
  <1> USE DEF C!TypeOK, ControllerInv, Before, After, C!mainVars, C!loopVars, C!shared, C!socket,
              C!MainPc, C!WorkerPc, C!PollPc, C!RunPc, C!OnLoop
  <1>1. CASE C!Bind
    <2>1. /\ UNCHANGED <<main, ready, worker, poll, stopEvent, started, stopped, lastError, clients>>
          /\ worker = "running"
      BY <1>1 DEF C!Bind
    <2>2. CASE run' = "serving" /\ listening' = TRUE /\ instance' = TRUE
      BY <2>1, <2>2
    <2>3. CASE run' = "failed" /\ run = "binding" /\ UNCHANGED <<listening, instance>>
      BY <2>1, <2>3
    <2> QED BY <1>1, <2>2, <2>3 DEF C!Bind
  <1>2. CASE C!CloseServer
    BY <1>2 DEF C!CloseServer
  <1>3. CASE C!ServerClosed
    <2>1. /\ UNCHANGED <<main, ready, worker, poll, stopEvent, started, stopped, lastError, listening, clients>>
          /\ worker = "running" /\ run = "closing" /\ run' = "done" /\ instance' = FALSE
      BY <1>3 DEF C!ServerClosed
    <2> QED BY <2>1
  <1>4. CASE C!ClientComes
    BY <1>4 DEF C!ClientComes
  <1>5. CASE C!ClientsLeave
    <2>1. /\ UNCHANGED <<main, ready, worker, poll, run, stopEvent, started, stopped, lastError, instance, listening>>
          /\ clients' \in BOOLEAN
      BY <1>5 DEF C!ClientsLeave
    <2> QED BY <2>1
  <1> QED BY <1>1, <1>2, <1>3, <1>4, <1>5 DEF C!Run

-----------------------------------------------------------------------------
(* Steps that leave one half of the process alone. *)

LEMMA ControllerRests ==
  ASSUME ProcessInv, UNCHANGED controller, DomainsInv', refresher # "off", (refresher # "off")'
  PROVE  ProcessInv'
  BY DEF ProcessInv, controller, C!TypeOK, ControllerInv, RefreshFirst, Before

LEMMA DomainsRest ==
  ASSUME ProcessInv, UNCHANGED dvars, C!TypeOK', ControllerInv', worker \in Before <=> (worker \in Before)'
  PROVE  ProcessInv'
  <1>1. DomainsInv'
    BY NextDomains DEF ProcessInv
  <1>2. UNCHANGED refresher
    BY DEF dvars
  <1> QED BY <1>1, <1>2 DEF ProcessInv, RefreshFirst

LEMMA InitProcess == ProcessInit => ProcessInv
  <1> SUFFICES ASSUME ProcessInit PROVE ProcessInv
    OBVIOUS
  <1>1. DomainsInv
    BY InitDomains DEF ProcessInit
  <1>2. C!TypeOK /\ ControllerInv /\ RefreshFirst
    BY DEF ProcessInit, Init, C!Init, C!TypeOK, ControllerInv, RefreshFirst, Before, After,
           C!MainPc, C!WorkerPc, C!PollPc, C!RunPc
  <1> QED BY <1>1, <1>2 DEF ProcessInv

(* The two steps that a step of the process can be for the domains: one    *)
(* that CfDomains has, or the end of all attempts.                         *)
LEMMA ProcessStep ==
  ASSUME ProcessInv, ProcessNext
  PROVE  ProcessInv' /\ ([Next]_dvars \/ UNCHANGED dcToDomain)
  <1>1. CASE Controller
    <2>1. UNCHANGED dvars
      BY <1>1 DEF Controller
    <2>2. CASE C!Main \/ C!Interrupt
      BY <2>1, <2>2, MainSteps, DomainsRest DEF ProcessInv
    <2>3. CASE C!WorkerBoot \/ C!Poll \/ C!WorkerRaised \/ C!WorkerFinally \/ C!WorkerClose
      <3>1. C!Worker /\ ~C!WorkerRun
        BY <2>3 DEF C!Worker, C!WorkerRun, C!WorkerBoot, C!Poll, C!WorkerRaised, C!WorkerFinally, C!WorkerClose
      <3> QED BY <2>1, <3>1, WorkerSteps, DomainsRest DEF ProcessInv
    <2>4. CASE C!Run \/ C!ClientComes
      BY <2>1, <2>4, RunSteps, DomainsRest DEF ProcessInv
    <2> QED BY <1>1, <2>1, <2>2, <2>3, <2>4 DEF Controller
  <1>2. CASE Boot
    <2>1. C!TypeOK' /\ ControllerInv' /\ (worker \notin Before)'
      BY <1>2, WorkerSteps DEF Boot, C!Worker, ProcessInv
    <2>2. DomainsInv' /\ (refresher # "off")'
      BY <1>2, ThreadStep DEF Boot, StartRefresh, ProcessInv
    <2> QED BY <1>2, <2>1, <2>2 DEF Boot, Next, ProcessInv, RefreshFirst
  <1>3. CASE Halt
    <2>1. C!RunEnded /\ ~C!WorkerRun
      BY <1>3 DEF Halt, C!RunEnded, C!WorkerRun
    <2>2. C!TypeOK' /\ ControllerInv' /\ (worker \in Before <=> (worker \in Before)')
      BY <2>1, WorkerSteps DEF C!Worker, ProcessInv
    <2>3. DomainsInv'
      BY <1>3, LeaveStep DEF Halt, balancer, ProcessInv, DomainsInv, DomainsTypeOK
    <2> QED BY <1>3, <2>2, <2>3 DEF Halt, balancer, ProcessInv, RefreshFirst
  <1>4. CASE Thread
    <2>1. DomainsInv' /\ Next
      BY <1>4, ThreadStep DEF Thread, Next, ProcessInv
    <2>2. refresher # "off" /\ (refresher # "off")'
      BY <1>4 DEF Thread, Refresh, Refill, NextRound
    <2>3. UNCHANGED controller
      BY <1>4 DEF Thread
    <2> QED BY <2>1, <2>2, <2>3, ControllerRests
  <1>5. CASE \E h \in Handler : Handle(h)
    <2> PICK h \in Handler : Handle(h)
      BY <1>5
    <2>1. refresher # "off" /\ UNCHANGED controller
      BY DEF Handle, C!OnLoop, ProcessInv, RefreshFirst, Before
    <2>2. (refresher # "off" /\ Begin(h)) \/ Fallback(h)
      BY <2>1 DEF Handle
    <2>3. Next /\ DomainsInv'
      BY <2>2, NextDomains DEF Next, ProcessInv
    <2>4. (refresher # "off")'
      BY <2>1, <2>2 DEF Begin, Fallback, Yield, GiveUp, ConnectFails, Connected, Failed
    <2> QED BY <2>1, <2>3, <2>4, ControllerRests
  <1>6. CASE Disconnect
    BY <1>6, RunSteps, DomainsRest DEF Disconnect, ProcessInv
  <1> QED BY <1>1, <1>2, <1>3, <1>4, <1>5, <1>6 DEF ProcessNext

LEMMA ProcessInvariant == ProcessSpec => []ProcessInv
  <1>1. ProcessInv /\ [ProcessNext]_vars => ProcessInv'
    <2> SUFFICES ASSUME ProcessInv, UNCHANGED vars PROVE ProcessInv'
      BY ProcessStep
    <2>1. C!TypeOK' /\ ControllerInv' /\ UNCHANGED dvars /\ UNCHANGED worker
      BY DEF vars, controller, ProcessInv, C!TypeOK, ControllerInv, Before, After
    <2> QED BY <2>1, DomainsRest
  <1> QED BY <1>1, InitProcess, PTL DEF ProcessSpec

-----------------------------------------------------------------------------
(* load_or_create_secret, without the places of the two files. *)
LEMMA LoadedSecret ==
  ASSUME NEW files, DOMAIN files = {"secret", "alt"}, NEW writable, NEW new
  PROVE  LET loaded == LoadOrCreateSecret(files, writable, new)
         IN  /\ loaded.secret = IF Usable(files["secret"]) THEN files["secret"].secret
                                ELSE IF Usable(files["alt"]) THEN files["alt"].secret ELSE new
             /\ loaded.files = Save(files, loaded.secret, writable)
  <1> DEFINE found == {k \in DOMAIN Candidates : Usable(files[Candidates[k]])}
             secret == IF found = {} THEN new ELSE files[First(found)].secret
  <1>1. DOMAIN Candidates = {1, 2} /\ Candidates[1] = "secret" /\ Candidates[2] = "alt"
    BY DEF Candidates
  <1>2. /\ 1 \in found <=> Usable(files["secret"])
        /\ 2 \in found <=> Usable(files["alt"])
        /\ found \subseteq {1, 2}
    BY <1>1
  <1>3. LoadOrCreateSecret(files, writable, new) = [secret |-> secret, files |-> Save(files, secret, writable)]
    BY DEF LoadOrCreateSecret
  <1> HIDE DEF found
  <1>4. ASSUME 1 \in found PROVE First(found) = "secret"
    <2>1. (CHOOSE k \in found : \A j \in found : k <= j) = 1
      <3>1. \A j \in found : 1 <= j
        BY <1>2
      <3>2. \A k \in found : (\A j \in found : k <= j) => k = 1
        BY <1>2, <1>4
      <3> QED BY <1>4, <3>1, <3>2
    <2> QED BY <1>1, <2>1 DEF First
  <1>5. ASSUME 1 \notin found, 2 \in found PROVE First(found) = "alt"
    <2>1. found = {2}
      BY <1>2, <1>5
    <2>2. (CHOOSE k \in found : \A j \in found : k <= j) = 2
      BY <2>1
    <2> QED BY <1>1, <2>2 DEF First
  <1>6. secret = IF Usable(files["secret"]) THEN files["secret"].secret
                 ELSE IF Usable(files["alt"]) THEN files["alt"].secret ELSE new
    <2>1. CASE 1 \in found
      BY <1>2, <1>4, <2>1
    <2>2. CASE 1 \notin found /\ 2 \in found
      BY <1>2, <1>5, <2>2
    <2>3. CASE 1 \notin found /\ 2 \notin found
      BY <1>2, <2>3
    <2> QED BY <2>1, <2>2, <2>3
  <1> HIDE DEF secret
  <1> QED BY <1>3, <1>6

(* What the program writes is a secret, and what is in the files is one,   *)
(* or none.                                                                *)
LEMMA WrittenIsUsable ==
  ASSUME NEW s, s # Garbage
  PROVE  Usable(Plain(s)) /\ Canonical(Plain(s)) /\ Plain(s).secret = s
  <1>1. Plain(s).secret = s /\ Plain(s).lower /\ ~Plain(s).dd
    BY DEF Plain, Text
  <1>2. Plain(s) # NoSecret
    <2>1. NoSecret.secret = Garbage
      BY DEF NoSecret, Plain, Text
    <2> QED BY <1>1, <2>1
  <1>3. Plain(s) # Missing
    <2>1. DOMAIN Plain(s) = {"secret", "dd", "lower"}
      BY DEF Plain, Text
    <2>2. DOMAIN Missing = {}
      BY DEF Missing
    <2> QED BY <2>1, <2>2
  <1> QED BY <1>1, <1>2, <1>3 DEF Usable, Canonical

LEMMA FoundIsSecret ==
  ASSUME NEW text \in Contents, text \notin {Missing, NoSecret}
  PROVE  text.secret # Garbage
  <1>1. PICK s \in Mine, dd \in BOOLEAN, lower \in BOOLEAN : text = Text(s, dd, lower)
    BY DEF Contents
  <1> QED BY <1>1, SecretsAreSecrets DEF Plain, Text

Both == {"secret", "alt"}

Known(files) == DOMAIN files = Both /\ \A f \in Both : Usable(files[f]) => files[f].secret # Garbage
Settled(files, writable) ==
  writable \subseteq Both /\ (writable # {} \/ \E f \in Both : Usable(files[f]))

(* A secret that was read, or written to one of the files, is what the     *)
(* next start loads.                                                       *)
LEMMA LoadsAgain ==
  ASSUME NEW files, Known(files), NEW writable, Settled(files, writable),
         NEW new, new # Garbage, NEW other,
         NEW loaded, loaded = LoadOrCreateSecret(files, writable, new)
  PROVE  LoadOrCreateSecret(loaded.files, writable, other).secret = loaded.secret
  <1>1. PICK s : s = loaded.secret
    OBVIOUS
  <1>2. PICK saved : saved = Save(files, s, writable)
    OBVIOUS
  <1>3. /\ s = IF Usable(files["secret"]) THEN files["secret"].secret
               ELSE IF Usable(files["alt"]) THEN files["alt"].secret ELSE new
        /\ loaded.files = saved
    BY <1>1, <1>2, LoadedSecret DEF Known, Both
  <1>4. s # Garbage
    BY <1>3 DEF Known, Both
  <1>5. /\ DOMAIN saved = Both
        /\ \A f \in Both : saved[f] = IF f \in writable THEN Plain(s) ELSE files[f]
    BY <1>2 DEF Save, Known
  <1>6. \A f \in writable : Usable(saved[f]) /\ saved[f].secret = s
    BY <1>4, <1>5, WrittenIsUsable DEF Settled
  <1>7. \A f \in Both \ writable : saved[f] = files[f]
    BY <1>5
  <1>8. LoadOrCreateSecret(saved, writable, other).secret
          = IF Usable(saved["secret"]) THEN saved["secret"].secret
            ELSE IF Usable(saved["alt"]) THEN saved["alt"].secret ELSE other
    BY <1>5, LoadedSecret DEF Both
  <1>9. (IF Usable(saved["secret"]) THEN saved["secret"].secret
         ELSE IF Usable(saved["alt"]) THEN saved["alt"].secret ELSE other) = s
    BY <1>3, <1>6, <1>7 DEF Settled, Both
  <1> QED BY <1>1, <1>3, <1>8, <1>9

(* What a start of zapret-cli leaves in the files. *)
LEMMA FilledIsFound ==
  ASSUME NEW files \in Directories
  PROVE  /\ DOMAIN Fill(files) = {"secret", "alt"}
         /\ \A f \in {"secret", "alt"} :
              /\ Fill(files)[f] # Missing
              /\ Fill(files)[f] # NoSecret => Fill(files)[f].secret # Garbage
  <1>1. /\ files.secret \in Contents /\ files.alt \in Contents
        /\ \A f \in {"secret", "alt"} : Fill(files)[f] \in {files.secret, files.alt, Plain(Drawn)} \ {Missing}
    <2>1. Plain(Drawn) # Missing
      BY SecretsAreSecrets, WrittenIsUsable DEF Usable
    <2>2. /\ Fill(files)["secret"] \in {files.secret, files.alt, Plain(Drawn)} \ {Missing}
          /\ Fill(files)["alt"] \in {files.secret, files.alt, Plain(Drawn)} \ {Missing}
      BY <2>1 DEF Fill
    <2>3. files.secret \in Contents /\ files.alt \in Contents
      BY DEF Directories
    <2> QED BY <2>2, <2>3
  <1>2. Plain(Drawn).secret # Garbage
    BY SecretsAreSecrets, WrittenIsUsable
  <1>3. DOMAIN Fill(files) = {"secret", "alt"}
    BY DEF Fill
  <1> QED BY <1>1, <1>2, <1>3, FoundIsSecret

(* What a start of the service, which may write both files, leaves there. *)
LEMMA ServedService ==
  ASSUME NEW files, DOMAIN files = Both, NEW new, NEW service, service = Serve(files, Both, new)
  PROVE  /\ service.secret = IF Usable(files["secret"]) THEN files["secret"].secret
                             ELSE IF Usable(files["alt"]) THEN files["alt"].secret ELSE new
         /\ DOMAIN service.files = Both
         /\ \A f \in Both : service.files[f] = Plain(service.secret)
         /\ service.secret \in service.accepts
  <1>1. PICK loaded : loaded = LoadOrCreateSecret(files, Both, new)
    OBVIOUS
  <1>2. service.secret = loaded.secret /\ service.files = loaded.files /\ service.secret \in service.accepts
    BY <1>1 DEF Serve, CollectAllSecrets
  <1>3. /\ loaded.secret = IF Usable(files["secret"]) THEN files["secret"].secret
                           ELSE IF Usable(files["alt"]) THEN files["alt"].secret ELSE new
        /\ loaded.files = Save(files, loaded.secret, Both)
    BY <1>1, LoadedSecret DEF Both
  <1>4. /\ DOMAIN loaded.files = Both
        /\ \A f \in Both : loaded.files[f] = Plain(loaded.secret)
    BY <1>3 DEF Save
  <1> QED BY <1>2, <1>3, <1>4

LEMMA RestartsKeepSecret == SecretKept
  <1>1. ASSUME NEW files \in Directories, NEW writable \in SUBSET {"secret", "alt"},
               writable # {} \/ \E f \in DOMAIN files : Usable(files[f])
        PROVE  Serve(Serve(files, writable, New[1]).files, writable, New[2]).secret = Serve(files, writable, New[1]).secret
    <2>1. DOMAIN files = Both /\ \A f \in Both : files[f] \in Contents
      BY DEF Directories, Both
    <2>2. Known(files)
      BY <2>1, FoundIsSecret DEF Usable, Known
    <2> DEFINE new == New[1]
               other == New[2]
    <2>3. new # Garbage
      BY SecretsAreSecrets
    <2>4. Settled(files, writable)
      BY <1>1, <2>1 DEF Settled, Both
    <2> HIDE DEF new, other
    <2>5. PICK loaded : loaded = LoadOrCreateSecret(files, writable, new)
      OBVIOUS
    <2>6. LoadOrCreateSecret(loaded.files, writable, other).secret = loaded.secret
      BY <2>2, <2>3, <2>4, <2>5, LoadsAgain
    <2> QED BY <2>5, <2>6 DEF Serve, new, other
  <1>2. ASSUME NEW files \in Directories
        PROVE  LET first == TgStart(files, New[1])
                   second == TgStart(first.service.files, New[2])
               IN  /\ Canonical(Fill(files).secret) => Works(first.link, first.service)
                   /\ Works(second.link, second.service)
                   /\ second.service.secret = first.service.secret
    <2> DEFINE new == New[1]
               other == New[2]
    <2>15. new # Garbage
      BY SecretsAreSecrets
    <2> HIDE DEF new, other
    <2>1. PICK filled : filled = Fill(files)
      OBVIOUS
    <2>2. PICK service : service = Serve(filled, Both, new)
      OBVIOUS
    <2>3. PICK kept, again : kept = Fill(service.files) /\ again = Serve(kept, Both, other)
      OBVIOUS
    <2>4. /\ DOMAIN filled = Both
          /\ \A f \in Both : Usable(filled[f]) => filled[f].secret # Garbage
      BY <2>1, FilledIsFound DEF Usable, Both
    <2>5. /\ service.secret = IF Usable(filled["secret"]) THEN filled["secret"].secret
                              ELSE IF Usable(filled["alt"]) THEN filled["alt"].secret ELSE new
          /\ service.secret \in service.accepts
          /\ DOMAIN service.files = Both
          /\ \A f \in Both : service.files[f] = Plain(service.secret)
      BY <2>2, <2>4, ServedService
    <2>6. service.secret # Garbage
      BY <2>4, <2>5, <2>15 DEF Both
    <2>7. /\ Usable(Plain(service.secret)) /\ Canonical(Plain(service.secret))
          /\ Plain(service.secret).secret = service.secret
      BY <2>6, WrittenIsUsable
    <2>8. DOMAIN kept = Both /\ kept["secret"] = Plain(service.secret)
      <3>1. service.files["secret"] = Plain(service.secret)
        BY <2>5 DEF Both
      <3>2. Plain(service.secret) # Missing
        BY <2>7 DEF Usable
      <3> QED BY <2>3, <3>1, <3>2 DEF Fill, Both
    <2>9. again.secret = service.secret /\ again.secret \in again.accepts
      BY <2>3, <2>7, <2>8, ServedService
    <2>10. DOMAIN files = Both
      BY DEF Directories, Both
    <2>11. TgStart(files, new) = [link |-> filled["secret"], service |-> service]
      BY <2>1, <2>2, <2>10 DEF TgStart
    <2>12. TgStart(service.files, other) = [link |-> kept["secret"], service |-> again]
      BY <2>3, <2>5 DEF TgStart
    <2>13. Works(kept["secret"], again)
      BY <2>7, <2>8, <2>9 DEF Works, Canonical
    <2>14. Canonical(filled["secret"]) => Works(filled["secret"], service)
      BY <2>5 DEF Canonical, Usable, Works
    <2> QED BY <2>1, <2>9, <2>11, <2>12, <2>13, <2>14 DEF new, other
  <1> QED BY <1>1, <1>2 DEF SecretKept

-----------------------------------------------------------------------------
(* Every variable of the process, those of its threads and those of its    *)
(* handlers, keeps to its values.                                          *)
THEOREM TypeCorrect == ProcessSpec => []TypeOK
  <1>1. ProcessInv => TypeOK
    BY DEF ProcessInv, DomainsInv, TypeOK
  <1> QED BY <1>1, ProcessInvariant, PTL

(* Wherever the worker was when stop set its event, or found no loop to    *)
(* set it on: a thread that stop has joined leaves no listener, and        *)
(* _server_instance is None.                                               *)
THEOREM ListenerIsClosed == ProcessSpec => []StopClosesListener
  <1>1. ProcessInv => StopClosesListener
    BY DEF ProcessInv, ControllerInv, After, StopClosesListener, C!StopClosesListener
  <1> QED BY <1>1, ProcessInvariant, PTL

(* In a process that starts, serves and stops, with handlers that are cut  *)
(* off at any point, an attempt still tries each domain once.              *)
THEOREM ProcessTriesEachOnce == ProcessSpec => []EachTriedOnce
  <1>1. ProcessInv => EachTriedOnce
    BY InvTries DEF ProcessInv
  <1> QED BY <1>1, ProcessInvariant, PTL

(* No step of the process, its end included, moves a data centre away from *)
(* a domain unless another one has worked or the list is another one.      *)
THEOREM ProcessKeepsDomain == ProcessSpec => WorkingDomainKept
  <1>1. ProcessInv /\ [ProcessNext]_vars => [Kept]_dvars
    <2> SUFFICES ASSUME ProcessInv, [ProcessNext]_vars PROVE [Kept]_dvars
      OBVIOUS
    <2>1. UNCHANGED dcToDomain => Kept
      BY DEF Kept
    <2>2. UNCHANGED vars => UNCHANGED dvars
      BY DEF vars
    <2> QED BY <2>1, <2>2, ProcessStep, NextKeeps DEF ProcessInv
  <1> QED BY <1>1, ProcessInvariant, PTL DEF ProcessSpec, WorkingDomainKept, Kept

(* Whatever text the two files hold, a restart of the service keeps its    *)
(* secret, if it could read one or write one; and the link that zapret-cli *)
(* tg prints is taken, at the latest at its second start.                  *)
THEOREM RestartKeepsSecret == ProcessSpec => []SecretIsKept
  <1>1. SecretIsKept
    BY RestartsKeepSecret DEF SecretIsKept
  <1> QED BY <1>1, PTL

LEMMA StepsAreControllers == [ProcessNext]_vars => [C!Next]_(C!vars)
  <1> SUFFICES ASSUME [ProcessNext]_vars PROVE C!Next \/ UNCHANGED C!vars
    OBVIOUS
  <1>1. UNCHANGED controller => UNCHANGED C!vars
    BY DEF controller, C!vars, C!mainVars, C!loopVars, C!shared, C!socket
  <1>2. CASE Controller
    BY <1>2 DEF Controller, C!Next, C!Worker
  <1>3. CASE Boot
    BY <1>3 DEF Boot, C!Next, C!Worker
  <1>4. CASE Halt
    BY <1>4 DEF Halt, C!Next, C!Worker
  <1>5. CASE Thread \/ \E h \in Handler : Handle(h)
    BY <1>1, <1>5 DEF Thread, Handle
  <1>6. CASE Disconnect
    BY <1>6 DEF Disconnect, C!Next
  <1>7. CASE UNCHANGED vars
    BY <1>1, <1>7 DEF vars
  <1> QED BY <1>2, <1>3, <1>4, <1>5, <1>6, <1>7 DEF ProcessNext

(* The process takes no step that the controller by itself could not take: *)
(* the refresh thread and the handlers leave its variables alone, and with *)
(* _run they only add to its step.  What is shown of TgProxyController,    *)
(* liveness included, holds in the process.                                *)
THEOREM ImplementsController == ProcessFairSpec => C!FairSpec
  <1>1. ProcessInit => C!Init
    BY DEF ProcessInit
  <1> QED BY <1>1, StepsAreControllers, PTL DEF ProcessFairSpec, ProcessSpec, C!FairSpec, C!Spec

-----------------------------------------------------------------------------
(* When serve may say that it is ready. *)

(* Until stop, nothing but the listener sets _started, and nothing closes  *)
(* the listener.                                                           *)
BeforeStop == {"start", "wait", "error?", "running?", "ready", "serving"}

ReadyInv ==
  /\ main \in BeforeStop => stopEvent # "set" /\ run \in {"none", "binding", "serving"}
  /\ main \in BeforeStop /\ started => run = "serving"
  /\ main \in BeforeStop \ {"start", "wait"} => started
  /\ run = "serving" /\ main # "exited" => listening

LEMMA ReadyStep ==
  ASSUME ~BindMayFail, ~BindMayLast, ControllerInv, ReadyInv, [C!Next]_(C!vars)
  PROVE  ReadyInv'
  <1> USE DEF ReadyInv, ControllerInv, BeforeStop, Before, After, C!mainVars, C!loopVars, C!shared, C!socket
  <1>1. CASE C!MainStart \/ C!MainWait \/ C!MainError \/ C!MainRunning \/ C!MainReady
    BY <1>1 DEF C!MainStart, C!MainWait, C!MainError, C!MainRunning, C!MainReady
  <1>2. CASE C!Interrupt \/ C!MainStop \/ C!MainJoin \/ C!MainAbort \/ C!MainExit
    BY <1>2 DEF C!Interrupt, C!MainStop, C!MainJoin, C!MainAbort, C!MainExit
  <1>3. CASE C!WorkerBoot \/ C!WorkerRun \/ C!Poll
    BY <1>3 DEF C!WorkerBoot, C!WorkerRun, C!Poll
  <1>4. CASE C!RunEnded \/ C!WorkerRaised \/ C!WorkerFinally \/ C!WorkerClose
    BY <1>4 DEF C!RunEnded, C!WorkerRaised, C!WorkerFinally, C!WorkerClose
  <1>5. CASE C!Run
    BY <1>5 DEF C!Run, C!Bind, C!CloseServer, C!ServerClosed
  <1>6. CASE C!ClientComes \/ C!ClientsLeave \/ UNCHANGED C!vars
    BY <1>6 DEF C!ClientComes, C!ClientsLeave, C!vars
  <1> QED BY <1>1, <1>2, <1>3, <1>4, <1>5, <1>6 DEF C!Next, C!Main, C!Worker

(* A bind that fails, or takes longer than the polling, is all that may    *)
(* make serve report a listener that is not there: without either, serve   *)
(* has its listener for as long as it says so, whatever the threads do.    *)
THEOREM ReadyIsListening == ~BindMayFail /\ ~BindMayLast => (ProcessSpec => []C!ReadyMeansListening)
  <1> SUFFICES ASSUME ~BindMayFail, ~BindMayLast PROVE ProcessSpec => []C!ReadyMeansListening
    OBVIOUS
  <1>1. ProcessInit => ReadyInv
    BY DEF ProcessInit, C!Init, ReadyInv, BeforeStop
  <1>2. ProcessInv /\ ReadyInv /\ [ProcessNext]_vars => ReadyInv'
    BY StepsAreControllers, ReadyStep DEF ProcessInv
  <1>3. ReadyInv => C!ReadyMeansListening
    BY DEF ReadyInv, BeforeStop, C!ReadyMeansListening
  <1> QED BY <1>1, <1>2, <1>3, ProcessInvariant, PTL DEF ProcessSpec
=============================================================================
