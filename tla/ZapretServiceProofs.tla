------------------------ MODULE ZapretServiceProofs ------------------------
(***************************************************************************)
(* For every set of strategies and every bound on commands, crashes and    *)
(* failures of iptables: the firewall rules are those of the running nfqws,*)
(* and zapret-cli stop leaves nothing behind, but for rules that iptables  *)
(* could not delete.                                                       *)
(*                                                                         *)
(* The argument is about who may run beside whom.  ExecStop= runs only     *)
(* while the unit is deactivating, the clean-up of zapret-run.sh only      *)
(* while that script waits for it, and the one of zapret-cli stop only     *)
(* while the unit is down (Owners).  So whatever is cleaned away from      *)
(* under a starting script belongs to a unit that is going down, and a     *)
(* unit that is up has exactly the rules its script inserted (RulesInv).   *)
(*                                                                         *)
(* What nfqws runs is what the file says, and no entry outlives a .no_hosts*)
(* (ConfigInv): whoever writes the file restarts the unit before the       *)
(* prompt is back, and what a start adds to /etc/hosts its own clean-up,   *)
(* which it waits for, takes away again.                                   *)
(***************************************************************************)
EXTENDS StrategyTest, TLAPS

(* Which scripts may be running in which state of the unit and the command.*)
Owners ==
  /\ clean["execstop"] # "off" => unit = "deactivating"
  /\ clean["run"] # "off" => main = "clean"
  /\ clean["cli"] # "off" => cli = "cleaning"
  /\ unit \in {"inactive", "restart_wait"} => main = "none"
  /\ cli \in {"cleaning", "stopped"} => unit = "inactive"

(* The rules at each point of the start, and those of a unit that is up,   *)
(* for a protocol whose rules the last removal did delete.                 *)
RulesInv ==
  /\ \A p \in Proto \ undeleted : rules[p] <= 1
  /\ main = "clean" /\ clean["run"] # "rules" => \A p \in Proto \ undeleted : rules[p] = 0
  /\ main = "udp" => "udp" \in undeleted \/ rules["udp"] = 0
  /\ unit = "active" /\ main \in {"udp", "exec", "nfqws"} /\ "tcp" \notin undeleted =>
       rules["tcp"] = IF "tcp" \in failed THEN 0 ELSE 1
  /\ unit = "active" /\ main \in {"exec", "nfqws"} /\ "udp" \notin undeleted =>
       rules["udp"] = IF "udp" \in failed THEN 0 ELSE 1

(* What zapret-stop.sh, run by zapret-cli stop, has done so far. *)
StopInv ==
  /\ cli = "cleaning" /\ clean["cli"] # "rules" => \A p \in Proto \ undeleted : rules[p] = 0
  /\ cli = "cleaning" /\ clean["cli"] = "off" => ~hosts
  /\ cli = "stopped" => ~hosts /\ \A p \in Proto \ undeleted : rules[p] = 0

(* The script has made sure that current_strategy.conf is there. *)
FileThere == main \in MainPc \ {"none", "prepare"} => file # "missing"

ServiceInv == TypeOK /\ Owners /\ RulesInv /\ StopInv /\ FileThere

-----------------------------------------------------------------------------
LEMMA InitService == Init => ServiceInv
  <1> SUFFICES ASSUME Init PROVE ServiceInv
    OBVIOUS
  <1> USE DefaultAssumption, BoundsAssumption
  <1>1. TypeOK
    <2>1. clean \in [Cleaner -> CleanPc] /\ rules \in [Proto -> Nat]
      BY DEF Init, CleanPc
    <2>2. /\ file \in Content \cup {"missing"} /\ buffer \in Content
          /\ loaded \in Content /\ chosen \in Strategy
      BY DEF Init, Content
    <2>3. commands \in 0..MaxCommands /\ crashes \in 0..MaxCrashes /\ fails \in 0..MaxFails
      BY DEF Init
    <2>4. lacks \subseteq {"nfqws", "default"}
      BY DEF Init
    <2> QED BY <2>1, <2>2, <2>3, <2>4 DEF Init, TypeOK, MainPc, CliPc, TestPc
  <1>2. Owners /\ RulesInv /\ StopInv /\ FileThere
    BY DEF Init, Owners, RulesInv, StopInv, FileThere, Cleaner, Proto
  <1> QED BY <1>1, <1>2 DEF ServiceInv

(* zapret-run.sh before it touches the firewall. *)
LEMMA RunUpStep ==
  ASSUME ServiceInv,
         RunExits \/ RunPrepare \/ RunSed \/ RunSource \/ RunCheckHosts \/ RunApplyHosts
  PROVE  ServiceInv'
  <1> USE DefaultAssumption DEF user, firewall, hostsVars, strategy
  <1>1. TypeOK'
    <2>4. CASE RunExits
      BY <2>4 DEF RunExits, ServiceInv, TypeOK, MainPc
    <2>1. CASE RunPrepare
      <3>1. file' \in Content
        BY <2>1 DEF RunPrepare, ServiceInv, TypeOK, Content
      <3>2. loaded' \in Content /\ failed' \subseteq Proto
        BY <2>1 DEF RunPrepare, Content
      <3> QED BY <2>1, <3>1, <3>2 DEF RunPrepare, ServiceInv, TypeOK, MainPc
    <2>2. CASE RunSed \/ RunSource
      <3>1. file' \in Content \cup {"missing"} /\ buffer' \in Content
        BY <2>2 DEF RunSed, RunSource, ServiceInv, TypeOK, Content
      <3>2. loaded' \in Content
        BY <2>2 DEF RunSed, RunSource, ServiceInv, TypeOK, FileThere, MainPc
      <3> QED BY <2>2, <3>1, <3>2 DEF RunSed, RunSource, ServiceInv, TypeOK, MainPc
    <2>3. CASE RunCheckHosts \/ RunApplyHosts
      <3>1. clean' \in [Cleaner -> CleanPc]
        BY <2>3 DEF RunCheckHosts, RunApplyHosts, ServiceInv, TypeOK, CleanPc
      <3> QED BY <2>3, <3>1 DEF RunCheckHosts, RunApplyHosts, ServiceInv, TypeOK, MainPc
    <2> QED BY <2>1, <2>2, <2>3, <2>4
  <1>2. Owners'
    BY DEF ServiceInv, TypeOK, Owners, RunExits, RunPrepare, RunSed, RunSource,
           RunCheckHosts, RunApplyHosts, Cleaner
  <1>3. RulesInv'
    BY DEF ServiceInv, TypeOK, Owners, RulesInv, RunExits, RunPrepare, RunSed, RunSource,
           RunCheckHosts, RunApplyHosts, Cleaner
  <1>4. StopInv'
    BY DEF ServiceInv, TypeOK, Owners, StopInv, RunExits, RunPrepare, RunSed, RunSource,
           RunCheckHosts, RunApplyHosts, Cleaner
  <1>5. FileThere'
    BY DefaultAssumption, StrategyAssumption
       DEF ServiceInv, TypeOK, FileThere, RunExits, RunPrepare, RunSed, RunSource,
           RunCheckHosts, RunApplyHosts, MainPc, Content
  <1> QED BY <1>1, <1>2, <1>3, <1>4, <1>5 DEF ServiceInv

(* One insertion: no rule, reported as failed, or one rule more.  iptables *)
(* fails within the bound, and nothing is deleted.                         *)
LEMMA InsertOne ==
  ASSUME ServiceInv, NEW p \in Proto, Insert(p)
  PROVE  /\ rules' \in [Proto -> Nat] /\ failed' \subseteq Proto
         /\ fails' \in 0..MaxFails /\ undeleted' = undeleted
         /\ rules'[p] = IF p \in failed' THEN rules[p] ELSE rules[p] + 1
         /\ \A q \in Proto \ {p} : rules'[q] = rules[q] /\ (q \in failed' <=> q \in failed)
  <1> USE BoundsAssumption
  <1>1. rules \in [Proto -> Nat] /\ failed \subseteq Proto /\ fails \in 0..MaxFails
    BY DEF ServiceInv, TypeOK
  <1>2. CASE rules' = [rules EXCEPT ![p] = @ + 1] /\ failed' = failed \ {p} /\ fails' = fails
    BY <1>1, <1>2 DEF Insert
  <1>3. CASE /\ loaded = "empty" \/ fails < MaxFails
             /\ failed' = failed \cup {p} /\ rules' = rules
             /\ fails' = IF loaded = "empty" THEN fails ELSE fails + 1
    <2>1. fails' \in 0..MaxFails
      BY <1>1, <1>3
    <2> QED BY <1>1, <1>3, <2>1 DEF Insert
  <1> QED BY <1>2, <1>3 DEF Insert

(* zapret-run.sh at the firewall, and nfqws. *)
LEMMA RunRulesStep ==
  ASSUME ServiceInv, RunTcp \/ RunUdp \/ RunExec \/ Crash
  PROVE  ServiceInv'
  <1> USE BoundsAssumption DEF user, firewall, hostsVars, strategy
  <1>1. CASE RunTcp
    <2>1. /\ "tcp" \in undeleted \/ rules["tcp"] = 0
          /\ "udp" \in undeleted \/ rules["udp"] = 0
          /\ Insert("tcp")
      BY <1>1 DEF RunTcp, ServiceInv, RulesInv, Proto
    <2>2. TypeOK'
      BY <1>1, <2>1, InsertOne DEF RunTcp, ServiceInv, TypeOK, MainPc, Proto
    <2>3. Owners' /\ StopInv' /\ FileThere'
      BY <1>1 DEF RunTcp, ServiceInv, TypeOK, Owners, StopInv, FileThere, MainPc
    <2>4. RulesInv'
      BY <1>1, <2>1, InsertOne DEF RunTcp, ServiceInv, TypeOK, RulesInv, Proto
    <2> QED BY <2>2, <2>3, <2>4 DEF ServiceInv
  <1>2. CASE RunUdp
    <2>1. ("udp" \in undeleted \/ rules["udp"] = 0) /\ Insert("udp")
      BY <1>2 DEF RunUdp, ServiceInv, RulesInv, Proto
    <2>2. TypeOK'
      BY <1>2, <2>1, InsertOne DEF RunUdp, ServiceInv, TypeOK, MainPc, Proto
    <2>3. Owners' /\ StopInv' /\ FileThere'
      BY <1>2 DEF RunUdp, ServiceInv, TypeOK, Owners, StopInv, FileThere, MainPc
    <2>4. RulesInv'
      BY <1>2, <2>1, InsertOne DEF RunUdp, ServiceInv, TypeOK, RulesInv, Proto
    <2> QED BY <2>2, <2>3, <2>4 DEF ServiceInv
  <1>3. CASE RunExec \/ Crash
    <2>1. TypeOK'
      <3>1. crashes' \in 0..MaxCrashes
        BY <1>3 DEF RunExec, Crash, ServiceInv, TypeOK
      <3> QED BY <1>3, <3>1 DEF RunExec, Crash, ServiceInv, TypeOK, MainPc
    <2>2. Owners' /\ StopInv' /\ FileThere'
      BY <1>3 DEF RunExec, Crash, ServiceInv, TypeOK, Owners, StopInv, FileThere, MainPc
    <2>3. RulesInv'
      BY <1>3 DEF RunExec, Crash, ServiceInv, TypeOK, RulesInv
    <2> QED BY <2>1, <2>2, <2>3 DEF ServiceInv
  <1> QED BY <1>1, <1>2, <1>3

(* The removal of the rules leaves none of a protocol, or knows of it, and *)
(* adds none.                                                              *)
LEMMA CleanRulesLeaves ==
  ASSUME ServiceInv, NEW x \in Cleaner, CleanRules(x)
  PROVE  /\ rules' \in [Proto -> Nat] /\ undeleted' \subseteq Proto
         /\ fails' \in 0..MaxFails
         /\ \A p \in Proto \ undeleted' : rules'[p] = 0
  <1>1. rules["tcp"] \in Nat /\ rules["udp"] \in Nat /\ fails \in 0..MaxFails
    BY DEF ServiceInv, TypeOK, Proto
  <1>2. PICK n \in Nat : n = rules["tcp"] + rules["udp"]
    BY <1>1
  <1>3. /\ rules' \in [Proto -> 0..n]
        /\ \A p \in Proto : rules'[p] = 0 \/ fails < MaxFails
    BY <1>2 DEF CleanRules
  <1>4. rules' \in [Proto -> Nat]
    BY <1>3
  <1>5. undeleted' = {p \in Proto : rules'[p] > 0}
    BY DEF CleanRules
  <1>6. \A p \in Proto \ undeleted' : rules'[p] = 0
    BY <1>4, <1>5
  <1>7. fails' \in 0..MaxFails
    <2>1. CASE undeleted' = {}
      BY <1>1, <2>1 DEF CleanRules
    <2>2. CASE undeleted' # {}
      <3>1. fails < MaxFails
        BY <1>3, <1>4, <1>5, <2>2
      <3> QED BY <1>1, <2>2, <3>1, BoundsAssumption DEF CleanRules
    <2> QED BY <2>1, <2>2
  <1> QED BY <1>4, <1>5, <1>6, <1>7

(* A step of zapret-stop.sh, whoever runs it. *)
LEMMA CleanStep ==
  ASSUME ServiceInv, NEW x \in Cleaner, Clean(x)
  PROVE  ServiceInv'
  <1> USE DEF user, firewall, hostsVars, strategy
  <1>1. TypeOK'
    <2>1. clean' \in [Cleaner -> CleanPc]
      BY DEF ServiceInv, TypeOK, Clean, CleanRules, CleanKill, CleanHosts, CleanPc
    <2>2. rules' \in [Proto -> Nat] /\ undeleted' \subseteq Proto /\ fails' \in 0..MaxFails
      BY CleanRulesLeaves DEF ServiceInv, TypeOK, Clean, CleanKill, CleanHosts
    <2>3. main' \in MainPc /\ hosts' \in BOOLEAN
      BY DEF ServiceInv, TypeOK, Clean, CleanRules, CleanKill, CleanHosts, MainPc
    <2> QED BY <2>1, <2>2, <2>3
            DEF ServiceInv, TypeOK, Clean, CleanRules, CleanKill, CleanHosts
  <1>2. Owners'
    BY DEF ServiceInv, TypeOK, Owners, Clean, CleanRules, CleanKill, CleanHosts, Cleaner
  <1>3. RulesInv' /\ StopInv'
    <2>1. CASE CleanRules(x)
      <3>1. \A p \in Proto \ undeleted' : rules'[p] = 0
        BY <2>1, CleanRulesLeaves
      <3>2. ~(unit' = "active" /\ main' \in {"udp", "exec", "nfqws"})
        BY <2>1 DEF CleanRules, ServiceInv, Owners, Cleaner
      <3> QED BY <2>1, <3>1, <3>2 DEF CleanRules, ServiceInv, RulesInv, StopInv, Proto
    <2>2. CASE CleanKill(x) \/ CleanHosts(x)
      BY <2>2 DEF ServiceInv, TypeOK, Owners, RulesInv, StopInv, CleanKill, CleanHosts, Cleaner, Proto
    <2> QED BY <2>1, <2>2 DEF Clean
  <1>5. FileThere'
    BY DEF ServiceInv, TypeOK, FileThere, Clean, CleanRules, CleanKill, CleanHosts, MainPc
  <1> QED BY <1>1, <1>2, <1>3, <1>5 DEF ServiceInv

(* systemd. *)
LEMMA SystemdStep ==
  ASSUME ServiceInv, SdNotice \/ SdRestart \/ SdStopped
  PROVE  ServiceInv'
  <1> USE DEF user, firewall, hostsVars, strategy
  <1>1. TypeOK'
    <2>1. clean' \in [Cleaner -> CleanPc]
      BY DEF ServiceInv, TypeOK, SdNotice, SdRestart, SdStopped, CleanPc
    <2> QED BY <2>1 DEF ServiceInv, TypeOK, SdNotice, SdRestart, SdStopped, Start, MainPc
  <1>2. Owners'
    BY DEF ServiceInv, TypeOK, Owners, SdNotice, SdRestart, SdStopped, Start, Cleaner
  <1>3. RulesInv'
    BY DEF ServiceInv, TypeOK, RulesInv, Owners, SdNotice, SdRestart, SdStopped, Start, Cleaner
  <1>4. StopInv'
    BY DEF ServiceInv, TypeOK, Owners, StopInv, SdNotice, SdRestart, SdStopped, Start, Cleaner
  <1>5. FileThere'
    BY DEF ServiceInv, TypeOK, FileThere, SdNotice, SdRestart, SdStopped, Start, MainPc
  <1> QED BY <1>1, <1>2, <1>3, <1>4, <1>5 DEF ServiceInv

(* A stop or restart job, given while zapret-cli is not cleaning up, keeps *)
(* the scripts where they belong.                                          *)
LEMMA SystemctlStopKeeps ==
  ASSUME ServiceInv, NEW g \in {"active", "inactive"}, SystemctlStop(g),
         clean["cli"] = "off"
  PROVE  /\ unit' \in {"inactive", "active", "deactivating", "restart_wait"}
         /\ goal' \in {"inactive", "active", "restart_wait"}
         /\ main' \in {main, "prepare"}
         /\ clean' \in [Cleaner -> CleanPc]
         /\ clean'["run"] = clean["run"] /\ clean'["cli"] = "off"
         /\ clean'["execstop"] # "off" => unit' = "deactivating"
         /\ unit' \in {"inactive", "restart_wait"} => main' = "none"
         /\ unit' = "active" => main' = "prepare"
         /\ clean["run"] # "off" => main' = main
  BY DEF ServiceInv, TypeOK, Owners, SystemctlStop, Start, CleanPc, Cleaner

(* A command of the user that asks systemd for something. *)
LEMMA JobStep ==
  ASSUME ServiceInv, CliStart \/ CliRestart \/ CliStop \/ CliSwitchRestart
  PROVE  ServiceInv'
  <1> USE BoundsAssumption DEF user, firewall, hostsVars, strategy, Ready
  <1>0. clean["cli"] = "off"
    BY DEF ServiceInv, Owners, CliStart, CliRestart, CliStop, CliSwitchRestart, Command
  <1>1. CASE CliStart
    <2>1. TypeOK'
      BY <1>1 DEF ServiceInv, TypeOK, CliStart, Command, Start, MainPc, CliPc, TestPc
    <2>2. Owners'
      BY <1>0, <1>1 DEF ServiceInv, TypeOK, Owners, CliStart, Command, Start
    <2>3. RulesInv'
      BY <1>0, <1>1 DEF ServiceInv, TypeOK, Owners, RulesInv, CliStart, Command, Start
    <2>4. StopInv' /\ FileThere'
      BY <1>0, <1>1 DEF ServiceInv, TypeOK, StopInv, FileThere, CliStart, Command, Start, MainPc
    <2> QED BY <2>1, <2>2, <2>3, <2>4 DEF ServiceInv
  <1>2. CASE CliRestart \/ CliStop \/ CliSwitchRestart
    <2>1. PICK g \in {"active", "inactive"} : SystemctlStop(g)
      BY <1>2 DEF CliRestart, CliStop, CliSwitchRestart
    <2>2. /\ UNCHANGED <<firewall, hostsVars, strategy, chosen, crashes, lacks>>
          /\ cli' \in {"restarting", "stopping", "switching"}
          /\ commands' \in 0..MaxCommands
      BY <1>2 DEF CliRestart, CliStop, CliSwitchRestart, Command, ServiceInv, TypeOK
    <2>3. TypeOK'
      BY <1>0, <2>1, <2>2, SystemctlStopKeeps DEF ServiceInv, TypeOK, MainPc, CliPc, TestPc
    <2>4. Owners'
      BY <1>0, <2>1, <2>2, SystemctlStopKeeps DEF ServiceInv, Owners
    <2>5. RulesInv'
      BY <1>0, <2>1, <2>2, SystemctlStopKeeps DEF ServiceInv, RulesInv
    <2>6. StopInv' /\ FileThere'
      BY <1>0, <2>1, <2>2, SystemctlStopKeeps DEF ServiceInv, StopInv, FileThere, MainPc
    <2> QED BY <2>3, <2>4, <2>5, <2>6 DEF ServiceInv
  <1> QED BY <1>1, <1>2

(* A step of zapret-cli that systemd has no part in. *)
LEMMA CliOwnStep ==
  ASSUME ServiceInv,
         \/ CliSwitch \/ CliClean \/ CliStopped \/ CliCopied \/ CliRestarted
         \/ CliHostsDone \/ \E on \in BOOLEAN : CliHosts(on)
  PROVE  ServiceInv'
  <1> USE BoundsAssumption DEF user, firewall, hostsVars, strategy, service, Ready
  <1>1. CASE CliSwitch \/ CliCopied
    <2>1. file' \in Content /\ chosen' \in Strategy
      BY <1>1 DEF ServiceInv, TypeOK, CliSwitch, CliCopied, Content, Present
    <2>5. commands' \in 0..MaxCommands
      BY <1>1 DEF ServiceInv, TypeOK, CliSwitch, CliCopied, Command
    <2>6. /\ cli' \in {"copying", "copied"}
          /\ UNCHANGED <<service, firewall, hostsVars, buffer, loaded, crashes, lacks>>
      BY <1>1 DEF CliSwitch, CliCopied
    <2>2. TypeOK'
      BY <2>1, <2>5, <2>6 DEF ServiceInv, TypeOK, CliPc, TestPc
    <2>3. Owners' /\ RulesInv' /\ StopInv'
      BY <1>1 DEF ServiceInv, TypeOK, Owners, RulesInv, StopInv, CliSwitch, CliCopied, Command
    <2>4. FileThere'
      BY <1>1, StrategyAssumption DEF ServiceInv, TypeOK, FileThere, CliSwitch, CliCopied
    <2> QED BY <2>2, <2>3, <2>4 DEF ServiceInv
  <1>2. CASE CliClean \/ CliStopped \/ CliRestarted
    <2>1. clean' \in [Cleaner -> CleanPc]
      BY <1>2 DEF ServiceInv, TypeOK, CliClean, CliStopped, CliRestarted, CleanPc
    <2>2. TypeOK'
      BY <1>2, <2>1 DEF ServiceInv, TypeOK, CliClean, CliStopped, CliRestarted, CliPc, TestPc
    <2>3. Owners' /\ RulesInv'
      BY <1>2 DEF ServiceInv, TypeOK, Owners, RulesInv, CliClean, CliStopped, CliRestarted, Cleaner
    <2>4. StopInv' /\ FileThere'
      BY <1>2 DEF ServiceInv, TypeOK, StopInv, FileThere, CliClean, CliStopped, CliRestarted, Cleaner
    <2> QED BY <2>2, <2>3, <2>4 DEF ServiceInv
  <1>3. CASE CliHostsDone \/ \E on \in BOOLEAN : CliHosts(on)
    <2>3. hosts' \in BOOLEAN /\ noHosts' \in BOOLEAN
      BY <1>3, Zenon DEF ServiceInv, TypeOK, CliHostsDone, CliHosts
    <2>4. /\ commands' \in 0..MaxCommands
          /\ cli' \in {"hosts_on", "hosts_off", "idle"}
          /\ UNCHANGED <<service, firewall, strategy, chosen, crashes, lacks>>
      BY <1>3 DEF ServiceInv, TypeOK, CliHostsDone, CliHosts, Command
    <2>1. TypeOK'
      BY <2>3, <2>4 DEF ServiceInv, TypeOK, CliPc, TestPc
    <2>2. Owners' /\ RulesInv' /\ StopInv' /\ FileThere'
      BY <1>3 DEF ServiceInv, TypeOK, Owners, RulesInv, StopInv, FileThere, CliHostsDone,
                  CliHosts, Command
    <2> QED BY <2>1, <2>2 DEF ServiceInv
  <1> QED BY <1>1, <1>2, <1>3

(* Every step of the service keeps the invariant. *)
LEMMA NextService == ServiceInv /\ [Next]_vars => ServiceInv'
  <1> SUFFICES ASSUME ServiceInv, [Next]_vars PROVE ServiceInv'
    OBVIOUS
  <1>1. CASE Run \/ Crash
    BY <1>1, RunUpStep, RunRulesStep DEF Run
  <1>2. CASE \E x \in Cleaner : Clean(x)
    BY <1>2, CleanStep
  <1>3. CASE SdNotice \/ SdRestart \/ SdStopped
    BY <1>3, SystemdStep
  <1>4. CASE \/ CliStart \/ CliRestart \/ CliStop \/ CliSwitch \/ CliStep
             \/ \E on \in BOOLEAN : CliHosts(on)
    BY <1>4, JobStep, CliOwnStep DEF CliStep
  <1>5. CASE UNCHANGED vars
    BY <1>5 DEF vars, service, firewall, hostsVars, strategy, user, ServiceInv,
                TypeOK, Owners, RulesInv, StopInv, FileThere
  <1> QED BY <1>1, <1>2, <1>3, <1>4, <1>5 DEF Next

-----------------------------------------------------------------------------
(* zapret-cli test *)

(* The copy of the file is there until it is put back; then, unless sed -i *)
(* comes in between, the file is what it was, or the strategy picked.      *)
TestInv ==
  /\ role \in Role
  /\ untested \subseteq Strategy /\ works \subseteq Strategy
  /\ backup \in Content \cup {"missing"} /\ original \in Content \cup {"missing"}
  /\ raced \in BOOLEAN
  /\ cli \in TestPc /\ backup = "missing" =>
       \/ role \in {"restore", "interrupt", "kept"} /\ cli \in {"test_copied", "test_restarting"}
       \/ role = "pick" /\ cli = "test_removed"
  /\ cli \in {"test_next", "test_probing"} => role \in Trying
  /\ cli = "test_copying" => role # "kept"
  /\ cli = "test_removed" => role = "pick"
  /\ cli = "tested" => role \notin Trying
  /\ cli \in TestPc /\ backup # "missing" /\ original # "missing" => backup = original
  /\ cli \in {"test_copied", "test_restarting", "test_probing", "test_removed", "tested"} /\ ~raced =>
       /\ role \in Trying \cup {"pick", "kept"} => file = chosen
       /\ role \in {"restore", "interrupt"} /\ original # "missing" => file = original
  /\ cli = "test_next" /\ role = "single" /\ untested = {} /\ ~raced => file = chosen

(* A step of the test leaves the service's scripts alone, but for the job  *)
(* it gives to systemd.                                                    *)
LEMMA TestOwnStep ==
  ASSUME ServiceInv, TestInv,
         TestStart \/ TestTry \/ TestPick \/ TestKeep \/ TestRestore \/ TestInterrupt
           \/ TestCopied \/ TestRestarted \/ TestUntrap \/ TestProbe
  PROVE  ServiceInv'
  <1> USE BoundsAssumption DEF Copy, user, firewall, hostsVars, strategy, service, Ready
  <1>1. /\ UNCHANGED <<service, firewall, hostsVars, buffer, loaded, crashes, lacks>>
        /\ cli' \in TestPc \cup {"tested"}
        /\ cli \in TestPc \cup Ready
    BY DEF TestStart, TestTry, TestPick, TestKeep, TestRestore, TestInterrupt, TestCopied, TestRestarted,
           TestUntrap, testVars, TestProbe, TestPc
  <1>2. commands' \in 0..MaxCommands
    BY DEF ServiceInv, TypeOK, TestStart, TestTry, TestPick, TestKeep, TestRestore, TestInterrupt,
           TestCopied, TestRestarted, TestUntrap, TestProbe
  <1>3. chosen' \in Strategy
    BY DEF ServiceInv, TypeOK, TestInv, TestStart, TestTry, TestPick, TestKeep, TestRestore,
           TestInterrupt, TestCopied, TestRestarted, TestUntrap, TestProbe
  <1>4. file' \in Content \/ file' = file
    <2>1. CASE TestCopied
      <3>1. chosen \in Content
        BY DEF ServiceInv, TypeOK, Content
      <3>2. role \in {"restore", "interrupt", "kept"} => backup \in Content
        BY <2>1 DEF TestCopied, TestInv, TestPc
      <3> QED BY <2>1, <3>1, <3>2 DEF TestCopied, TestInv, Role, Trying
    <2>2. CASE \/ TestStart \/ TestTry \/ TestPick \/ TestKeep \/ TestRestore \/ TestInterrupt
               \/ TestRestarted \/ TestUntrap \/ TestProbe
      BY <2>2 DEF TestStart, TestTry, TestPick, TestKeep, TestRestore, TestInterrupt, TestRestarted,
                  TestUntrap, TestProbe, Content
    <2> QED BY <2>1, <2>2
  <1>5. TypeOK'
    BY <1>1, <1>2, <1>3, <1>4 DEF ServiceInv, TypeOK, CliPc
  <1>6. Owners' /\ RulesInv' /\ StopInv'
    BY <1>1 DEF ServiceInv, Owners, RulesInv, StopInv, TestPc
  <1>7. FileThere'
    BY <1>1, <1>4, StrategyAssumption DEF ServiceInv, FileThere, Content
  <1> QED BY <1>5, <1>6, <1>7 DEF ServiceInv

LEMMA TestRestartStep ==
  ASSUME ServiceInv, TestRestart
  PROVE  ServiceInv'
  <1> USE DEF user, firewall, hostsVars, strategy
  <1>1. clean["cli"] = "off"
    BY DEF ServiceInv, Owners, TestRestart
  <1>2. /\ SystemctlStop("active")
        /\ UNCHANGED <<firewall, hostsVars, strategy, chosen, commands, crashes, lacks>>
        /\ cli' = "test_restarting"
    BY DEF TestRestart
  <1>3. TypeOK'
    BY <1>1, <1>2, SystemctlStopKeeps DEF ServiceInv, TypeOK, MainPc, TestPc
  <1>4. Owners'
    BY <1>1, <1>2, SystemctlStopKeeps DEF ServiceInv, Owners
  <1>5. RulesInv'
    BY <1>1, <1>2, SystemctlStopKeeps DEF ServiceInv, RulesInv
  <1>6. StopInv' /\ FileThere'
    BY <1>1, <1>2, SystemctlStopKeeps DEF ServiceInv, StopInv, FileThere, MainPc
  <1> QED BY <1>3, <1>4, <1>5, <1>6 DEF ServiceInv

(* No other command runs beside a test, and of the service's steps only    *)
(* sed -i changes a file that is there.                                    *)
LEMMA OthersLeaveTest ==
  ASSUME ServiceInv, Next
  PROVE  /\ cli' \in TestPc \cup {"tested"} => cli' = cli /\ chosen' = chosen
         /\ cli \in TestPc => cli' = cli
         /\ cli' = cli /\ cli \in TestPc \cup {"tested"} /\ file # "missing" => file' = file \/ RunSed
  <1> USE DEF user, strategy, TestPc, Ready
  <1>1. CASE Run \/ Crash
    BY <1>1 DEF Run, Crash, RunExits, RunPrepare, RunSed, RunSource, RunCheckHosts, RunApplyHosts, RunTcp, RunUdp, RunExec
  <1>2. CASE \E x \in Cleaner : Clean(x)
    BY <1>2 DEF Clean, CleanRules, CleanKill, CleanHosts
  <1>3. CASE SdNotice \/ SdRestart \/ SdStopped
    BY <1>3 DEF SdNotice, SdRestart, SdStopped
  <1>4. CASE CliStart \/ CliRestart \/ CliStop \/ CliSwitch \/ \E on \in BOOLEAN : CliHosts(on)
    BY <1>4 DEF CliStart, CliRestart, CliStop, CliSwitch, CliHosts, Command
  <1>5. CASE CliStep
    BY <1>5 DEF CliStep, CliClean, CliStopped, CliCopied, CliSwitchRestart, CliRestarted, CliHostsDone
  <1> QED BY <1>1, <1>2, <1>3, <1>4, <1>5 DEF Next

LEMMA OtherStep ==
  ASSUME ServiceInv, TestInv, Other
  PROVE  TestInv'
  <1>1. CASE cli = "tested" /\ cli' # "tested"
    <2>1. cli' \notin TestPc \cup {"tested"}
      BY <1>1, OthersLeaveTest DEF Other, TestPc
    <2> QED BY <1>1, <2>1 DEF Other, Blank, TestInv, Role, Trying, TestPc
  <1>2. CASE ~(cli = "tested" /\ cli' # "tested")
    <2>1. UNCHANGED <<role, untested, works, backup, original>>
      BY <1>2 DEF Other
    <2>2. CASE cli' \notin TestPc \cup {"tested"}
      BY <1>2, <2>1, <2>2 DEF Other, TestInv, TestPc
    <2>3. CASE cli' \in TestPc \cup {"tested"}
      <3>1. cli' = cli /\ chosen' = chosen
        BY <2>3, OthersLeaveTest DEF Other
      <3>2. raced' \in BOOLEAN /\ (~raced' => ~raced)
        BY <1>2 DEF Other, TestInv
      <3>3. ~raced' /\ file # "missing" => file' = file
        BY <1>2, <2>3, <3>1, OthersLeaveTest DEF Other
      <3>4. chosen # "missing"
        BY StrategyAssumption DEF ServiceInv, TypeOK
      <3> QED BY <2>1, <2>3, <3>1, <3>2, <3>3, <3>4 DEF TestInv
    <2> QED BY <2>2, <2>3
  <1> QED BY <1>1, <1>2

LEMMA TestStepKeeps ==
  ASSUME ServiceInv, TestInv, TestStart \/ TestStep \/ TestInterrupt
  PROVE  TestInv'
  <1> USE DEF Copy, TestPc, Role, Trying, user, strategy
  <1>1. CASE TestStart
    BY <1>1 DEF TestStart, TestInv, Present, ServiceInv, TypeOK, Content, Ready
  <1>2. CASE TestTry \/ TestPick \/ TestRestore
    BY <1>2 DEF TestTry, TestPick, TestRestore, TestInv
  <1>8. CASE TestKeep
    BY <1>8 DEF TestKeep, TestInv
  <1>9. CASE TestUntrap
    BY <1>9 DEF TestUntrap, testVars, TestInv
  <1>3. CASE TestInterrupt
    BY <1>3 DEF TestInterrupt, TestInv
  <1>4. CASE TestCopied
    BY <1>4 DEF TestCopied, TestInv
  <1>5. CASE TestRestart
    BY <1>5 DEF TestRestart, testVars, TestInv
  <1>6. CASE TestRestarted
    BY <1>6 DEF TestRestarted, TestInv
  <1>7. CASE TestProbe
    <2>1. works' \subseteq Strategy
      BY <1>7 DEF TestProbe, TestInv, ServiceInv, TypeOK
    <2>2. /\ UNCHANGED <<role, untested, backup, original, raced, file, chosen>>
          /\ cli = "test_probing" /\ cli' = "test_next"
      BY <1>7 DEF TestProbe
    <2>3. role \in Trying
      BY <1>7 DEF TestProbe, TestInv
    <2> QED BY <2>1, <2>2, <2>3 DEF TestInv
  <1> QED BY <1>1, <1>2, <1>3, <1>4, <1>5, <1>6, <1>7, <1>8, <1>9 DEF TestStep

LEMMA ServiceInvariant == TestSpec => [](ServiceInv /\ TestInv)
  <1>1. TestInit => ServiceInv /\ TestInv
    BY InitService DEF TestInit, TestInv, Init, Role, Trying, TestPc
  <1>2. ServiceInv /\ TestInv /\ [TestNext]_<<vars, testVars>> => ServiceInv' /\ TestInv'
    <2> SUFFICES ASSUME ServiceInv, TestInv, [TestNext]_<<vars, testVars>>
                 PROVE  ServiceInv' /\ TestInv'
      OBVIOUS
    <2>1. CASE Other
      BY <2>1, NextService, OtherStep DEF Other
    <2>2. CASE TestStart \/ TestStep \/ TestInterrupt
      BY <2>2, TestOwnStep, TestRestartStep, TestStepKeeps DEF TestStep
    <2>3. CASE UNCHANGED <<vars, testVars>>
      <3>1. ServiceInv'
        BY <2>3, NextService
      <3> QED BY <2>3, <3>1 DEF vars, testVars, user, strategy, TestInv
    <2> QED BY <2>1, <2>2, <2>3 DEF TestNext
  <1> QED BY <1>1, <1>2, PTL DEF TestSpec

-----------------------------------------------------------------------------
(* The service's variables keep to their values. *)
THEOREM TypeCorrect == TestSpec => []TypeOK
  <1>1. ServiceInv => TypeOK
    BY DEF ServiceInv
  <1> QED BY <1>1, ServiceInvariant, PTL

(* At most one rule a protocol at any time, and exactly the rules that     *)
(* could be inserted while nfqws serves, after any crash, stop or restart, *)
(* but for a protocol whose rules iptables could not delete.               *)
THEOREM RulesAreExact == TestSpec => []RulesExact
  <1>1. ServiceInv => RulesExact
    BY DEF ServiceInv, RulesInv, RulesExact, Serving, Proto
  <1> QED BY <1>1, ServiceInvariant, PTL

(* After zapret-cli stop nothing of the service is left, but for rules     *)
(* that iptables could not delete.                                         *)
THEOREM StopCleansUp == TestSpec => []StopLeavesNothing
  <1>1. ServiceInv => StopLeavesNothing
    BY DEF ServiceInv, Owners, StopInv, StopLeavesNothing
  <1> QED BY <1>1, ServiceInvariant, PTL

(* However many strategies a test tried, and wherever Ctrl-C came: the     *)
(* file is as it was, or the strategy picked, unless sed -i undid a cp.    *)
THEOREM TestPutsBack == TestSpec => []TestRestores
  <1>1. TestInv => TestRestores
    BY DEF TestInv, TestRestores, Role, Trying
  <1> QED BY <1>1, ServiceInvariant, PTL

-----------------------------------------------------------------------------
(* What is loaded, and what is in /etc/hosts.                              *)

(* A command that writes the file also restarts the unit, and a unit that  *)
(* is active has sourced the file after the last such restart.             *)
Copying == {"copying", "copied", "test_copying", "test_copied"}
LoadedInv ==
  unit = "active" /\ cli \notin Copying /\ main \in {"check", "apply", "clean", "udp", "exec", "nfqws"} =>
    loaded = file

(* Entries that a start adds although .no_hosts is there go with the       *)
(* clean-up that the same start waits for.                                 *)
HostsInv ==
  /\ cli = "hosts_on" => ~noHosts
  /\ noHosts /\ cli # "hosts_off"
       /\ (main \in {"udp", "exec", "nfqws"} \/ (main = "clean" /\ clean["run"] = "off")) =>
       ~hosts

ConfigInv == LoadedInv /\ HostsInv

LEMMA RunConfig ==
  ASSUME ServiceInv, ConfigInv, Run \/ Crash
  PROVE  ConfigInv'
  <1> USE DEF ConfigInv, LoadedInv, HostsInv, user, strategy, firewall, hostsVars
  <1>0. clean \in [Cleaner -> CleanPc] /\ "run" \in Cleaner
    BY DEF ServiceInv, TypeOK, Cleaner
  <1>1. CASE RunExits \/ RunPrepare \/ RunSed \/ RunSource
    BY <1>1 DEF RunExits, RunPrepare, RunSed, RunSource
  <1>2. CASE RunCheckHosts \/ RunApplyHosts
    BY <1>0, <1>2 DEF RunCheckHosts, RunApplyHosts
  <1>3. CASE RunTcp \/ RunUdp \/ RunExec \/ Crash
    BY <1>3 DEF RunTcp, RunUdp, RunExec, Crash
  <1> QED BY <1>1, <1>2, <1>3 DEF Run

LEMMA CleanConfig ==
  ASSUME ServiceInv, ConfigInv, NEW x \in Cleaner, Clean(x)
  PROVE  ConfigInv'
  <1> USE DEF ConfigInv, LoadedInv, HostsInv, user, strategy, firewall, hostsVars
  <1>0. clean \in [Cleaner -> CleanPc] /\ "run" \in Cleaner
    BY DEF ServiceInv, TypeOK, Cleaner
  <1>1. CASE CleanRules(x)
    BY <1>0, <1>1 DEF CleanRules
  <1>2. CASE CleanKill(x)
    BY <1>0, <1>2 DEF CleanKill
  <1>3. CASE CleanHosts(x)
    BY <1>0, <1>3 DEF CleanHosts
  <1> QED BY <1>1, <1>2, <1>3 DEF Clean

LEMMA SystemdConfig ==
  ASSUME ServiceInv, ConfigInv, SdNotice \/ SdRestart \/ SdStopped
  PROVE  ConfigInv'
  <1> USE DEF ConfigInv, LoadedInv, HostsInv, user, strategy, firewall, hostsVars
  <1>0. clean \in [Cleaner -> CleanPc] /\ "run" \in Cleaner
    BY DEF ServiceInv, TypeOK, Cleaner
  <1>1. CASE SdNotice
    BY <1>0, <1>1 DEF SdNotice
  <1>2. CASE SdRestart
    BY <1>2 DEF SdRestart, Start
  <1>3. CASE SdStopped
    BY <1>3 DEF SdStopped, Start
  <1> QED BY <1>1, <1>2, <1>3

(* A job for systemd leaves no unit active that was up before it. *)
LEMMA SystemctlStopConfig ==
  ASSUME ServiceInv, HostsInv, NEW g \in {"active", "inactive"}, SystemctlStop(g),
         UNCHANGED <<hostsVars, strategy>>, cli # "hosts_off", cli' # "hosts_on"
  PROVE  ConfigInv'
  <1> USE DEF ConfigInv, LoadedInv, HostsInv, hostsVars, strategy
  <1>0. clean \in [Cleaner -> CleanPc] /\ "run" \in Cleaner
    BY DEF ServiceInv, TypeOK, Cleaner
  <1>1. CASE unit = "active"
    BY <1>0, <1>1 DEF SystemctlStop
  <1>2. CASE unit = "deactivating"
    BY <1>2 DEF SystemctlStop
  <1>3. CASE unit \in {"inactive", "restart_wait"}
    <2>1. main = "none" /\ UNCHANGED clean
      BY <1>3 DEF SystemctlStop, ServiceInv, Owners
    <2>2. main' \in {"none", "prepare"}
      BY <1>3, <2>1 DEF SystemctlStop, Start
    <2> QED BY <2>2
  <1> QED BY <1>1, <1>2, <1>3 DEF ServiceInv, TypeOK

LEMMA CliConfig ==
  ASSUME ServiceInv, ConfigInv,
         \/ CliStart \/ CliRestart \/ CliStop \/ CliSwitch \/ CliStep \/ \E on \in BOOLEAN : CliHosts(on)
  PROVE  ConfigInv'
  <1> USE DEF ConfigInv, user, strategy, firewall, hostsVars, Ready, Command
  <1>1. CASE CliStart
    <2>1. cli \in Ready /\ cli' = "idle" /\ UNCHANGED <<clean, hostsVars, strategy>>
      BY <1>1 DEF CliStart
    <2>2. UNCHANGED <<unit, main>> \/ main' = "prepare"
      BY <1>1 DEF CliStart, Start
    <2> QED BY <2>1, <2>2 DEF LoadedInv, HostsInv, Copying
  <1>2. CASE CliRestart \/ CliStop \/ CliSwitchRestart
    <2>1. \E g \in {"active", "inactive"} : SystemctlStop(g)
      BY <1>2 DEF CliRestart, CliStop, CliSwitchRestart
    <2>2. cli # "hosts_off" /\ cli' # "hosts_on" /\ UNCHANGED <<hostsVars, strategy>>
      BY <1>2 DEF CliRestart, CliStop, CliSwitchRestart
    <2> QED BY <2>1, <2>2, SystemctlStopConfig
  <1>3. CASE CliSwitch \/ CliCopied
    BY <1>3 DEF CliSwitch, CliCopied, LoadedInv, HostsInv, Copying, service
  <1>4. CASE CliClean
    <2>1. clean \in [Cleaner -> CleanPc]
      BY DEF ServiceInv, TypeOK
    <2>2. clean'["run"] = clean["run"]
      BY <1>4, <2>1 DEF CliClean, Cleaner
    <2> QED BY <1>4, <2>2 DEF CliClean, LoadedInv, HostsInv, Copying
  <1>5. CASE CliStopped \/ CliRestarted
    BY <1>5 DEF CliStopped, CliRestarted, LoadedInv, HostsInv, Copying, service
  <1>6. CASE CliHostsDone
    BY <1>6 DEF CliHostsDone, LoadedInv, HostsInv, Copying, service
  <1>7. CASE \E on \in BOOLEAN : CliHosts(on)
    BY <1>7 DEF CliHosts, LoadedInv, HostsInv, Copying, service
  <1> QED BY <1>1, <1>2, <1>3, <1>4, <1>5, <1>6, <1>7 DEF CliStep

LEMMA TestConfig ==
  ASSUME ServiceInv, ConfigInv, TestStart \/ TestStep \/ TestInterrupt
  PROVE  ConfigInv'
  <1> USE DEF ConfigInv, user, strategy, firewall, hostsVars, service, Ready, TestPc
  <1>1. CASE TestRestart
    <2>1. SystemctlStop("active")
      BY <1>1 DEF TestRestart
    <2>2. cli # "hosts_off" /\ cli' # "hosts_on" /\ UNCHANGED <<hostsVars, strategy>>
      BY <1>1 DEF TestRestart
    <2> QED BY <2>1, <2>2, SystemctlStopConfig
  <1>2. CASE TestStart \/ TestRestarted \/ TestProbe \/ TestKeep \/ TestUntrap
    BY <1>2 DEF TestStart, TestRestarted, TestProbe, TestKeep, TestUntrap, LoadedInv, HostsInv, Copying
  <1>3. CASE TestTry \/ TestPick \/ TestRestore \/ TestCopied
    BY <1>3 DEF TestTry, TestPick, TestRestore, TestCopied, Copy, LoadedInv, HostsInv, Copying
  <1>4. CASE TestInterrupt
    BY <1>4 DEF TestInterrupt, Copy, LoadedInv, HostsInv, Copying
  <1> QED BY <1>1, <1>2, <1>3, <1>4 DEF TestStep

LEMMA ConfigInvariant == TestSpec => []ConfigInv
  <1>1. TestInit => ConfigInv
    BY DEF TestInit, Init, ConfigInv, LoadedInv, HostsInv
  <1>2. ServiceInv /\ ConfigInv /\ [TestNext]_<<vars, testVars>> => ConfigInv'
    <2> SUFFICES ASSUME ServiceInv, ConfigInv, [TestNext]_<<vars, testVars>>
                 PROVE  ConfigInv'
      OBVIOUS
    <2>1. CASE Next
      BY <2>1, RunConfig, CleanConfig, SystemdConfig, CliConfig DEF Next
    <2>2. CASE TestStart \/ TestStep \/ TestInterrupt
      BY <2>2, TestConfig
    <2>3. CASE UNCHANGED <<vars, testVars>>
      BY <2>3 DEF vars, service, user, strategy, hostsVars, ConfigInv, LoadedInv, HostsInv
    <2> QED BY <2>1, <2>2, <2>3 DEF TestNext, Other
  <1> QED BY <1>1, <1>2, ServiceInvariant, PTL DEF TestSpec

(* Whenever the prompt is back and nfqws serves, it runs what              *)
(* current_strategy.conf says, whichever cp, sed -i, source and restart    *)
(* came in which order before.                                             *)
THEOREM ServesTheFile == TestSpec => []LoadedIsFile
  <1>1. ConfigInv => LoadedIsFile
    BY DEF ConfigInv, LoadedInv, LoadedIsFile, Serving, Ready, Copying
  <1> QED BY <1>1, ConfigInvariant, PTL

(* Once the user has said off, a start that had not seen it leaves no      *)
(* entries in /etc/hosts.                                                  *)
THEOREM OffIsRespected == TestSpec => []HostsOffRespected
  <1>1. ConfigInv => HostsOffRespected
    BY DEF ConfigInv, HostsInv, HostsOffRespected, Serving, Ready
  <1> QED BY <1>1, ConfigInvariant, PTL
=============================================================================
