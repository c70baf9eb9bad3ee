--------------------------- MODULE ZapretService ---------------------------
(***************************************************************************)
(* The zapret-linux service: systemd, the script zapret-run.sh that turns  *)
(* into nfqws, the script zapret-stop.sh in its three uses (ExecStop=, the *)
(* clean-up inside zapret-run.sh, and the last command of zapret-cli       *)
(* stop), and one user of zapret-cli.                                      *)
(*                                                                         *)
(* systemctl start and restart return as soon as zapret-run.sh is forked   *)
(* (Type=simple), so the user's next command runs beside the script, and   *)
(* ExecStop= runs beside it too when the service is stopped half way up.   *)
(*                                                                         *)
(* A strategy is a file's whole content.  The removal of the firewall      *)
(* rules is one step: the script deletes what one listing showed, and a    *)
(* rule inserted later survives as it does here; iptables may fail, as     *)
(* while another one holds its lock.  The hosts entries are either there   *)
(* or not.                                                                 *)
(***************************************************************************)
EXTENDS Integers, FiniteSets

CONSTANTS Strategy,         \* the contents of strategies/*.conf
          Default,          \* general_alt13.conf
          MaxFails,         \* bound: scripts' steps in which iptables fails
          MaxCommands,      \* bound: commands the user gives
          MaxCrashes        \* bound: times nfqws dies by itself

ASSUME DefaultAssumption == Default \in Strategy
ASSUME StrategyAssumption == "missing" \notin Strategy \* a content is there
ASSUME BoundsAssumption == MaxFails \in Nat /\ MaxCommands \in Nat /\ MaxCrashes \in Nat

VARIABLES
  unit,      \* state of zapret-linux.service in systemd
  goal,      \* where systemd goes when the unit has stopped
  main,      \* where the main process of the unit is; "nfqws" after exec
  clean,     \* where each use of zapret-stop.sh is
  rules,     \* NFQUEUE rules in the OUTPUT chain, for each protocol
  failed,    \* protocols whose rule this start could not insert
  undeleted, \* history: those whose rules the last removal could not delete
  fails,     \* how often iptables failed so far
  hosts,     \* the entries are in /etc/hosts
  noHosts,   \* the file .no_hosts is there
  file,      \* current_strategy.conf
  buffer,    \* what sed -i read and is going to put in its place
  loaded,    \* the strategy zapret-run.sh sourced
  cli,       \* what zapret-cli is doing
  chosen,    \* the strategy the last switch asked for
  commands, crashes, \* how many so far
  lacks      \* which files the installation lacks that a start may need

service == <<unit, goal, main, clean>>
firewall == <<rules, failed, undeleted, fails>>
hostsVars == <<hosts, noHosts>>
strategy == <<file, buffer, loaded>>
user == <<cli, chosen, commands>>
vars == <<service, firewall, hostsVars, strategy, user, crashes, lacks>>

Proto == {"tcp", "udp"}
Cleaner == {"execstop", "run", "cli"}
CleanPc == {"off", "rules", "kill", "hosts"}
MainPc == {"none", "prepare", "sed", "source", "check", "apply", "clean",
           "udp", "exec", "nfqws"}
CliPc == {"idle", "stopping", "cleaning", "stopped", "copying", "copied",
          "restarting", "switching", "switched", "hosts_on", "hosts_off", "tested"}
TestPc == {"test_next", "test_copying", "test_copied", "test_restarting", "test_probing",
           "test_removed"}
Ready == {"idle", "stopped", "switched", "tested"}  \* the prompt is back

(* "empty" is the file after cp truncated it and before cp filled it. *)
Content == Strategy \cup {"empty"}

(* What is in strategies/ to switch to. *)
Present == IF "default" \in lacks THEN Strategy \ {Default} ELSE Strategy

(* zapret-run.sh finds bin/nfqws and a strategy to load. *)
CanRun == "nfqws" \notin lacks /\ (file = "missing" => "default" \notin lacks)

Init ==
  /\ unit = "inactive"
  /\ goal = "inactive"
  /\ main = "none"
  /\ clean = [x \in Cleaner |-> "off"]
  /\ rules = [p \in Proto |-> 0]
  /\ failed = {} /\ undeleted = {}
  /\ fails = 0
  /\ hosts = FALSE
  /\ noHosts \in BOOLEAN
  /\ file \in Strategy \cup {"missing"}
  /\ buffer = "empty"
  /\ loaded = "empty"
  /\ cli = "idle"
  /\ chosen = Default
  /\ commands = 0
  /\ crashes = 0
  /\ lacks \in {{}, {"nfqws"}} \cup (IF file = "missing" THEN {{"default"}} ELSE {})

-----------------------------------------------------------------------------
(* zapret-run.sh *)

(* Operators named Bug... are what a definition below would be if the code *)
(* had a certain mistake; no specification uses them.                      *)

(* A start that does not care whether current_strategy.conf is there. *)
BugRunPrepare ==
  /\ main = "prepare"
  /\ main' = "sed"
  /\ buffer' = file
  /\ loaded' = "empty"
  /\ failed' = {}
  /\ UNCHANGED <<unit, goal, clean, rules, undeleted, fails, file, hostsVars, user, crashes, lacks>>

(* Without nfqws, or without any strategy, it reports that and exits. *)
RunExits ==
  /\ main = "prepare" /\ ~CanRun
  /\ main' = "none"
  /\ UNCHANGED <<unit, goal, clean, strategy, firewall, hostsVars, user, crashes, lacks>>

(* A missing current_strategy.conf is replaced by the default, then sed    *)
(* reads the file; this process has loaded nothing and inserted nothing.   *)
RunPrepare ==
  /\ main = "prepare" /\ CanRun
  /\ main' = "sed"
  /\ file' = IF file = "missing" THEN Default ELSE file
  /\ buffer' = file'
  /\ loaded' = "empty"
  /\ failed' = {}
  /\ UNCHANGED <<unit, goal, clean, rules, undeleted, fails, hostsVars, user, crashes, lacks>>

(* sed -i puts what it read, edited, in the place of the file. *)
RunSed ==
  /\ main = "sed"
  /\ main' = "source"
  /\ file' = buffer
  /\ buffer' = "empty"
  /\ UNCHANGED <<unit, goal, clean, loaded, firewall, hostsVars, user, crashes, lacks>>

RunSource ==
  /\ main = "source"
  /\ main' = "check"
  /\ loaded' = file
  /\ UNCHANGED <<unit, goal, clean, file, buffer, firewall, hostsVars, user, crashes, lacks>>

(* Is there a .no_hosts?  If so, straight on to zapret-stop.sh. *)
RunCheckHosts ==
  /\ main = "check"
  /\ IF noHosts
     THEN main' = "clean" /\ clean' = [clean EXCEPT !["run"] = "rules"]
     ELSE main' = "apply" /\ UNCHANGED clean
  /\ UNCHANGED <<unit, goal, strategy, firewall, hostsVars, user, crashes, lacks>>

(* The clean-up before the rules are inserted is missing. *)
BugRunApplyHosts ==
  /\ main = "apply"
  /\ hosts' = TRUE
  /\ main' = "clean"
  /\ UNCHANGED <<unit, goal, clean, noHosts, strategy, firewall, user, crashes, lacks>>

RunApplyHosts ==
  /\ main = "apply"
  /\ hosts' = TRUE
  /\ main' = "clean"
  /\ clean' = [clean EXCEPT !["run"] = "rules"]
  /\ UNCHANGED <<unit, goal, noHosts, strategy, firewall, user, crashes, lacks>>

(* iptables -I for one protocol; it cannot succeed without ports, and a    *)
(* failure is reported and passed over.                                    *)
Insert(p) ==
  /\ \/ /\ loaded # "empty"
        /\ rules' = [rules EXCEPT ![p] = @ + 1]
        /\ failed' = failed \ {p}
        /\ UNCHANGED fails
     \/ /\ loaded = "empty" \/ fails < MaxFails
        /\ failed' = failed \cup {p}
        /\ fails' = IF loaded = "empty" THEN fails ELSE fails + 1
        /\ UNCHANGED rules
  /\ UNCHANGED undeleted

(* The rule for TCP, once zapret-stop.sh is through, then that for UDP. *)
RunTcp ==
  /\ main = "clean"
  /\ clean["run"] = "off"
  /\ Insert("tcp")
  /\ main' = "udp"
  /\ UNCHANGED <<unit, goal, clean, hostsVars, strategy, user, crashes, lacks>>

RunUdp ==
  /\ main = "udp"
  /\ Insert("udp")
  /\ main' = "exec"
  /\ UNCHANGED <<unit, goal, clean, hostsVars, strategy, user, crashes, lacks>>

(* The hosts entries are added after the clean-up, .no_hosts or not. *)
BugRunExec ==
  /\ main = "exec"
  /\ main' = "nfqws"
  /\ hosts' = TRUE
  /\ UNCHANGED <<unit, goal, clean, noHosts, firewall, strategy, user, crashes, lacks>>

RunExec ==
  /\ main = "exec"
  /\ main' = "nfqws"
  /\ UNCHANGED <<unit, goal, clean, firewall, hostsVars, strategy, user, crashes, lacks>>

Run == \/ RunExits \/ RunPrepare \/ RunSed \/ RunSource \/ RunCheckHosts \/ RunApplyHosts
       \/ RunTcp \/ RunUdp \/ RunExec

Crash ==
  /\ main = "nfqws"
  /\ crashes < MaxCrashes
  /\ crashes' = crashes + 1
  /\ main' = "none"
  /\ UNCHANGED <<unit, goal, clean, firewall, hostsVars, strategy, user, lacks>>

-----------------------------------------------------------------------------
(* zapret-stop.sh, run by x: the rules, then nfqws, then the hosts entries. *)

(* Listing or deleting may fail and leave rules; nobody is told. *)
CleanRules(x) ==
  /\ clean[x] = "rules"
  /\ clean' = [clean EXCEPT ![x] = "kill"]
  /\ rules' \in {left \in [Proto -> 0..rules["tcp"] + rules["udp"]] :
                  \A p \in Proto : left[p] <= rules[p] /\ (left[p] = 0 \/ fails < MaxFails)}
  /\ undeleted' = {p \in Proto : rules'[p] > 0}
  /\ fails' = IF undeleted' = {} THEN fails ELSE fails + 1
  /\ UNCHANGED <<unit, goal, main, failed, hostsVars, strategy, user, crashes, lacks>>

CleanKill(x) ==
  /\ clean[x] = "kill"
  /\ clean' = [clean EXCEPT ![x] = "hosts"]
  /\ main' = IF main = "nfqws" THEN "none" ELSE main
  /\ UNCHANGED <<unit, goal, firewall, hostsVars, strategy, user, crashes, lacks>>

CleanHosts(x) ==
  /\ clean[x] = "hosts"
  /\ clean' = [clean EXCEPT ![x] = "off"]
  /\ hosts' = FALSE
  /\ UNCHANGED <<unit, goal, main, firewall, noHosts, strategy, user, crashes, lacks>>

Clean(x) == CleanRules(x) \/ CleanKill(x) \/ CleanHosts(x)

-----------------------------------------------------------------------------
(* systemd, as the unit file has it *)

Start == unit' = "active" /\ main' = "prepare"

(* Restart= is "no". *)
BugSdNotice ==
  /\ unit = "active"
  /\ main = "none"
  /\ unit' = "inactive"
  /\ UNCHANGED <<goal, main, clean, firewall, hostsVars, strategy, user, crashes, lacks>>

(* The main process has ended by itself: Restart=always.  Whether          *)
(* ExecStop= runs in this case is systemd's affair; both happen here.      *)
SdNotice ==
  /\ unit = "active"
  /\ main = "none"
  /\ \/ unit' = "restart_wait" /\ UNCHANGED <<goal, clean>>
     \/ /\ unit' = "deactivating"
        /\ goal' = "restart_wait"
        /\ clean' = [clean EXCEPT !["execstop"] = "rules"]
  /\ UNCHANGED <<main, firewall, hostsVars, strategy, user, crashes, lacks>>

(* RestartSec= has passed. *)
SdRestart ==
  /\ unit = "restart_wait"
  /\ Start
  /\ UNCHANGED <<goal, clean, firewall, hostsVars, strategy, user, crashes, lacks>>

(* ExecStop= has ended: what is left of the unit is killed, a child of     *)
(* zapret-run.sh included, and the unit starts again if that was asked.    *)
SdStopped ==
  /\ unit = "deactivating"
  /\ clean["execstop"] = "off"
  /\ clean' = [clean EXCEPT !["run"] = "off"]
  /\ IF goal = "active" THEN Start ELSE unit' = goal /\ main' = "none"
  /\ UNCHANGED <<goal, firewall, hostsVars, strategy, user, crashes, lacks>>

(* A stop or restart job for the unit. *)
SystemctlStop(g) ==
  /\ goal' = g
  /\ CASE unit = "active" ->
            /\ unit' = "deactivating"
            /\ clean' = [clean EXCEPT !["execstop"] = "rules"]
            /\ UNCHANGED main
       [] unit = "deactivating" -> UNCHANGED <<unit, main, clean>>
       [] OTHER -> /\ IF g = "active" THEN Start ELSE unit' = g /\ UNCHANGED main
                   /\ UNCHANGED clean

-----------------------------------------------------------------------------
(* zapret-cli *)

Command ==
  /\ cli \in Ready
  /\ commands < MaxCommands
  /\ commands' = commands + 1

(* cmd_start.  A unit on its way down because it crashed comes up again.   *)
CliStart ==
  /\ Command
  /\ cli' = "idle"
  /\ CASE unit = "deactivating" -> goal' = "active" /\ UNCHANGED <<unit, main>>
       [] unit = "active" -> UNCHANGED <<goal, unit, main>>
       [] OTHER -> Start /\ UNCHANGED goal
  /\ UNCHANGED <<clean, firewall, hostsVars, strategy, chosen, crashes, lacks>>

(* cmd_restart, and the end of cmd_game_filter and cmd_update_lists. *)
CliRestart ==
  /\ Command
  /\ cli' = "restarting"
  /\ SystemctlStop("active")
  /\ UNCHANGED <<chosen, firewall, hostsVars, strategy, crashes, lacks>>

(* cmd_stop: systemctl stop waits for the unit, ... *)
CliStop ==
  /\ Command
  /\ cli' = "stopping"
  /\ SystemctlStop("inactive")
  /\ UNCHANGED <<chosen, firewall, hostsVars, strategy, crashes, lacks>>

(* systemctl stop is trusted to have cleaned up. *)
BugCliClean ==
  /\ cli = "stopping"
  /\ unit = "inactive"
  /\ cli' = "cleaning"
  /\ UNCHANGED <<service, firewall, hostsVars, strategy, chosen, commands, crashes, lacks>>

(* A stop that waits until the hosts entries are gone before it runs       *)
(* zapret-stop.sh, which is what removes them.                             *)
BugCliCleanHangs ==
  /\ cli = "stopping"
  /\ unit = "inactive"
  /\ ~hosts
  /\ cli' = "cleaning"
  /\ clean' = [clean EXCEPT !["cli"] = "rules"]
  /\ UNCHANGED <<unit, goal, main, firewall, hostsVars, strategy, chosen, commands, crashes, lacks>>

(* ... then zapret-stop.sh runs once more, ... *)
CliClean ==
  /\ cli = "stopping"
  /\ unit = "inactive"
  /\ cli' = "cleaning"
  /\ clean' = [clean EXCEPT !["cli"] = "rules"]
  /\ UNCHANGED <<unit, goal, main, firewall, hostsVars, strategy, chosen, commands, crashes, lacks>>

(* ... and the user reads that service and rules are gone. *)
CliStopped ==
  /\ cli = "cleaning"
  /\ clean["cli"] = "off"
  /\ cli' = "stopped"
  /\ UNCHANGED <<service, firewall, hostsVars, strategy, chosen, commands, crashes, lacks>>

(* cmd_switch, apply_strategy_file: cp truncates current_strategy.conf, *)
CliSwitch ==
  /\ Command
  /\ cli' = "copying"
  /\ \E s \in Present : chosen' = s
  /\ file' = "empty"
  /\ UNCHANGED <<service, firewall, hostsVars, buffer, loaded, crashes, lacks>>

(* and fills it, *)
CliCopied ==
  /\ cli = "copying"
  /\ cli' = "copied"
  /\ file' = chosen
  /\ UNCHANGED <<service, firewall, hostsVars, buffer, loaded, chosen, commands, crashes, lacks>>

(* A switch that only starts the service if it is down. *)
BugCliSwitchRestart ==
  /\ cli = "copied"
  /\ cli' = "switching"
  /\ IF unit = "inactive" THEN Start ELSE UNCHANGED <<unit, main>>
  /\ UNCHANGED <<goal, clean, firewall, hostsVars, strategy, chosen, commands, crashes, lacks>>

(* and the service is restarted. *)
CliSwitchRestart ==
  /\ cli = "copied"
  /\ cli' = "switching"
  /\ SystemctlStop("active")
  /\ UNCHANGED <<firewall, hostsVars, strategy, chosen, commands, crashes, lacks>>

(* systemctl restart returns when the new process is forked; whether that  *)
(* one is still there is another matter.                                   *)
JobDone == ~(unit = "deactivating" /\ goal = "active")

CliRestarted ==
  /\ cli \in {"restarting", "switching"}
  /\ JobDone
  /\ cli' = IF cli = "switching" THEN "switched" ELSE "idle"
  /\ UNCHANGED <<service, firewall, hostsVars, strategy, chosen, commands, crashes, lacks>>

(* cmd_hosts on and off: the file .no_hosts first, the entries second. *)
CliHosts(on) ==
  /\ Command
  /\ cli' = IF on THEN "hosts_on" ELSE "hosts_off"
  /\ noHosts' = ~on
  /\ UNCHANGED <<service, firewall, hosts, strategy, chosen, crashes, lacks>>

CliHostsDone ==
  /\ cli \in {"hosts_on", "hosts_off"}
  /\ hosts' = (cli = "hosts_on")
  /\ cli' = "idle"
  /\ UNCHANGED <<service, firewall, noHosts, strategy, chosen, commands, crashes, lacks>>

CliStep == CliClean \/ CliStopped \/ CliCopied \/ CliSwitchRestart \/ CliRestarted
           \/ CliHostsDone

-----------------------------------------------------------------------------
Next ==
  \/ Run \/ Crash
  \/ \E x \in Cleaner : Clean(x)
  \/ SdNotice \/ SdRestart \/ SdStopped
  \/ CliStart \/ CliRestart \/ CliStop \/ CliSwitch
  \/ \E on \in BOOLEAN : CliHosts(on)
  \/ CliStep

Spec == Init /\ [][Next]_vars

(* zapret-run.sh, systemd with ExecStop=, and zapret-cli make progress,    *)
(* each with the zapret-stop.sh it waits for; the user owes no further     *)
(* command and nfqws no crash.                                             *)
Fairness ==
  /\ WF_vars(Run \/ Clean("run"))
  /\ WF_vars(SdNotice \/ SdRestart \/ SdStopped \/ Clean("execstop"))
  /\ WF_vars(CliStep \/ Clean("cli"))

FairSpec == Spec /\ Fairness

-----------------------------------------------------------------------------
(* Every variable keeps to the values its comment names; a strategy is     *)
(* never sourced from a file that is not there.                            *)
TypeOK ==
  /\ unit \in {"inactive", "active", "deactivating", "restart_wait"}
  /\ goal \in {"inactive", "active", "restart_wait"}
  /\ main \in MainPc
  /\ clean \in [Cleaner -> CleanPc]
  /\ rules \in [Proto -> Nat]
  /\ failed \subseteq Proto /\ undeleted \subseteq Proto
  /\ fails \in 0..MaxFails
  /\ hosts \in BOOLEAN /\ noHosts \in BOOLEAN
  /\ file \in Content \cup {"missing"}
  /\ buffer \in Content /\ loaded \in Content
  /\ cli \in CliPc \cup TestPc
  /\ chosen \in Strategy
  /\ commands \in 0..MaxCommands /\ crashes \in 0..MaxCrashes
  /\ lacks \subseteq {"nfqws", "default"}

Serving == main = "nfqws" /\ unit = "active"
Cleaning == \E x \in Cleaner : clean[x] # "off"

(* However the last run ended, a new one neither misses a rule nor finds   *)
(* an old one left: nfqws serves one rule a protocol, except those whose   *)
(* insertion was reported as failed, and those that iptables could not     *)
(* delete when zapret-stop.sh last tried.                                  *)
RulesExact ==
  \A p \in Proto \ undeleted :
    /\ rules[p] <= 1
    /\ Serving /\ ~Cleaning => rules[p] = IF p \in failed THEN 0 ELSE 1

(* When zapret-cli stop says so, the service is down and neither nfqws nor *)
(* a rule that could be deleted nor a hosts entry is left, though          *)
(* zapret-run.sh may have been inserting rules while ExecStop= removed     *)
(* them.                                                                   *)
StopLeavesNothing ==
  cli = "stopped" => /\ unit = "inactive"
                     /\ main = "none"
                     /\ \A p \in Proto \ undeleted : rules[p] = 0
                     /\ ~hosts

(* What nfqws runs is what current_strategy.conf says, so that the name    *)
(* zapret-cli status reads from the file is the active one.                *)
LoadedIsFile == Serving /\ cli \in Ready => loaded = file

(* With .no_hosts there, no start brings the entries back, whether it had  *)
(* looked for .no_hosts before or after the user's command.                *)
HostsOffRespected == Serving /\ noHosts /\ cli \in Ready => ~hosts

(* Restart=always: a service that is up or about to be serves in the end,  *)
(* unless the user stops it, or nfqws or every strategy is missing.        *)
Recovers ==
  CanRun /\ unit \in {"active", "restart_wait"} ~>
    Serving \/ cli \in {"stopping", "cleaning", "stopped"}

(* Every command of the user comes to its end. *)
CommandsEnd == cli \notin Ready ~> cli \in Ready

(* README.md:104: after start or restart the hosts are connected. *)
HostsConnected == Serving /\ ~noHosts /\ cli = "idle" => hosts

(* README.md:49: the service applies the strategy chosen. *)
SwitchTakes == Serving /\ cli = "switched" => loaded = chosen
=============================================================================
