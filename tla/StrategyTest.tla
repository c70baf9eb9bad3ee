---------------------------- MODULE StrategyTest ----------------------------
(***************************************************************************)
(* zapret-cli test all, quick and <strategy>: each strategy in turn takes  *)
(* the place of current_strategy.conf and the service is restarted with    *)
(* it; in the end the user keeps one of them, or the file is put back from *)
(* a copy, as it is after Ctrl-C.                                          *)
(*                                                                         *)
(* test <strategy> has one strategy to try, which stays where it is if the *)
(* user keeps it, whether it works or not.  Only one Ctrl-C is given.      *)
(***************************************************************************)
EXTENDS ZapretService

VARIABLES
  role,      \* what the strategy that was copied last is for
  untested,  \* the strategies that the loop has not come to
  works,     \* working_files, until they are no longer needed
  backup,    \* backup_strat; "missing" once it is removed
  original,  \* history: the file as the test found it
  raced      \* history: sed -i has put something else into the file since

testVars == <<role, untested, works, backup, original, raced>>

(* To be tried by test all, or by test <strategy>; to stay, as the user    *)
(* said; the copy put back in the end, or after Ctrl-C.  "kept" is Ctrl-C  *)
(* when the copy was gone and the strategy to stay.                        *)
Trying == {"try", "single"}
Role == Trying \cup {"pick", "restore", "interrupt", "kept"}

Blank ==
  /\ role' = "try" /\ untested' = {} /\ works' = {}
  /\ backup' = "missing" /\ original' = "missing" /\ raced' = FALSE

TestInit ==
  /\ Init
  /\ role = "try" /\ untested = {} /\ works = {}
  /\ backup = "missing" /\ original = "missing" /\ raced = FALSE

(* The operators named Bug... are what a definition below would be if the  *)
(* code had a certain mistake; no specification uses them.                 *)
-----------------------------------------------------------------------------
(* A copy of the file is made; of none that is missing, an empty one.  (A  *)
(* test takes so many steps that it counts for two commands.)              *)
TestStart ==
  /\ cli \in Ready
  /\ commands + 2 <= MaxCommands
  /\ commands' = commands + 2
  /\ backup' = IF file = "missing" THEN "empty" ELSE file
  /\ original' = file
  /\ raced' = FALSE
  /\ works' = {}
  /\ untested' \in (SUBSET Present) \ {{}}
  /\ role' \in (IF Cardinality(untested') = 1 THEN Trying ELSE {"try"})
  /\ cli' = "test_next"
  /\ UNCHANGED <<service, firewall, hostsVars, strategy, chosen, crashes, lacks>>

(* cp truncates the file, as in CliSwitch, ... *)
Copy(for) ==
  /\ role' = for
  /\ file' = "empty"
  /\ cli' = "test_copying"
  /\ UNCHANGED <<service, firewall, hostsVars, buffer, loaded, commands, backup, original, raced, crashes, lacks>>

TestTry ==
  /\ cli = "test_next"
  /\ \E s \in untested : chosen' = s /\ untested' = untested \ {s}
  /\ Copy(role)
  /\ UNCHANGED works

(* The loop is over: one that works is picked, *)
TestPick ==
  /\ cli = "test_next" /\ untested = {} /\ role = "try"
  /\ chosen' \in works
  /\ works' = {}
  /\ Copy("pick")
  /\ UNCHANGED untested

(* or the only one is kept, and the copy removed, *)
TestKeep ==
  /\ cli = "test_next" /\ untested = {} /\ role = "single"
  /\ role' = "pick"
  /\ works' = {}
  /\ backup' = "missing"
  /\ cli' = "test_removed"
  /\ UNCHANGED <<service, firewall, hostsVars, strategy, chosen, commands, untested, original, raced, crashes, lacks>>

(* or none, and the copy is put back. *)
TestRestore ==
  /\ cli = "test_next" /\ untested = {}
  /\ works' = {}
  /\ Copy("restore")
  /\ UNCHANGED <<chosen, untested>>

(* The last strategy tried stays, and the service is restarted with it. *)
BugTestInterrupt ==
  /\ cli \in TestPc /\ role \notin {"interrupt", "kept"}
  /\ role' = "interrupt"
  /\ cli' = "test_copied"
  /\ UNCHANGED <<service, firewall, hostsVars, strategy, chosen, commands, untested, works, backup,
                 original, raced, crashes, lacks>>

(* Ctrl-C, as long as the trap is set: it puts the copy back; once the     *)
(* copy is removed, its cp fails and leaves the file alone.                *)
TestInterrupt ==
  /\ cli \in TestPc /\ role \notin {"interrupt", "kept"}
  /\ IF backup = "missing"
     THEN /\ role' = IF role = "pick" THEN "kept" ELSE "interrupt"
          /\ cli' = "test_copied"
          /\ UNCHANGED <<service, firewall, hostsVars, strategy, commands, backup, original, raced, crashes, lacks>>
     ELSE Copy("interrupt")
  /\ untested' = {} /\ works' = {}
  /\ UNCHANGED chosen

(* ... and fills it; then the copy, put back, is removed. *)
TestCopied ==
  /\ cli = "test_copying"
  /\ cli' = "test_copied"
  /\ file' = IF role \in Trying \cup {"pick"} THEN chosen ELSE backup
  /\ backup' = IF role \in Trying \cup {"pick"} THEN backup ELSE "missing"
  /\ UNCHANGED <<service, firewall, hostsVars, buffer, loaded, chosen, commands,
                 role, untested, works, original, raced, crashes, lacks>>

TestRestart ==
  /\ cli = "test_copied"
  /\ cli' = "test_restarting"
  /\ SystemctlStop("active")
  /\ UNCHANGED <<firewall, hostsVars, strategy, chosen, commands, testVars, crashes, lacks>>

(* systemctl restart has returned: a strategy is tried; the copy is not    *)
(* needed once one was picked; else the test is over, and with it the trap.*)
TestRestarted ==
  /\ cli = "test_restarting" /\ JobDone
  /\ cli' = CASE role \in Trying -> "test_probing"
              [] role = "pick" -> "test_removed"
              [] OTHER -> "tested"
  /\ backup' = IF role = "pick" THEN "missing" ELSE backup
  /\ UNCHANGED <<service, firewall, hostsVars, strategy, chosen, commands,
                 role, untested, works, original, raced, crashes, lacks>>

(* The trap is taken back after the copy was removed. *)
TestUntrap ==
  /\ cli = "test_removed"
  /\ cli' = "tested"
  /\ UNCHANGED <<service, firewall, hostsVars, strategy, chosen, commands, testVars, crashes, lacks>>

(* The sleep before the probes is enough for zapret-run.sh to load the     *)
(* strategy, if it does not exit before; the result is up to the network.  *)
TestProbe ==
  /\ cli = "test_probing"
  /\ "nfqws" \in lacks \/ main \notin {"prepare", "sed", "source"}
  /\ works' \in {works, works \cup {chosen}}
  /\ cli' = "test_next"
  /\ UNCHANGED <<service, firewall, hostsVars, strategy, chosen, commands,
                 role, untested, backup, original, raced, crashes, lacks>>

TestStep == \/ TestTry \/ TestPick \/ TestKeep \/ TestRestore \/ TestCopied \/ TestRestart
            \/ TestRestarted \/ TestUntrap \/ TestProbe

(* A step of the service or of another command; with that, the test and    *)
(* its variables are gone.                                                 *)
Other ==
  /\ Next
  /\ IF cli = "tested" /\ cli' # "tested"
     THEN Blank
     ELSE /\ raced' = (raced \/ (cli \in TestPc \cup {"tested"} /\ RunSed /\ file' # file))
          /\ UNCHANGED <<role, untested, works, backup, original>>

TestNext == Other \/ TestStart \/ TestStep \/ TestInterrupt

TestSpec == TestInit /\ [][TestNext]_<<vars, testVars>>

(* The loop goes on by itself, and the user answers the question at its    *)
(* end one way or the other; nobody owes a Ctrl-C.                         *)
TestFairSpec == TestSpec /\ Fairness /\ WF_<<vars, testVars>>(TestStep)
-----------------------------------------------------------------------------
(* README.md:63, "zapret-cli test all": a test leaves current_strategy.conf*)
(* as it was, however many strategies it tried and wherever Ctrl-C came,   *)
(* or with the strategy the user picked - if there was a file, and if no   *)
(* sed -i of a starting zapret-run.sh has undone a cp meanwhile (which is  *)
(* what SwitchTakes is about).                                             *)
TestRestores ==
  cli = "tested" /\ ~raced /\ original # "missing" =>
    file = IF role \in {"pick", "kept"} THEN chosen ELSE original
=============================================================================
