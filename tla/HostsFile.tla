----------------------------- MODULE HostsFile -----------------------------
(***************************************************************************)
(* /etc/hosts under scripts/zapret-hosts.sh.  The script runs from         *)
(* zapret-cli hosts, from zapret-run.sh and zapret-stop.sh of a starting   *)
(* service, and from install.sh just after it has restarted that service,  *)
(* so that several may run at once; nothing locks the file.                *)
(*                                                                         *)
(* Every grep, read, rename and write of a process is an action.  The      *)
(* file is a sequence of lines, told apart by whose they are; the entries  *)
(* are one write, and the empty line that apply_hosts puts before its      *)
(* block is a line of its own.  sed -i renames a copy over the file: an    *)
(* appender that has it open goes on writing to the old one, which nobody  *)
(* reads.  /etc/hosts and nsswitch.conf exist.                             *)
(***************************************************************************)
EXTENDS Integers, Sequences, FiniteSets

CONSTANTS Proc,      \* runs of the script at the same time
          Ops,       \* for each, what it may be called with
          MaxOps,    \* bound: calls of the script
          MaxKills,  \* bound: calls that are killed half way
          MaxEdits   \* bound: lines the user adds, between calls

ASSUME OpsAssumption == Ops \in [Proc -> SUBSET {"apply", "remove"}]
ASSUME BoundsAssumption == MaxOps \in Nat /\ MaxKills \in Nat /\ MaxEdits \in Nat

VARIABLES
  hosts,     \* the lines of /etc/hosts
  nss,       \* nsswitch.conf: which of the two texts of the seds it has
  pc,        \* where each process is
  op,        \* what it was last called with
  copy,      \* what its sed -i is about to put in the place of the file
  attached,  \* whether the file it appends to is still /etc/hosts
  last,      \* history: the last call, if it ran through and by itself
  blanks,    \* history: the empty lines in the file when that one began
  calls, kills, edits

vars == <<hosts, nss, pc, op, copy, attached, last, blanks, calls, kills, edits>>

Line == {"user", "blank", "begin", "entry", "end"}
Pc == {"idle", "grep", "sed", "rename", "restore", "lists", "blank", "begin", "entry", "end", "fix"}

(* "resolve [!UNAVAIL=return] files", the same with files in front, or     *)
(* neither, as where there is no systemd-resolved.                         *)
Nss == {"resolve", "files", "other"}

Init ==
  /\ hosts = <<"user">>
  /\ nss \in Nss
  /\ pc = [p \in Proc |-> "idle"]
  /\ op = [p \in Proc |-> "none"]
  /\ copy = [p \in Proc |-> <<>>]
  /\ attached = [p \in Proc |-> FALSE]
  /\ last = "none" /\ blanks = 0
  /\ calls = 0 /\ kills = 0 /\ edits = 0

Goto(p, where) == pc' = [pc EXCEPT ![p] = where]
Count(lines, line) == Cardinality({i \in DOMAIN lines : lines[i] = line})
Has(line) == \E i \in DOMAIN hosts : hosts[i] = line
Quiet == \A p \in Proc : pc[p] = "idle"

(* Operators named Bug... are what a definition below would be if the code *)
(* had a certain mistake; no specification uses them.                      *)

Call(p) ==
  /\ pc[p] = "idle"
  /\ calls < MaxOps
  /\ calls' = calls + 1
  /\ \E o \in Ops[p] : op' = [op EXCEPT ![p] = o]
  /\ last' = IF Quiet THEN op'[p] ELSE "none"
  /\ blanks' = Count(hosts, "blank")
  /\ Goto(p, "grep")
  /\ UNCHANGED <<hosts, nss, copy, attached, kills, edits>>

(* remove_hosts, which apply_hosts begins with *)

(* The grep looks for another marker than the one apply wrote. *)
BugGrep(p) ==
  /\ pc[p] = "grep"
  /\ Goto(p, "restore")
  /\ UNCHANGED <<last, blanks, hosts, nss, op, copy, attached, calls, kills, edits>>

(* Is MARKER_START in the file? *)
Grep(p) ==
  /\ pc[p] = "grep"
  /\ Goto(p, IF Has("begin") THEN "sed" ELSE "restore")
  /\ UNCHANGED <<last, blanks, hosts, nss, op, copy, attached, calls, kills, edits>>

(* The range begins one line too early. *)
BugDeletedBlank(i) ==
  \E b \in 1..(i + 1) : /\ b \in DOMAIN hosts /\ hosts[b] = "begin"
                        /\ \A e \in (b + 1)..(i - 1) : hosts[e] # "end"

(* The end of the range is looked for in vain. *)
BugDeletedToLast(i) ==
  \E b \in 1..i : hosts[b] = "begin"

(* sed '/START/,/END/d': a line goes if a START is before it, or it is     *)
(* one, and no END comes between; without an END, everything goes.         *)
Deleted(i) ==
  \E b \in 1..i : /\ hosts[b] = "begin"
                  /\ \A e \in (b + 1)..(i - 1) : hosts[e] # "end"

Kept == {i \in DOMAIN hosts : ~Deleted(i)}

(* The lines that are kept, in their order. *)
Without ==
  [j \in 1..Cardinality(Kept) |-> hosts[CHOOSE i \in Kept : Cardinality(Kept \cap (1..i)) = j]]

Sed(p) ==
  /\ pc[p] = "sed"
  /\ copy' = [copy EXCEPT ![p] = Without]
  /\ Goto(p, "rename")
  /\ UNCHANGED <<last, blanks, hosts, nss, op, attached, calls, kills, edits>>

Rename(p) ==
  /\ pc[p] = "rename"
  /\ hosts' = copy[p]
  /\ copy' = [copy EXCEPT ![p] = <<>>]
  /\ attached' = [q \in Proc |-> FALSE]
  /\ Goto(p, "restore")
  /\ UNCHANGED <<last, blanks, nss, op, calls, kills, edits>>

(* restore_nsswitch; for a remove, that was all. *)
Restore(p) ==
  /\ pc[p] = "restore"
  /\ nss' = IF nss = "files" THEN "resolve" ELSE nss
  /\ Goto(p, IF op[p] = "apply" THEN "lists" ELSE "idle")
  /\ UNCHANGED <<last, blanks, hosts, op, copy, attached, calls, kills, edits>>

(* The rest of apply_hosts.  The lists it reads, one of them the user's,   *)
(* have entries: the file is opened once, and written to by four commands. *)
Open(p) ==
  /\ pc[p] = "lists"
  /\ attached' = [attached EXCEPT ![p] = TRUE]
  /\ Goto(p, "blank")
  /\ UNCHANGED <<last, blanks, hosts, nss, op, copy, calls, kills, edits>>

(* They have none: nothing is written. *)
NoEntries(p) ==
  /\ pc[p] = "lists"
  /\ last' = IF last = "apply" THEN "empty" ELSE last
  /\ Goto(p, "fix")
  /\ UNCHANGED <<blanks, hosts, nss, op, copy, attached, calls, kills, edits>>

(* Each command opens /etc/hosts for itself. *)
BugWrite(p, line, next) ==
  /\ pc[p] = line
  /\ hosts' = Append(hosts, line)
  /\ Goto(p, next)
  /\ UNCHANGED <<last, blanks, nss, op, copy, attached, calls, kills, edits>>

Write(p, line, next) ==
  /\ pc[p] = line
  /\ hosts' = IF attached[p] THEN Append(hosts, line) ELSE hosts
  /\ Goto(p, next)
  /\ UNCHANGED <<last, blanks, nss, op, copy, attached, calls, kills, edits>>

WriteBlock(p) ==
  \/ Write(p, "blank", "begin")
  \/ Write(p, "begin", "entry") \/ Write(p, "entry", "end") \/ Write(p, "end", "fix")

(* apply_hosts relies on nsswitch.conf as it is. *)
BugFix(p) ==
  /\ pc[p] = "fix"
  /\ Goto(p, "idle")
  /\ attached' = [attached EXCEPT ![p] = FALSE]
  /\ UNCHANGED <<last, blanks, hosts, nss, op, copy, calls, kills, edits>>

(* fix_nsswitch *)
Fix(p) ==
  /\ pc[p] = "fix"
  /\ nss' = IF nss = "resolve" THEN "files" ELSE nss
  /\ attached' = [attached EXCEPT ![p] = FALSE]
  /\ Goto(p, "idle")
  /\ UNCHANGED <<last, blanks, hosts, op, copy, calls, kills, edits>>

(* The service that runs the script is stopped, or the user presses Ctrl-C. *)
Kill(p) ==
  /\ pc[p] # "idle"
  /\ kills < MaxKills
  /\ kills' = kills + 1
  /\ Goto(p, "idle")
  /\ last' = "none"
  /\ copy' = [copy EXCEPT ![p] = <<>>]
  /\ attached' = [attached EXCEPT ![p] = FALSE]
  /\ UNCHANGED <<hosts, nss, op, blanks, calls, edits>>

(* The user adds a line to the file. *)
Edit ==
  /\ Quiet
  /\ edits < MaxEdits
  /\ edits' = edits + 1
  /\ hosts' = Append(hosts, "user")
  /\ UNCHANGED <<last, blanks, nss, pc, op, copy, attached, calls, kills>>

Next ==
  \/ \E p \in Proc : \/ Call(p) \/ Grep(p) \/ Sed(p) \/ Rename(p) \/ Restore(p)
                     \/ Open(p) \/ NoEntries(p) \/ WriteBlock(p) \/ Fix(p) \/ Kill(p)
  \/ Edit

Spec == Init /\ [][Next]_vars

-----------------------------------------------------------------------------
(* Every variable keeps to the values its comment names. *)
TypeOK ==
  /\ hosts \in Seq(Line)
  /\ nss \in Nss
  /\ pc \in [Proc -> Pc]
  /\ op \in [Proc -> {"none", "apply", "remove"}]
  /\ copy \in [Proc -> Seq(Line)]
  /\ attached \in [Proc -> BOOLEAN]
  /\ last \in {"none", "apply", "empty", "remove"}
  /\ blanks \in Nat
  /\ calls \in 0..MaxOps /\ kills \in 0..MaxKills /\ edits \in 0..MaxEdits

(* No marker and no entry is in the file, or one whole block and no other. *)
(* The empty line of zapret-hosts.sh:72 stands before the block and stays  *)
(* when the block goes, so that it may be anywhere.                        *)
Block == <<"begin", "entry", "end">>
Outside == {"user", "blank"}
NoBlock == \A i \in DOMAIN hosts : hosts[i] \in Outside
OneBlock ==
  \E b \in 0..Len(hosts) - 3 :
    \A i \in DOMAIN hosts :
      IF i \in b + 1..b + 3 THEN hosts[i] = Block[i - b] ELSE hosts[i] \in Outside

UserLines == Count(hosts, "user")
BlankLines == Count(hosts, "blank")

(* The lines of the user survive every call of the script that is not      *)
(* killed, wherever they stand, before the block or added behind it.       *)
EditsSurvive == Quiet /\ kills = 0 => UserLines = 1 + edits

(* zapret-hosts.sh:46 "we delete all from MARKER_START to MARKER_END", so  *)
(* that no call ever deletes a line of the user.                           *)
UserLinesKept == Quiet => UserLines = 1 + edits

(* Once every call is through and none was killed, the file has one whole  *)
(* block or none, also when an apply of the service and a remove of the    *)
(* user overlapped: no half of a block, no marker or entry that no later   *)
(* remove would find.  Of the empty lines it says nothing.                 *)
AllOrNothing == Quiet /\ kills = 0 => NoBlock \/ OneBlock

(* Whatever calls overlapped or were killed before, a remove that runs by  *)
(* itself leaves no marker and no entry (README.md:101 "return the         *)
(* standard /etc/hosts").  It holds as long as no two applies overlap.     *)
BlockGone == Quiet /\ last = "remove" => NoBlock

(* An apply that runs by itself leaves the entries there, once, and in     *)
(* effect: where nsswitch.conf had the text that asks resolve before the   *)
(* files, it has it no more.  Where the lists are empty, nothing is there. *)
ApplyEffective ==
  Quiet /\ last \in {"apply", "empty"} =>
    /\ nss # "resolve"
    /\ IF last = "apply" THEN OneBlock ELSE NoBlock

(* What README.md:101 does not say: a remove that runs by itself leaves    *)
(* every empty line that the applies before it have put before their       *)
(* blocks, and an apply adds one more, so that every start of the service  *)
(* makes the file longer by a line.                                        *)
OneLineMore ==
  /\ Quiet /\ last \in {"remove", "empty"} => BlankLines = blanks
  /\ Quiet /\ last = "apply" => BlankLines = blanks + 1
=============================================================================
