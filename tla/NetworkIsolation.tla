-------------------------- MODULE NetworkIsolation --------------------------
(***************************************************************************)
(* The Chrome network isolation of a Windows capture: isolate.ps1 and the  *)
(* process that calls it (windows.py).                                     *)
(*                                                                         *)
(* While it captures, a process has the outbound default of the Windows    *)
(* firewall set to Block and a group of allow rules for the browser.  The  *)
(* policy the user had is kept in a state file.  Three parties put it      *)
(* back: the capture itself, through a helper script; a watchdog script    *)
(* that waits for the capture process to disappear; and a scheduled task   *)
(* that runs at the next start of the machine.  The operator may also run  *)
(* the script by hand.                                                     *)
(*                                                                         *)
(* Every one of them is a PowerShell process of its own, and nothing but   *)
(* the state file keeps them apart.  A step of a script is one command     *)
(* that reads or changes the state they share.  A process id is not given  *)
(* to a second capture.                                                    *)
(***************************************************************************)
EXTENDS Naturals, FiniteSets

CONSTANTS
    Captures,      \* capture processes, that is, their process ids
    Profiles,      \* firewall profiles
    UserPolicy,    \* DefaultOutboundAction of each profile, as the user set it
    Overlap,       \* scripts of two captures may run at the same time
    MaxMishaps,    \* bound: failed commands, killed captures, closed terminals
                   \* and power losses
    None

Actions == {"Allow", "Block"}
Policies == [Profiles -> Actions]
Blocked == [p \in Profiles |-> "Block"]
States == [owner: Captures, policy: Policies]

ASSUME UserPolicyAssumption == UserPolicy \in Policies
ASSUME OverlapAssumption == Overlap \in BOOLEAN
ASSUME MaxMishapsAssumption == MaxMishaps \in Nat
ASSUME NoneAssumption == None \notin Policies /\ None \notin States

Helper(c) == <<"helper", c>>
Watchdog(c) == <<"watchdog", c>>
Startup == <<"startup", None>>
Manual == <<"manual", None>>
Scripts == {Helper(c) : c \in Captures} \cup {Watchdog(c) : c \in Captures}
           \cup {Startup, Manual}

VARIABLES
    firewall,     \* DefaultOutboundAction of each profile
    rules,        \* the lab's allow rules exist
    saved,        \* the state file: [owner, policy], or None
    task,         \* the startup recovery task is registered
    powered,      \* the machine is up
    capture,      \* "new", "enabling", "capturing", "disabling" or "exited"
    job,          \* what a script was started for: "enable", "undo" or "disable"
    pc,           \* the next command of a script
    policy,       \* the policy a script has read: the state file or the profiles
    unset,        \* the profiles a restore has still to set
    mishaps,      \* how many there have been
    left          \* history: what of "rules" and "task" the last removal has left,
                  \* as it failed or did not come to run

machineVars == <<firewall, rules, saved, task, powered>>
scriptVars == <<job, pc, policy, unset>>
vars == <<machineVars, capture, scriptVars, mishaps, left>>

Live(c) == capture[c] \in {"enabling", "capturing", "disabling"}
Ended == {"off", "ok", "failed"}
Working(s) == pc[s] \notin Ended \cup {"waiting"}

\* A script at work, or one about to be: the watchdog of a capture that is gone,
\* a startup task that will be retried.
Pending(s) ==
    \/ Working(s)
    \/ \E c \in Captures : s = Watchdog(c) /\ pc[s] = "waiting" /\ ~Live(c)
    \/ s = Startup /\ pc[s] = "failed" /\ task

\* Without overlap a capture starts, ends or is killed only while no other is
\* on its way in or out and no script but its own helper is at work.
Undisturbed(c) ==
    Overlap \/ /\ \A s \in Scripts \ {Helper(c)} : ~Pending(s)
               /\ \A d \in Captures \ {c} : capture[d] \notin {"enabling", "disabling"}

-----------------------------------------------------------------------------
(* Steps of a script *)

At(s, label) == powered /\ pc[s] = label
Goto(s, label) == pc' = [pc EXCEPT ![s] = label]
Local == <<job, policy, unset>>
Mishap == mishaps < MaxMishaps /\ mishaps' = mishaps + 1

\* An error ends the script.  In the try block of Enable-Isolation it first
\* runs the finally clause, and in that clause it does not skip its rest.
InTry(s) == job[s] = "enable" /\ pc[s] \in {"clear", "allow", "block", "task", "watch"}

Throw(s) ==
    \/ /\ InTry(s)
       /\ job' = [job EXCEPT ![s] = "undo"]
       /\ Goto(s, "read")
    \/ /\ job[s] = "undo" /\ pc[s] \in {"read", "set", "forget"}
       /\ Goto(s, "unrule")
       /\ UNCHANGED job
    \/ /\ ~InTry(s) /\ ~(job[s] = "undo" /\ pc[s] \in {"read", "set", "forget"})
       /\ Goto(s, "failed")
       /\ UNCHANGED job

\* What a script has still to remove that no state file stands for any more.
Present == (IF rules THEN {"rules"} ELSE {}) \cup (IF task THEN {"task"} ELSE {})
Unremoved(s) ==
    Present \cap (IF pc[s] = "unrule" THEN {"rules", "task"}
                 ELSE IF pc[s] = "untask" THEN {"task"} ELSE {})

\* A command that reads or changes the file, the firewall or the scheduler fails.
CommandFails(s) ==
    /\ powered
    /\ pc[s] \in {"check", "snapshot", "save", "clear", "allow", "block", "task", "watch",
                  "read", "set", "forget", "unrule", "inspect"}
    /\ Mishap
    /\ left' = left \cup Unremoved(s)
    /\ Throw(s)
    /\ UNCHANGED <<machineVars, capture, policy, unset>>

-----------------------------------------------------------------------------
(* Disable-Isolation, and the command of the startup task, lines 116-128 *)

TestState(s) ==
    /\ At(s, "test")
    /\ Goto(s, IF saved = None THEN "untask" ELSE "read")
    /\ UNCHANGED <<machineVars, capture, Local, mishaps, left>>

\* Restore-FirewallState: read the file, set the profiles, remove the file.
ReadState(s) ==
    /\ At(s, "read")
    /\ \/ /\ saved # None
          /\ policy' = [policy EXCEPT ![s] = saved.policy]
          /\ unset' = [unset EXCEPT ![s] = Profiles]
          /\ Goto(s, "set")
          /\ UNCHANGED job
       \/ /\ saved = None
          /\ Throw(s)
          /\ UNCHANGED <<policy, unset>>
    /\ UNCHANGED <<machineVars, capture, mishaps, left>>

SetProfile(s) ==
    /\ At(s, "set")
    /\ \E p \in unset[s] :
          /\ firewall' = [firewall EXCEPT ![p] = policy[s][p]]
          /\ unset' = [unset EXCEPT ![s] = @ \ {p}]
          /\ Goto(s, IF unset[s] = {p} THEN "forget" ELSE "set")
    /\ UNCHANGED <<rules, saved, task, powered, capture, job, policy, mishaps, left>>

RemoveState(s) ==
    /\ At(s, "forget")
    /\ \/ /\ saved # None
          /\ saved' = None
          /\ Goto(s, "unrule")
          /\ UNCHANGED job
       \/ /\ saved = None
          /\ Throw(s)
          /\ UNCHANGED saved
    /\ UNCHANGED <<firewall, rules, task, powered, capture, policy, unset, mishaps, left>>

\* Mutant of RemoveRules: they stay.
LeaveRules(s) ==
    /\ At(s, "unrule")
    /\ Goto(s, "untask")
    /\ UNCHANGED <<machineVars, capture, Local, mishaps, left>>

RemoveRules(s) ==
    /\ At(s, "unrule")
    /\ rules' = FALSE /\ left' = left \ {"rules"}
    /\ Goto(s, "untask")
    /\ UNCHANGED <<firewall, saved, task, powered, capture, Local, mishaps>>

\* The recovery of a stale state goes on to the rest of Enable-Isolation; a
\* failed enable stays failed.
AfterTask(s) == CASE job[s] = "enable"  -> "snapshot"
                  [] job[s] = "undo"    -> "failed"
                  [] job[s] = "disable" -> "ok"

RemoveTask(s) ==
    /\ At(s, "untask")
    /\ task' = FALSE /\ left' = left \ {"task"}
    /\ Goto(s, AfterTask(s))
    /\ UNCHANGED <<firewall, rules, saved, powered, capture, Local, mishaps>>

\* -ErrorAction SilentlyContinue: an error of Get-NetFirewallRule (line 100), or of
\* Unregister-ScheduledTask, is not seen, and the script goes on.
RemovalFailsUnseen(s) ==
    /\ powered /\ Mishap
    /\ \/ /\ pc[s] \in {"clear", "unrule"}
          /\ left' = left \cup (Present \cap {"rules"})
          /\ Goto(s, IF pc[s] = "clear" THEN "allow" ELSE "untask")
       \/ /\ pc[s] = "untask"
          /\ left' = left \cup (Present \cap {"task"})
          /\ Goto(s, AfterTask(s))
    /\ UNCHANGED <<machineVars, capture, Local>>

DisableStep(s) ==
    \/ TestState(s) \/ ReadState(s) \/ SetProfile(s) \/ RemoveState(s)
    \/ RemoveRules(s) \/ RemoveTask(s)

-----------------------------------------------------------------------------
(* Enable-Isolation, run by the helper of capture c *)

\* Mutants of CheckOwner: a stale state is overwritten without a recovery; the
\* state of a capture that still runs is taken over.
OverwriteStale(c) ==
    /\ At(Helper(c), "check")
    /\ Goto(Helper(c), IF saved # None /\ Live(saved.owner) THEN "failed" ELSE "snapshot")
    /\ UNCHANGED <<machineVars, capture, Local, mishaps, left>>
PreemptOwner(c) ==
    /\ At(Helper(c), "check")
    /\ Goto(Helper(c), IF saved = None THEN "snapshot" ELSE "test")
    /\ UNCHANGED <<machineVars, capture, Local, mishaps, left>>

\* Lines 204-212.
CheckOwner(c) ==
    /\ At(Helper(c), "check")
    /\ Goto(Helper(c), IF saved = None THEN "snapshot"
                       ELSE IF Live(saved.owner) THEN "failed" ELSE "test")
    /\ UNCHANGED <<machineVars, capture, Local, mishaps, left>>

\* Save-FirewallState: the profiles are read, and moved into place as a file.
ReadProfiles(c) ==
    /\ At(Helper(c), "snapshot")
    /\ policy' = [policy EXCEPT ![Helper(c)] = firewall]
    /\ Goto(Helper(c), "save")
    /\ UNCHANGED <<machineVars, capture, job, unset, mishaps, left>>

\* Mutant of SaveState: the file does not name its owner.
SaveWithoutOwner(c) ==
    /\ At(Helper(c), "save")
    /\ saved' = [owner |-> None, policy |-> policy[Helper(c)]]
    /\ Goto(Helper(c), "clear")
    /\ UNCHANGED <<firewall, rules, task, powered, capture, Local, mishaps, left>>

SaveState(c) ==
    /\ At(Helper(c), "save")
    /\ saved' = [owner |-> c, policy |-> policy[Helper(c)]]
    /\ Goto(Helper(c), "clear")
    /\ UNCHANGED <<firewall, rules, task, powered, capture, Local, mishaps, left>>

ClearRules(c) ==
    /\ At(Helper(c), "clear")
    /\ rules' = FALSE /\ left' = left \ {"rules"}
    /\ Goto(Helper(c), "allow")
    /\ UNCHANGED <<firewall, saved, task, powered, capture, Local, mishaps>>

AllowBrowser(c) ==
    /\ At(Helper(c), "allow")
    /\ rules' = TRUE
    /\ Goto(Helper(c), "block")
    /\ UNCHANGED <<firewall, saved, task, powered, capture, Local, mishaps, left>>

BlockOutbound(c) ==
    /\ At(Helper(c), "block")
    /\ firewall' = Blocked
    /\ Goto(Helper(c), "task")
    /\ UNCHANGED <<rules, saved, task, powered, capture, Local, mishaps, left>>

\* Register-ScheduledTask -Force replaces a task that waits for its retry.
InstallTask(c) ==
    /\ At(Helper(c), "task")
    /\ task' = TRUE
    /\ pc' = [pc EXCEPT ![Helper(c)] = "watch",
                        ![Startup] = IF @ = "failed" THEN "off" ELSE @]
    /\ UNCHANGED <<firewall, rules, saved, powered, capture, Local, mishaps, left>>

StartWatchdog(c) ==
    /\ At(Helper(c), "watch")
    /\ pc' = [pc EXCEPT ![Helper(c)] = "ok", ![Watchdog(c)] = "waiting"]
    /\ UNCHANGED <<machineVars, capture, Local, mishaps, left>>

EnableStep(c) ==
    \/ CheckOwner(c) \/ ReadProfiles(c) \/ SaveState(c) \/ ClearRules(c)
    \/ AllowBrowser(c) \/ BlockOutbound(c) \/ InstallTask(c) \/ StartWatchdog(c)

-----------------------------------------------------------------------------
(* Watch-IsolationOwner *)

OwnerExits(c) ==
    /\ At(Watchdog(c), "waiting") /\ ~Live(c)
    /\ Goto(Watchdog(c), "inspect")
    /\ UNCHANGED <<machineVars, capture, Local, mishaps, left>>

\* Mutant of InspectState: the watchdog takes every state for another's.
NeverMine(c) ==
    /\ At(Watchdog(c), "inspect")
    /\ Goto(Watchdog(c), "ok")
    /\ UNCHANGED <<machineVars, capture, Local, mishaps, left>>

\* Lines 296-299: the state is acted on after it was read.
InspectState(c) ==
    /\ At(Watchdog(c), "inspect")
    /\ Goto(Watchdog(c), IF saved # None /\ saved.owner = c THEN "test" ELSE "ok")
    /\ UNCHANGED <<machineVars, capture, Local, mishaps, left>>

WatchdogStep(c) == OwnerExits(c) \/ InspectState(c)

-----------------------------------------------------------------------------
(* The capture process, windows.py:197-248 *)

Launch(s, theJob, label) ==
    /\ job' = [job EXCEPT ![s] = theJob]
    /\ Goto(s, label)
    /\ UNCHANGED <<policy, unset>>

StartCapture(c) ==
    /\ powered /\ capture[c] = "new" /\ Undisturbed(c)
    /\ capture' = [capture EXCEPT ![c] = "enabling"]
    /\ Launch(Helper(c), "enable", "check")
    /\ UNCHANGED <<machineVars, mishaps, left>>

\* A helper that failed raises LabError before isolation_enabled is set.
EnableReturns(c) ==
    /\ powered /\ capture[c] = "enabling" /\ pc[Helper(c)] \in {"ok", "failed"}
    /\ capture' = [capture EXCEPT ![c] = IF pc[Helper(c)] = "ok" THEN "capturing" ELSE "exited"]
    /\ UNCHANGED <<machineVars, scriptVars, mishaps, left>>

\* The segments end, or one raises: the finally clause disables the isolation.
EndCapture(c) ==
    /\ powered /\ capture[c] = "capturing" /\ Undisturbed(c)
    /\ capture' = [capture EXCEPT ![c] = "disabling"]
    /\ Launch(Helper(c), "disable", "test")
    /\ UNCHANGED <<machineVars, mishaps, left>>

DisableReturns(c) ==
    /\ powered /\ capture[c] = "disabling" /\ pc[Helper(c)] \in {"ok", "failed"}
    /\ capture' = [capture EXCEPT ![c] = "exited"]
    /\ UNCHANGED <<machineVars, scriptVars, mishaps, left>>

\* The process is killed; a helper it started runs on.
KillCapture(c) ==
    /\ powered /\ Live(c) /\ Undisturbed(c)
    /\ Mishap
    /\ capture' = [capture EXCEPT ![c] = "exited"]
    /\ UNCHANGED <<machineVars, scriptVars, left>>

\* Its terminal is closed: the helper dies too, its finally clause does not
\* run, and the watchdog, which has a window of its own, stays.  Ctrl+C while
\* the helper runs does the same, as subprocess.run kills it.
CloseTerminal(c) ==
    /\ powered /\ Live(c) /\ Undisturbed(c)
    /\ Mishap /\ left' = left \cup Unremoved(Helper(c))
    /\ capture' = [capture EXCEPT ![c] = "exited"]
    /\ Goto(Helper(c), "off")
    /\ UNCHANGED <<machineVars, Local>>

-----------------------------------------------------------------------------
(* The operator and the machine *)

\* isolate.ps1 -Action Disable or Recover, after the captures, when Status shows
\* a state file, a task or rules.
RecoverByHand ==
    /\ powered /\ pc[Manual] \in Ended
    /\ saved # None \/ task \/ rules
    /\ \A c \in Captures : ~Live(c)
    /\ Overlap \/ \A s \in Scripts : ~Working(s) /\ (s = Startup \/ ~Pending(s))
    /\ Launch(Manual, "disable", "test")
    /\ UNCHANGED <<machineVars, capture, mishaps, left>>

\* Processes are gone; the firewall, its rules, the file and the task persist.
PowerLoss ==
    /\ powered /\ Mishap
    /\ left' = left \cup UNION {Unremoved(s) : s \in Scripts}
    /\ powered' = FALSE
    /\ capture' = [c \in Captures |-> IF Live(c) THEN "exited" ELSE capture[c]]
    /\ pc' = [s \in Scripts |-> "off"]
    /\ policy' = [s \in Scripts |-> None] /\ unset' = [s \in Scripts |-> {}]
    /\ UNCHANGED <<firewall, rules, saved, task, job>>

Boot ==
    /\ ~powered
    /\ powered' = TRUE
    /\ IF task THEN Launch(Startup, "disable", "test") ELSE UNCHANGED scriptVars
    /\ UNCHANGED <<firewall, rules, saved, task, capture, mishaps, left>>

\* -RestartCount 3: the scheduler runs a failed task again.
RestartTask ==
    /\ powered /\ task /\ pc[Startup] = "failed"
    /\ Launch(Startup, "disable", "test")
    /\ UNCHANGED <<machineVars, capture, mishaps, left>>

-----------------------------------------------------------------------------
Init ==
    /\ firewall = UserPolicy /\ rules = FALSE /\ saved = None /\ task = FALSE
    /\ powered = TRUE
    /\ capture = [c \in Captures |-> "new"]
    /\ job = [s \in Scripts |-> "disable"]
    /\ pc = [s \in Scripts |-> "off"]
    /\ policy = [s \in Scripts |-> None]
    /\ unset = [s \in Scripts |-> {}]
    /\ mishaps = 0 /\ left = {}

CaptureStep(c) == EnableReturns(c) \/ EndCapture(c) \/ DisableReturns(c)

RunScripts ==
    \/ \E s \in Scripts : DisableStep(s)
    \/ \E c \in Captures : EnableStep(c) \/ WatchdogStep(c)

Mishaps ==
    \/ \E s \in Scripts : CommandFails(s) \/ RemovalFailsUnseen(s)
    \/ \E c \in Captures : KillCapture(c) \/ CloseTerminal(c)
    \/ PowerLoss

Next ==
    \/ RunScripts
    \/ \E c \in Captures : StartCapture(c) \/ CaptureStep(c)
    \/ RecoverByHand
    \/ Mishaps
    \/ Boot \/ RestartTask

Spec == Init /\ [][Next]_vars

\* Scripts and captures run on, the operator switches the machine on again, and
\* the scheduler retries.  Captures need not start, and nothing need go wrong.
FairSpec ==
    /\ Spec
    /\ \A s \in Scripts : WF_vars(DisableStep(s))
    /\ \A c \in Captures : /\ WF_vars(EnableStep(c))
                           /\ WF_vars(WatchdogStep(c))
                           /\ WF_vars(CaptureStep(c))
    /\ WF_vars(Boot) /\ WF_vars(RestartTask)

-----------------------------------------------------------------------------
(* Properties *)

Labels == Ended \cup
    {"check", "snapshot", "save", "clear", "allow", "block", "task", "watch",
     "test", "read", "set", "forget", "unrule", "untask", "waiting", "inspect"}

TypeOK ==
    /\ firewall \in Policies
    /\ rules \in BOOLEAN /\ task \in BOOLEAN /\ powered \in BOOLEAN
    /\ saved \in States \cup {None}
    /\ capture \in [Captures -> {"new", "enabling", "capturing", "disabling", "exited"}]
    /\ job \in [Scripts -> {"enable", "undo", "disable"}]
    /\ pc \in [Scripts -> Labels]
    /\ policy \in [Scripts -> Policies \cup {None}]
    /\ unset \in [Scripts -> SUBSET Profiles]
    /\ mishaps \in 0..MaxMishaps /\ left \subseteq {"rules", "task"}

\* The user's policy can always be put back: a firewall that differs from it
\* has a state file, and a state file never holds a policy of the lab's own, as
\* it would if an isolation were saved as the user's choice.
PolicyIsKept ==
    /\ firewall # UserPolicy => saved # None
    /\ saved # None => saved.policy = UserPolicy

\* A capture that runs under isolation is isolated and has all three layers of
\* recovery (plain-capture.md:148-152): the state file with its own process id,
\* the startup task and a watchdog that waits for it.
IsolationProtected ==
    \A c \in Captures : capture[c] = "capturing" =>
        /\ firewall = Blocked /\ rules
        /\ saved = [owner |-> c, policy |-> UserPolicy]
        /\ task /\ pc[Watchdog(c)] = "waiting"

\* When nothing runs and no state is saved, the user's policy is back, and rules
\* or a task of the lab are there (plain-capture.md:171-172) only if the very last
\* removal of them failed, or its script was cut off before it.  A state file never
\* goes before what it stands for otherwise, and whatever is left is gone with the
\* next removal that works, as that of the next capture.  (Disable by hand removes
\* rules only where there is a state file, lines 180-186.)
CleanWhenIdle ==
    /\ saved = None
    /\ \A c \in Captures : ~Live(c)
    /\ \A s \in Scripts : ~Pending(s)
    => firewall = UserPolicy /\ (rules => "rules" \in left) /\ (task => "task" \in left)

\* However a capture under isolation ends, the user's policy comes back.  The
\* one exception is a watchdog whose own restore failed: it has no second try,
\* but leaves the state file and the startup task to the next start.
PolicyComesBack ==
    \A c \in Captures :
        capture[c] = "capturing" ~>
            \/ firewall = UserPolicy
            \/ pc[Watchdog(c)] = "failed" /\ saved # None /\ task
=============================================================================
