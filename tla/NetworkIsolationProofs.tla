----------------------- MODULE NetworkIsolationProofs -----------------------
(***************************************************************************)
(* The types of the network isolation, and, of captures that do not        *)
(* disturb each other, that the user's policy is kept, that a capture runs *)
(* with all its layers of recovery and that nothing is left behind: for    *)
(* any number of captures, profiles and mishaps.                           *)
(***************************************************************************)
EXTENDS NetworkIsolation, TLAPS

-----------------------------------------------------------------------------
(* Scripts *)

IsHelper(s) == \E c \in Captures : s = Helper(c)
Side(c) == {Helper(c), Watchdog(c)}

LEMMA ScriptsTyped ==
    /\ Startup \in Scripts /\ Manual \in Scripts
    /\ \A c \in Captures : Helper(c) \in Scripts /\ Watchdog(c) \in Scripts
  BY DEF Scripts

LEMMA ScriptsDistinct ==
    /\ Startup # Manual /\ ~IsHelper(Startup) /\ ~IsHelper(Manual)
    /\ \A c, d \in Captures :
          /\ Helper(c) # Watchdog(d)
          /\ c # d => Helper(c) # Helper(d) /\ Watchdog(c) # Watchdog(d)
          /\ Helper(c) \notin {Startup, Manual} /\ Watchdog(c) \notin {Startup, Manual}
  BY DEF Helper, Watchdog, Startup, Manual, IsHelper

LEMMA ScriptCases ==
    ASSUME NEW s \in Scripts
    PROVE  s \in {Startup, Manual} \/ \E c \in Captures : s \in Side(c)
  BY DEF Scripts, Side

-----------------------------------------------------------------------------
(* Types *)

\* A policy is read before it is set or saved.
ReadFirst == \A s \in Scripts : pc[s] \in {"set", "save"} => policy[s] \in Policies

TypeInv == TypeOK /\ ReadFirst

\* Throw and Goto lead to labels.
LEMMA ThrowTyped ==
    ASSUME TypeInv, NEW s \in Scripts, Throw(s)
    PROVE  /\ pc' \in [Scripts -> Labels] /\ job' \in [Scripts -> {"enable", "undo", "disable"}]
           /\ \A t \in Scripts : pc'[t] \in {"set", "save"} => pc'[t] = pc[t]
  BY DEF Throw, Goto, TypeInv, TypeOK, Labels, Ended

LEMMA UnremovedTyped ==
    /\ Present \subseteq {"rules", "task"}
    /\ \A s \in Scripts : Unremoved(s) \subseteq {"rules", "task"}
  BY DEF Unremoved, Present

LEMMA AfterTaskTyped ==
    ASSUME TypeInv, NEW s \in Scripts
    PROVE  /\ AfterTask(s) \in {"snapshot", "failed", "ok"}
           /\ AfterTask(s) = "snapshot" <=> job[s] = "enable"
           /\ AfterTask(s) = "ok" <=> job[s] = "disable"
  BY DEF AfterTask, TypeInv, TypeOK

LEMMA DisableTyped ==
    ASSUME TypeInv, NEW s \in Scripts, DisableStep(s)
    PROVE  TypeInv'
<1>1. CASE TestState(s)
  BY <1>1 DEF TestState, Goto, machineVars, Local, TypeInv, TypeOK, ReadFirst, Labels, Ended
<1>2. CASE ReadState(s)
  <2>1. CASE saved # None /\ policy' = [policy EXCEPT ![s] = saved.policy]
    <3>1. saved.policy \in Policies
      BY <2>1 DEF TypeInv, TypeOK, States
    <3> QED
      BY <1>2, <2>1, <3>1
         DEF ReadState, Goto, Throw, machineVars, TypeInv, TypeOK, ReadFirst, Labels, Ended
  <2>2. CASE Throw(s) /\ UNCHANGED <<policy, unset>>
    BY <1>2, <2>2, ThrowTyped DEF ReadState, machineVars, TypeInv, TypeOK, ReadFirst
  <2> QED
    BY <1>2, <2>1, <2>2 DEF ReadState
<1>3. CASE SetProfile(s)
  <2>1. PICK p \in unset[s] :
           /\ firewall' = [firewall EXCEPT ![p] = policy[s][p]]
           /\ unset' = [unset EXCEPT ![s] = @ \ {p}]
           /\ Goto(s, IF unset[s] = {p} THEN "forget" ELSE "set")
    BY <1>3 DEF SetProfile
  <2>2. pc[s] = "set" /\ policy[s] \in Policies /\ p \in Profiles /\ unset[s] \in SUBSET Profiles
    BY <1>3, <2>1 DEF SetProfile, At, TypeInv, TypeOK, ReadFirst
  <2>3. firewall' \in Policies
    BY <2>1, <2>2 DEF TypeInv, TypeOK, Policies
  <2>4. unset' \in [Scripts -> SUBSET Profiles]
    BY <2>1, <2>2 DEF TypeInv, TypeOK
  <2>5. /\ pc' \in [Scripts -> Labels]
        /\ \A t \in Scripts : pc'[t] \in {"set", "save"} => pc'[t] = pc[t]
    BY <2>1, <2>2 DEF Goto, TypeInv, TypeOK, Labels
  <2> QED
    BY <1>3, <2>3, <2>4, <2>5 DEF SetProfile, TypeInv, TypeOK, ReadFirst
<1>4. CASE RemoveState(s)
  <2>1. CASE saved' = None /\ Goto(s, "unrule") /\ UNCHANGED job
    BY <1>4, <2>1 DEF RemoveState, Goto, TypeInv, TypeOK, ReadFirst, Labels, Ended
  <2>2. CASE Throw(s) /\ UNCHANGED saved
    BY <1>4, <2>2, ThrowTyped DEF RemoveState, TypeInv, TypeOK, ReadFirst
  <2> QED
    BY <1>4, <2>1, <2>2 DEF RemoveState
<1>5. CASE RemoveRules(s)
  BY <1>5 DEF RemoveRules, Goto, Local, TypeInv, TypeOK, ReadFirst, Labels, Ended
<1>6. CASE RemoveTask(s)
  <2>1. pc' = [pc EXCEPT ![s] = AfterTask(s)]
    BY <1>6 DEF RemoveTask, Goto
  <2> QED
    BY <1>6, <2>1, AfterTaskTyped
       DEF RemoveTask, Local, TypeInv, TypeOK, ReadFirst, Labels, Ended
<1> QED
  BY <1>1, <1>2, <1>3, <1>4, <1>5, <1>6 DEF DisableStep

LEMMA EnableTyped ==
    ASSUME TypeInv, NEW c \in Captures, EnableStep(c) \/ WatchdogStep(c)
    PROVE  TypeInv'
<1> USE ScriptsTyped
<1>1. CASE CheckOwner(c)
  BY <1>1 DEF CheckOwner, Goto, machineVars, Local, TypeInv, TypeOK, ReadFirst, Labels, Ended
<1>2. CASE ReadProfiles(c)
  BY <1>2 DEF ReadProfiles, Goto, machineVars, TypeInv, TypeOK, ReadFirst, Labels, Ended
<1>3. CASE SaveState(c)
  <2>1. saved' \in States
    BY <1>3 DEF States, SaveState, At, TypeInv, ReadFirst
  <2> QED
    BY <1>3, <2>1 DEF SaveState, Goto, Local, TypeInv, TypeOK, ReadFirst, Labels, Ended
<1>4. CASE ClearRules(c) \/ AllowBrowser(c)
  BY <1>4 DEF ClearRules, AllowBrowser, Goto, Local, TypeInv, TypeOK, ReadFirst, Labels, Ended
<1>5. CASE BlockOutbound(c)
  <2>1. Blocked \in Policies
    BY DEF Blocked, Policies, Actions
  <2> QED
    BY <1>5, <2>1 DEF BlockOutbound, Goto, Local, TypeInv, TypeOK, ReadFirst, Labels, Ended
<1>6. CASE InstallTask(c)
  <2>1. /\ pc' \in [Scripts -> Labels]
        /\ \A t \in Scripts : pc'[t] \in {"set", "save"} => pc'[t] = pc[t]
    BY <1>6, ScriptsDistinct DEF InstallTask, TypeInv, TypeOK, Labels, Ended
  <2> QED
    BY <1>6, <2>1 DEF InstallTask, Local, TypeInv, TypeOK, ReadFirst
<1>7. CASE StartWatchdog(c)
  <2>1. /\ pc' \in [Scripts -> Labels]
        /\ \A t \in Scripts : pc'[t] \in {"set", "save"} => pc'[t] = pc[t]
    BY <1>7, ScriptsDistinct DEF StartWatchdog, TypeInv, TypeOK, Labels, Ended
  <2> QED
    BY <1>7, <2>1 DEF StartWatchdog, machineVars, Local, TypeInv, TypeOK, ReadFirst
<1>8. CASE OwnerExits(c) \/ InspectState(c)
  BY <1>8 DEF OwnerExits, InspectState, Goto, machineVars, Local, TypeInv, TypeOK, ReadFirst, Labels, Ended
<1> QED
  BY <1>1, <1>2, <1>3, <1>4, <1>5, <1>6, <1>7, <1>8 DEF EnableStep, WatchdogStep

LEMMA CaptureTyped ==
    ASSUME TypeInv, NEW c \in Captures,
           StartCapture(c) \/ CaptureStep(c) \/ KillCapture(c) \/ CloseTerminal(c)
    PROVE  TypeInv'
<1> USE ScriptsTyped, MaxMishapsAssumption
<1>1. CASE StartCapture(c)
  BY <1>1 DEF StartCapture, Launch, Goto, machineVars, TypeInv, TypeOK, ReadFirst, Labels, Ended
<1>2. CASE EnableReturns(c) \/ DisableReturns(c)
  BY <1>2 DEF EnableReturns, DisableReturns, machineVars, scriptVars, TypeInv, TypeOK, ReadFirst
<1>3. CASE EndCapture(c)
  BY <1>3 DEF EndCapture, Launch, Goto, machineVars, TypeInv, TypeOK, ReadFirst, Labels, Ended
<1>4. CASE KillCapture(c)
  BY <1>4 DEF KillCapture, Mishap, machineVars, scriptVars, TypeInv, TypeOK, ReadFirst
<1>5. CASE CloseTerminal(c)
  <2>1. left' \subseteq {"rules", "task"}
    BY <1>5, UnremovedTyped DEF CloseTerminal, TypeInv, TypeOK
  <2> QED
    BY <1>5, <2>1
       DEF CloseTerminal, Mishap, Goto, machineVars, Local, TypeInv, TypeOK, ReadFirst, Labels, Ended
<1> QED
  BY <1>1, <1>2, <1>3, <1>4, <1>5 DEF CaptureStep

LEMMA MachineTyped ==
    ASSUME TypeInv,
           \/ RecoverByHand \/ PowerLoss \/ Boot \/ RestartTask
           \/ \E s \in Scripts : CommandFails(s) \/ RemovalFailsUnseen(s)
    PROVE  TypeInv'
<1> USE ScriptsTyped, MaxMishapsAssumption
<1>1. CASE RecoverByHand
  BY <1>1 DEF RecoverByHand, Launch, Goto, machineVars, TypeInv, TypeOK, ReadFirst, Labels, Ended
<1>2. CASE PowerLoss
  <2>1. /\ capture' \in [Captures -> {"new", "enabling", "capturing", "disabling", "exited"}]
        /\ pc' \in [Scripts -> Labels] /\ \A s \in Scripts : pc'[s] = "off"
        /\ mishaps' \in 0..MaxMishaps
    BY <1>2 DEF PowerLoss, Mishap, TypeInv, TypeOK, Labels, Ended
  <2>2. left' \subseteq {"rules", "task"}
    BY <1>2, UnremovedTyped DEF PowerLoss, TypeInv, TypeOK
  <2>3. /\ policy' \in [Scripts -> Policies \cup {None}]
        /\ unset' \in [Scripts -> SUBSET Profiles]
    BY <1>2 DEF PowerLoss
  <2> QED
    BY <1>2, <2>1, <2>2, <2>3 DEF PowerLoss, TypeInv, TypeOK, ReadFirst
<1>3. CASE Boot
  BY <1>3 DEF Boot, Launch, Goto, scriptVars, TypeInv, TypeOK, ReadFirst, Labels, Ended
<1>4. CASE RestartTask
  BY <1>4 DEF RestartTask, Launch, Goto, machineVars, TypeInv, TypeOK, ReadFirst, Labels, Ended
<1>5. ASSUME NEW s \in Scripts, CommandFails(s)
      PROVE  TypeInv'
  <2>1. mishaps' \in 0..MaxMishaps
    BY <1>5 DEF CommandFails, Mishap, TypeInv, TypeOK
  <2>2. left' \subseteq {"rules", "task"}
    BY <1>5, UnremovedTyped DEF CommandFails, TypeInv, TypeOK
  <2> QED
    BY <1>5, <2>1, <2>2, ThrowTyped DEF CommandFails, machineVars, TypeInv, TypeOK, ReadFirst
<1>6. ASSUME NEW s \in Scripts, RemovalFailsUnseen(s)
      PROVE  TypeInv'
  <2>1. mishaps' \in 0..MaxMishaps
    BY <1>6 DEF RemovalFailsUnseen, Mishap, TypeInv, TypeOK
  <2>2. left' \subseteq {"rules", "task"}
    BY <1>6, UnremovedTyped DEF RemovalFailsUnseen, TypeInv, TypeOK
  <2>3. PICK label \in {"allow", "untask", "snapshot", "failed", "ok"} :
           pc' = [pc EXCEPT ![s] = label]
    BY <1>6, AfterTaskTyped DEF RemovalFailsUnseen, Goto
  <2> QED
    BY <1>6, <2>1, <2>2, <2>3
       DEF RemovalFailsUnseen, machineVars, Local, TypeInv, TypeOK, ReadFirst, Labels, Ended
<1> QED
  BY <1>1, <1>2, <1>3, <1>4, <1>5, <1>6

LEMMA TypeStep ==
    ASSUME TypeInv, [Next]_vars
    PROVE  TypeInv'
<1>1. CASE UNCHANGED vars
  BY <1>1 DEF vars, machineVars, scriptVars, TypeInv, TypeOK, ReadFirst
<1> QED
  BY <1>1, DisableTyped, EnableTyped, CaptureTyped, MachineTyped DEF Next, RunScripts, Mishaps

LEMMA TypeInitially == Init => TypeInv
<1> SUFFICES ASSUME Init PROVE TypeInv
  OBVIOUS
<1>1. /\ pc \in [Scripts -> Labels] /\ \A s \in Scripts : pc[s] = "off"
      /\ job \in [Scripts -> {"enable", "undo", "disable"}]
  BY DEF Init, Labels, Ended
<1>2. policy \in [Scripts -> Policies \cup {None}] /\ unset \in [Scripts -> SUBSET Profiles]
  BY DEF Init
<1>3. capture \in [Captures -> {"new", "enabling", "capturing", "disabling", "exited"}]
  BY DEF Init
<1>4. firewall \in Policies /\ saved = None /\ mishaps \in 0..MaxMishaps
  BY UserPolicyAssumption, MaxMishapsAssumption DEF Init
<1>5. rules \in BOOLEAN /\ task \in BOOLEAN /\ powered \in BOOLEAN /\ left \subseteq {"rules", "task"}
  BY Zenon DEF Init
<1>6. TypeOK
  BY <1>1, <1>2, <1>3, <1>4, <1>5 DEF TypeOK
<1>7. ReadFirst
  BY <1>1 DEF ReadFirst
<1> QED
  BY <1>6, <1>7 DEF TypeInv

\* The inductive invariant of the types: a script at "set" or "save" holds a policy
\* it has read, so that what it puts into the firewall or the file is a policy.
THEOREM TypesInvariant == Spec => []TypeInv
<1>1. Init => TypeInv
  BY TypeInitially
<1>2. TypeInv /\ [Next]_vars => TypeInv'
  BY TypeStep
<1> QED
  BY <1>1, <1>2, PTL DEF Spec

\* Every variable keeps its type, whether captures overlap or not.
THEOREM IsolationTypes == Spec => []TypeOK
<1>1. TypeInv => TypeOK
  BY DEF TypeInv
<1> QED
  BY <1>1, TypesInvariant, PTL

-----------------------------------------------------------------------------
(* The lives of scripts and captures *)

EnableLabels == {"check", "snapshot", "save", "clear", "allow", "block", "task", "watch"}

\* Only a helper enables, and it does so for a capture that is on its way in.  A
\* watchdog is started last and works only after its capture.
Lives ==
    /\ \A s \in Scripts : ~IsHelper(s) => job[s] = "disable" /\ pc[s] \notin EnableLabels
    /\ \A c \in Captures :
          /\ capture[c] = "new" => pc[Helper(c)] = "off" /\ pc[Watchdog(c)] = "off"
          /\ capture[c] = "enabling" => job[Helper(c)] # "disable" /\ pc[Helper(c)] # "off"
          /\ capture[c] = "capturing" => pc[Helper(c)] = "ok"
          /\ capture[c] = "disabling" => job[Helper(c)] = "disable"
          /\ pc[Helper(c)] \in EnableLabels => job[Helper(c)] = "enable"
          /\ job[Helper(c)] # "disable" /\ pc[Helper(c)] \notin {"ok", "off"} =>
                pc[Watchdog(c)] = "off"
          /\ pc[Watchdog(c)] \notin {"off", "waiting"} => capture[c] = "exited"
    /\ ~powered => (\A s \in Scripts : pc[s] = "off") /\ (\A c \in Captures : ~Live(c))

DisableLabels == {"test", "read", "set", "forget", "unrule", "untask"}

LEMMA DisableMoves ==
    ASSUME TypeInv, NEW s \in Scripts, DisableStep(s)
    PROVE  /\ powered /\ pc[s] \in DisableLabels /\ UNCHANGED <<capture, powered>>
           /\ \A t \in Scripts : t # s => pc'[t] = pc[t] /\ job'[t] = job[t]
           /\ pc'[s] \in DisableLabels \cup {"snapshot", "ok", "failed"}
           /\ pc'[s] = "snapshot" => job[s] = "enable"
           /\ job'[s] = job[s]
           /\ task' => task
  BY AfterTaskTyped
     DEF DisableStep, TestState, ReadState, SetProfile, RemoveState, RemoveRules, RemoveTask, At,
         Goto, Throw, InTry, Local, machineVars, DisableLabels, TypeInv, TypeOK

LEMMA FailureMoves ==
    ASSUME TypeInv, NEW s \in Scripts, CommandFails(s)
    PROVE  /\ powered /\ Working(s) /\ pc[s] \notin {"off", "ok", "failed", "waiting"}
           /\ UNCHANGED <<capture, powered>>
           /\ left' = left \cup Unremoved(s)
           /\ \A t \in Scripts : t # s => pc'[t] = pc[t] /\ job'[t] = job[t]
           /\ pc'[s] \in {"read", "unrule", "failed"}
           /\ pc'[s] # "failed" => job'[s] = "undo"
           /\ job'[s] = job[s] \/ (job[s] = "enable" /\ job'[s] = "undo")
           /\ UNCHANGED <<firewall, rules, saved, task, policy, unset>>
  BY DEF CommandFails, Throw, InTry, Goto, Working, Ended, machineVars, TypeInv, TypeOK

LEMMA UnseenMoves ==
    ASSUME TypeInv, NEW s \in Scripts, RemovalFailsUnseen(s)
    PROVE  /\ powered /\ UNCHANGED <<machineVars, capture, Local>>
           /\ \A t \in Scripts : t # s => pc'[t] = pc[t]
           /\ left \subseteq left'
           /\ \/ pc[s] = "clear" /\ pc'[s] = "allow"
              \/ pc[s] = "unrule" /\ pc'[s] = "untask" /\ (rules => "rules" \in left')
              \/ pc[s] = "untask" /\ pc'[s] \in {"snapshot", "failed", "ok"} /\ (task => "task" \in left')
           /\ pc'[s] = "snapshot" => job[s] = "enable"
           /\ pc'[s] = "ok" => job[s] = "disable"
  BY AfterTaskTyped DEF RemovalFailsUnseen, Present, Goto, machineVars, TypeInv, TypeOK

LEMMA EnableMoves ==
    ASSUME TypeInv, NEW c \in Captures, EnableStep(c)
    PROVE  /\ powered /\ pc[Helper(c)] \in EnableLabels /\ UNCHANGED <<capture, powered, job, unset>>
           /\ \A t \in Scripts : t # Helper(c) =>
                 \/ pc'[t] = pc[t]
                 \/ t = Startup /\ pc[t] = "failed" /\ pc'[t] = "off"
                 \/ t = Watchdog(c) /\ pc[Helper(c)] = "watch" /\ pc'[Helper(c)] = "ok" /\ pc'[t] = "waiting"
           /\ pc'[Helper(c)] \in EnableLabels \cup {"test", "ok", "failed"}
           /\ pc'[Helper(c)] # "check"
           /\ pc[Helper(c)] # "clear" => UNCHANGED left
           /\ pc'[Helper(c)] \in {"test", "failed"} => pc[Helper(c)] = "check"
           /\ pc'[Helper(c)] = "ok" => pc[Helper(c)] = "watch" /\ pc'[Watchdog(c)] = "waiting"
           /\ task' # task => task' = TRUE /\ pc'[Startup] # "failed"
<1> USE ScriptsTyped, ScriptsDistinct
<1>1. CASE CheckOwner(c) \/ ReadProfiles(c) \/ SaveState(c) \/ ClearRules(c) \/ AllowBrowser(c) \/ BlockOutbound(c)
  BY <1>1 DEF CheckOwner, ReadProfiles, SaveState, ClearRules, AllowBrowser, BlockOutbound, At, Goto,
              Local, machineVars, EnableLabels, TypeInv, TypeOK
<1>2. CASE InstallTask(c)
  BY <1>2 DEF InstallTask, At, Local, EnableLabels, TypeInv, TypeOK
<1>3. CASE StartWatchdog(c)
  BY <1>3 DEF StartWatchdog, At, Local, machineVars, EnableLabels, TypeInv, TypeOK
<1> QED
  BY <1>1, <1>2, <1>3 DEF EnableStep

LEMMA WatchdogMoves ==
    ASSUME TypeInv, NEW c \in Captures, WatchdogStep(c)
    PROVE  /\ powered /\ UNCHANGED <<machineVars, capture, Local, left>>
           /\ \A t \in Scripts : t # Watchdog(c) => pc'[t] = pc[t]
           /\ \/ pc[Watchdog(c)] = "waiting" /\ ~Live(c) /\ pc'[Watchdog(c)] = "inspect"
              \/ pc[Watchdog(c)] = "inspect" /\ pc'[Watchdog(c)] \in {"test", "ok"}
  BY ScriptsTyped DEF WatchdogStep, OwnerExits, InspectState, At, Goto, machineVars, TypeInv, TypeOK

LEMMA LivesStep ==
    ASSUME TypeInv, Lives, [Next]_vars
    PROVE  Lives'
<1> USE ScriptsTyped, ScriptsDistinct
<1>1. ASSUME NEW s \in Scripts, DisableStep(s)
      PROVE  Lives'
  <2>1. CASE IsHelper(s)
    BY <1>1, <2>1, DisableMoves DEF Lives, Live, EnableLabels, DisableLabels, IsHelper
  <2>2. CASE ~IsHelper(s)
    BY <1>1, <2>2, DisableMoves DEF Lives, Live, EnableLabels, DisableLabels, IsHelper
  <2> QED
    BY <2>1, <2>2
<1>2. ASSUME NEW s \in Scripts, CommandFails(s)
      PROVE  Lives'
  <2>1. CASE IsHelper(s)
    BY <1>2, <2>1, FailureMoves DEF Lives, Live, EnableLabels, IsHelper
  <2>2. CASE ~IsHelper(s)
    BY <1>2, <2>2, FailureMoves DEF Lives, Live, EnableLabels, IsHelper
  <2> QED
    BY <2>1, <2>2
<1>10. ASSUME NEW s \in Scripts, RemovalFailsUnseen(s)
      PROVE  Lives'
  <2>1. CASE IsHelper(s)
    BY <1>10, <2>1, UnseenMoves DEF Lives, Live, machineVars, Local, EnableLabels, IsHelper
  <2>2. CASE ~IsHelper(s)
    BY <1>10, <2>2, UnseenMoves DEF Lives, Live, machineVars, Local, EnableLabels, IsHelper
  <2> QED
    BY <2>1, <2>2
<1>3. ASSUME NEW c \in Captures, EnableStep(c)
      PROVE  Lives'
  <2>1. /\ powered /\ pc[Helper(c)] \in EnableLabels /\ UNCHANGED <<capture, powered, job>>
        /\ pc'[Helper(c)] \in EnableLabels \cup {"test", "ok", "failed"}
        /\ pc'[Helper(c)] = "ok" => pc'[Watchdog(c)] = "waiting"
        /\ pc'[Helper(c)] # "ok" => pc'[Watchdog(c)] = pc[Watchdog(c)]
        /\ pc'[Watchdog(c)] \in {pc[Watchdog(c)], "waiting"}
    BY <1>3, EnableMoves
  <2>2. /\ pc'[Startup] = pc[Startup] \/ pc'[Startup] = "off"
        /\ \A t \in Scripts \ {Helper(c), Watchdog(c), Startup} : pc'[t] = pc[t]
    BY <1>3, EnableMoves
  <2>3. \A t \in Scripts : ~IsHelper(t) => job'[t] = "disable" /\ pc'[t] \notin EnableLabels
    BY <2>1, <2>2 DEF Lives, EnableLabels, IsHelper
  <2>4. ASSUME NEW d \in Captures
        PROVE  /\ capture[d] = "new" => pc'[Helper(d)] = "off" /\ pc'[Watchdog(d)] = "off"
               /\ capture[d] = "enabling" => pc'[Helper(d)] # "off"
               /\ capture[d] = "capturing" => pc'[Helper(d)] = "ok"
               /\ pc'[Helper(d)] \in EnableLabels => job[Helper(d)] = "enable"
               /\ job[Helper(d)] # "disable" /\ pc'[Helper(d)] \notin {"ok", "off"} =>
                     pc'[Watchdog(d)] = "off"
               /\ pc'[Watchdog(d)] \notin {"off", "waiting"} => capture[d] = "exited"
    <3>1. CASE d = c
      BY <2>1, <3>1 DEF Lives, EnableLabels
    <3>2. CASE d # c
      BY <2>2, <3>2 DEF Lives, EnableLabels
    <3> QED
      BY <3>1, <3>2
  <2> QED
    BY <2>1, <2>3, <2>4 DEF Lives
<1>4. ASSUME NEW c \in Captures, WatchdogStep(c)
      PROVE  Lives'
  BY <1>4, WatchdogMoves DEF Lives, Live, machineVars, Local, EnableLabels, IsHelper, TypeInv, TypeOK
<1>5. ASSUME NEW c \in Captures, StartCapture(c) \/ EndCapture(c)
      PROVE  Lives'
  BY <1>5 DEF StartCapture, EndCapture, Launch, Goto, machineVars, Lives, Live, EnableLabels, IsHelper,
              TypeInv, TypeOK
<1>6. ASSUME NEW c \in Captures,
             EnableReturns(c) \/ DisableReturns(c) \/ KillCapture(c) \/ CloseTerminal(c)
      PROVE  Lives'
  BY <1>6 DEF EnableReturns, DisableReturns, KillCapture, CloseTerminal, Goto, machineVars, scriptVars, Local,
              Lives, Live, EnableLabels, IsHelper, TypeInv, TypeOK
<1>7. CASE RecoverByHand \/ Boot \/ RestartTask
  BY <1>7 DEF RecoverByHand, Boot, RestartTask, Launch, Goto, machineVars, scriptVars, Lives, Live,
              EnableLabels, IsHelper, TypeInv, TypeOK
<1>8. CASE PowerLoss
  BY <1>8 DEF PowerLoss, Local, Lives, Live, EnableLabels, IsHelper, TypeInv, TypeOK
<1>9. CASE UNCHANGED vars
  BY <1>9 DEF vars, machineVars, scriptVars, Lives, Live
<1> QED
  BY <1>1, <1>2, <1>3, <1>4, <1>5, <1>6, <1>7, <1>8, <1>9, <1>10
     DEF Next, RunScripts, CaptureStep, Mishaps

-----------------------------------------------------------------------------
(* Without overlap: who is at work *)

\* The scripts that are pending belong to one capture, or are the two that run
\* after the captures.  Beside a capture that is in or on its way there is none,
\* but for the helper of another one that has yet to look at the state file.
Alone ==
    /\ \A s, t \in Scripts : Pending(s) /\ Pending(t) =>
          \/ \E c \in Captures : {s, t} \subseteq Side(c)
          \/ {s, t} \subseteq {Startup, Manual}
    /\ \A s \in Scripts, c \in Captures : Pending(s) /\ Live(c) /\ s \notin Side(c) =>
          capture[c] = "capturing" /\ IsHelper(s) /\ pc[s] = "check"
    /\ \A c, d \in Captures : c # d /\ capture[c] \in {"enabling", "disabling"} =>
          capture[d] \notin {"enabling", "disabling"}
    /\ \A c, d \in Captures : c # d /\ capture[c] = "capturing" /\ Live(d) =>
          capture[d] = "enabling" /\ pc[Helper(d)] \in {"check", "failed"}

LEMMA DisablePends ==
    ASSUME TypeInv, NEW s \in Scripts, DisableStep(s) \/ CommandFails(s) \/ RemovalFailsUnseen(s)
    PROVE  /\ Pending(s) /\ (pc[s] = "check" => CommandFails(s)) /\ UNCHANGED capture
           /\ \A t \in Scripts : Pending(t)' => Pending(t)
<1>1. /\ Working(s) /\ (pc[s] = "check" => CommandFails(s)) /\ UNCHANGED capture /\ (task' => task)
      /\ \A t \in Scripts : t # s => pc'[t] = pc[t]
  BY DisableMoves, FailureMoves, UnseenMoves DEF DisableLabels, Working, Ended, machineVars
<1>2. ASSUME NEW t \in Scripts, Pending(t)'
      PROVE  Pending(t)
  <2>1. CASE t = s
    BY <1>1, <2>1 DEF Pending
  <2>2. CASE t # s
    BY <1>1, <1>2, <2>2 DEF Pending, Working, Live
  <2> QED
    BY <2>1, <2>2
<1> QED
  BY <1>1, <1>2 DEF Pending

LEMMA EnablePends ==
    ASSUME TypeInv, NEW c \in Captures, EnableStep(c)
    PROVE  /\ Pending(Helper(c)) /\ UNCHANGED capture
           /\ \A t \in Scripts : Pending(t)' =>
                 Pending(t) \/ (t = Watchdog(c) /\ pc[Helper(c)] = "watch")
<1> USE ScriptsTyped, ScriptsDistinct
<1>1. Working(Helper(c)) /\ UNCHANGED capture
  BY EnableMoves DEF EnableLabels, Working, Ended
<1>2. ASSUME NEW t \in Scripts, Pending(t)', t # Helper(c), ~(t = Watchdog(c) /\ pc[Helper(c)] = "watch")
      PROVE  Pending(t)
  <2>1. pc'[t] = pc[t] \/ (t = Startup /\ pc'[t] = "off")
    BY <1>2, EnableMoves
  <2>2. pc'[t] = pc[t]
    BY <1>2, <2>1 DEF Pending, Working, Ended
  <2>3. t = Startup /\ pc'[t] = "failed" => task' = task
    BY EnableMoves
  <2> QED
    BY <1>1, <1>2, <2>2, <2>3 DEF Pending, Working, Live
<1> QED
  BY <1>1, <1>2 DEF Pending

LEMMA WatchdogPends ==
    ASSUME TypeInv, NEW c \in Captures, WatchdogStep(c)
    PROVE  /\ Pending(Watchdog(c)) /\ pc[Watchdog(c)] # "check" /\ UNCHANGED capture
           /\ \A t \in Scripts : Pending(t)' => Pending(t)
<1>1. /\ UNCHANGED <<capture, task>> /\ Pending(Watchdog(c)) /\ pc[Watchdog(c)] # "check"
      /\ \A t \in Scripts : t # Watchdog(c) => pc'[t] = pc[t]
  BY WatchdogMoves DEF machineVars, Pending, Working, Ended
<1> QED
  BY <1>1 DEF Pending, Working, Live

\* The step of a script that is past the state file wakes at most its watchdog.
LEMMA ScriptKeepsAlone ==
    ASSUME Alone, NEW s \in Scripts, Pending(s), pc[s] # "check", UNCHANGED capture,
           \A t \in Scripts : Pending(t)' =>
              Pending(t) \/ (\E c \in Captures : t = Watchdog(c) /\ s = Helper(c)),
           \A t \in Scripts \ {s} : IsHelper(t) => pc'[t] = pc[t]
    PROVE  Alone'
<1> USE ScriptsTyped, ScriptsDistinct
<1>1. ASSUME NEW t \in Scripts, Pending(t)'
      PROVE  \/ \E c \in Captures : {s, t} \subseteq Side(c)
             \/ {s, t} \subseteq {Startup, Manual}
  BY <1>1 DEF Alone, Side
<1>2. ASSUME NEW t \in Scripts, NEW u \in Scripts, Pending(t)', Pending(u)'
      PROVE  \/ \E c \in Captures : {t, u} \subseteq Side(c)
             \/ {t, u} \subseteq {Startup, Manual}
  <2>1. CASE s \in {Startup, Manual}
    <3>1. \A c \in Captures : s \notin Side(c)
      BY <2>1 DEF Side
    <3> QED
      BY <1>1, <1>2, <3>1
  <2>2. CASE s \notin {Startup, Manual}
    <3>1. PICK c \in Captures : {s, t} \subseteq Side(c)
      BY <1>1, <1>2, <2>2
    <3>2. PICK d \in Captures : {s, u} \subseteq Side(d)
      BY <1>1, <1>2, <2>2
    <3>3. c = d
      BY <3>1, <3>2 DEF Side
    <3> QED
      BY <3>1, <3>2, <3>3
  <2> QED
    BY <2>1, <2>2
<1>3. ASSUME NEW t \in Scripts, NEW c \in Captures, Pending(t)', Live(c), t \notin Side(c)
      PROVE  capture[c] = "capturing" /\ IsHelper(t) /\ pc'[t] = "check"
  <2>1. Pending(t)
    <3>1. SUFFICES ASSUME NEW d \in Captures, t = Watchdog(d), s = Helper(d)
                   PROVE  FALSE
      BY <1>3
    <3>2. s \notin Side(c)
      BY <1>3, <3>1 DEF Side
    <3> QED
      BY <1>3, <3>2 DEF Alone
  <2> QED
    BY <1>3, <2>1 DEF Alone
<1>4. ASSUME NEW c \in Captures, NEW d \in Captures, c # d, capture[c] = "capturing", Live(d)
      PROVE  capture[d] = "enabling" /\ pc'[Helper(d)] \in {"check", "failed"}
  <2>1. capture[d] = "enabling" /\ pc[Helper(d)] \in {"check", "failed"}
    BY <1>4 DEF Alone
  <2>2. Helper(d) # s
    BY <2>1 DEF Pending, Working, Ended
  <2> QED
    BY <2>1, <2>2 DEF IsHelper
<1> QED
  BY <1>2, <1>3, <1>4 DEF Alone, Live

-----------------------------------------------------------------------------
(* Without overlap: what is kept *)

Mine(c) == [owner |-> c, policy |-> UserPolicy]

\* A script that restores has the user's policy, and has set it in every profile
\* it is through with.
Restores ==
    \A s \in Scripts :
        /\ pc[s] \in {"set", "forget"} =>
              /\ policy[s] = UserPolicy
              /\ \A p \in Profiles : p \in unset[s] \/ firewall[p] = UserPolicy[p]
        /\ pc[s] = "forget" => unset[s] = {}

\* What a helper has done when it comes to a command of Enable-Isolation.
HasDone(c, at) ==
    /\ at \in {"snapshot", "save"} \/ (job[Helper(c)] = "enable" /\ at \in {"unrule", "untask"}) =>
          saved = None
    /\ at = "save" => policy[Helper(c)] = UserPolicy
    /\ at \in {"clear", "allow", "block", "task", "watch"} => saved = Mine(c)
    /\ at \in {"task", "watch"} => firewall = Blocked
    /\ at \in {"block", "task", "watch"} => rules
    /\ at = "watch" => task

Enables == \A c \in Captures : HasDone(c, pc[Helper(c)])

Isolated(c) ==
    firewall = Blocked /\ rules /\ saved = Mine(c) /\ task /\ pc[Watchdog(c)] = "waiting"

\* A capture is isolated from the end of its helper to the begin of its own end.
Protected(c) == capture[c] = "capturing" \/ (capture[c] = "enabling" /\ pc[Helper(c)] = "ok")
Protects == \A c \in Captures : Protected(c) => Isolated(c)

\* Rules and task that no state file stands for are about to be removed, or the
\* last removal has left them.
Cleans ==
    saved = None =>
        /\ rules => "rules" \in left \/ \E s \in Scripts : pc[s] = "unrule"
        /\ task => "task" \in left \/ \E s \in Scripts : pc[s] \in {"unrule", "untask"}

ApartInv ==
    TypeInv /\ Lives /\ Alone /\ Restores /\ Enables /\ Protects /\ Cleans /\ PolicyIsKept

LEMMA MineSaved == \A c \in Captures : Mine(c) # None /\ Mine(c).owner = c /\ Mine(c).policy = UserPolicy
  BY NoneAssumption, UserPolicyAssumption DEF Mine, States

\* A capture whose helper comes to look at the state file of another one fails.
LEMMA CheckAlone ==
    ASSUME ApartInv, NEW c \in Captures, pc[Helper(c)] = "check",
           CheckOwner(c) \/ CommandFails(Helper(c))
    PROVE  Alone'
<1> USE ScriptsTyped, ScriptsDistinct
<1>1. /\ pc[Helper(c)] = "check" /\ UNCHANGED <<capture, task>>
      /\ \A t \in Scripts \ {Helper(c)} : pc'[t] = pc[t]
      /\ saved # None /\ Live(saved.owner) => pc'[Helper(c)] = "failed"
  <2>1. CASE CheckOwner(c)
    BY <2>1 DEF CheckOwner, At, Goto, machineVars, ApartInv, TypeInv, TypeOK
  <2>2. CASE CommandFails(Helper(c))
    <3>1. job[Helper(c)] = "enable"
      BY DEF ApartInv, Lives, EnableLabels
    <3> QED
      BY <2>2, <3>1 DEF CommandFails, Throw, InTry, Goto, machineVars, ApartInv, TypeInv, TypeOK
  <2> QED
    BY <2>1, <2>2
<1>2. \A t \in Scripts : Pending(t)' => Pending(t)
  BY <1>1 DEF Pending, Working, Live, Ended
<1>3. ASSUME NEW d \in Captures, d # c, capture[d] = "capturing"
      PROVE  pc'[Helper(c)] = "failed"
  <2>1. saved = Mine(d)
    BY <1>3 DEF ApartInv, Protects, Protected, Isolated
  <2> QED
    BY <1>1, <1>3, <2>1, MineSaved DEF Live
<1>4. ASSUME NEW s \in Scripts, NEW t \in Scripts, Pending(s)', Pending(t)'
      PROVE  (\E d \in Captures : {s, t} \subseteq Side(d)) \/ {s, t} \subseteq {Startup, Manual}
  BY <1>2, <1>4 DEF ApartInv, Alone
<1>5. ASSUME NEW s \in Scripts, NEW d \in Captures, Pending(s)', Live(d), s \notin Side(d)
      PROVE  capture[d] = "capturing" /\ IsHelper(s) /\ pc'[s] = "check"
  <2>1. capture[d] = "capturing" /\ IsHelper(s) /\ pc[s] = "check"
    BY <1>2, <1>5 DEF ApartInv, Alone
  <2>2. s # Helper(c)
    <3>1. SUFFICES ASSUME s = Helper(c) PROVE FALSE
      OBVIOUS
    <3>2. pc'[s] = "failed"
      BY <1>3, <1>5, <2>1, <3>1 DEF Side
    <3> QED
      BY <1>5, <3>1, <3>2 DEF Pending, Working, Ended
  <2> QED
    BY <1>1, <2>1, <2>2
<1>6. ASSUME NEW a \in Captures, NEW d \in Captures, a # d, capture[a] = "capturing", Live(d)
      PROVE  capture[d] = "enabling" /\ pc'[Helper(d)] \in {"check", "failed"}
  <2>1. capture[d] = "enabling" /\ pc[Helper(d)] \in {"check", "failed"}
    BY <1>6 DEF ApartInv, Alone
  <2>2. CASE d = c
    BY <1>3, <1>6, <2>1, <2>2
  <2>3. CASE d # c
    BY <1>1, <2>1, <2>3
  <2> QED
    BY <2>2, <2>3
<1> QED
  BY <1>1, <1>4, <1>5, <1>6 DEF ApartInv, Alone, Live

LEMMA ScriptAlone ==
    ASSUME ApartInv,
           RunScripts \/ \E s \in Scripts : CommandFails(s) \/ RemovalFailsUnseen(s)
    PROVE  Alone'
<1> USE ScriptsTyped, ScriptsDistinct
<1>1. ASSUME NEW s \in Scripts, DisableStep(s) \/ CommandFails(s) \/ RemovalFailsUnseen(s)
      PROVE  Alone'
  <2>1. \A t \in Scripts \ {s} : pc'[t] = pc[t]
    BY <1>1, DisableMoves, FailureMoves, UnseenMoves DEF ApartInv
  <2>2. CASE pc[s] = "check"
    <3>1. CommandFails(s) /\ IsHelper(s)
      BY <1>1, <2>2, DisablePends DEF ApartInv, Lives, EnableLabels
    <3> QED
      BY <2>2, <3>1, CheckAlone DEF IsHelper
  <2>3. CASE pc[s] # "check"
    BY <1>1, <2>1, <2>3, DisablePends, ScriptKeepsAlone DEF ApartInv
  <2> QED
    BY <2>2, <2>3
<1>2. ASSUME NEW c \in Captures, EnableStep(c), ~CheckOwner(c)
      PROVE  Alone'
  <2>1. pc[Helper(c)] # "check"
    BY <1>2 DEF EnableStep, ReadProfiles, SaveState, ClearRules, AllowBrowser, BlockOutbound, InstallTask,
                StartWatchdog, At
  <2>2. \A t \in Scripts \ {Helper(c)} : IsHelper(t) => pc'[t] = pc[t]
    BY <1>2, EnableMoves DEF ApartInv, IsHelper
  <2> QED
    BY <1>2, <2>1, <2>2, EnablePends, ScriptKeepsAlone DEF ApartInv
<1>3. ASSUME NEW c \in Captures, WatchdogStep(c)
      PROVE  Alone'
  <2>1. \A t \in Scripts \ {Watchdog(c)} : pc'[t] = pc[t]
    BY <1>3, WatchdogMoves DEF ApartInv
  <2> QED
    BY <1>3, <2>1, WatchdogPends, ScriptKeepsAlone DEF ApartInv
<1> QED
  BY <1>1, <1>2, <1>3, CheckAlone DEF RunScripts, CheckOwner, At

\* When one capture comes in or goes and all that is pending is its own.
LEMMA QuietAlone ==
    ASSUME Alone, NEW c \in Captures,
           \A t \in Scripts : Pending(t)' => t \in Side(c),
           \A d \in Captures \ {c} :
              capture'[d] = capture[d] /\ capture[d] \notin {"enabling", "disabling"},
           \A d \in Captures \ {c} : capture'[d] = "capturing" =>
              /\ \A t \in Scripts : Pending(t)' => t = Helper(c) /\ pc'[t] = "check"
              /\ Live(c)' => capture'[c] = "enabling" /\ pc'[Helper(c)] \in {"check", "failed"}
    PROVE  Alone'
<1> USE ScriptsTyped, ScriptsDistinct
<1>1. \A s, t \in Scripts : Pending(s)' /\ Pending(t)' => {s, t} \subseteq Side(c)
  OBVIOUS
<1>2. ASSUME NEW s \in Scripts, NEW d \in Captures, Pending(s)', Live(d)', s \notin Side(d)
      PROVE  capture'[d] = "capturing" /\ IsHelper(s) /\ pc'[s] = "check"
  BY <1>2 DEF Live, IsHelper
<1>3. \A a, d \in Captures : a # d /\ capture'[a] \in {"enabling", "disabling"} =>
         capture'[d] \notin {"enabling", "disabling"}
  OBVIOUS
<1>4. ASSUME NEW a \in Captures, NEW d \in Captures, a # d, capture'[a] = "capturing", Live(d)'
      PROVE  capture'[d] = "enabling" /\ pc'[Helper(d)] \in {"check", "failed"}
  <2>1. CASE c \in {a, d}
    BY <1>4, <2>1 DEF Live
  <2>2. CASE c \notin {a, d}
    BY <1>4, <2>2 DEF Live, Alone
  <2> QED
    BY <2>1, <2>2
<1> QED
  BY <1>1, <1>2, <1>3, <1>4 DEF Alone

LEMMA CaptureAlone ==
    ASSUME ~Overlap, ApartInv, NEW c \in Captures,
           StartCapture(c) \/ CaptureStep(c) \/ KillCapture(c) \/ CloseTerminal(c)
    PROVE  Alone'
<1> USE ScriptsTyped, ScriptsDistinct
<1>1. CASE StartCapture(c)
  <2>1. /\ capture' = [capture EXCEPT ![c] = "enabling"] /\ UNCHANGED task
        /\ pc' = [pc EXCEPT ![Helper(c)] = "check"] /\ capture[c] = "new"
        /\ \A t \in Scripts \ {Helper(c)} : ~Pending(t)
        /\ \A d \in Captures \ {c} : capture[d] \notin {"enabling", "disabling"}
    BY <1>1 DEF StartCapture, Launch, Goto, Undisturbed, machineVars
  <2>2. \A t \in Scripts \ {Helper(c)} : ~Pending(t)'
    BY <2>1 DEF Pending, Working, Live, ApartInv, TypeInv, TypeOK
  <2> QED
    BY <2>1, <2>2, QuietAlone DEF Side, Live, ApartInv, TypeInv, TypeOK
<1>2. CASE EnableReturns(c)
  <2>1. /\ capture[c] = "enabling" /\ UNCHANGED <<pc, task>>
        /\ capture' = [capture EXCEPT ![c] = IF pc[Helper(c)] = "ok" THEN "capturing" ELSE "exited"]
        /\ pc[Helper(c)] \in {"ok", "failed"}
    BY <1>2 DEF EnableReturns, machineVars, scriptVars
  <2>2. pc[Helper(c)] = "failed" => pc[Watchdog(c)] = "off"
    BY <2>1 DEF ApartInv, Lives
  <2>3. ASSUME NEW t \in Scripts, Pending(t)'
        PROVE  Pending(t)
    BY <2>1, <2>2, <2>3 DEF Pending, Working, Live, ApartInv, TypeInv, TypeOK
  <2>4. \A t \in Scripts : Pending(t) => t \in Side(c)
    BY <2>1 DEF ApartInv, Alone, Live
  <2>5. \A d \in Captures \ {c} : capture[d] \notin {"enabling", "disabling"}
    BY <2>1 DEF ApartInv, Alone
  <2>6. \A d \in Captures \ {c} : capture[d] = "capturing" => pc[Helper(c)] = "failed"
    BY <2>1 DEF ApartInv, Alone, Live
  <2>7. \A t \in Side(c) : pc[Helper(c)] = "failed" => ~Pending(t)
    BY <2>2 DEF Side, Pending, Working, Ended
  <2> QED
    BY <2>1, <2>3, <2>4, <2>5, <2>6, <2>7, QuietAlone DEF Side, Live, ApartInv, TypeInv, TypeOK
<1>3. CASE EndCapture(c)
  <2>1. /\ capture' = [capture EXCEPT ![c] = "disabling"] /\ UNCHANGED task
        /\ pc' = [pc EXCEPT ![Helper(c)] = "test"] /\ capture[c] = "capturing"
        /\ \A t \in Scripts \ {Helper(c)} : ~Pending(t)
        /\ \A d \in Captures \ {c} : capture[d] \notin {"enabling", "disabling"}
    BY <1>3 DEF EndCapture, Launch, Goto, Undisturbed, machineVars
  <2>2. \A t \in Scripts \ {Helper(c)} : ~Pending(t)'
    BY <2>1 DEF Pending, Working, Live, ApartInv, TypeInv, TypeOK
  <2>3. \A d \in Captures \ {c} : ~Live(d)
    BY <2>1 DEF ApartInv, Alone
  <2> QED
    BY <2>1, <2>2, <2>3, QuietAlone DEF Side, Live, ApartInv, TypeInv, TypeOK
<1>4. CASE DisableReturns(c)
  <2>1. capture[c] = "disabling" /\ UNCHANGED <<pc, task>> /\ capture' = [capture EXCEPT ![c] = "exited"]
    BY <1>4 DEF DisableReturns, machineVars, scriptVars
  <2>2. \A t \in Scripts \ Side(c) : ~Pending(t)
    BY <2>1 DEF ApartInv, Alone, Live
  <2>3. ASSUME NEW d \in Captures \ {c}
        PROVE  ~Live(d)
    <3>1. Live(c) /\ capture[c] \notin {"enabling", "capturing"}
      BY <2>1 DEF Live
    <3>2. capture[d] \notin {"enabling", "disabling"}
      BY <2>1 DEF ApartInv, Alone
    <3>3. capture[d] # "capturing"
      BY <3>1 DEF ApartInv, Alone
    <3> QED
      BY <3>2, <3>3 DEF Live
  <2>4. \A t \in Scripts \ Side(c) : ~Pending(t)'
    BY <2>1, <2>2 DEF Pending, Working, Live, Side, ApartInv, TypeInv, TypeOK
  <2> QED
    BY <2>1, <2>3, <2>4, QuietAlone DEF Live, ApartInv, TypeInv, TypeOK
<1>5. CASE KillCapture(c) \/ CloseTerminal(c)
  <2>1. /\ Live(c) /\ capture' = [capture EXCEPT ![c] = "exited"] /\ UNCHANGED task
        /\ \A t \in Scripts \ {Helper(c)} : pc'[t] = pc[t]
        /\ pc'[Helper(c)] \in {pc[Helper(c)], "off"}
        /\ \A t \in Scripts \ {Helper(c)} : ~Pending(t)
        /\ \A d \in Captures \ {c} : capture[d] \notin {"enabling", "disabling"}
    BY <1>5 DEF KillCapture, CloseTerminal, Goto, Undisturbed, machineVars, scriptVars, ApartInv, TypeInv, TypeOK
  <2>2. \A t \in Scripts \ Side(c) : ~Pending(t)'
    BY <2>1 DEF Pending, Working, Live, Side, ApartInv, TypeInv, TypeOK
  <2>3. ASSUME NEW d \in Captures \ {c}, capture[d] = "capturing", NEW t \in Scripts, Pending(t)'
        PROVE  t = Helper(c) /\ pc'[t] = "check"
    <3>1. capture[c] = "enabling" /\ pc[Helper(c)] \in {"check", "failed"}
      BY <2>1, <2>3 DEF ApartInv, Alone
    <3>2. pc[Watchdog(c)] = "off"
      BY <3>1 DEF ApartInv, Lives
    <3>3. ~Pending(Watchdog(c))'
      BY <2>1, <3>2 DEF Pending, Working, Ended
    <3>4. t = Helper(c)
      BY <2>2, <2>3, <3>3 DEF Side
    <3> QED
      BY <2>1, <2>3, <3>1, <3>4 DEF Pending, Working, Ended
  <2> QED
    BY <2>1, <2>2, <2>3, QuietAlone DEF Live, ApartInv, TypeInv, TypeOK
<1> QED
  BY <1>1, <1>2, <1>3, <1>4, <1>5 DEF CaptureStep

LEMMA MachineAlone ==
    ASSUME ~Overlap, ApartInv, RecoverByHand \/ PowerLoss \/ Boot \/ RestartTask \/ UNCHANGED vars
    PROVE  Alone'
<1> USE ScriptsTyped, ScriptsDistinct
<1>1. SUFFICES ASSUME RecoverByHand \/ PowerLoss \/ Boot
               PROVE  /\ \A t \in Scripts : Pending(t)' => t \in {Startup, Manual}
                      /\ \A c \in Captures : ~Live(c)'
  <2>1. CASE RestartTask
    <3>1. Pending(Startup) /\ pc[Startup] # "check" /\ UNCHANGED <<capture, task>>
          /\ \A t \in Scripts \ {Startup} : pc'[t] = pc[t]
      BY <2>1 DEF RestartTask, Launch, Goto, Pending, machineVars, ApartInv, TypeInv, TypeOK
    <3>2. \A t \in Scripts : Pending(t)' => Pending(t)
      BY <3>1 DEF Pending, Working, Live
    <3> QED
      BY <3>1, <3>2, ScriptKeepsAlone DEF ApartInv
  <2>2. CASE UNCHANGED vars
    BY <2>2 DEF vars, machineVars, scriptVars, ApartInv, Alone, Pending, Working, Live
  <2>3. CASE RecoverByHand \/ PowerLoss \/ Boot
    <3>1. /\ \A t \in Scripts : Pending(t)' => t \in {Startup, Manual}
          /\ \A c \in Captures : ~Live(c)'
      BY <1>1, <2>3
    <3> QED
      BY <3>1 DEF Alone, Live
  <2> QED
    BY <2>1, <2>2, <2>3
<1>2. CASE RecoverByHand
  BY <1>2 DEF RecoverByHand, Launch, Goto, machineVars, Pending, Working, Live, ApartInv, TypeInv, TypeOK
<1>3. CASE PowerLoss
  <2>1. (\A s \in Scripts : pc'[s] = "off") /\ \A c \in Captures : ~Live(c)'
    BY <1>3 DEF PowerLoss, Live
  <2> QED
    BY <2>1 DEF Pending, Working, Ended
<1>4. CASE Boot
  <2>1. (\A s \in Scripts : pc[s] = "off") /\ UNCHANGED capture /\ \A c \in Captures : ~Live(c)
    BY <1>4 DEF Boot, ApartInv, Lives
  <2>2. \A s \in Scripts \ {Startup} : pc'[s] = "off"
    BY <1>4, <2>1 DEF Boot, Launch, Goto, scriptVars, ApartInv, TypeInv, TypeOK
  <2> QED
    BY <2>1, <2>2 DEF Pending, Working, Live, Ended
<1> QED
  BY <1>1, <1>2, <1>3, <1>4

-----------------------------------------------------------------------------
(* Without overlap: the state file, the firewall, the rules and the task *)

\* While a helper enables, no other script is at work.
LEMMA HelperWorksAlone ==
    ASSUME ApartInv, NEW c \in Captures, NEW s \in Scripts, Pending(s), s # Helper(c),
           \/ pc[Helper(c)] \in EnableLabels
           \/ job[Helper(c)] # "disable" /\ Working(Helper(c))
    PROVE  FALSE
<1> USE ScriptsTyped, ScriptsDistinct
<1>1. job[Helper(c)] # "disable" /\ Working(Helper(c))
  BY DEF ApartInv, Lives, EnableLabels, Working, Ended
<1>2. pc[Watchdog(c)] = "off"
  BY <1>1 DEF ApartInv, Lives, Working, Ended
<1>3. s = Watchdog(c)
  BY <1>1 DEF ApartInv, Alone, Pending, Side
<1> QED
  BY <1>2, <1>3 DEF Pending, Working, Ended

\* While a capture is isolated, no script is at work that is past the state file.
LEMMA NoneWorksBeside ==
    ASSUME ApartInv, NEW c \in Captures, Protected(c), NEW s \in Scripts, Pending(s), pc[s] # "check"
    PROVE  FALSE
<1> USE ScriptsTyped, ScriptsDistinct
<1>1. Live(c) /\ pc[Helper(c)] = "ok" /\ pc[Watchdog(c)] = "waiting"
  BY DEF Protected, Live, ApartInv, Lives, Protects, Isolated
<1>2. s \in Side(c)
  BY <1>1 DEF ApartInv, Alone
<1> QED
  BY <1>1, <1>2 DEF Side, Pending, Working, Ended

LEMMA DisableRestores ==
    ASSUME ApartInv, NEW s \in Scripts, DisableStep(s)
    PROVE  Restores' /\ PolicyIsKept'
<1>1. \A t \in Scripts : t # s => pc'[t] = pc[t]
  BY DisableMoves DEF ApartInv
<1>2. CASE TestState(s) \/ RemoveRules(s) \/ RemoveTask(s)
  <2>1. UNCHANGED <<firewall, saved, policy, unset>> /\ pc'[s] \notin {"set", "forget"}
    BY <1>2, AfterTaskTyped
       DEF TestState, RemoveRules, RemoveTask, Goto, machineVars, Local, ApartInv, TypeInv, TypeOK
  <2> QED
    BY <1>1, <2>1 DEF ApartInv, Restores, PolicyIsKept
<1>3. CASE ReadState(s)
  <2>1. CASE saved # None /\ policy' = [policy EXCEPT ![s] = saved.policy]
    <3>1. saved.policy = UserPolicy
      BY <2>1 DEF ApartInv, PolicyIsKept
    <3>2. /\ policy'[s] = UserPolicy /\ unset'[s] = Profiles /\ pc'[s] = "set"
          /\ UNCHANGED <<firewall, saved>>
          /\ \A t \in Scripts : t # s => policy'[t] = policy[t] /\ unset'[t] = unset[t]
      BY <1>3, <2>1, <3>1 DEF ReadState, Goto, Throw, machineVars, ApartInv, TypeInv, TypeOK
    <3> QED
      BY <1>1, <3>2 DEF ApartInv, Restores, PolicyIsKept
  <2>2. CASE Throw(s) /\ UNCHANGED <<policy, unset>>
    <3>1. UNCHANGED <<firewall, saved, policy, unset>> /\ pc'[s] \notin {"set", "forget"}
      BY <1>3, <2>2 DEF ReadState, Throw, InTry, Goto, At, machineVars, ApartInv, TypeInv, TypeOK
    <3> QED
      BY <1>1, <3>1 DEF ApartInv, Restores, PolicyIsKept
  <2> QED
    BY <1>3, <2>1, <2>2 DEF ReadState
<1>4. CASE SetProfile(s)
  <2>1. PICK p \in unset[s] :
           /\ firewall' = [firewall EXCEPT ![p] = policy[s][p]]
           /\ unset' = [unset EXCEPT ![s] = @ \ {p}]
           /\ Goto(s, IF unset[s] = {p} THEN "forget" ELSE "set")
    BY <1>4 DEF SetProfile
  <2>2. /\ pc[s] = "set" /\ policy[s] = UserPolicy /\ p \in Profiles /\ UNCHANGED <<policy, saved>>
        /\ firewall \in Policies
    BY <1>4, <2>1 DEF SetProfile, At, ApartInv, TypeInv, TypeOK, Restores
  <2>3. firewall' = [firewall EXCEPT ![p] = UserPolicy[p]]
    BY <2>1, <2>2
  <2>4. \A q \in Profiles : firewall'[q] = IF q = p THEN UserPolicy[q] ELSE firewall[q]
    BY <2>2, <2>3 DEF Policies
  <2>5. unset'[s] = unset[s] \ {p} /\ \A t \in Scripts : t # s => unset'[t] = unset[t]
    BY <2>1 DEF ApartInv, TypeInv, TypeOK
  <2>6. pc'[s] = "forget" => unset[s] = {p}
    BY <2>1 DEF Goto, ApartInv, TypeInv, TypeOK
  <2>7. Restores'
    <3>1. ASSUME NEW t \in Scripts, pc'[t] \in {"set", "forget"}
          PROVE  policy[t] = UserPolicy /\ \A q \in Profiles : q \in unset'[t] \/ firewall'[q] = UserPolicy[q]
      <4>1. pc[t] \in {"set", "forget"}
        BY <1>1, <2>2, <3>1
      <4>2. policy[t] = UserPolicy /\ \A q \in Profiles : q \in unset[t] \/ firewall[q] = UserPolicy[q]
        BY <4>1 DEF ApartInv, Restores
      <4> QED
        BY <2>4, <2>5, <4>2
    <3>2. ASSUME NEW t \in Scripts, pc'[t] = "forget"
          PROVE  unset'[t] = {}
      <4>1. CASE t = s
        BY <2>5, <2>6, <3>2, <4>1
      <4>2. CASE t # s
        BY <1>1, <2>5, <3>2, <4>2 DEF ApartInv, Restores
      <4> QED
        BY <4>1, <4>2
    <3> QED
      BY <2>2, <3>1, <3>2 DEF Restores
  <2>8. firewall' # UserPolicy => firewall # UserPolicy
    BY <2>2, <2>3, UserPolicyAssumption DEF Policies
  <2> QED
    BY <2>2, <2>7, <2>8 DEF ApartInv, PolicyIsKept
<1>5. CASE RemoveState(s)
  <2>1. UNCHANGED <<firewall, policy, unset>> /\ pc'[s] \notin {"set", "forget"} /\ pc[s] = "forget"
        /\ saved' \in {saved, None}
    BY <1>5 DEF RemoveState, Throw, InTry, Goto, At, ApartInv, TypeInv, TypeOK
  <2>2. \A p \in Profiles : firewall[p] = UserPolicy[p]
    BY <2>1 DEF ApartInv, Restores
  <2>3. firewall = UserPolicy
    BY <2>2, UserPolicyAssumption DEF Policies, ApartInv, TypeInv, TypeOK
  <2> QED
    BY <1>1, <2>1, <2>3 DEF ApartInv, Restores, PolicyIsKept
<1> QED
  BY <1>2, <1>3, <1>4, <1>5 DEF DisableStep

LEMMA DisableCleans ==
    ASSUME ApartInv, NEW s \in Scripts, DisableStep(s)
    PROVE  Cleans'
<1>1. \A t \in Scripts : t # s => pc'[t] = pc[t]
  BY DisableMoves DEF ApartInv
<1>2. CASE TestState(s) \/ ReadState(s) \/ SetProfile(s)
  <2>1. UNCHANGED <<rules, saved, task, left>> /\ pc[s] \notin {"unrule", "untask"}
    BY <1>2 DEF TestState, ReadState, SetProfile, At, machineVars
  <2> QED
    BY <1>1, <2>1 DEF ApartInv, Cleans
<1>3. CASE RemoveState(s)
  <2>1. /\ UNCHANGED <<rules, task, left>> /\ pc[s] = "forget"
        /\ saved' = saved \/ pc'[s] = "unrule"
    BY <1>3 DEF RemoveState, Goto, At, ApartInv, TypeInv, TypeOK
  <2> QED
    BY <1>1, <2>1 DEF ApartInv, Cleans
<1>4. CASE RemoveRules(s)
  <2>1. UNCHANGED <<saved, task>> /\ ~rules' /\ pc'[s] = "untask" /\ left' = left \ {"rules"}
    BY <1>4 DEF RemoveRules, Goto, ApartInv, TypeInv, TypeOK
  <2> QED
    BY <1>1, <2>1 DEF ApartInv, Cleans
<1>5. CASE RemoveTask(s)
  <2>1. UNCHANGED <<saved, rules>> /\ ~task' /\ pc[s] = "untask" /\ left' = left \ {"task"}
    BY <1>5 DEF RemoveTask, At
  <2> QED
    BY <1>1, <2>1 DEF ApartInv, Cleans
<1> QED
  BY <1>2, <1>3, <1>4, <1>5 DEF DisableStep

LEMMA DisableEnables ==
    ASSUME ApartInv, NEW s \in Scripts, DisableStep(s)
    PROVE  Enables' /\ Protects'
<1> USE ScriptsTyped, ScriptsDistinct
<1>1. /\ UNCHANGED capture /\ Pending(s) /\ pc[s] # "check" /\ job'[s] = job[s]
      /\ \A t \in Scripts : t # s => pc'[t] = pc[t] /\ job'[t] = job[t]
  BY DisableMoves, DisablePends DEF ApartInv, DisableLabels
<1>2. ASSUME NEW c \in Captures
      PROVE  HasDone(c, pc[Helper(c)])'
  <2>1. CASE s = Helper(c)
    <3>1. pc'[s] \in DisableLabels \cup {"snapshot", "ok", "failed"} /\ job'[s] = job[s]
      BY DisableMoves DEF ApartInv
    <3>2. ASSUME pc'[s] = "snapshot" \/ (job[s] = "enable" /\ pc'[s] \in {"unrule", "untask"})
          PROVE  saved' = None
      <4>1. CASE TestState(s) \/ RemoveState(s)
        BY <3>2, <4>1 DEF TestState, RemoveState, Goto, Throw, InTry, At, machineVars, ApartInv, TypeInv, TypeOK
      <4>2. CASE ReadState(s) \/ SetProfile(s)
        BY <3>2, <4>2 DEF ReadState, SetProfile, Goto, Throw, InTry, At, ApartInv, TypeInv, TypeOK
      <4>3. CASE RemoveRules(s) \/ RemoveTask(s)
        <5>1. UNCHANGED saved /\ pc[s] \in {"unrule", "untask"} /\ job[s] = "enable"
          <6>1. pc'[s] = "snapshot" => job[s] = "enable"
            BY DisableMoves DEF ApartInv
          <6> QED
            BY <3>2, <4>3, <6>1 DEF RemoveRules, RemoveTask, At
        <5> QED
          BY <2>1, <5>1 DEF ApartInv, Enables, HasDone
      <4> QED
        BY <4>1, <4>2, <4>3 DEF DisableStep
    <3> QED
      BY <2>1, <3>1, <3>2 DEF HasDone, DisableLabels
  <2>2. CASE s # Helper(c)
    <3>1. pc[Helper(c)] \notin EnableLabels
      BY <1>1, <2>2, HelperWorksAlone
    <3>2. ~(job[Helper(c)] = "enable" /\ pc[Helper(c)] \in {"unrule", "untask"})
      BY <1>1, <2>2, HelperWorksAlone DEF Working, Ended
    <3> QED
      BY <1>1, <2>2, <3>1, <3>2 DEF HasDone, EnableLabels
  <2> QED
    BY <2>1, <2>2
<1>3. ASSUME NEW c \in Captures, Protected(c)'
      PROVE  Isolated(c)'
  <2>1. ~Protected(c)
    BY <1>1, NoneWorksBeside
  <2>2. capture[c] = "enabling" /\ s = Helper(c) /\ pc'[s] = "ok"
    BY <1>1, <1>3, <2>1 DEF Protected
  <2>3. job[s] = "disable"
    BY <2>2, AfterTaskTyped
       DEF DisableStep, TestState, ReadState, SetProfile, RemoveState, RemoveRules, RemoveTask, Goto, Throw,
           ApartInv, TypeInv, TypeOK
  <2> QED
    BY <2>2, <2>3 DEF ApartInv, Lives
<1> QED
  BY <1>2, <1>3 DEF Enables, Protects

\* All that is kept but Alone.
Kept == Restores /\ Enables /\ Protects /\ Cleans /\ PolicyIsKept

\* A script that ends before it has removed rules or task has left them.
LEMMA LeftBehind ==
    ASSUME Cleans, UNCHANGED <<rules, saved, task>>, left \subseteq left',
           \A t \in Scripts : pc[t] \in {"unrule", "untask"} => pc'[t] = pc[t] \/ Unremoved(t) \subseteq left'
    PROVE  Cleans'
<1>1. ASSUME saved = None, rules
      PROVE  "rules" \in left' \/ \E t \in Scripts : pc'[t] = "unrule"
  <2>1. SUFFICES ASSUME NEW t \in Scripts, pc[t] = "unrule", pc'[t] # pc[t]
                 PROVE  "rules" \in left'
    BY <1>1 DEF Cleans
  <2> QED
    BY <1>1, <2>1 DEF Unremoved, Present
<1>2. ASSUME saved = None, task
      PROVE  "task" \in left' \/ \E t \in Scripts : pc'[t] \in {"unrule", "untask"}
  <2>1. SUFFICES ASSUME NEW t \in Scripts, pc[t] \in {"unrule", "untask"}, pc'[t] # pc[t]
                 PROVE  "task" \in left'
    BY <1>2 DEF Cleans
  <2> QED
    BY <1>2, <2>1 DEF Unremoved, Present
<1> QED
  BY <1>1, <1>2 DEF Cleans

LEMMA FailureKeeps ==
    ASSUME ApartInv, NEW s \in Scripts, CommandFails(s)
    PROVE  Kept'
<1> USE ScriptsTyped, ScriptsDistinct
<1>1. /\ UNCHANGED <<firewall, rules, saved, task, policy, unset, capture>>
      /\ \A t \in Scripts : t # s => pc'[t] = pc[t] /\ job'[t] = job[t]
      /\ Working(s) /\ left' = left \cup Unremoved(s)
      /\ pc'[s] \in {"read", "unrule", "failed"}
      /\ pc'[s] # "failed" => job'[s] = "undo"
  BY FailureMoves DEF ApartInv
<1>2. Restores'
  BY <1>1 DEF ApartInv, Restores
<1>3. Enables'
  BY <1>1 DEF ApartInv, Enables, HasDone
<1>4. ASSUME NEW c \in Captures, Protected(c)'
      PROVE  Isolated(c)'
  <2>1. Protected(c) /\ Isolated(c)
    BY <1>1, <1>4 DEF Protected, ApartInv, Protects
  <2>2. Watchdog(c) # s
    BY <1>1, <2>1 DEF Isolated, Working
  <2> QED
    BY <1>1, <2>1, <2>2 DEF Isolated, Mine
<1>5. Cleans' /\ PolicyIsKept'
  BY <1>1, LeftBehind DEF ApartInv, PolicyIsKept
<1> QED
  BY <1>2, <1>3, <1>4, <1>5 DEF Kept, Protects

LEMMA UnseenKeeps ==
    ASSUME ApartInv, NEW s \in Scripts, RemovalFailsUnseen(s)
    PROVE  Kept'
<1> USE ScriptsTyped, ScriptsDistinct
<1>1. /\ UNCHANGED <<firewall, rules, saved, task, policy, unset, capture, job>>
      /\ \A t \in Scripts : t # s => pc'[t] = pc[t]
      /\ left \subseteq left'
      /\ \/ pc[s] = "clear" /\ pc'[s] = "allow"
         \/ pc[s] = "unrule" /\ pc'[s] = "untask" /\ (rules => "rules" \in left')
         \/ /\ pc[s] = "untask" /\ pc'[s] \in {"snapshot", "failed", "ok"}
            /\ task => "task" \in left'
      /\ pc'[s] = "snapshot" => job[s] = "enable"
      /\ pc'[s] = "ok" => job[s] = "disable"
  BY UnseenMoves DEF ApartInv, machineVars, Local
<1>2. Restores'
  BY <1>1 DEF ApartInv, Restores
<1>3. ASSUME NEW c \in Captures
      PROVE  HasDone(c, pc[Helper(c)])'
  <2>1. HasDone(c, pc[Helper(c)])
    BY DEF ApartInv, Enables
  <2> QED
    BY <1>1, <2>1 DEF HasDone, Mine
<1>4. ASSUME NEW c \in Captures, Protected(c)'
      PROVE  Isolated(c)'
  <2>1. pc[s] # "check" /\ Pending(s)
    BY <1>1, DisablePends DEF ApartInv
  <2>2. ~Protected(c)
    BY <2>1, NoneWorksBeside
  <2>3. capture[c] = "enabling" /\ s = Helper(c) /\ pc'[s] = "ok"
    BY <1>1, <1>4, <2>2 DEF Protected
  <2> QED
    BY <1>1, <2>3 DEF ApartInv, Lives
<1>5. Cleans'
  <2>1. Cleans
    BY DEF ApartInv
  <2>2. CASE pc[s] = "clear"
    BY <1>1, <2>1, <2>2, LeftBehind
  <2>3. CASE pc[s] = "unrule"
    BY <1>1, <2>1, <2>3 DEF Cleans
  <2>4. CASE pc[s] = "untask"
    BY <1>1, <2>1, <2>4 DEF Cleans
  <2> QED
    BY <1>1, <2>2, <2>3, <2>4
<1> QED
  BY <1>1, <1>2, <1>3, <1>4, <1>5 DEF Kept, Enables, Protects, ApartInv, PolicyIsKept

\* The helper itself: each command finds what the one before it has left.
LEMMA EnableOwn ==
    ASSUME ApartInv, NEW c \in Captures, EnableStep(c)
    PROVE  /\ HasDone(c, pc[Helper(c)])'
           /\ pc'[Helper(c)] = "ok" => Isolated(c)'
           /\ PolicyIsKept' /\ Cleans'
<1> USE ScriptsTyped, ScriptsDistinct, MineSaved
<1>1. /\ HasDone(c, pc[Helper(c)]) /\ PolicyIsKept /\ Cleans
      /\ pc[Helper(c)] # "clear" => UNCHANGED left
      /\ pc[Helper(c)] \in EnableLabels
      /\ \A t \in Scripts : t # Helper(c) /\ pc'[t] # pc[t] => pc[t] \notin {"unrule", "untask"}
  <2>1. HasDone(c, pc[Helper(c)]) /\ PolicyIsKept /\ Cleans
    BY DEF ApartInv, Enables
  <2>2. /\ pc[Helper(c)] # "clear" => UNCHANGED left
        /\ pc[Helper(c)] \in EnableLabels
        /\ \A t \in Scripts : t # Helper(c) => pc'[t] = pc[t] \/ pc[t] = "failed" \/ pc[Helper(c)] = "watch"
    BY EnableMoves DEF ApartInv
  <2>3. pc[Helper(c)] = "watch" => pc[Watchdog(c)] = "off"
    BY <2>2 DEF ApartInv, Lives, EnableLabels
  <2>4. \A t \in Scripts : t # Helper(c) =>
           pc'[t] = pc[t] \/ pc[t] = "failed" \/ (t = Watchdog(c) /\ pc[Helper(c)] = "watch")
    BY EnableMoves DEF ApartInv
  <2> QED
    BY <2>1, <2>2, <2>3, <2>4
<1>2. job[Helper(c)] = "enable"
  BY <1>1 DEF ApartInv, Lives
<1>3. CASE CheckOwner(c)
  BY <1>1, <1>3 DEF CheckOwner, At, Goto, machineVars, Local, HasDone, PolicyIsKept, Cleans,
                    ApartInv, TypeInv, TypeOK
<1>4. CASE ReadProfiles(c)
  <2>1. saved = None /\ firewall = UserPolicy
    BY <1>1, <1>4 DEF ReadProfiles, At, HasDone, PolicyIsKept
  <2> QED
    BY <1>1, <1>4, <2>1 DEF ReadProfiles, At, Goto, machineVars, HasDone, PolicyIsKept, Cleans,
                            ApartInv, TypeInv, TypeOK
<1>5. CASE SaveState(c)
  <2>1. saved' = Mine(c)
    BY <1>1, <1>5 DEF SaveState, At, HasDone, Mine
  <2>2. pc'[Helper(c)] = "clear"
    BY <1>5 DEF SaveState, Goto, ApartInv, TypeInv, TypeOK
  <2> QED
    BY <2>1, <2>2 DEF HasDone, PolicyIsKept, Cleans, Mine
<1>6. CASE ClearRules(c) \/ AllowBrowser(c) \/ BlockOutbound(c)
  <2>1. saved = Mine(c) /\ UNCHANGED <<saved, task>>
    BY <1>1, <1>6 DEF ClearRules, AllowBrowser, BlockOutbound, At, HasDone
  <2>2. HasDone(c, pc[Helper(c)])' /\ pc'[Helper(c)] # "ok"
    BY <1>1, <1>6, <2>1 DEF ClearRules, AllowBrowser, BlockOutbound, At, Goto, HasDone, Mine,
                            ApartInv, TypeInv, TypeOK
  <2> QED
    BY <1>1, <2>1, <2>2 DEF PolicyIsKept, Cleans
<1>7. CASE InstallTask(c)
  <2>1. /\ saved = Mine(c) /\ firewall = Blocked /\ rules /\ task'
        /\ UNCHANGED <<saved, firewall, rules>> /\ pc'[Helper(c)] = "watch"
    BY <1>1, <1>7 DEF InstallTask, At, HasDone, ApartInv, TypeInv, TypeOK
  <2> QED
    BY <1>1, <2>1 DEF HasDone, PolicyIsKept, Cleans, Mine
<1>8. CASE StartWatchdog(c)
  <2>1. /\ saved = Mine(c) /\ firewall = Blocked /\ rules /\ task
        /\ UNCHANGED <<saved, firewall, rules, task>>
        /\ pc'[Helper(c)] = "ok" /\ pc'[Watchdog(c)] = "waiting"
    BY <1>1, <1>8 DEF StartWatchdog, machineVars, At, HasDone, ApartInv, TypeInv, TypeOK
  <2> QED
    BY <1>1, <2>1 DEF HasDone, Isolated, PolicyIsKept, Cleans, Mine
<1> QED
  BY <1>3, <1>4, <1>5, <1>6, <1>7, <1>8 DEF EnableStep

LEMMA EnableKeeps ==
    ASSUME ApartInv, NEW c \in Captures, EnableStep(c)
    PROVE  Kept'
<1> USE ScriptsTyped, ScriptsDistinct
<1>1. /\ UNCHANGED <<capture, job, unset>> /\ pc[Helper(c)] \in EnableLabels
      /\ pc'[Helper(c)] \in EnableLabels \cup {"test", "ok", "failed"}
      /\ \A t \in Scripts : t # Helper(c) => pc'[t] \in {pc[t], "off", "waiting"}
      /\ \A d \in Captures : d # c => pc'[Helper(d)] = pc[Helper(d)] /\ pc'[Watchdog(d)] = pc[Watchdog(d)]
  BY EnableMoves DEF ApartInv
<1>2. \A t \in Scripts : pc[t] \in {"set", "forget"} => Pending(t) /\ t # Helper(c)
  BY <1>1 DEF Pending, Working, Ended, EnableLabels
<1>3. \A t \in Scripts : pc'[t] \notin {"set", "forget"}
  BY <1>1, <1>2, HelperWorksAlone DEF EnableLabels
<1>4. ASSUME NEW d \in Captures
      PROVE  HasDone(d, pc[Helper(d)])'
  <2>1. CASE d # c
    <3>1. ~Working(Helper(d))
      BY <1>1, <2>1, HelperWorksAlone DEF Pending
    <3> QED
      BY <1>1, <2>1, <3>1 DEF HasDone, Working, Ended
  <2> QED
    BY <2>1, EnableOwn
<1>5. ASSUME NEW d \in Captures, Protected(d)'
      PROVE  Isolated(d)'
  <2>1. CASE d = c
    <3>1. capture[c] # "capturing"
      BY <1>1 DEF ApartInv, Lives, EnableLabels
    <3> QED
      BY <1>1, <1>5, <2>1, <3>1, EnableOwn DEF Protected
  <2>2. CASE d # c
    <3>1. Protected(d) /\ Isolated(d)
      BY <1>1, <1>5, <2>2 DEF Protected, ApartInv, Protects
    <3>2. pc[Helper(c)] = "check"
      BY <3>1, EnablePends, NoneWorksBeside DEF ApartInv
    <3>3. CheckOwner(c)
      BY <3>2 DEF EnableStep, ReadProfiles, SaveState, ClearRules, AllowBrowser, BlockOutbound, InstallTask,
                  StartWatchdog, At
    <3> QED
      BY <1>1, <2>2, <3>1, <3>3 DEF CheckOwner, machineVars, Isolated, Mine
  <2> QED
    BY <2>1, <2>2
<1> QED
  BY <1>3, <1>4, <1>5, EnableOwn DEF Kept, Restores, Enables, Protects

\* A step that leaves the firewall, its rules, the file and the task alone, and
\* moves no script into, or out of, the labels that what is kept speaks of.
LEMMA QuietKeeps ==
    ASSUME ApartInv, UNCHANGED <<firewall, rules, saved, task>>, left \subseteq left',
           \A t \in Scripts :
              (policy'[t] = policy[t] /\ unset'[t] = unset[t]) \/ pc'[t] = "off",
           \A t \in Scripts :
              (pc'[t] = pc[t] /\ job'[t] = job[t]) \/ pc'[t] \in {"off", "check", "test", "inspect", "ok"},
           \A t \in Scripts : pc[t] \in {"unrule", "untask"} =>
              pc'[t] = pc[t] \/ Unremoved(t) \subseteq left',
           \A c \in Captures : Protected(c)' => Protected(c) /\ pc'[Watchdog(c)] = pc[Watchdog(c)]
    PROVE  Kept'
<1> USE ScriptsTyped
<1>1. Restores' /\ Enables'
  BY DEF ApartInv, Restores, Enables, HasDone, Mine
<1>2. Protects'
  BY DEF ApartInv, Protects, Isolated, Mine
<1>3. Cleans' /\ PolicyIsKept'
  BY LeftBehind DEF ApartInv, PolicyIsKept
<1> QED
  BY <1>1, <1>2, <1>3 DEF Kept

LEMMA WatchdogKeeps ==
    ASSUME ApartInv, NEW c \in Captures, WatchdogStep(c)
    PROVE  Kept'
<1> USE ScriptsTyped, ScriptsDistinct
<1>1. /\ UNCHANGED <<machineVars, capture, job, policy, unset, left>>
      /\ \A t \in Scripts : t # Watchdog(c) => pc'[t] = pc[t]
      /\ \/ pc[Watchdog(c)] = "waiting" /\ ~Live(c) /\ pc'[Watchdog(c)] = "inspect"
         \/ pc[Watchdog(c)] = "inspect" /\ pc'[Watchdog(c)] \in {"test", "ok"}
  BY WatchdogMoves DEF ApartInv, Local
<1>2. ASSUME NEW d \in Captures, Protected(d)'
      PROVE  Protected(d) /\ pc'[Watchdog(d)] = pc[Watchdog(d)]
  <2>1. Protected(d)
    BY <1>1, <1>2 DEF Protected
  <2>2. Live(d) /\ pc[Watchdog(d)] = "waiting"
    BY <2>1 DEF Protected, Live, ApartInv, Protects, Isolated
  <2> QED
    BY <1>1, <2>1, <2>2
<1> QED
  BY <1>1, <1>2, QuietKeeps DEF machineVars

LEMMA CaptureKeeps ==
    ASSUME ApartInv, NEW c \in Captures,
           StartCapture(c) \/ CaptureStep(c) \/ KillCapture(c) \/ CloseTerminal(c)
    PROVE  Kept'
<1> USE ScriptsTyped, ScriptsDistinct
<1>1. CASE StartCapture(c) \/ EndCapture(c)
  <2>1. /\ UNCHANGED <<machineVars, policy, unset, left>>
        /\ pc[Helper(c)] \in {"off", "ok"} /\ pc'[Helper(c)] \in {"check", "test"}
        /\ \A t \in Scripts : t # Helper(c) => pc'[t] = pc[t] /\ job'[t] = job[t]
        /\ capture'[c] \in {"enabling", "disabling"} /\ \A d \in Captures \ {c} : capture'[d] = capture[d]
    BY <1>1 DEF StartCapture, EndCapture, Launch, Goto, ApartInv, Lives, TypeInv, TypeOK
  <2> QED
    BY <2>1, QuietKeeps DEF machineVars, Protected
<1>2. CASE EnableReturns(c) \/ DisableReturns(c) \/ KillCapture(c)
  <2>1. /\ UNCHANGED <<machineVars, scriptVars, left>>
        /\ \A d \in Captures : Protected(d)' => Protected(d)
    BY <1>2 DEF EnableReturns, DisableReturns, KillCapture, scriptVars, Protected, ApartInv, TypeInv, TypeOK
  <2> QED
    BY <2>1, QuietKeeps DEF machineVars, scriptVars
<1>3. CASE CloseTerminal(c)
  <2>1. /\ UNCHANGED <<machineVars, job, policy, unset>> /\ pc'[Helper(c)] = "off"
        /\ left' = left \cup Unremoved(Helper(c))
        /\ \A t \in Scripts : t # Helper(c) => pc'[t] = pc[t]
        /\ capture'[c] = "exited" /\ \A d \in Captures \ {c} : capture'[d] = capture[d]
    BY <1>3 DEF CloseTerminal, Goto, Local, ApartInv, TypeInv, TypeOK
  <2> QED
    BY <2>1, QuietKeeps DEF machineVars, Protected
<1> QED
  BY <1>1, <1>2, <1>3 DEF CaptureStep

LEMMA MachineKeeps ==
    ASSUME ApartInv, RecoverByHand \/ PowerLoss \/ Boot \/ RestartTask \/ UNCHANGED vars
    PROVE  Kept'
<1> USE ScriptsTyped, ScriptsDistinct
<1>1. CASE RecoverByHand \/ RestartTask
  <2>1. /\ UNCHANGED <<machineVars, capture, policy, unset, left>>
        /\ \E s \in {Manual, Startup} :
              /\ pc[s] \in Ended /\ pc'[s] = "test"
              /\ \A t \in Scripts \ {s} : pc'[t] = pc[t] /\ job'[t] = job[t]
    BY <1>1 DEF RecoverByHand, RestartTask, Launch, Goto, Ended, ApartInv, TypeInv, TypeOK
  <2> QED
    BY <2>1, QuietKeeps DEF machineVars, Protected, Ended
<1>2. CASE PowerLoss
  <2>1. /\ UNCHANGED <<firewall, rules, saved, task>>
        /\ left \subseteq left' /\ \A t \in Scripts : Unremoved(t) \subseteq left'
        /\ \A t \in Scripts : pc'[t] = "off"
        /\ \A c \in Captures : ~Live(c)'
    BY <1>2 DEF PowerLoss, Local, Live
  <2> QED
    BY <2>1, QuietKeeps DEF Protected, Live
<1>3. CASE Boot
  <2>1. (\A s \in Scripts : pc[s] = "off") /\ \A c \in Captures : ~Live(c)
    BY <1>3 DEF Boot, ApartInv, Lives
  <2>2. /\ UNCHANGED <<firewall, rules, saved, task, capture, policy, unset, left>>
        /\ \A t \in Scripts \ {Startup} : pc'[t] = pc[t] /\ job'[t] = job[t]
        /\ pc'[Startup] \in {"off", "test"}
    BY <1>3, <2>1 DEF Boot, Launch, Goto, scriptVars, ApartInv, TypeInv, TypeOK
  <2> QED
    BY <2>1, <2>2, QuietKeeps DEF Protected, Live
<1>4. CASE UNCHANGED vars
  <2>1. UNCHANGED <<firewall, rules, saved, task, capture, pc, job, policy, unset, left>>
    BY <1>4 DEF vars, machineVars, scriptVars
  <2> QED
    BY <2>1, QuietKeeps DEF Protected
<1> QED
  BY <1>1, <1>2, <1>3, <1>4

LEMMA ApartStep ==
    ASSUME ~Overlap, ApartInv, [Next]_vars
    PROVE  ApartInv'
<1>1. TypeInv' /\ Lives'
  BY TypeStep, LivesStep DEF ApartInv
<1>2. CASE RunScripts \/ \E s \in Scripts : CommandFails(s) \/ RemovalFailsUnseen(s)
  <2>1. Alone'
    BY <1>2, ScriptAlone
  <2>2. Kept'
    BY <1>2, DisableRestores, DisableCleans, DisableEnables, FailureKeeps, UnseenKeeps, EnableKeeps, WatchdogKeeps
       DEF RunScripts, Kept
  <2> QED
    BY <1>1, <2>1, <2>2 DEF ApartInv, Kept
<1>3. CASE \E c \in Captures : StartCapture(c) \/ CaptureStep(c) \/ KillCapture(c) \/ CloseTerminal(c)
  BY <1>1, <1>3, CaptureAlone, CaptureKeeps DEF ApartInv, Kept
<1>4. CASE RecoverByHand \/ PowerLoss \/ Boot \/ RestartTask \/ UNCHANGED vars
  BY <1>1, <1>4, MachineAlone, MachineKeeps DEF ApartInv, Kept
<1> QED
  BY <1>2, <1>3, <1>4 DEF Next, Mishaps

LEMMA ApartInitially == Init => ApartInv
<1> SUFFICES ASSUME Init PROVE ApartInv
  OBVIOUS
<1> USE ScriptsTyped, ScriptsDistinct
<1>1. TypeInv
  BY TypeInitially
<1>2. /\ \A s \in Scripts : pc[s] = "off" /\ job[s] = "disable"
      /\ \A c \in Captures : capture[c] = "new"
      /\ powered /\ firewall = UserPolicy /\ ~rules /\ saved = None /\ ~task
  BY DEF Init
<1>3. Lives
  BY <1>2 DEF Lives, EnableLabels
<1>4. \A s \in Scripts : ~Pending(s)
  BY <1>2 DEF Pending, Working, Ended
<1>5. Alone
  BY <1>2, <1>4 DEF Alone, Live
<1>6. Restores /\ Enables /\ Protects
  BY <1>2 DEF Restores, Enables, HasDone, Protects, Protected
<1>7. Cleans /\ PolicyIsKept
  BY <1>2 DEF Cleans, PolicyIsKept
<1> QED
  BY <1>1, <1>3, <1>5, <1>6, <1>7 DEF ApartInv

-----------------------------------------------------------------------------
(* Theorems *)

\* The inductive invariant of captures that do not overlap: which processes live,
\* whose state file it is, and what each script at its step may rely on.
THEOREM ApartInvariant ==
    ASSUME ~Overlap
    PROVE  Spec => []ApartInv
<1>1. Init => ApartInv
  BY ApartInitially
<1>2. ApartInv /\ [Next]_vars => ApartInv'
  BY ApartStep
<1> QED
  BY <1>1, <1>2, PTL DEF Spec

\* When captures do not overlap, the user's policy can always be put back, whatever
\* command of isolate.ps1 fails, whatever process is killed and whenever the
\* machine loses power.
THEOREM PolicyStaysKept ==
    ASSUME ~Overlap
    PROVE  Spec => []PolicyIsKept
<1>1. ApartInv => PolicyIsKept
  BY DEF ApartInv
<1> QED
  BY <1>1, ApartInvariant, PTL

\* When captures do not overlap, a capture under isolation has the firewall
\* blocked and the three layers of recovery of isolate.ps1 in place.
THEOREM CapturesStayIsolated ==
    ASSUME ~Overlap
    PROVE  Spec => []IsolationProtected
<1>1. ApartInv => IsolationProtected
  BY DEF ApartInv, Protects, Protected, Isolated, IsolationProtected, Mine
<1> QED
  BY <1>1, ApartInvariant, PTL

\* When captures do not overlap and nothing runs any more, the policy is the
\* user's unless a state file still keeps it, and the only rules or task of the lab
\* that no state file stands for are those whose very last removal failed, seen or
\* unseen, or was cut off (isolate.ps1:96-109): whatever failed or was killed
\* before, a later removal that works leaves nothing.
THEOREM NothingStaysBehind ==
    ASSUME ~Overlap
    PROVE  Spec => []CleanWhenIdle
<1>1. ApartInv => CleanWhenIdle
  <2>1. SUFFICES ASSUME ApartInv, saved = None, \A s \in Scripts : ~Pending(s)
                 PROVE  firewall = UserPolicy /\ (rules => "rules" \in left) /\ (task => "task" \in left)
    BY DEF CleanWhenIdle
  <2>2. \A s \in Scripts : pc[s] \notin {"unrule", "untask"}
    BY <2>1 DEF Pending, Working, Ended
  <2> QED
    BY <2>1, <2>2 DEF ApartInv, Cleans, PolicyIsKept
<1> QED
  BY <1>1, ApartInvariant, PTL

=============================================================================
