--------------------------- MODULE EndpointsProofs ---------------------------
(***************************************************************************)
(* What the commands of one endpoint leave behind, for any number of       *)
(* shells, cases and images: what each has at each step, what overlapping  *)
(* starts or stops agree on, that a lone command succeeds, and which       *)
(* containers a stop always stops.                                         *)
(***************************************************************************)
EXTENDS Endpoints, TLAPS

-----------------------------------------------------------------------------
(* The type invariant *)

Command == [op: {"render", "start", "stop", None}, pc: Steps, outcome: {"ok", "error", None},
            hash: Contents \cup {None}, image: Images \cup {None}]

RenderSteps == {"open server", "write server", "open client", "write client"}
StopSteps == {"inspect", "stop", "remove"}
StartSteps == {"validate", "hash", "inspect", "label", "image", "identify", "look again", "stop",
               "remove", "run"}

\* A shell is idle, or at a step of its command with what it needs for the rest.
Underway(s) ==
    \/ shell[s].pc = "done"
    \/ shell[s].op = "render" /\ shell[s].pc \in RenderSteps /\ shell[s].hash \in Cases
    \/ shell[s].op = "stop" /\ shell[s].pc \in StopSteps
    \/ /\ shell[s].op = "start" /\ shell[s].pc \in StartSteps /\ shell[s].image \in Images
       /\ shell[s].pc # "validate" => Doc # None
       /\ shell[s].pc \notin {"validate", "hash"} => shell[s].hash \in Contents

EndpointOK ==
    /\ core \in Cores /\ side \in Sides
    /\ document \in [Sides -> Contents \cup {None}]
    /\ locked \in Images

ContainerOK ==
    /\ container \in Container \cup {None}
    /\ container # None => Doc # None

ShellsOK ==
    /\ shell \in [Shells -> Command]
    /\ \A s \in Shells : Underway(s)

TypeInv == EndpointOK /\ ContainerOK /\ ShellsOK

LEMMA ContentsFacts == None \notin Contents /\ Torn \in Contents /\ Cases \subseteq Contents
  BY CasesAssumption DEF Contents

LEMMA TypeInvMeansTypeOK == TypeInv => TypeOK
  BY DEF TypeInv, EndpointOK, ContainerOK, ShellsOK, TypeOK, Command

LEMMA DocTyped == EndpointOK => Doc \in Contents \cup {None}
  BY DEF EndpointOK, Doc

LEMMA TypeInvInitially == Init => TypeInv
  BY DEF Init, TypeInv, EndpointOK, ContainerOK, ShellsOK, Command, Underway, Idle, Steps

-----------------------------------------------------------------------------
(* What a step does to the shells *)

\* Another shell's command is left alone.
Others(s) == \A t \in Shells \ {s} : shell'[t] = shell[t]

LEMMA GotoDoes ==
    ASSUME ShellsOK, NEW s \in Shells, NEW step \in Steps, Goto(s, step)
    PROVE  /\ shell' \in [Shells -> Command] /\ Others(s)
           /\ shell'[s].pc = step /\ shell'[s].op = shell[s].op
           /\ shell'[s].outcome = shell[s].outcome
           /\ shell'[s].hash = shell[s].hash /\ shell'[s].image = shell[s].image
<1>1. shell[s] \in Command
  BY DEF ShellsOK
<1>2. [shell[s] EXCEPT !.pc = step] \in Command
  BY <1>1 DEF Command
<1> QED
  BY <1>1, <1>2 DEF ShellsOK, Goto, Others, Command

LEMMA EndsDoes ==
    ASSUME ShellsOK, NEW s \in Shells, NEW outcome \in {"ok", "error"}, Ends(s, outcome)
    PROVE  /\ shell' \in [Shells -> Command] /\ Others(s)
           /\ shell'[s].pc = "done" /\ shell'[s].op = shell[s].op
           /\ shell'[s].outcome = outcome
<1> DEFINE ended == [shell[s] EXCEPT !.pc = "done", !.outcome = outcome,
                                     !.hash = None, !.image = None]
<1>1. shell[s] \in Command
  BY DEF ShellsOK
<1>2. /\ ended \in Command /\ ended.pc = "done" /\ ended.op = shell[s].op
      /\ ended.outcome = outcome
  BY <1>1 DEF Command, Steps
<1>3. shell' = [shell EXCEPT ![s] = ended]
  BY <1>1 DEF Ends, ShellsOK
<1> QED
  BY <1>2, <1>3 DEF ShellsOK, Others

LEMMA BeginDoes ==
    ASSUME ShellsOK, NEW s \in Shells, NEW op \in {"render", "start", "stop"}, NEW first \in Steps,
           NEW hash \in Contents \cup {None}, NEW image \in Images \cup {None},
           Begin(s, op, first, hash, image)
    PROVE  /\ shell' \in [Shells -> Command]
           /\ shell'[s] = [op |-> op, pc |-> first, outcome |-> None, hash |-> hash,
                           image |-> image]
           /\ \A t \in Shells \ {s} : shell'[t] = IF Quiet THEN Idle ELSE shell[t]
<1>1. /\ Idle \in Command
      /\ [op |-> op, pc |-> first, outcome |-> None, hash |-> hash, image |-> image] \in Command
  BY DEF Command, Idle, Steps
<1> QED
  BY <1>1 DEF ShellsOK, Begin

-----------------------------------------------------------------------------
(* The type invariant step by step *)

\* The other shells' steps stay as well founded, because a document never goes.
LEMMA OthersStayUnderway ==
    ASSUME TypeInv, NEW s \in Shells, shell' \in [Shells -> Command], Others(s),
           Doc # None => Doc' # None, Underway(s)'
    PROVE  ShellsOK'
<1>1. ASSUME NEW t \in Shells
      PROVE  Underway(t)'
  <2>1. CASE t = s
    BY <2>1
  <2>2. CASE t # s
    BY <2>2 DEF TypeInv, ShellsOK, Underway, Others
  <2> QED
    BY <2>1, <2>2
<1> QED
  BY <1>1 DEF ShellsOK

\* A step of one shell that touches neither documents nor the container.
LEMMA ShellStep ==
    ASSUME TypeInv, NEW s \in Shells, shell' \in [Shells -> Command], Others(s), Underway(s)',
           UNCHANGED <<endpoint, document, locked, container>>
    PROVE  TypeInv'
<1>1. Doc' = Doc
  BY DEF Doc, endpoint
<1>2. EndpointOK' /\ ContainerOK'
  BY <1>1 DEF TypeInv, EndpointOK, ContainerOK, endpoint
<1> QED
  BY <1>1, <1>2, OthersStayUnderway DEF TypeInv

LEMMA EndingKeepsType ==
    ASSUME TypeInv, NEW s \in Shells, NEW outcome \in {"ok", "error"}, Ends(s, outcome),
           UNCHANGED <<endpoint, document, locked, container>>
    PROVE  TypeInv'
  BY EndsDoes, ShellStep DEF TypeInv, Underway

LEMMA BeginningKeepsType ==
    ASSUME TypeInv, NEW s \in Shells, NEW op \in {"render", "start", "stop"}, NEW first \in Steps,
           NEW hash \in Contents \cup {None}, NEW image \in Images \cup {None},
           Begin(s, op, first, hash, image),
           \/ op = "render" /\ first \in RenderSteps /\ hash \in Cases
           \/ op = "stop" /\ first \in StopSteps
           \/ op = "start" /\ first = "validate" /\ image \in Images,
           UNCHANGED <<endpoint, document, locked, container>>
    PROVE  TypeInv'
<1>1. Doc' = Doc
  BY DEF Doc, endpoint
<1>2. EndpointOK' /\ ContainerOK'
  BY <1>1 DEF TypeInv, EndpointOK, ContainerOK, endpoint
<1>3. /\ shell' \in [Shells -> Command]
      /\ shell'[s] = [op |-> op, pc |-> first, outcome |-> None, hash |-> hash, image |-> image]
      /\ \A t \in Shells \ {s} : shell'[t] = IF Quiet THEN Idle ELSE shell[t]
  BY BeginDoes DEF TypeInv
<1>4. ASSUME NEW t \in Shells
      PROVE  Underway(t)'
  <2>1. CASE t = s
    <3>1. /\ shell'[t].op = op /\ shell'[t].pc = first /\ shell'[t].hash = hash
          /\ shell'[t].image = image
      BY <1>3, <2>1
    <3> QED
      BY <3>1 DEF Underway, StartSteps
  <2>2. CASE t # s /\ Quiet
    BY <1>3, <2>2 DEF Underway, Idle
  <2>3. CASE t # s /\ ~Quiet
    <3>1. shell'[t] = shell[t] /\ Underway(t)
      BY <1>3, <2>3 DEF TypeInv, ShellsOK
    <3> QED
      BY <1>1, <3>1 DEF Underway
  <2> QED
    BY <2>1, <2>2, <2>3
<1> QED
  BY <1>2, <1>3, <1>4 DEF TypeInv, ShellsOK

LEMMA RenderKeepsType ==
    ASSUME TypeInv, NEW s \in Shells, Render(s)
    PROVE  TypeInv'
<1>1. CASE BeginRender(s)
  <2>1. PICK c \in Cases : Begin(s, "render", "open server", c, None)
    BY <1>1 DEF BeginRender
  <2> QED
    BY <1>1, <2>1, BeginningKeepsType, ContentsFacts DEF BeginRender, RenderSteps, Steps
<1>2. CASE RenderRaises(s)
  BY <1>2, EndingKeepsType DEF RenderRaises
<1>3. CASE OpenDocument(s)
  <2>1. PICK x \in Sides :
           /\ Opens(s, x)
           /\ document' = [document EXCEPT ![x] = Torn]
           /\ Goto(s, IF x = "server" THEN "write server" ELSE "write client")
    BY <1>3 DEF OpenDocument
  <2>2. /\ EndpointOK' /\ UNCHANGED <<side, container>>
        /\ Doc # None => Doc' # None
    BY <1>3, <2>1, ContentsFacts, CasesAssumption
       DEF OpenDocument, TypeInv, EndpointOK, endpoint, Doc
  <2>3. shell[s].op = "render" /\ shell[s].hash \in Cases
    BY <2>1 DEF TypeInv, ShellsOK, Underway, Opens, At, Sides, StopSteps, StartSteps
  <2>4. /\ shell' \in [Shells -> Command] /\ Others(s) /\ shell'[s].pc \in RenderSteps
        /\ shell'[s].op = shell[s].op /\ shell'[s].hash = shell[s].hash
    <3>1. CASE x = "server"
      BY <2>1, <3>1, GotoDoes DEF Steps, RenderSteps, TypeInv
    <3>2. CASE x # "server"
      BY <2>1, <3>2, GotoDoes DEF Steps, RenderSteps, TypeInv
    <3> QED
      BY <3>1, <3>2
  <2>5. ShellsOK'
    BY <2>2, <2>3, <2>4, OthersStayUnderway DEF Underway
  <2> QED
    BY <2>2, <2>5 DEF TypeInv, ContainerOK
<1>4. CASE WriteDocument(s)
  <2>1. PICK x \in Sides :
           /\ Writes(s, x)
           /\ document' = [document EXCEPT ![x] = shell[s].hash]
           /\ IF x = "server" THEN Goto(s, "open client") ELSE Ends(s, "ok")
    BY <1>4 DEF WriteDocument
  <2>2. shell[s].op = "render" /\ shell[s].hash \in Cases
    BY <2>1 DEF TypeInv, ShellsOK, Underway, Writes, At, Sides, StopSteps, StartSteps
  <2>3. /\ EndpointOK' /\ UNCHANGED <<side, container>>
        /\ Doc # None => Doc' # None
    BY <1>4, <2>1, <2>2, ContentsFacts, CasesAssumption
       DEF WriteDocument, TypeInv, EndpointOK, endpoint, Doc
  <2>4. shell' \in [Shells -> Command] /\ Others(s) /\ Underway(s)'
    <3>1. CASE x = "server"
      BY <2>1, <2>2, <3>1, GotoDoes DEF Steps, RenderSteps, TypeInv, Underway
    <3>2. CASE x # "server"
      BY <2>1, <3>2, EndsDoes DEF TypeInv, Underway
    <3> QED
      BY <3>1, <3>2
  <2>5. ShellsOK'
    BY <2>3, <2>4, OthersStayUnderway
  <2> QED
    BY <2>3, <2>5 DEF TypeInv, ContainerOK
<1> QED
  BY <1>1, <1>2, <1>3, <1>4 DEF Render

\* A start goes on with its hash and image.
LEMMA StartGoesOn ==
    ASSUME TypeInv, NEW s \in Shells, NEW step \in StartSteps \ {"validate", "hash"},
           Op(s) = "start", shell[s].pc \notin {"done", "validate", "hash"},
           Goto(s, step), UNCHANGED <<endpoint, document, locked, container>>
    PROVE  TypeInv'
<1>1. shell[s].image \in Images /\ Doc # None /\ shell[s].hash \in Contents
  BY DEF TypeInv, ShellsOK, Underway, Op
<1>2. step \in Steps
  BY DEF StartSteps, Steps
<1>3. Doc' = Doc
  BY DEF Doc, endpoint
<1>4. shell' \in [Shells -> Command] /\ Others(s) /\ Underway(s)'
  BY <1>1, <1>2, <1>3, GotoDoes DEF TypeInv, Underway, Op
<1> QED
  BY <1>4, ShellStep

\* The steps that are only steps of a start.
LEMMA AtMeansStart ==
    ASSUME TypeInv, NEW s \in Shells,
           shell[s].pc \in {"validate", "hash", "label", "image", "identify", "look again", "run"}
    PROVE  Op(s) = "start"
  BY DEF TypeInv, ShellsOK, Underway, Op, RenderSteps, StopSteps

\* The container is touched, but not the document.
LEMMA ContainerStep ==
    ASSUME TypeInv, NEW s \in Shells, shell' \in [Shells -> Command], Others(s), Underway(s)',
           container' \in Container \cup {None}, container' # None => Doc # None,
           UNCHANGED <<endpoint, document, locked>>
    PROVE  TypeInv'
<1>1. Doc' = Doc
  BY DEF Doc, endpoint
<1>2. EndpointOK' /\ ContainerOK'
  BY <1>1 DEF TypeInv, EndpointOK, ContainerOK, endpoint
<1> QED
  BY <1>1, <1>2, OthersStayUnderway DEF TypeInv

LEMMA NewContainerTyped ==
    ASSUME TypeInv, NEW s \in Shells, At(s, "run"), NEW status \in {"created", Launched(Doc)}
    PROVE  NewContainer(s, status) \in Container /\ Doc # None
<1>1. shell[s].image \in Images /\ Doc # None /\ shell[s].hash \in Contents
  BY DEF At, TypeInv, ShellsOK, Underway, RenderSteps, StopSteps
<1>2. Doc \in Contents
  BY <1>1, DocTyped DEF TypeInv
<1> QED
  BY <1>1, <1>2 DEF NewContainer, Container, Launched

LEMMA StoppedTyped ==
    ASSUME TypeInv, container # None
    PROVE  Stopped \in Container
  BY DEF TypeInv, ContainerOK, Container, Stopped

LEMMA RunKeepsType ==
    ASSUME TypeInv, NEW s \in Shells, RunContainer(s)
    PROVE  TypeInv'
<1>1. PICK outcome \in {"ok", "error"} : Ends(s, outcome)
  BY DEF RunContainer
<1>2. \/ container' = container
      \/ \E status \in {"created", Launched(Doc)} : container' = NewContainer(s, status)
  BY DEF RunContainer
<1>3. container' \in Container \cup {None} /\ (container' # None => Doc # None)
  BY <1>2, NewContainerTyped DEF RunContainer, TypeInv, ContainerOK
<1>4. shell' \in [Shells -> Command] /\ Others(s) /\ Underway(s)'
  BY <1>1, EndsDoes DEF TypeInv, Underway
<1> QED
  BY <1>3, <1>4, ContainerStep DEF RunContainer

LEMMA StoppingKeepsType ==
    ASSUME TypeInv, NEW s \in Shells, StopContainer(s)
    PROVE  TypeInv'
<1>1. container' \in {container} \/ (container # None /\ container' = Stopped)
  BY DEF StopContainer
<1>2. container' \in Container \cup {None} /\ (container' # None => Doc # None)
  BY <1>1, StoppedTyped DEF TypeInv, ContainerOK
<1>3. CASE Ends(s, "error")
  BY <1>2, <1>3, EndsDoes, ContainerStep DEF StopContainer, TypeInv, Underway
<1>4. CASE Goto(s, "remove")
  <2>1. shell' \in [Shells -> Command] /\ Others(s)
    BY <1>4, GotoDoes DEF TypeInv, Steps
  <2>2. Underway(s)'
    <3>1. Doc' = Doc
      BY DEF StopContainer, Doc, endpoint
    <3>2. /\ shell'[s].pc = "remove" /\ shell'[s].op = shell[s].op
          /\ shell'[s].hash = shell[s].hash /\ shell'[s].image = shell[s].image
      BY <1>4, GotoDoes DEF TypeInv, Steps
    <3>3. Underway(s) /\ shell[s].pc = "stop"
      BY DEF StopContainer, At, TypeInv, ShellsOK
    <3> QED
      BY <3>1, <3>2, <3>3 DEF Underway, RenderSteps, StopSteps, StartSteps
  <2> QED
    BY <1>2, <2>1, <2>2, ContainerStep DEF StopContainer
<1> QED
  BY <1>3, <1>4 DEF StopContainer

LEMMA RemovingKeepsType ==
    ASSUME TypeInv, NEW s \in Shells, RemoveContainer(s)
    PROVE  TypeInv'
<1>1. container' = container \/ container' = None
  BY DEF RemoveContainer
<1>2. container' \in Container \cup {None} /\ (container' # None => Doc # None)
  BY <1>1 DEF TypeInv, ContainerOK
<1>3. CASE \E outcome \in {"ok", "error"} : Ends(s, outcome)
  BY <1>2, <1>3, EndsDoes, ContainerStep DEF RemoveContainer, TypeInv, Underway
<1>4. CASE Op(s) = "start" /\ Goto(s, "run")
  <2>1. Doc' = Doc
    BY DEF RemoveContainer, Doc, endpoint
  <2>2. /\ shell' \in [Shells -> Command] /\ Others(s)
        /\ shell'[s].pc = "run" /\ shell'[s].op = shell[s].op
        /\ shell'[s].hash = shell[s].hash /\ shell'[s].image = shell[s].image
    BY <1>4, GotoDoes DEF TypeInv, Steps
  <2>3. Underway(s) /\ shell[s].pc = "remove"
    BY DEF RemoveContainer, At, TypeInv, ShellsOK
  <2>4. Underway(s)'
    BY <1>4, <2>1, <2>2, <2>3 DEF Underway, StartSteps, Op
  <2> QED
    BY <1>2, <2>2, <2>4, ContainerStep DEF RemoveContainer
<1> QED
  BY <1>3, <1>4 DEF RemoveContainer, AfterRemove

LEMMA StartKeepsType ==
    ASSUME TypeInv, NEW s \in Shells, Start(s)
    PROVE  TypeInv'
<1>1. CASE BeginStart(s)
  BY <1>1, BeginningKeepsType DEF BeginStart, Steps, TypeInv, EndpointOK
<1>2. CASE Validate(s)
  <2>1. CASE Ends(s, "error")
    BY <1>2, <2>1, EndingKeepsType DEF Validate
  <2>2. CASE Valid /\ Validated(s)
    <3>1. Doc # None /\ Doc' = Doc
      BY <1>2, <2>2, ContentsFacts DEF Valid, Whole, Doc, Validate, endpoint
    <3>2. Op(s) = "start" /\ shell[s].image \in Images
      BY <1>2 DEF Validate, At, Op, TypeInv, ShellsOK, Underway, RenderSteps, StopSteps
    <3>3. shell[s] \in Command /\ locked \in Images
      BY DEF TypeInv, ShellsOK, EndpointOK
    <3> DEFINE image == IF core = Xray /\ side = "client" THEN locked ELSE shell[s].image
               validated == [shell[s] EXCEPT !.pc = "hash", !.image = image]
    <3>4. /\ validated \in Command /\ validated.op = "start" /\ validated.pc = "hash"
          /\ validated.image \in Images
      BY <3>2, <3>3 DEF Command, Steps, Op
    <3>5. shell' = [shell EXCEPT ![s] = validated]
      BY <2>2, <3>3 DEF Validated, TypeInv, ShellsOK
    <3>6. shell' \in [Shells -> Command] /\ Others(s) /\ Underway(s)'
      BY <3>1, <3>4, <3>5 DEF TypeInv, ShellsOK, Others, Underway, StartSteps
    <3> QED
      BY <1>2, <3>6, ShellStep DEF Validate
  <2> QED
    BY <1>2, <2>1, <2>2 DEF Validate
<1>3. CASE HashDocument(s)
  <2>1. /\ shell[s] \in Command /\ Op(s) = "start" /\ shell[s].image \in Images
        /\ Doc \in Contents /\ Doc' = Doc
    BY <1>3, DocTyped DEF HashDocument, At, Op, TypeInv, ShellsOK, Underway, RenderSteps, StopSteps,
       Doc, endpoint
  <2> DEFINE hashed == [shell[s] EXCEPT !.hash = Doc, !.pc = "inspect"]
  <2>2. /\ hashed \in Command /\ hashed.op = "start" /\ hashed.pc = "inspect"
        /\ hashed.image \in Images /\ hashed.hash \in Contents
    BY <2>1 DEF Command, Steps, Op
  <2>3. shell' = [shell EXCEPT ![s] = hashed]
    BY <1>3, <2>1 DEF HashDocument, TypeInv, ShellsOK
  <2>4. shell' \in [Shells -> Command] /\ Others(s) /\ Underway(s)'
    BY <2>1, <2>2, <2>3, ContentsFacts DEF TypeInv, ShellsOK, Others, Underway, StartSteps
  <2> QED
    BY <1>3, <2>4, ShellStep DEF HashDocument
<1>4. CASE InspectForStart(s)
  BY <1>4, StartGoesOn DEF InspectForStart, Sees, State, Replace, At, StartSteps
<1>5. CASE ReadLabel(s)
  BY <1>5, StartGoesOn, AtMeansStart DEF ReadLabel, Replace, At, StartSteps
<1>6. CASE ReadImage(s)
  BY <1>6, StartGoesOn, AtMeansStart DEF ReadImage, Replace, At, StartSteps
<1>7. CASE Identify(s)
  BY <1>7, EndingKeepsType DEF Identify
<1>8. CASE LookAgain(s)
  BY <1>8, StartGoesOn, AtMeansStart DEF LookAgain, Sees, State, At, StartSteps
<1>9. CASE RunContainer(s)
  BY <1>9, RunKeepsType
<1> QED
  BY <1>1, <1>2, <1>3, <1>4, <1>5, <1>6, <1>7, <1>8, <1>9 DEF Start

LEMMA StopKeepsType ==
    ASSUME TypeInv, NEW s \in Shells, Stop(s)
    PROVE  TypeInv'
<1>1. CASE BeginStop(s)
  BY <1>1, BeginningKeepsType DEF BeginStop, Steps, StopSteps
<1>2. CASE InspectForStop(s)
  <2>1. CASE Ends(s, "ok")
    BY <1>2, <2>1, EndingKeepsType DEF InspectForStop
  <2>2. CASE Goto(s, IF State = "running" THEN "stop" ELSE "remove")
    <3>1. PICK step \in {"stop", "remove"} : Goto(s, step)
      BY <2>2
    <3>2. step \in Steps /\ step \in StopSteps
      BY DEF Steps, StopSteps
    <3>3. shell' \in [Shells -> Command] /\ Others(s) /\ Underway(s)'
      BY <1>2, <3>1, <3>2, GotoDoes DEF InspectForStop, Op, TypeInv, Underway
    <3> QED
      BY <1>2, <3>3, ShellStep DEF InspectForStop
  <2> QED
    BY <1>2, <2>1, <2>2 DEF InspectForStop
<1>3. CASE StopContainer(s)
  BY <1>3, StoppingKeepsType
<1>4. CASE RemoveContainer(s)
  BY <1>4, RemovingKeepsType
<1> QED
  BY <1>1, <1>2, <1>3, <1>4 DEF Stop

LEMMA TypeInvStep == TypeInv /\ [Next]_vars => TypeInv'
<1> SUFFICES ASSUME TypeInv, [Next]_vars
             PROVE  TypeInv'
  OBVIOUS
<1>1. ASSUME NEW s \in Shells, Render(s) \/ Start(s) \/ Stop(s)
      PROVE  TypeInv'
  BY <1>1, RenderKeepsType, StartKeepsType, StopKeepsType
<1>2. ASSUME NEW s \in Shells, Interrupt(s)
      PROVE  TypeInv'
  BY <1>2, EndingKeepsType DEF Interrupt
<1>3. CASE LockImage
  <2>1. EndpointOK' /\ Doc' = Doc
    BY <1>3 DEF LockImage, TypeInv, EndpointOK, endpoint, Doc
  <2> QED
    BY <1>3, <2>1 DEF LockImage, TypeInv, ContainerOK, ShellsOK, Underway
<1>4. CASE ProcessExits \/ ProcessRestarts
  <2>1. /\ container # None /\ Doc # None /\ Doc' = Doc
        /\ UNCHANGED <<endpoint, document, locked, shell>>
    BY <1>4 DEF ProcessExits, ProcessRestarts, Restarting, TypeInv, ContainerOK, Doc, endpoint
  <2>2. Doc \in Contents /\ container \in Container
    BY <2>1, DocTyped DEF TypeInv, ContainerOK
  <2>3. container' \in Container
    BY <1>4, <2>2 DEF ProcessExits, ProcessRestarts, Container, Launched
  <2>4. EndpointOK' /\ ShellsOK'
    BY <2>1 DEF TypeInv, EndpointOK, endpoint, ShellsOK, Underway
  <2> QED
    BY <2>1, <2>3, <2>4 DEF TypeInv, ContainerOK
<1>5. CASE UNCHANGED vars
  BY <1>5 DEF vars, endpoint, TypeInv, EndpointOK, ContainerOK, ShellsOK, Underway, Doc
<1> QED
  BY <1>1, <1>2, <1>3, <1>4, <1>5 DEF Next

\* Every command finds what its next steps need, whatever other shells, Docker
\* and the processes do between them: a start hashes a document that is there
\* (lifecycle/docker.py:95), and what Docker runs was made from one.
THEOREM TypeCorrect == Spec => []TypeOK
<1>1. Spec => []TypeInv
  BY TypeInvInitially, TypeInvStep, PTL DEF Spec
<1> QED
  BY <1>1, TypeInvMeansTypeOK, PTL

-----------------------------------------------------------------------------
(* The steps of a round: no failure, no interrupt, no other kind of command *)

SameOp(s) == shell'[s].op = shell[s].op

\* The shell goes to another step with what it has read, or its command is over.
To(s, step) ==
    /\ Others(s) /\ SameOp(s) /\ shell'[s].pc = step
    /\ shell'[s].hash = shell[s].hash /\ shell'[s].image = shell[s].image

Ended(s, outcome) ==
    Others(s) /\ SameOp(s) /\ shell'[s].pc = "done" /\ shell'[s].outcome = outcome

CalmValidate(s) ==
    /\ At(s, "validate") /\ UNCHANGED container
    /\ \/ /\ Valid /\ Others(s) /\ SameOp(s) /\ shell'[s].pc = "hash"
          /\ shell'[s].image \in {shell[s].image, locked}
       \/ ~Valid /\ Ended(s, "error")

CalmHash(s) ==
    /\ At(s, "hash") /\ UNCHANGED container
    /\ Others(s) /\ SameOp(s) /\ shell'[s].pc = "inspect"
    /\ shell'[s].hash = Doc /\ shell'[s].image = shell[s].image

CalmInspect(s) ==
    /\ At(s, "inspect") /\ Op(s) = "start" /\ UNCHANGED container
    /\ To(s, IF State = "running" THEN "label"
             ELSE IF State = "stopped" THEN Replace("stopped") ELSE "run")

CalmLabel(s) ==
    /\ At(s, "label") /\ UNCHANGED container
    /\ \/ /\ container # None /\ container.label = shell[s].hash
          /\ To(s, IF core = Xray THEN "identify" ELSE "image")
       \/ /\ container = None \/ container.label # shell[s].hash
          /\ To(s, Replace("running"))

CalmImage(s) ==
    /\ At(s, "image") /\ UNCHANGED container
    /\ \/ /\ container # None /\ container.image = shell[s].image
          /\ To(s, "identify")
       \/ /\ container = None \/ container.image # shell[s].image
          /\ To(s, Replace("running"))

CalmIdentify(s) ==
    /\ At(s, "identify") /\ UNCHANGED container
    /\ Ended(s, IF container = None THEN "error" ELSE "ok")

CalmLookAgain(s) ==
    /\ At(s, "look again") /\ UNCHANGED container
    /\ To(s, IF State = "running" THEN "stop"
             ELSE IF State = "stopped" THEN "remove" ELSE "run")

CalmRun(s) ==
    /\ At(s, "run")
    /\ \/ /\ container = None /\ container' = NewContainer(s, Launched(Doc))
          /\ Ended(s, "ok")
       \/ container # None /\ UNCHANGED container /\ Ended(s, "error")

CalmLookStop(s) ==
    /\ At(s, "inspect") /\ Op(s) = "stop" /\ UNCHANGED container
    /\ \/ State # "absent" /\ To(s, IF State = "running" THEN "stop" ELSE "remove")
       \/ State = "absent" /\ Ended(s, "ok")

CalmStop(s) ==
    /\ At(s, "stop")
    /\ \/ container # None /\ container' = Stopped /\ To(s, "remove")
       \/ container = None /\ UNCHANGED container /\ Ended(s, "error")

CalmRemove(s) ==
    /\ At(s, "remove")
    /\ \/ /\ Removable /\ container' = None
          /\ \/ Op(s) = "start" /\ To(s, "run")
             \/ Op(s) # "start" /\ Ended(s, "ok")
       \/ ~Removable /\ UNCHANGED container /\ Ended(s, "error")

CalmMove(s) ==
    \/ CalmValidate(s) \/ CalmHash(s) \/ CalmInspect(s) \/ CalmLabel(s) \/ CalmImage(s)
    \/ CalmIdentify(s) \/ CalmLookAgain(s) \/ CalmRun(s)
    \/ CalmLookStop(s) \/ CalmStop(s) \/ CalmRemove(s)

\* A command joins the round, or is the first of a new one.
CalmBegin(s) ==
    /\ ~Active(s) /\ UNCHANGED container
    /\ \/ shell'[s].op = "stop" /\ shell'[s].pc = "inspect"
       \/ shell'[s].op = "start" /\ shell'[s].pc = "validate" /\ shell'[s].image = locked
    /\ \A t \in Shells \ {s} : shell'[t] = IF Quiet THEN Idle ELSE shell[t]
    /\ IF Quiet
       THEN round' = [op |-> shell'[s].op, lone |-> TRUE, looping |-> Restarting,
                      stale |-> container # None /\ container.label # container.loaded]
       ELSE /\ round # None /\ round.op = shell'[s].op
            /\ round' = [round EXCEPT !.lone = FALSE]

\* A round is of starts or of stops.
RoundTyped ==
    /\ round # None =>
          round \in [op: {"start", "stop"}, lone: BOOLEAN, looping: BOOLEAN, stale: BOOLEAN]
    /\ round # None => \A s \in Shells : Active(s) => Op(s) = round.op

LEMMA GotoMeansTo ==
    ASSUME TypeInv, NEW s \in Shells, NEW step \in Steps, Goto(s, step)
    PROVE  To(s, step)
  BY GotoDoes DEF TypeInv, To, SameOp

LEMMA EndsMeansEnded ==
    ASSUME TypeInv, NEW s \in Shells, NEW outcome \in {"ok", "error"}, Ends(s, outcome)
    PROVE  Ended(s, outcome)
  BY EndsDoes DEF TypeInv, Ended, SameOp

LEMMA StartIsCalm ==
    ASSUME TypeInv, NEW s \in Shells, Start(s), ~BeginStart(s), round' # None
    PROVE  CalmMove(s) /\ round' = round /\ UNCHANGED <<endpoint, document, locked>>
<1>1. CASE Validate(s)
  <2>1. CASE ~Valid /\ Ends(s, "error") /\ UNCHANGED round
    BY <1>1, <2>1, EndsMeansEnded DEF Validate, CalmMove, CalmValidate
  <2>2. CASE Valid /\ Validated(s) /\ UNCHANGED round
    <3>1. /\ Others(s) /\ SameOp(s) /\ shell'[s].pc = "hash"
          /\ shell'[s].image \in {shell[s].image, locked}
      BY <2>2 DEF Validated, TypeInv, ShellsOK, Others, SameOp, Command
    <3> QED
      BY <1>1, <2>2, <3>1 DEF Validate, CalmMove, CalmValidate
  <2> QED
    BY <1>1, <2>1, <2>2 DEF Validate, Disturb
<1>2. CASE HashDocument(s)
  BY <1>2 DEF HashDocument, TypeInv, ShellsOK, Others, SameOp, Command, CalmMove, CalmHash
<1>3. CASE InspectForStart(s)
  BY <1>3, GotoMeansTo DEF InspectForStart, Sees, State, Replace, Disturb, CalmMove, CalmInspect,
     Steps
<1>4. CASE ReadLabel(s)
  BY <1>4, GotoMeansTo DEF ReadLabel, Replace, Disturb, CalmMove, CalmLabel, Steps
<1>5. CASE ReadImage(s)
  BY <1>5, GotoMeansTo DEF ReadImage, Replace, Disturb, CalmMove, CalmImage, Steps
<1>6. CASE Identify(s)
  BY <1>6, EndsMeansEnded DEF Identify, Disturb, CalmMove, CalmIdentify
<1>7. CASE LookAgain(s)
  BY <1>7, GotoMeansTo DEF LookAgain, Sees, State, Disturb, CalmMove, CalmLookAgain, Steps
<1>8. CASE RunContainer(s)
  BY <1>8, EndsMeansEnded DEF RunContainer, Disturb, CalmMove, CalmRun
<1> QED
  BY <1>1, <1>2, <1>3, <1>4, <1>5, <1>6, <1>7, <1>8 DEF Start

LEMMA StopIsCalm ==
    ASSUME TypeInv, NEW s \in Shells, Stop(s), ~BeginStop(s), round' # None
    PROVE  CalmMove(s) /\ round' = round /\ UNCHANGED <<endpoint, document, locked>>
<1>1. CASE InspectForStop(s)
  BY <1>1, GotoMeansTo, EndsMeansEnded DEF InspectForStop, Disturb, CalmMove, CalmLookStop, Steps
<1>2. CASE StopContainer(s)
  BY <1>2, GotoMeansTo, EndsMeansEnded DEF StopContainer, Disturb, CalmMove, CalmStop, Steps
<1>3. CASE RemoveContainer(s)
  BY <1>3, GotoMeansTo, EndsMeansEnded
     DEF RemoveContainer, AfterRemove, Disturb, CalmMove, CalmRemove, Steps
<1> QED
  BY <1>1, <1>2, <1>3 DEF Stop

LEMMA BeginIsCalm ==
    ASSUME TypeInv, RoundTyped, NEW s \in Shells, BeginStart(s) \/ BeginStop(s), round' # None
    PROVE  CalmBegin(s) /\ UNCHANGED <<endpoint, document, locked>>
<1>1. CASE BeginStart(s)
  <2>1. Begin(s, "start", "validate", None, locked) /\ locked \in Images
    BY <1>1 DEF BeginStart, TypeInv, EndpointOK
  <2>2. "validate" \in Steps
    BY DEF Steps
  <2>3. /\ shell'[s] = [op |-> "start", pc |-> "validate", outcome |-> None, hash |-> None,
                        image |-> locked]
        /\ \A t \in Shells \ {s} : shell'[t] = IF Quiet THEN Idle ELSE shell[t]
    BY <2>1, <2>2, BeginDoes DEF TypeInv
  <2>4. shell'[s].op = "start" /\ shell'[s].pc = "validate" /\ shell'[s].image = locked
    BY <2>3
  <2>5. /\ ~Active(s)
        /\ IF Quiet
           THEN round' = [op |-> "start", lone |-> TRUE, looping |-> Restarting,
                          stale |-> container # None /\ container.label # container.loaded]
           ELSE /\ round # None /\ round.op = "start"
                /\ round' = [round EXCEPT !.lone = FALSE]
    BY <2>1 DEF Begin
  <2> QED
    BY <1>1, <2>3, <2>4, <2>5 DEF BeginStart, CalmBegin
<1>2. CASE BeginStop(s)
  <2>1. Begin(s, "stop", "inspect", None, None)
    BY <1>2 DEF BeginStop
  <2>2. "inspect" \in Steps
    BY DEF Steps
  <2>3. /\ shell'[s] = [op |-> "stop", pc |-> "inspect", outcome |-> None, hash |-> None,
                        image |-> None]
        /\ \A t \in Shells \ {s} : shell'[t] = IF Quiet THEN Idle ELSE shell[t]
    BY <2>1, <2>2, BeginDoes DEF TypeInv
  <2>4. shell'[s].op = "stop" /\ shell'[s].pc = "inspect"
    BY <2>3
  <2>5. /\ ~Active(s)
        /\ IF Quiet
           THEN round' = [op |-> "stop", lone |-> TRUE, looping |-> Restarting,
                          stale |-> container # None /\ container.label # container.loaded]
           ELSE /\ round # None /\ round.op = "stop"
                /\ round' = [round EXCEPT !.lone = FALSE]
    BY <2>1 DEF Begin
  <2> QED
    BY <1>2, <2>3, <2>4, <2>5 DEF BeginStop, CalmBegin
<1> QED
  BY <1>1, <1>2

\* While there is a round, its commands are all that happens: renders, failures
\* and what Docker does by itself end it.
LEMMA RoundIsCalm ==
    ASSUME TypeInv, RoundTyped, Next, round' # None
    PROVE  /\ UNCHANGED <<endpoint, document, locked>>
           /\ \E s \in Shells : CalmBegin(s) \/ (CalmMove(s) /\ round' = round)
<1>1. ASSUME NEW s \in Shells, Start(s) \/ Stop(s)
      PROVE  /\ UNCHANGED <<endpoint, document, locked>>
             /\ CalmBegin(s) \/ (CalmMove(s) /\ round' = round)
  BY <1>1, StartIsCalm, StopIsCalm, BeginIsCalm
<1>2. ASSUME NEW s \in Shells, Render(s)
      PROVE  FALSE
  <2>1. CASE BeginRender(s)
    <3>1. PICK c \in Cases : Begin(s, "render", "open server", c, None)
      BY <2>1 DEF BeginRender
    <3>2. round # None /\ round.op = "render"
      BY <3>1 DEF Begin
    <3> QED
      BY <3>2 DEF RoundTyped
  <2>2. CASE ~BeginRender(s)
    <3>1. (Active(s) /\ Op(s) = "render") \/ At(s, "open client")
      BY <1>2, <2>2 DEF Render, RenderRaises, OpenDocument, WriteDocument, Opens, Writes, At,
         Active, Op, TypeInv, ShellsOK, Underway, StopSteps, StartSteps
    <3>2. Active(s) /\ Op(s) = "render"
      BY <3>1 DEF At, Active, Op, TypeInv, ShellsOK, Underway, StopSteps, StartSteps
    <3>3. round' = round
      BY <1>2, <2>2 DEF Render, RenderRaises, OpenDocument, WriteDocument
    <3> QED
      BY <3>2, <3>3 DEF RoundTyped
  <2> QED
    BY <2>1, <2>2
<1>3. ~LockImage /\ ~ProcessExits /\ ~ProcessRestarts /\ \A s \in Shells : ~Interrupt(s)
  BY DEF LockImage, ProcessExits, ProcessRestarts, Interrupt, Disturb
<1> QED
  BY <1>1, <1>2, <1>3 DEF Next

LEMMA SameEndpoint ==
    ASSUME UNCHANGED <<endpoint, document, locked>>
    PROVE  Doc' = Doc /\ core' = core /\ side' = side /\ locked' = locked /\ (Valid' <=> Valid)
  BY DEF endpoint, Doc, Valid, Whole

LEMMA MoveShape ==
    ASSUME TypeInv, NEW s \in Shells, CalmMove(s)
    PROVE  Active(s) /\ Others(s) /\ SameOp(s) /\ Op(s) \in {"start", "stop"}
<1>1. Others(s) /\ SameOp(s)
  BY DEF CalmMove, CalmValidate, CalmHash, CalmInspect, CalmLabel, CalmImage, CalmIdentify,
         CalmLookAgain, CalmRun, CalmLookStop, CalmStop, CalmRemove, To, Ended
<1>2. shell[s].pc \in StartSteps \cup StopSteps
  BY DEF CalmMove, CalmValidate, CalmHash, CalmInspect, CalmLabel, CalmImage, CalmIdentify,
         CalmLookAgain, CalmRun, CalmLookStop, CalmStop, CalmRemove, At, StartSteps, StopSteps
<1> QED
  BY <1>1, <1>2 DEF TypeInv, ShellsOK, Underway, Active, Op, StartSteps, StopSteps, RenderSteps

LEMMA RoundTypedInitially == Init => RoundTyped
  BY DEF Init, RoundTyped

LEMMA BeginMakesRound ==
    ASSUME RoundTyped, NEW s \in Shells, CalmBegin(s)
    PROVE  /\ round' \in [op: {"start", "stop"}, lone: BOOLEAN, looping: BOOLEAN, stale: BOOLEAN]
           /\ round'.op = shell'[s].op
<1>1. shell'[s].op \in {"start", "stop"}
  BY DEF CalmBegin
<1>2. CASE Quiet
  <2> DEFINE looping == Restarting
             stale == container # None /\ container.label # container.loaded
  <2>1. looping \in BOOLEAN /\ stale \in BOOLEAN
    BY DEF Restarting
  <2>2. round' = [op |-> shell'[s].op, lone |-> TRUE, looping |-> looping, stale |-> stale]
    BY <1>2 DEF CalmBegin
  <2> HIDE DEF looping, stale
  <2> QED
    BY <1>1, <2>1, <2>2
<1>3. CASE ~Quiet
  BY <1>3 DEF CalmBegin, RoundTyped
<1> QED
  BY <1>2, <1>3

LEMMA BeginKeepsRoundTyped ==
    ASSUME TypeInv, RoundTyped, NEW s \in Shells, CalmBegin(s)
    PROVE  RoundTyped'
<1>1. ASSUME NEW t \in Shells, Active(t)'
      PROVE  Op(t)' = round'.op
  <2>1. CASE t = s
    BY <2>1, BeginMakesRound DEF Op
  <2>2. CASE t # s
    <3>1. ~Quiet /\ shell'[t] = shell[t]
      BY <1>1, <2>2 DEF CalmBegin, Active, Idle
    <3> QED
      BY <1>1, <3>1 DEF CalmBegin, RoundTyped, Active, Op
  <2> QED
    BY <2>1, <2>2
<1> QED
  BY <1>1, BeginMakesRound DEF RoundTyped

LEMMA MoveKeepsRoundTyped ==
    ASSUME TypeInv, RoundTyped, NEW s \in Shells, CalmMove(s), round' = round
    PROVE  RoundTyped'
  BY MoveShape DEF RoundTyped, Others, SameOp, Active, Op

\* In a round, what a start has read of the endpoint is what it still is.
UpToDate(s) ==
    Active(s) /\ Op(s) = "start" =>
        /\ shell[s].image = locked
        /\ ~At(s, "validate") => Valid
        /\ shell[s].pc \notin {"validate", "hash"} => shell[s].hash = Doc

AllUpToDate == round # None => \A s \in Shells : UpToDate(s)

LEMMA BeginKeepsUpToDate ==
    ASSUME TypeInv, AllUpToDate, NEW s \in Shells, CalmBegin(s),
           UNCHANGED <<endpoint, document, locked>>
    PROVE  AllUpToDate'
<1>1. ASSUME NEW t \in Shells
      PROVE  UpToDate(t)'
  <2>1. CASE t = s
    BY <2>1, SameEndpoint DEF CalmBegin, UpToDate, Active, Op, At
  <2>2. CASE t # s /\ Quiet
    BY <2>2 DEF CalmBegin, UpToDate, Active, Idle
  <2>3. CASE t # s /\ ~Quiet
    <3>1. shell'[t] = shell[t] /\ UpToDate(t)
      BY <2>3 DEF CalmBegin, AllUpToDate
    <3> QED
      BY <3>1, SameEndpoint DEF UpToDate, Active, Op, At
  <2> QED
    BY <2>1, <2>2, <2>3
<1> QED
  BY <1>1 DEF AllUpToDate

LEMMA MoveKeepsUpToDate ==
    ASSUME TypeInv, AllUpToDate, NEW s \in Shells, CalmMove(s), round' = round,
           UNCHANGED <<endpoint, document, locked>>
    PROVE  AllUpToDate'
<1> SUFFICES ASSUME round # None
             PROVE  \A t \in Shells : UpToDate(t)'
  BY DEF AllUpToDate
<1>1. Active(s) /\ Others(s) /\ SameOp(s) /\ UpToDate(s)
  BY MoveShape DEF AllUpToDate
<1>2. UpToDate(s)'
  <2>1. CASE CalmValidate(s)
    BY <1>1, <2>1, SameEndpoint
       DEF CalmValidate, Ended, UpToDate, Active, Op, At, SameOp
  <2>2. CASE CalmHash(s)
    BY <1>1, <2>2, SameEndpoint DEF CalmHash, UpToDate, Active, Op, At, SameOp
  <2>3. CASE ~CalmValidate(s) /\ ~CalmHash(s)
    <3>1. /\ shell[s].pc \notin {"validate", "hash"}
          /\ \/ shell'[s].pc = "done"
             \/ shell'[s].hash = shell[s].hash /\ shell'[s].image = shell[s].image
      BY <2>3 DEF CalmMove, CalmInspect, CalmLabel, CalmImage, CalmIdentify, CalmLookAgain,
         CalmRun, CalmLookStop, CalmStop, CalmRemove, To, Ended, At
    <3> QED
      BY <1>1, <3>1, SameEndpoint DEF UpToDate, Active, Op, At, SameOp
  <2> QED
    BY <2>1, <2>2, <2>3
<1>3. ASSUME NEW t \in Shells \ {s}
      PROVE  UpToDate(t)'
  <2>1. shell'[t] = shell[t] /\ UpToDate(t)
    BY <1>1 DEF Others, AllUpToDate
  <2> QED
    BY <2>1, SameEndpoint DEF UpToDate, Active, Op, At
<1> QED
  BY <1>2, <1>3

\* A round that found no restart loop makes none: its containers have a whole
\* document, and it is over when a process exits.
NoLoop == round # None /\ ~round.looping => ~Restarting

LEMMA StoppedNotRunning ==
    ASSUME TypeInv, container # None
    PROVE  /\ Stopped # None /\ Stopped.status \in {"created", "exited"}
           /\ Stopped.label = container.label /\ Stopped.image = container.image
           /\ Stopped.loaded = container.loaded
<1>1. container \in Container
  BY DEF TypeInv, ContainerOK
<1>2. Stopped \in Container
  BY StoppedTyped
<1> QED
  BY <1>1, <1>2, CasesAssumption DEF Stopped, Container

LEMMA RunsDocument ==
    ASSUME TypeInv, AllUpToDate, round # None, NEW s \in Shells, At(s, "run")
    PROVE  LET new == NewContainer(s, Launched(Doc))
           IN  /\ Valid
               /\ new # None /\ new.status = "running" /\ new.label = Doc
               /\ new.image = locked /\ new.loaded = Doc
<1>1. Op(s) = "start"
  BY AtMeansStart DEF At
<1>2. Valid /\ shell[s].hash = Doc /\ shell[s].image = locked
  BY <1>1 DEF AllUpToDate, UpToDate, Active, At
<1>3. NewContainer(s, Launched(Doc)) # None
  BY NewContainerTyped, CasesAssumption
<1> QED
  BY <1>2, <1>3 DEF NewContainer, Launched, Valid

LEMMA MoveContainer ==
    ASSUME TypeInv, AllUpToDate, round # None, NEW s \in Shells, CalmMove(s)
    PROVE  \/ container' = container
           \/ At(s, "stop") /\ container # None /\ container' = Stopped /\ To(s, "remove")
           \/ /\ At(s, "remove") /\ Removable /\ container' = None
              /\ Op(s) = "start" => To(s, "run")
           \/ /\ At(s, "run") /\ container = None /\ Ended(s, "ok")
              /\ container' = NewContainer(s, Launched(Doc))
  BY DEF CalmMove, CalmValidate, CalmHash, CalmInspect, CalmLabel, CalmImage, CalmIdentify,
         CalmLookAgain, CalmRun, CalmLookStop, CalmStop, CalmRemove

LEMMA BeginKeepsNoLoop ==
    ASSUME TypeInv, RoundTyped, NoLoop, NEW s \in Shells, CalmBegin(s)
    PROVE  NoLoop'
<1>1. Restarting' = Restarting
  BY DEF CalmBegin, Restarting
<1>2. CASE Quiet
  BY <1>1, <1>2 DEF CalmBegin, NoLoop
<1>3. CASE ~Quiet
  BY <1>1, <1>3 DEF CalmBegin, NoLoop, RoundTyped
<1> QED
  BY <1>2, <1>3

LEMMA MoveKeepsNoLoop ==
    ASSUME TypeInv, AllUpToDate, NoLoop, NEW s \in Shells, CalmMove(s), round' = round
    PROVE  NoLoop'
<1> SUFFICES ASSUME round # None, ~Restarting
             PROVE  ~Restarting'
  BY DEF NoLoop
<1>1. CASE container' = container
  BY <1>1 DEF Restarting
<1>2. CASE container # None /\ container' = Stopped
  BY <1>2, StoppedNotRunning DEF Restarting
<1>3. CASE container' = None
  BY <1>3 DEF Restarting
<1>4. CASE At(s, "run") /\ container' = NewContainer(s, Launched(Doc))
  BY <1>4, RunsDocument DEF Restarting
<1> QED
  BY <1>1, <1>2, <1>3, <1>4, MoveContainer

\* The label tells what the process has loaded, unless it did not before.
Honest == round.stale \/ container = None \/ container.label = container.loaded

AllHonest == round # None => Honest

LEMMA BeginKeepsHonest ==
    ASSUME RoundTyped, AllHonest, NEW s \in Shells, CalmBegin(s)
    PROVE  AllHonest'
<1>1. container' = container
  BY DEF CalmBegin
<1>2. CASE Quiet
  <2> DEFINE looping == Restarting
             stale == container # None /\ container.label # container.loaded
  <2>1. round' = [op |-> shell'[s].op, lone |-> TRUE, looping |-> looping, stale |-> stale]
    BY <1>2 DEF CalmBegin
  <2>2. stale \/ container = None \/ container.label = container.loaded
    OBVIOUS
  <2> HIDE DEF looping, stale
  <2>3. round'.stale = stale
    BY <2>1
  <2> QED
    BY <1>1, <2>2, <2>3 DEF AllHonest, Honest
<1>3. CASE ~Quiet
  <2>1. round # None /\ round'.stale = round.stale
    BY <1>3 DEF CalmBegin, RoundTyped
  <2> QED
    BY <1>1, <2>1 DEF AllHonest, Honest
<1> QED
  BY <1>2, <1>3

LEMMA MoveKeepsHonest ==
    ASSUME TypeInv, AllUpToDate, AllHonest, NEW s \in Shells, CalmMove(s), round' = round
    PROVE  AllHonest'
  BY MoveContainer, StoppedNotRunning, RunsDocument DEF AllHonest, Honest

-----------------------------------------------------------------------------
(* Overlapping commands agree *)

During(op) == round # None /\ round.op = op /\ ~round.looping

Running == container # None /\ container.status = "running"
Served == Running /\ Matches(Doc, locked)

\* The steps from which a start still gets to a container that serves, from what
\* the container is now.  A start that has seen it running does not count on it
\* once another one has stopped it, and one that is to remove it not while it
\* runs.
Rescue ==
    {"validate", "hash", "inspect", "look again"}
    \cup (IF container = None THEN {"run"}
          ELSE IF Running THEN {"label", "image", "stop"} ELSE {"stop", "remove"})

\* A start that has found its hash in the label compares images; the container
\* may have been replaced since, by one with the same label.
LabelFound(s) == At(s, "image") => container = None \/ container.label = Doc

StartsAgree ==
    During("start") =>
        /\ \A s \in Shells : LabelFound(s)
        /\ Valid /\ ~Served => \E s \in Shells : shell[s].pc \in Rescue

LEMMA NotRunning ==
    ASSUME TypeInv, ~Restarting, ~Running
    PROVE  IF container = None THEN State = "absent" ELSE State = "stopped" /\ Removable
<1>1. CASE container = None
  BY <1>1 DEF State
<1>2. CASE container # None
  <2>1. container.status \in {"created", "exited"}
    BY <1>2 DEF TypeInv, ContainerOK, Container, Restarting, Running
  <2> QED
    BY <1>2, <2>1 DEF State, Removable
<1> QED
  BY <1>1, <1>2

LEMMA StateMeans ==
    ASSUME TypeInv, ~Restarting
    PROVE  \/ State = "running" /\ Running
           \/ State = "stopped" /\ Removable /\ ~Running /\ container # None
           \/ State = "absent" /\ container = None /\ ~Running
  BY NotRunning DEF State, Running

LEMMA BeginKeepsStartsAgree ==
    ASSUME TypeInv, RoundTyped, StartsAgree, NEW s \in Shells, CalmBegin(s),
           UNCHANGED <<endpoint, document, locked>>
    PROVE  StartsAgree'
<1> SUFFICES ASSUME During("start")'
             PROVE  /\ \A t \in Shells : LabelFound(t)'
                    /\ shell'[s].pc \in Rescue'
  BY DEF StartsAgree
<1>1. shell'[s].op = "start" /\ shell'[s].pc = "validate"
  BY BeginMakesRound DEF During, CalmBegin
<1>2. ASSUME NEW t \in Shells, At(t, "image")'
      PROVE  container' = None \/ container'.label = Doc'
  <2>1. t # s
    BY <1>1, <1>2 DEF At
  <2>2. ~Quiet /\ At(t, "image")
    BY <1>2, <2>1 DEF CalmBegin, At, Idle
  <2>3. During("start")
    BY <2>2 DEF CalmBegin, During, RoundTyped
  <2>4. container = None \/ container.label = Doc
    BY <2>2, <2>3 DEF StartsAgree, LabelFound
  <2> QED
    BY <2>4, SameEndpoint DEF CalmBegin
<1> QED
  BY <1>1, <1>2 DEF LabelFound, Rescue

LEMMA MoveKeepsLabelFound ==
    ASSUME TypeInv, AllUpToDate, round # None, NEW s \in Shells, CalmMove(s), Op(s) = "start",
           \A t \in Shells : LabelFound(t), UNCHANGED <<endpoint, document, locked>>
    PROVE  \A t \in Shells : LabelFound(t)'
<1>1. \/ container' = container \/ container' = None
      \/ container # None /\ container' # None /\ container'.label = container.label
      \/ container' # None /\ container'.label = Doc
  BY MoveContainer, StoppedNotRunning, RunsDocument
<1>2. Doc' = Doc /\ Others(s)
  BY SameEndpoint, MoveShape
<1>3. ASSUME At(s, "image")'
      PROVE  container' # None /\ container'.label = Doc
  <2>1. CalmLabel(s)
    BY <1>3 DEF CalmMove, CalmValidate, CalmHash, CalmInspect, CalmImage, CalmIdentify,
       CalmLookAgain, CalmRun, CalmLookStop, CalmStop, CalmRemove, To, Ended, Replace, At
  <2>2. shell[s].hash = Doc
    BY <2>1, MoveShape DEF CalmLabel, At, AllUpToDate, UpToDate
  <2> QED
    BY <1>3, <2>1, <2>2 DEF CalmLabel, To, Replace, At
<1>4. ASSUME NEW t \in Shells \ {s}
      PROVE  LabelFound(t)'
  <2>1. shell'[t] = shell[t] /\ LabelFound(t)
    BY <1>2 DEF Others
  <2> QED
    BY <1>1, <1>2, <2>1 DEF LabelFound, At
<1> QED
  BY <1>2, <1>3, <1>4 DEF LabelFound

\* The start that would have saved the container goes on saving it.
LEMMA RescuerGoesOn ==
    ASSUME TypeInv, AllUpToDate, round # None, NEW s \in Shells, CalmMove(s), Op(s) = "start",
           Valid, ~Restarting, ~Served, LabelFound(s), shell[s].pc \in Rescue,
           container' = container
    PROVE  shell'[s].pc \in Rescue
<1>1. UpToDate(s) /\ Active(s)
  BY MoveShape DEF AllUpToDate
<1>2. CASE CalmValidate(s) \/ CalmHash(s)
  BY <1>2 DEF CalmValidate, CalmHash, Ended, Rescue
<1>3. CASE CalmInspect(s) \/ CalmLookAgain(s)
  <2>1. \/ shell'[s].pc \in {"label", "stop"} /\ Running
        \/ shell'[s].pc = "remove" /\ ~Running /\ container # None
        \/ shell'[s].pc = "look again"
        \/ shell'[s].pc = "run" /\ container = None
    BY <1>3, StateMeans DEF CalmInspect, CalmLookAgain, To, Replace
  <2> QED
    BY <2>1 DEF Rescue, Running
<1>4. CASE CalmLabel(s)
  <2>1. Running /\ shell[s].hash = Doc
    BY <1>1, <1>4 DEF CalmLabel, At, Rescue, UpToDate
  <2>2. ~(core = Xray /\ container.label = Doc)
    BY <2>1 DEF Served, Matches
  <2> QED
    BY <1>4, <2>1, <2>2 DEF CalmLabel, To, Replace, Rescue, Running
<1>5. CASE CalmImage(s)
  <2>1. Running /\ container.label = Doc /\ shell[s].image = locked
    BY <1>1, <1>5 DEF CalmImage, At, Rescue, UpToDate, LabelFound, Running
  <2>2. container.image # locked
    BY <2>1 DEF Served, Matches
  <2> QED
    BY <1>5, <2>1, <2>2 DEF CalmImage, To, Replace, Rescue, Running
<1>6. CASE CalmRun(s)
  <2>1. container = None
    BY <1>6 DEF CalmRun, At, Rescue
  <2> QED
    BY <1>6, <2>1, NewContainerTyped, CasesAssumption DEF CalmRun
<1>7. CASE CalmStop(s)
  <2>1. container # None /\ Stopped = container /\ shell'[s].pc = "remove"
    BY <1>7 DEF CalmStop, At, To, Rescue
  <2>2. ~Running
    BY <2>1, StoppedNotRunning DEF Running
  <2> QED
    BY <2>1, <2>2 DEF Rescue
<1>8. CASE CalmRemove(s)
  <2>1. container # None /\ ~Running
    BY <1>8 DEF CalmRemove, At, Rescue
  <2> QED
    BY <1>8, <2>1, NotRunning, CasesAssumption DEF CalmRemove, At, To, Rescue, Removable
<1>9. CASE CalmIdentify(s) \/ CalmLookStop(s)
  BY <1>9 DEF CalmIdentify, CalmLookStop, At, Rescue
<1> QED
  BY <1>2, <1>3, <1>4, <1>5, <1>6, <1>7, <1>8, <1>9 DEF CalmMove

LEMMA MoveKeepsStartsAgree ==
    ASSUME TypeInv, RoundTyped, AllUpToDate, NoLoop, StartsAgree, NEW s \in Shells, CalmMove(s),
           round' = round, UNCHANGED <<endpoint, document, locked>>
    PROVE  StartsAgree'
<1> SUFFICES ASSUME During("start")
             PROVE  /\ \A t \in Shells : LabelFound(t)'
                    /\ Valid /\ ~Served' => \E t \in Shells : shell'[t].pc \in Rescue'
  BY SameEndpoint DEF StartsAgree, During
<1>1. Others(s) /\ Op(s) = "start" /\ round # None /\ ~Restarting
  BY MoveShape DEF During, RoundTyped, NoLoop
<1>2. \A t \in Shells : LabelFound(t)
  BY DEF StartsAgree
<1>3. \A t \in Shells : LabelFound(t)'
  BY <1>1, <1>2, MoveKeepsLabelFound
<1>4. ASSUME Valid, ~Served'
      PROVE  \E t \in Shells : shell'[t].pc \in Rescue'
  <2>1. CASE container' = container
    <3>1. ~Served /\ Rescue' = Rescue
      BY <1>4, <2>1, SameEndpoint DEF Served, Running, Matches, Rescue
    <3>2. PICK t \in Shells : shell[t].pc \in Rescue
      BY <1>4, <3>1 DEF StartsAgree
    <3>3. CASE t = s
      BY <1>1, <1>2, <1>4, <2>1, <3>1, <3>2, <3>3, RescuerGoesOn
    <3>4. CASE t # s
      BY <1>1, <3>1, <3>2, <3>4 DEF Others
    <3> QED
      BY <3>3, <3>4
  <2>2. CASE container # None /\ container' = Stopped /\ To(s, "remove")
    BY <2>2, StoppedNotRunning DEF To, Rescue, Running
  <2>3. CASE container' = None /\ To(s, "run")
    BY <2>3 DEF To, Rescue
  <2>4. CASE At(s, "run") /\ container' = NewContainer(s, Launched(Doc))
    BY <1>1, <1>4, <2>4, RunsDocument, SameEndpoint DEF Served, Running, Matches
  <2> QED
    BY <1>1, <2>1, <2>2, <2>3, <2>4, MoveContainer
<1> QED
  BY <1>3, <1>4

\* In a round of stops, what is left is one more shell's to remove.
StopsAgree ==
    During("stop") =>
        /\ container # None => \E s \in Shells : Active(s)
        /\ \A s \in Shells : At(s, "remove") => container = None \/ Removable

LEMMA BeginKeepsStopsAgree ==
    ASSUME TypeInv, RoundTyped, StopsAgree, NEW s \in Shells, CalmBegin(s)
    PROVE  StopsAgree'
<1> SUFFICES ASSUME During("stop")'
             PROVE  /\ Active(s)'
                    /\ \A t \in Shells : At(t, "remove")' => (container = None \/ Removable)'
  BY DEF StopsAgree
<1>1. Active(s)' /\ ~At(s, "remove")'
  BY DEF CalmBegin, Active, At
<1>2. (container = None \/ Removable)' <=> (container = None \/ Removable)
  BY DEF CalmBegin, Removable
<1>3. ASSUME NEW t \in Shells \ {s}, At(t, "remove")'
      PROVE  container = None \/ Removable
  <2>1. ~Quiet /\ At(t, "remove")
    BY <1>3 DEF CalmBegin, At, Idle
  <2>2. During("stop")
    BY <2>1 DEF CalmBegin, During, RoundTyped
  <2> QED
    BY <2>1, <2>2 DEF StopsAgree
<1> QED
  BY <1>1, <1>2, <1>3

LEMMA MoveKeepsStopsAgree ==
    ASSUME TypeInv, RoundTyped, AllUpToDate, NoLoop, StopsAgree, NEW s \in Shells, CalmMove(s),
           round' = round
    PROVE  StopsAgree'
<1> SUFFICES ASSUME During("stop")
             PROVE  /\ container' # None => \E t \in Shells : Active(t)'
                    /\ \A t \in Shells : At(t, "remove")' => (container = None \/ Removable)'
  BY DEF StopsAgree, During
<1>1. Others(s) /\ Op(s) = "stop" /\ ~Restarting /\ round # None
  BY MoveShape DEF During, RoundTyped, NoLoop
<1>2. CASE CalmLookStop(s)
  <2>1. container' = container
    BY <1>2 DEF CalmLookStop
  <2>2. CASE container = None
    BY <2>1, <2>2
  <2>3. CASE container # None
    <3>1. Active(s)'
      BY <1>2, <2>3 DEF CalmLookStop, State, To, Active
    <3>2. ASSUME At(s, "remove")'
          PROVE  Removable
      <4>1. State # "running"
        BY <1>2, <3>2 DEF CalmLookStop, To, Ended, At
      <4> QED
        BY <1>1, <2>3, <4>1, NotRunning DEF State, Running
    <3>3. \A t \in Shells : At(t, "remove")' => Removable
      BY <1>1, <2>3, <3>2 DEF StopsAgree, Others, At
    <3> QED
      BY <2>1, <3>1, <3>3 DEF Removable
  <2> QED
    BY <2>2, <2>3
<1>3. CASE CalmStop(s)
  <2>1. CASE container = None
    BY <1>3, <2>1 DEF CalmStop
  <2>2. CASE container # None
    <3>1. Active(s)' /\ container' = Stopped
      BY <1>3, <2>2 DEF CalmStop, To, Active
    <3> QED
      BY <2>2, <3>1, StoppedNotRunning DEF Removable
  <2> QED
    BY <2>1, <2>2
<1>4. CASE CalmRemove(s)
  <2>1. container = None \/ Removable
    BY <1>4 DEF CalmRemove, StopsAgree
  <2> QED
    BY <1>4, <2>1 DEF CalmRemove
<1> QED
  BY <1>1, <1>2, <1>3, <1>4, AtMeansStart
     DEF CalmMove, CalmValidate, CalmHash, CalmInspect, CalmLabel, CalmImage, CalmIdentify,
         CalmLookAgain, CalmRun, At

-----------------------------------------------------------------------------
(* A lone command succeeds *)

Alone(s) == \A t \in Shells : Active(t) => t = s

\* Nobody gets between what a lone command has seen and what it does.
LoneStop(s) ==
    /\ At(s, "stop") => container # None
    /\ At(s, "remove") => Removable
    /\ At(s, "done") => shell[s].outcome = "ok"

LoneStart(s) ==
    /\ shell[s].pc \in {"label", "image", "identify", "stop"} => container # None
    /\ At(s, "remove") => Removable
    /\ At(s, "run") => container = None
    /\ At(s, "done") => shell[s].outcome = "ok"

LoneWorks(s) ==
    /\ Alone(s)
    /\ round.op = "stop" => LoneStop(s)
    /\ round.op = "start" /\ Valid => LoneStart(s)

LoneInv == round # None /\ round.lone /\ ~round.looping => \E s \in Shells : LoneWorks(s)

LEMMA BeginKeepsLone ==
    ASSUME TypeInv, RoundTyped, NEW s \in Shells, CalmBegin(s)
    PROVE  LoneInv'
<1>1. CASE Quiet
  <2>1. LoneWorks(s)'
    BY <1>1 DEF CalmBegin, Alone, Active, At, Idle, LoneWorks, LoneStop, LoneStart
  <2> QED
    BY <2>1 DEF LoneInv
<1>2. CASE ~Quiet
  BY <1>2 DEF CalmBegin, LoneInv, RoundTyped
<1> QED
  BY <1>1, <1>2

LEMMA MoveKeepsLoneStop ==
    ASSUME TypeInv, ~Restarting, NEW s \in Shells, CalmMove(s), Op(s) = "stop", LoneStop(s)
    PROVE  LoneStop(s)'
<1>1. CASE CalmLookStop(s)
  <2>1. container' = container /\ Removable' = Removable
    BY <1>1 DEF CalmLookStop, Removable
  <2>2. CASE State = "absent"
    BY <1>1, <2>2 DEF CalmLookStop, LoneStop, Ended, At
  <2>3. CASE State = "running"
    BY <1>1, <2>1, <2>3 DEF CalmLookStop, LoneStop, To, At, State
  <2>4. CASE State = "stopped"
    <3>1. Removable
      BY <2>4, StateMeans
    <3> QED
      BY <1>1, <2>1, <2>4, <3>1 DEF CalmLookStop, LoneStop, To, At
  <2> QED
    BY <2>2, <2>3, <2>4 DEF State
<1>2. CASE CalmStop(s)
  BY <1>2, StoppedNotRunning DEF CalmStop, To, At, LoneStop, Removable
<1>3. CASE CalmRemove(s)
  BY <1>3 DEF CalmRemove, Ended, At, LoneStop
<1> QED
  BY <1>1, <1>2, <1>3, AtMeansStart
     DEF CalmMove, CalmValidate, CalmHash, CalmInspect, CalmLabel, CalmImage, CalmIdentify,
         CalmLookAgain, CalmRun, At

LEMMA MoveKeepsLoneStart ==
    ASSUME TypeInv, ~Restarting, Valid, NEW s \in Shells, CalmMove(s), Op(s) = "start", LoneStart(s)
    PROVE  LoneStart(s)'
<1>1. CASE CalmValidate(s) \/ CalmHash(s)
  BY <1>1 DEF CalmValidate, CalmHash, At, LoneStart
<1>2. CASE CalmInspect(s) \/ CalmLookAgain(s)
  <2>1. Removable' = Removable /\ container' = container
    BY <1>2 DEF CalmInspect, CalmLookAgain, Removable
  <2>2. \/ shell'[s].pc \in {"label", "stop"} /\ container # None
        \/ shell'[s].pc = "remove" /\ Removable
        \/ shell'[s].pc = "look again"
        \/ shell'[s].pc = "run" /\ container = None
    BY <1>2, StateMeans DEF CalmInspect, CalmLookAgain, To, Replace, Running
  <2> QED
    BY <2>1, <2>2 DEF LoneStart, At
<1>3. CASE CalmLabel(s) \/ CalmImage(s)
  <2>1. container # None /\ container' = container
    BY <1>3 DEF CalmLabel, CalmImage, At, LoneStart
  <2>2. shell'[s].pc \in {"identify", "image", "look again", "stop"}
    BY <1>3 DEF CalmLabel, CalmImage, To, Replace
  <2> QED
    BY <2>1, <2>2 DEF LoneStart, At
<1>4. CASE CalmIdentify(s)
  BY <1>4 DEF CalmIdentify, Ended, At, LoneStart
<1>5. CASE CalmRun(s)
  BY <1>5 DEF CalmRun, Ended, At, LoneStart
<1>6. CASE CalmStop(s)
  BY <1>6, StoppedNotRunning DEF CalmStop, To, At, LoneStart, Removable
<1>7. CASE CalmRemove(s)
  BY <1>7 DEF CalmRemove, To, At, LoneStart
<1> QED
  BY <1>1, <1>2, <1>3, <1>4, <1>5, <1>6, <1>7 DEF CalmMove, CalmLookStop

LEMMA MoveKeepsLone ==
    ASSUME TypeInv, RoundTyped, AllUpToDate, NoLoop, LoneInv, NEW s \in Shells, CalmMove(s),
           round' = round, UNCHANGED <<endpoint, document, locked>>
    PROVE  LoneInv'
<1> SUFFICES ASSUME round # None, round.lone, ~round.looping
             PROVE  \E t \in Shells : LoneWorks(t)'
  BY DEF LoneInv
<1>1. PICK t \in Shells : LoneWorks(t)
  BY DEF LoneInv
<1>2. t = s /\ Others(s) /\ SameOp(s) /\ Op(s) = round.op
  BY <1>1, MoveShape DEF LoneWorks, Alone, RoundTyped
<1>3. Alone(s)'
  BY <1>1, <1>2 DEF LoneWorks, Alone, Others, Active
<1>4. ~Restarting
  BY DEF NoLoop
<1>5. round'.op = "stop" => LoneStop(s)'
  BY <1>1, <1>2, <1>4, MoveKeepsLoneStop DEF LoneWorks
<1>6. round'.op = "start" /\ Valid' => LoneStart(s)'
  BY <1>1, <1>2, <1>4, MoveKeepsLoneStart, SameEndpoint DEF LoneWorks
<1> QED
  BY <1>3, <1>5, <1>6 DEF LoneWorks

-----------------------------------------------------------------------------
(* The invariant of the rounds *)

RoundInv ==
    RoundTyped /\ AllUpToDate /\ NoLoop /\ AllHonest /\ StartsAgree /\ StopsAgree /\ LoneInv

LEMMA NoRound == RoundTyped /\ round = None => RoundInv
  BY DEF RoundInv, AllUpToDate, NoLoop, AllHonest, StartsAgree, StopsAgree, During, LoneInv

LEMMA RoundInvStep == TypeInv /\ RoundInv /\ [Next]_vars => RoundInv'
<1> SUFFICES ASSUME TypeInv, RoundInv, [Next]_vars
             PROVE  RoundInv'
  OBVIOUS
<1>1. CASE round' = None
  BY <1>1 DEF RoundInv, RoundTyped, AllUpToDate, NoLoop, AllHonest, StartsAgree, StopsAgree,
     During, LoneInv
<1>2. CASE round' # None /\ Next
  <2>1. PICK s \in Shells : CalmBegin(s) \/ (CalmMove(s) /\ round' = round)
    BY <1>2, RoundIsCalm DEF RoundInv
  <2>2. UNCHANGED <<endpoint, document, locked>>
    BY <1>2, RoundIsCalm DEF RoundInv
  <2>3. CASE CalmBegin(s)
    BY <2>2, <2>3, BeginKeepsRoundTyped, BeginKeepsUpToDate, BeginKeepsNoLoop,
       BeginKeepsHonest, BeginKeepsStartsAgree, BeginKeepsStopsAgree, BeginKeepsLone DEF RoundInv
  <2>4. CASE CalmMove(s) /\ round' = round
    BY <2>2, <2>4, MoveKeepsRoundTyped, MoveKeepsUpToDate, MoveKeepsNoLoop,
       MoveKeepsHonest, MoveKeepsStartsAgree, MoveKeepsStopsAgree, MoveKeepsLone DEF RoundInv
  <2> QED
    BY <2>1, <2>3, <2>4
<1>3. CASE UNCHANGED vars
  <2> USE <1>3 DEF vars, endpoint
  <2>1. RoundTyped' /\ AllUpToDate' /\ NoLoop' /\ AllHonest'
    BY DEF RoundInv, RoundTyped, AllUpToDate, UpToDate, NoLoop, Restarting, AllHonest, Honest,
           Active, Op, At, Doc, Valid, Whole
  <2>2. StartsAgree' /\ StopsAgree'
    BY DEF RoundInv, StartsAgree, StopsAgree, LabelFound, During, Served, Running, Matches, Rescue,
           Removable, Active, At, Doc, Valid, Whole
  <2>3. LoneInv'
    BY DEF RoundInv, LoneInv, LoneWorks, Alone, LoneStop, LoneStart, Active, At, Doc, Valid, Whole,
           Removable
  <2> QED
    BY <2>1, <2>2, <2>3 DEF RoundInv
<1> QED
  BY <1>1, <1>2, <1>3

LEMMA RoundInvInitially == Init => RoundInv
  BY NoRound, RoundTypedInitially DEF Init

LEMMA EndpointInv == Spec => [](TypeInv /\ RoundInv)
<1>1. Init => TypeInv /\ RoundInv
  BY TypeInvInitially, RoundInvInitially
<1>2. TypeInv /\ RoundInv /\ [Next]_vars => (TypeInv /\ RoundInv)'
  BY TypeInvStep, RoundInvStep
<1> QED
  BY <1>1, <1>2, PTL DEF Spec

\* However the Docker calls of several starts, or of several stops, interleave
\* with no lock between them (lifecycle/docker.py and the start functions of the
\* three kernels): when all are over without a failure the stops have left no
\* container, and the starts a running one that serves the endpoint's document
\* and image, from whatever was there before but a restart loop.
THEOREM OverlappingCommandsAgree == Spec => []OverlapsAgree
<1>1. ASSUME TypeInv, RoundInv
      PROVE  OverlapsAgree
  <2>1. ASSUME Calm("start"), Valid
        PROVE  /\ container # None /\ container.status = "running"
               /\ Matches(Doc, locked) /\ (container.loaded = Doc \/ round.stale)
    <3>1. During("start") /\ \A s \in Shells : shell[s].pc = "done"
      BY <2>1 DEF Calm, Over, Quiet, Active, During
    <3>2. Served
      BY <1>1, <2>1, <3>1 DEF RoundInv, StartsAgree, Rescue
    <3>3. Honest
      BY <1>1, <3>1 DEF RoundInv, AllHonest, During
    <3> QED
      BY <3>2, <3>3 DEF Served, Running, Honest, Matches
  <2>2. ASSUME Calm("stop")
        PROVE  container = None
    BY <1>1, <2>2 DEF RoundInv, StopsAgree, During, Calm, Over, Quiet
  <2> QED
    BY <2>1, <2>2 DEF OverlapsAgree
<1> QED
  BY <1>1, EndpointInv, PTL

\* A command with nothing beside it succeeds, whatever earlier commands, failures
\* and processes have left of the container, but for a restart loop: none of its
\* Docker calls meets a name in use or a container that is not there.
THEOREM LoneCommandsSucceed == Spec => []LoneCommandSucceeds
<1>1. ASSUME TypeInv, RoundInv
      PROVE  LoneCommandSucceeds
  <2>1. ASSUME Calm("stop") \/ (Calm("start") /\ Valid), round.lone
        PROVE  \E s \in Shells : shell[s].outcome = "ok"
    <3>1. /\ round # None /\ ~round.looping /\ Quiet
          /\ round.op = "stop" \/ (round.op = "start" /\ Valid)
      BY <2>1 DEF Calm, Over
    <3>2. PICK s \in Shells : LoneWorks(s)
      BY <1>1, <2>1, <3>1 DEF RoundInv, LoneInv
    <3>3. At(s, "done")
      BY <3>1 DEF Quiet, Active, At
    <3> QED
      BY <3>1, <3>2, <3>3 DEF LoneWorks, LoneStop, LoneStart
  <2> QED
    BY <2>1 DEF LoneCommandSucceeds
<1> QED
  BY <1>1, EndpointInv, PTL

-----------------------------------------------------------------------------
(* Which containers a stop can fail to stop *)

\* Docker restarts no server, so no round of a server's commands finds a loop.
NoServerLoops == side = "server" => ~Restarting /\ (round # None => ~round.looping)

LEMMA NoServerLoopsStep == TypeInv /\ RoundTyped /\ NoServerLoops /\ [Next]_vars => NoServerLoops'
<1> SUFFICES ASSUME TypeInv, RoundTyped, NoServerLoops, [Next]_vars, side' = "server"
             PROVE  ~Restarting' /\ (round' # None => ~round'.looping)
  BY DEF NoServerLoops
<1>1. side = "server"
  BY DEF Next, Render, BeginRender, RenderRaises, OpenDocument, WriteDocument, Start, BeginStart,
         Validate, HashDocument, InspectForStart, Sees, ReadLabel, ReadImage, Identify, LookAgain,
         RunContainer, Stop, BeginStop, InspectForStop, StopContainer, RemoveContainer, Interrupt,
         LockImage, ProcessExits, ProcessRestarts, endpoint, vars
<1>2. ~Restarting /\ (round # None => ~round.looping)
  BY <1>1 DEF NoServerLoops
<1>3. Launched(Doc) \in {"running", "exited"}
  BY <1>1 DEF Launched
<1>4. ASSUME NEW s \in Shells, NEW op \in {"render", "start", "stop"},
             NEW first, NEW hash, NEW image, Begin(s, op, first, hash, image), round' # None
      PROVE  ~round'.looping
  <2>1. CASE Quiet /\ op # "render"
    <3> DEFINE stale == container # None /\ container.label # container.loaded
    <3>1. round' = [op |-> op, lone |-> TRUE, looping |-> Restarting, stale |-> stale]
      BY <1>4, <2>1 DEF Begin
    <3> HIDE DEF stale
    <3> QED
      BY <1>2, <3>1
  <2>2. CASE ~(Quiet /\ op # "render")
    <3>1. round # None /\ round' = [round EXCEPT !.lone = FALSE]
      BY <1>4, <2>2 DEF Begin
    <3> QED
      BY <1>2, <3>1 DEF RoundTyped
  <2> QED
    BY <2>1, <2>2
<1>5. ASSUME NEW s \in Shells, Render(s) \/ Start(s) \/ Stop(s) \/ Interrupt(s)
      PROVE  /\ \/ container' = container \/ container' = None
                \/ container # None /\ container' = Stopped
                \/ /\ At(s, "run")
                   /\ \E status \in {"created", Launched(Doc)} :
                         container' = NewContainer(s, status)
             /\ round' # None => ~round'.looping
  <2>1. CASE BeginRender(s) \/ BeginStart(s) \/ BeginStop(s)
    BY <1>4, <2>1 DEF BeginRender, BeginStart, BeginStop
  <2>2. CASE RenderRaises(s) \/ OpenDocument(s) \/ WriteDocument(s) \/ Interrupt(s)
    BY <1>2, <2>2 DEF RenderRaises, OpenDocument, WriteDocument, Interrupt, Disturb
  <2>3. CASE \/ Validate(s) \/ HashDocument(s) \/ InspectForStart(s) \/ ReadLabel(s)
             \/ ReadImage(s) \/ Identify(s) \/ LookAgain(s) \/ InspectForStop(s)
    BY <1>2, <2>3 DEF Validate, HashDocument, InspectForStart, Sees, ReadLabel, ReadImage, Identify,
       LookAgain, InspectForStop, Disturb
  <2>4. CASE RunContainer(s)
    BY <1>2, <2>4 DEF RunContainer, Disturb
  <2>5. CASE StopContainer(s) \/ RemoveContainer(s)
    BY <1>2, <2>5 DEF StopContainer, RemoveContainer, Disturb
  <2> QED
    BY <1>5, <2>1, <2>2, <2>3, <2>4, <2>5 DEF Render, Start, Stop
<1>6. ASSUME NEW s \in Shells, Render(s) \/ Start(s) \/ Stop(s) \/ Interrupt(s)
      PROVE  ~Restarting'
  <2>1. CASE container' = container \/ container' = None
    BY <1>2, <2>1 DEF Restarting
  <2>2. CASE container # None /\ container' = Stopped
    BY <2>2, StoppedNotRunning DEF Restarting
  <2>3. ASSUME NEW status \in {"created", Launched(Doc)}, container' = NewContainer(s, status)
        PROVE  ~Restarting'
    BY <1>3, <2>3 DEF NewContainer, Restarting
  <2> QED
    BY <1>5, <1>6, <2>1, <2>2, <2>3
<1>7. CASE LockImage
  BY <1>2, <1>7 DEF LockImage, Disturb, Restarting
<1>8. CASE ProcessExits
  <2>1. container \in Container
    BY <1>8 DEF ProcessExits, TypeInv, ContainerOK
  <2> QED
    BY <1>1, <1>8, <2>1 DEF ProcessExits, Disturb, Restarting, Container
<1>9. CASE ProcessRestarts
  BY <1>2, <1>9 DEF ProcessRestarts
<1>10. CASE UNCHANGED vars
  BY <1>2, <1>10 DEF vars, Restarting
<1> QED
  BY <1>5, <1>6, <1>7, <1>8, <1>9, <1>10 DEF Next

\* What docs/zh/proxy-capture.md:247 expects of a stop, that it stops whatever
\* there is, holds of every server: container_state (docker.py:26) is only wrong
\* about a client.
THEOREM ServersAreStopped == Spec => [](side = "server" => StopsAnyContainer)
<1>1. Init => NoServerLoops
  BY DEF Init, NoServerLoops, Restarting
<1>2. (TypeInv /\ RoundInv) /\ NoServerLoops /\ [Next]_vars => NoServerLoops'
  BY NoServerLoopsStep DEF RoundInv
<1>3. (TypeInv /\ RoundInv) /\ NoServerLoops => (side = "server" => StopsAnyContainer)
  BY DEF RoundInv, StopsAgree, NoServerLoops, StopsAnyContainer, During, Over, Quiet
<1> QED
  BY <1>1, <1>2, <1>3, EndpointInv, PTL DEF Spec
=============================================================================
