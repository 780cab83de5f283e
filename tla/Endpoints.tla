----------------------------- MODULE Endpoints -----------------------------
(***************************************************************************)
(* The lifecycle commands of one endpoint: `lab <kernel> render` and       *)
(* `lab server|client start|stop` for the three kernels, over a Docker     *)
(* daemon whose commands may fail at any time.                             *)
(*                                                                         *)
(* Several shells may run commands at once and nothing locks the           *)
(* documents or the container between two Docker calls.  A container       *)
(* mounts its document by inode, so its process loads whatever the file    *)
(* holds when Docker starts it, while the label keeps the hash the start   *)
(* command took.  A hash is the document itself here.                      *)
(*                                                                         *)
(* The secrets are given: rendering a case twice gives the same documents. *)
(* The permissions of the files are not modelled.                          *)
(***************************************************************************)
EXTENDS FiniteSets

CONSTANTS
    Shells,       \* terminals in which lab runs
    Cases,        \* the cases that are rendered, as different documents
    Images,       \* images the kernel's name may be locked to
    None          \* no file, no container, nothing read yet

Xray == "xray-core"
Hysteria2 == "hysteria2"
Native == "shadowsocksr-native"
Cores == {Xray, Hysteria2, Native}
Sides == {"server", "client"}

\* A file that was opened for writing and not written yet.
Torn == "torn"

\* What a document holds, and what Docker knows of a container.
Contents == Cases \cup {Torn}
Container == [status: {"created", "running", "restarting", "exited"},
              label: Contents, image: Images, loaded: Contents]

ASSUME CasesAssumption == Torn \notin Cases /\ None \notin Contents /\ None \notin Container

VARIABLES
    core, side,   \* the endpoint whose container is looked at
    document,     \* the generated documents of the kernel, per side
    locked,       \* the image its lock file, or its local tag, names
    container,    \* the container of that name, as Docker knows it
    shell,        \* per shell: the command and what it has read
    round         \* history: the round of commands since all shells were idle, or None

endpoint == <<core, side>>
vars == <<core, side, document, locked, container, shell, round>>

Whole(content) == content \in Cases
Doc == document[side]

-----------------------------------------------------------------------------
(* Shells *)

Active(s) == shell[s].pc # "done"
Quiet == \A s \in Shells : ~Active(s)
At(s, step) == shell[s].pc = step
Op(s) == shell[s].op

Goto(s, step) == shell' = [shell EXCEPT ![s].pc = step]

Ends(s, outcome) ==
    shell' = [shell EXCEPT ![s].pc = "done", ![s].outcome = outcome,
                           ![s].hash = None, ![s].image = None]

Matches(hash, image) ==
    container.label = hash /\ (core # Xray => container.image = image)

Restarting == container # None /\ container.status = "restarting"

Idle == [op |-> None, pc |-> "done", outcome |-> None, hash |-> None, image |-> None]

\* A command begins; first is its first step.  A round of stops or of starts is
\* worth looking back at until something else happens.
Begin(s, op, first, hash, image) ==
    /\ ~Active(s)
    /\ shell' = [t \in Shells |->
          IF t = s THEN [op |-> op, pc |-> first, outcome |-> None, hash |-> hash, image |-> image]
          ELSE IF Quiet THEN Idle ELSE shell[t]]
    /\ round' =
        IF Quiet /\ op # "render"
        THEN [op |-> op, lone |-> TRUE, looping |-> Restarting,
              stale   |-> container # None /\ container.label # container.loaded]
        ELSE IF round # None /\ round.op = op /\ ~Quiet
             THEN [round EXCEPT !.lone = FALSE]
             ELSE None

Disturb == round' = None

-----------------------------------------------------------------------------
(* Rendering: both documents are written in place, the server's first *)

BeginRender(s) ==
    /\ \E c \in Cases : Begin(s, "render", "open server", c, None)
    /\ UNCHANGED <<endpoint, document, locked, container>>

\* Material or arguments are refused.  Xray renders the client's document when
\* the server's is already written.
RenderRaises(s) ==
    /\ At(s, "open server") \/ (At(s, "open client") /\ core = Xray)
    /\ Ends(s, "error")
    /\ UNCHANGED <<endpoint, document, locked, container, round>>

Opens(s, x) == At(s, IF x = "server" THEN "open server" ELSE "open client")
Writes(s, x) == At(s, IF x = "server" THEN "write server" ELSE "write client")

OpenDocument(s) ==
    /\ \E x \in Sides :
          /\ Opens(s, x)
          /\ document' = [document EXCEPT ![x] = Torn]
          /\ Goto(s, IF x = "server" THEN "write server" ELSE "write client")
    /\ UNCHANGED <<endpoint, locked, container, round>>

WriteDocument(s) ==
    /\ \E x \in Sides :
          /\ Writes(s, x)
          /\ document' = [document EXCEPT ![x] = shell[s].hash]
          /\ IF x = "server" THEN Goto(s, "open client") ELSE Ends(s, "ok")
    /\ UNCHANGED <<endpoint, locked, container, round>>

-----------------------------------------------------------------------------
(* Starting *)

\* A new image is locked, pulled or built.
LockImage ==
    /\ locked' \in Images \ {locked}
    /\ Disturb
    /\ UNCHANGED <<endpoint, document, container, shell>>

BeginStart(s) ==
    /\ Begin(s, "start", "validate", None, locked)
    /\ UNCHANGED <<endpoint, document, locked, container>>

\* Mutant of Valid: a missing document is left for Docker to find.
NotTorn == Doc # Torn

\* A Hysteria 2 server is validated with its client, an Xray server beside it.
\* The cases differ in what a Hysteria 2 pair must share.
Valid ==
    /\ Whole(Doc)
    /\ side = "server" /\ core # Native => \A x \in Sides : Whole(document[x])
    /\ side = "server" /\ core = Hysteria2 => document["server"] = document["client"]

\* Xray tests the server's configuration in a container and looks for the
\* client's image; a Hysteria 2 server executes its image.
ValidatesInDocker == core = Xray \/ (core = Hysteria2 /\ side = "server")

\* An Xray client takes its image by tag, after the document is validated.
Validated(s) ==
    shell' = [shell EXCEPT ![s].pc = "hash",
                           ![s].image = IF core = Xray /\ side = "client" THEN locked ELSE @]

Validate(s) ==
    /\ At(s, "validate")
    /\ \/ Valid /\ Validated(s) /\ UNCHANGED round
       \/ ~Valid /\ Ends(s, "error") /\ UNCHANGED round
       \/ ValidatesInDocker /\ Ends(s, "error") /\ Disturb
    /\ UNCHANGED <<endpoint, document, locked, container>>

HashDocument(s) ==
    /\ At(s, "hash")
    /\ shell' = [shell EXCEPT ![s].hash = Doc, ![s].pc = "inspect"]
    /\ UNCHANGED <<endpoint, document, locked, container, round>>

\* container_state: all but running is stopped.
State == IF container = None THEN "absent"
         ELSE IF container.status = "running" THEN "running" ELSE "stopped"

\* container_state again, where a failing docker inspect means "absent".
Sees(s, steps) ==
    /\ \/ Goto(s, steps[State]) /\ UNCHANGED round
       \/ Goto(s, steps["absent"]) /\ Disturb
    /\ UNCHANGED <<endpoint, document, locked, container>>

\* The helper that replaces a container: Xray goes on from the state it has
\* seen, the others call stop_container, which looks again.
Replace(seen) ==
    IF core # Xray THEN "look again" ELSE IF seen = "running" THEN "stop" ELSE "remove"

InspectForStart(s) ==
    /\ At(s, "inspect") /\ Op(s) = "start"
    /\ Sees(s, [running |-> "label", stopped |-> Replace("stopped"), absent |-> "run"])

\* container_label; a failure reads as another label.
ReadLabel(s) ==
    /\ At(s, "label")
    /\ LET same == container # None /\ container.label = shell[s].hash
       IN \/ /\ same
             /\ Goto(s, IF core = Xray THEN "identify" ELSE "image")
             /\ UNCHANGED round
          \/ ~same /\ Goto(s, Replace("running")) /\ UNCHANGED round
          \/ Goto(s, Replace("running")) /\ Disturb
    /\ UNCHANGED <<endpoint, document, locked, container>>

\* Mutant of ReadImage: the image is not compared.
IgnoreImage(s) ==
    /\ At(s, "image")
    /\ Goto(s, "identify")
    /\ UNCHANGED <<endpoint, document, locked, container, round>>

\* container_image
ReadImage(s) ==
    /\ At(s, "image")
    /\ LET same == container # None /\ container.image = shell[s].image
       IN \/ same /\ Goto(s, "identify") /\ UNCHANGED round
          \/ ~same /\ Goto(s, Replace("running")) /\ UNCHANGED round
          \/ Goto(s, Replace("running")) /\ Disturb
    /\ UNCHANGED <<endpoint, document, locked, container>>

\* container_id: the command is done, whatever the container is doing by now.
Identify(s) ==
    /\ At(s, "identify")
    /\ \/ Ends(s, IF container = None THEN "error" ELSE "ok") /\ UNCHANGED round
       \/ Ends(s, "error") /\ Disturb
    /\ UNCHANGED <<endpoint, document, locked, container>>

\* The process of a container starts: it needs a whole document.
Launched(content) ==
    IF Whole(content) THEN "running" ELSE IF side = "client" THEN "restarting" ELSE "exited"

NewContainer(s, status) ==
    [status |-> status, label |-> shell[s].hash, image |-> shell[s].image, loaded |-> Doc]

\* docker run: the name must be free.  A failure may leave the container
\* created, and a timeout may leave it running.
RunContainer(s) ==
    /\ At(s, "run")
    /\ \/ /\ container = None
          /\ container' = NewContainer(s, Launched(Doc))
          /\ Ends(s, "ok") /\ UNCHANGED round
       \/ container # None /\ UNCHANGED <<container, round>> /\ Ends(s, "error")
       \/ /\ \/ UNCHANGED container
             \/ /\ container = None
                /\ \E status \in {"created", Launched(Doc)} :
                      container' = NewContainer(s, status)
          /\ Ends(s, "error") /\ Disturb
    /\ UNCHANGED <<endpoint, document, locked>>

-----------------------------------------------------------------------------
(* Stopping *)

BeginStop(s) ==
    /\ Begin(s, "stop", "inspect", None, None)
    /\ UNCHANGED <<endpoint, document, locked, container>>

\* stop_container as a command of its own: nothing is done for "absent".
InspectForStop(s) ==
    /\ At(s, "inspect") /\ Op(s) = "stop"
    /\ \/ State # "absent" /\ Goto(s, IF State = "running" THEN "stop" ELSE "remove")
          /\ UNCHANGED round
       \/ State = "absent" /\ Ends(s, "ok") /\ UNCHANGED round
       \/ Ends(s, "ok") /\ Disturb
    /\ UNCHANGED <<endpoint, document, locked, container>>

\* stop_container inside a start.
LookAgain(s) ==
    /\ At(s, "look again")
    /\ Sees(s, [running |-> "stop", stopped |-> "remove", absent |-> "run"])

Stopped == [container EXCEPT !.status = IF @ \in {"running", "restarting"} THEN "exited" ELSE @]

\* Mutant of StopContainer: Xray does not note that what it stopped is still there.
StopWithoutRemove(s) ==
    /\ At(s, "stop") /\ container # None
    /\ container' = Stopped
    /\ Goto(s, IF core = Xray /\ Op(s) = "start" THEN "run" ELSE "remove")
    /\ UNCHANGED <<endpoint, document, locked, round>>

\* docker stop
StopContainer(s) ==
    /\ At(s, "stop")
    /\ \/ /\ container # None /\ container' = Stopped
          /\ Goto(s, "remove") /\ UNCHANGED round
       \/ container = None /\ UNCHANGED <<container, round>> /\ Ends(s, "error")
       \/ /\ container' \in {container, IF container = None THEN None ELSE Stopped}
          /\ Ends(s, "error") /\ Disturb
    /\ UNCHANGED <<endpoint, document, locked>>

Removable == container # None /\ container.status \in {"created", "exited"}

AfterRemove(s) == IF Op(s) = "start" THEN Goto(s, "run") ELSE Ends(s, "ok")

\* docker rm: refused for a container that is running or restarting.
RemoveContainer(s) ==
    /\ At(s, "remove")
    /\ \/ Removable /\ container' = None /\ AfterRemove(s) /\ UNCHANGED round
       \/ ~Removable /\ UNCHANGED <<container, round>> /\ Ends(s, "error")
       \/ /\ container' \in {container, IF Removable THEN None ELSE container}
          /\ Ends(s, "error") /\ Disturb
    /\ UNCHANGED <<endpoint, document, locked>>

-----------------------------------------------------------------------------
(* What happens besides the commands *)

\* Ctrl+C, or the terminal is closed.
Interrupt(s) ==
    /\ Active(s)
    /\ Ends(s, "error")
    /\ Disturb
    /\ UNCHANGED <<endpoint, document, locked, container>>

\* Docker restarts clients ("unless-stopped") and no servers.
ProcessExits ==
    /\ container # None /\ container.status = "running"
    /\ container' = [container EXCEPT !.status = IF side = "client" THEN "restarting" ELSE "exited"]
    /\ Disturb
    /\ UNCHANGED <<endpoint, document, locked, shell>>

ProcessRestarts ==
    /\ Restarting
    /\ container' = [container EXCEPT !.status = Launched(Doc), !.loaded = Doc]
    /\ Disturb
    /\ UNCHANGED <<endpoint, document, locked, shell>>

-----------------------------------------------------------------------------
Init ==
    /\ core \in Cores /\ side \in Sides
    /\ document = [x \in Sides |-> None]
    /\ locked \in Images
    /\ container = None
    /\ shell = [s \in Shells |-> Idle]
    /\ round = None

Render(s) == BeginRender(s) \/ RenderRaises(s) \/ OpenDocument(s) \/ WriteDocument(s)

Start(s) ==
    \/ BeginStart(s) \/ Validate(s) \/ HashDocument(s) \/ InspectForStart(s)
    \/ ReadLabel(s) \/ ReadImage(s) \/ Identify(s) \/ LookAgain(s) \/ RunContainer(s)

Stop(s) == BeginStop(s) \/ InspectForStop(s) \/ StopContainer(s) \/ RemoveContainer(s)

Next ==
    \/ \E s \in Shells : Render(s) \/ Start(s) \/ Stop(s) \/ Interrupt(s)
    \/ LockImage \/ ProcessExits \/ ProcessRestarts

Spec == Init /\ [][Next]_vars

-----------------------------------------------------------------------------
(* Properties *)

Steps == {"open server", "write server", "open client", "write client", "validate", "hash",
          "inspect", "label", "image", "identify", "look again", "stop", "remove", "run", "done"}

TypeOK ==
    /\ core \in Cores /\ side \in Sides
    /\ document \in [Sides -> Contents \cup {None}]
    /\ locked \in Images
    /\ container \in Container \cup {None}
    /\ \A s \in Shells :
          /\ shell[s].op \in {"render", "start", "stop", None} /\ shell[s].pc \in Steps
          /\ shell[s].outcome \in {"ok", "error", None}
          /\ shell[s].hash \in Contents \cup {None} /\ shell[s].image \in Images \cup {None}

\* All shells are idle after commands of one kind, while no Docker command
\* failed, nothing was interrupted and no process ended.
Over(op) == Quiet /\ round # None /\ round.op = op

\* The same, and they did not find a client in a restart loop.
Calm(op) == Over(op) /\ ~round.looping

\* Commands of one kind that overlap may fail, stop each other's container and
\* remove it, but when all are over the endpoint is what each of them was to
\* make it, whatever remains of earlier failures they found.  After stops
\* nothing is left.  After starts a container runs, with the label of the
\* document and, but for Xray, the locked image, and its process serves that
\* document unless an earlier render had already slipped another one under the
\* label.
OverlapsAgree ==
    /\ Calm("start") /\ Valid =>
          /\ container # None /\ container.status = "running"
          /\ Matches(Doc, locked) /\ (container.loaded = Doc \/ round.stale)
    /\ Calm("stop") => container = None

\* A command that has the endpoint for itself succeeds, whatever is left of
\* earlier commands: a created, exited or foreign container is in nobody's way.
LoneCommandSucceeds ==
    (Calm("stop") \/ (Calm("start") /\ Valid)) /\ round.lone =>
        \E s \in Shells : shell[s].outcome = "ok"

\* Switching a case begins with `lab client stop` (proxy-capture.md:247), which
\* should stop any client.
StopsAnyContainer == Over("stop") => container = None
=============================================================================
