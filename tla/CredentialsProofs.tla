------------------------- MODULE CredentialsProofs -------------------------
(***************************************************************************)
(* Every case that composes is rendered into documents that fit, and the   *)
(* documents that the commands of any number of shells leave behind serve  *)
(* each other, with secrets that are not replaced.                         *)
(***************************************************************************)
EXTENDS Credentials, TLAPS

-----------------------------------------------------------------------------
(* The pair of documents of a case *)

\* What the renderers look at in a case.
Compositions ==
    {<<"shadowsocks", "raw", "shadowsocks-2022">>, <<"vmess", "websocket", "tls">>,
     <<"vmess", "xhttp", "tls">>, <<"vless", "raw", "reality">>, <<"vless", "xhttp", "reality">>,
     <<"trojan", "raw", "tls">>, <<"trojan", "websocket", "tls">>}

\* Every case that composes for Xray has a renderer.
LEMMA EveryXrayCaseHasARenderer ==
    ASSUME NEW c \in ComposableCases, c.core = Xray
    PROVE  Composition(c) \in Compositions
<1>1. PICK rule \in Rules : c \in Composed(rule)
  BY DEF ComposableCases
<1>2. /\ c.protocol = rule.protocol /\ c.core = rule.core
      /\ c.transport = rule.transport /\ c.encryption = rule.encryption
  BY <1>1 DEF Composed
<1>3. rule.core = Xray
  BY <1>2
<1>4. <<rule.protocol, rule.transport, rule.encryption>> \in Compositions
  BY <1>3 DEF Rules, Rule, Compositions, Xray, Hysteria2, Native
<1> QED
  BY <1>2, <1>4 DEF Composition

LEMMA CoreOfCase ==
    ASSUME NEW c \in ComposableCases
    PROVE  c.core \in Cores
<1>1. PICK rule \in Rules : c \in Composed(rule)
  BY DEF ComposableCases
<1>2. c.core = rule.core
  BY <1>1 DEF Composed
<1>3. rule.core \in Cores
  BY DEF Rules, Rule, Cores
<1> QED
  BY <1>2, <1>3

\* The Xray documents of a composition fit for the certificate and the key that
\* are pinned.
LEMMA XrayDocumentsFit ==
    ASSUME NEW c, NEW m, Composition(c) \in Compositions
    PROVE  Serves(RenderXrayServer(c, m), RenderXrayClient(c, m), m.pin, m.pin)
<1>1. CASE Composition(c) = <<"shadowsocks", "raw", "shadowsocks-2022">>
  BY <1>1 DEF RenderXrayServer, RenderXrayClient, Serves, Shadowsocks2022Server,
              Shadowsocks2022Client, Shadowsocks2022, Document, Plain
<1>2. CASE Composition(c) = <<"vmess", "websocket", "tls">>
  BY <1>2 DEF RenderXrayServer, RenderXrayClient, Serves, VmessWebsocketTlsServer,
              VmessWebsocketTlsClient, Document, Files, Pinned
<1>3. CASE Composition(c) = <<"vmess", "xhttp", "tls">>
  BY <1>3 DEF RenderXrayServer, RenderXrayClient, Serves, VmessXhttpH2TlsServer,
              VmessXhttpH2TlsClient, Document, Files, Pinned
<1>4. CASE Composition(c) = <<"vless", "raw", "reality">>
  BY <1>4 DEF RenderXrayServer, RenderXrayClient, Serves, VlessRealityServer,
              VlessRealityClient, Document, Reality
<1>5. CASE Composition(c) = <<"vless", "xhttp", "reality">>
  BY <1>5 DEF RenderXrayServer, RenderXrayClient, Serves, VlessXhttpRealityServer,
              VlessXhttpRealityClient, Document, Reality
<1>6. CASE Composition(c) = <<"trojan", "raw", "tls">>
  BY <1>6 DEF RenderXrayServer, RenderXrayClient, Serves, TrojanRawTlsServer,
              TrojanRawTlsClient, Document, Files, Pinned
<1>7. CASE Composition(c) = <<"trojan", "websocket", "tls">>
  BY <1>7 DEF RenderXrayServer, RenderXrayClient, Serves, TrojanWebsocketTlsServer,
              TrojanWebsocketTlsClient, Document, Files, Pinned
<1> QED
  BY <1>1, <1>2, <1>3, <1>4, <1>5, <1>6, <1>7 DEF Compositions

\* For every case that composes, of any kernel, and for any material, the server
\* with the pinned certificate and its key serves the client: no composition is
\* without a renderer, and the two sides derive the same secrets, path, mode and
\* protocol (composition.py:46-81 against rendering.py:10-169).
THEOREM EveryCaseIsRenderedToFit ==
    ASSUME NEW c \in ComposableCases, NEW m
    PROVE  Serves(RenderServer(c, m), RenderClient(c, m), m.pin, m.pin)
<1>1. CASE c.core = Xray
  <2>1. Serves(RenderXrayServer(c, m), RenderXrayClient(c, m), m.pin, m.pin)
    BY <1>1, EveryXrayCaseHasARenderer, XrayDocumentsFit
  <2> QED
    BY <1>1, <2>1 DEF RenderServer, RenderClient, Xray, Hysteria2, Native
<1>2. CASE c.core = Hysteria2
  BY <1>2 DEF RenderServer, RenderClient, Xray, Hysteria2, Native, Serves,
              Hysteria2Server, Hysteria2Client, Document, Files, Pinned
<1>3. CASE c.core = Native
  BY <1>3 DEF RenderServer, RenderClient, Xray, Hysteria2, Native, Serves,
              ShadowsocksR, Document, Plain
<1> QED
  BY <1>1, <1>2, <1>3, CoreOfCase DEF Cores
-----------------------------------------------------------------------------
(* The types of what commands hold *)

DocumentSteps == {"server", "client"}
EnsureSteps == {"ensure reality", "ensure vless"}
PairSteps == {"reality pair", "vless pair"}
SaveSteps == {"open", "write"}

Command ==
    [op: {"init", "render", None}, pc: Steps, case: cases \cup {None}, material: Material \cup {None},
     draft: Material \cup Secret \cup {None}, next: {"done", "ensure vless", "server", None},
     alone: BOOLEAN]

\* What a command has at its steps.
Prepared(c) ==
    /\ c.pc \in {"key", "certificate", "fingerprint"} => c.op = "init"
    /\ c.pc \in EnsureSteps \cup PairSteps \cup DocumentSteps => c.op = "render"
    /\ c.pc \in SaveSteps =>
          \/ c.op = "init" /\ c.next = "done"
          \/ c.op = "render" /\ c.next \in {"ensure vless", "server"}
    /\ c.pc # "done" /\ c.op = "render" => c.case \in cases /\ c.material \in Material
    /\ c.pc = "certificate" => c.draft \in Secret
    /\ c.pc \in PairSteps \cup SaveSteps => c.draft \in Material

FilesOK ==
    /\ core \in Cores /\ cases \subseteq CasesOf(core) /\ made \in 0..MaxSecrets
    /\ key \in Secret \cup {None} /\ certificate \in Secret \cup {None}
    /\ identity \in Material \cup {None, Torn}
ShellsOK == shell \in [Shells -> Command] /\ \A s \in Shells : Prepared(shell[s])
DocumentsOK == document \in [Sides -> [case: cases, material: Material] \cup {None}]
HistoriesOK == raced \subseteq {"init", "render"} /\ rendered \in cases \cup {None}

TypeInv == FilesOK /\ ShellsOK /\ DocumentsOK /\ HistoriesOK

LEMMA TypesTell == TypeInv => TypeOK
<1> SUFFICES ASSUME TypeInv PROVE TypeOK
  OBVIOUS
<1>1. \A s \in Shells : shell[s] \in Command
  BY DEF TypeInv, ShellsOK
<1>2. \A s \in Shells :
        /\ shell[s].pc \in Steps /\ shell[s].op \in {"init", "render", None}
        /\ shell[s].case \in cases \cup {None} /\ shell[s].alone \in BOOLEAN
        /\ shell[s].material \in Material \cup {None}
  BY <1>1 DEF Command
<1>3. \A x \in Sides : document[x] # None =>
        document[x].case \in cases /\ document[x].material \in Material
  BY DEF TypeInv, DocumentsOK
<1> QED
  BY <1>2, <1>3 DEF TypeInv, TypeOK, FilesOK, HistoriesOK

LEMMA DrawnIsSecret == made \in 0..MaxSecrets /\ Draws(1) => made' \in Secret /\ made' \in 0..MaxSecrets
  BY BoundsAssumption DEF Draws, Secret

LEMMA NewIsMaterial ==
    ASSUME NEW id \in Secret, NEW pin \in Secret \cup {None}
    PROVE  NewIdentity(id, pin) \in Material
  BY DEF NewIdentity, Material

\* The command of s goes on with its case, and the others are where they were.
Proceeds(s, pc, draft, material, next) ==
    /\ shell' \in [Shells -> Command]
    /\ \A t \in Shells : t # s => shell'[t] = shell[t]
    /\ shell'[s].op = shell[s].op /\ shell'[s].case = shell[s].case /\ shell'[s].alone = shell[s].alone
    /\ shell'[s].pc = pc /\ shell'[s].draft = draft
    /\ shell'[s].material = material /\ shell'[s].next = next

Stops(s) ==
    /\ shell' \in [Shells -> Command]
    /\ \A t \in Shells : t # s => shell'[t] = shell[t]
    /\ shell'[s] = Idle

LEMMA ProceedsTells ==
    ASSUME ShellsOK, NEW s \in Shells, NEW pc \in Steps, NEW draft \in Material \cup Secret \cup {None},
           NEW material \in Material \cup {None}, NEW next \in {"done", "ensure vless", "server", None},
           shell' = [shell EXCEPT ![s] = [shell[s] EXCEPT !.pc = pc, !.draft = draft,
                                                          !.material = material, !.next = next]]
    PROVE  Proceeds(s, pc, draft, material, next)
<1>1. shell[s] \in Command
  BY DEF ShellsOK
<1> DEFINE c == [shell[s] EXCEPT !.pc = pc, !.draft = draft, !.material = material, !.next = next]
<1>2. /\ c \in Command /\ c.op = shell[s].op /\ c.case = shell[s].case /\ c.alone = shell[s].alone
      /\ c.pc = pc /\ c.draft = draft /\ c.material = material /\ c.next = next
  BY <1>1 DEF Command
<1> HIDE DEF c
<1>3. shell' = [shell EXCEPT ![s] = c]
  BY DEF c
<1>4. shell' \in [Shells -> Command] /\ shell'[s] = c /\ \A t \in Shells : t # s => shell'[t] = shell[t]
  BY <1>2, <1>3 DEF ShellsOK
<1> QED
  BY <1>2, <1>4 DEF Proceeds

LEMMA GotoProceeds ==
    ASSUME ShellsOK, NEW s \in Shells, NEW step \in Steps, Goto(s, step)
    PROVE  Proceeds(s, step, shell[s].draft, shell[s].material, shell[s].next)
<1>1. shell[s] \in Command
  BY DEF ShellsOK
<1>2. /\ shell[s].draft \in Material \cup Secret \cup {None}
      /\ shell[s].material \in Material \cup {None}
      /\ shell[s].next \in {"done", "ensure vless", "server", None}
  BY <1>1 DEF Command
<1>3. [shell[s] EXCEPT !.pc = step] =
        [shell[s] EXCEPT !.pc = step, !.draft = shell[s].draft,
                         !.material = shell[s].material, !.next = shell[s].next]
  BY <1>1 DEF Command
<1>4. shell' = [shell EXCEPT ![s] = [shell[s] EXCEPT !.pc = step]]
  BY DEF Goto
<1>5. shell' = [shell EXCEPT ![s] =
                   [shell[s] EXCEPT !.pc = step, !.draft = shell[s].draft,
                                    !.material = shell[s].material, !.next = shell[s].next]]
  BY <1>3, <1>4
<1> HIDE DEF Goto
<1> QED
  BY <1>2, <1>5, ProceedsTells

LEMMA EndsStops ==
    ASSUME ShellsOK, NEW s \in Shells, Ends(s)
    PROVE  Stops(s)
<1>1. Idle \in Command
  BY DEF Idle, Command, Steps
<1> QED
  BY <1>1 DEF Ends, Stops, ShellsOK

\* The shells keep their types when the command that moves is prepared.
LEMMA ProceedsPrepared ==
    ASSUME ShellsOK, NEW s \in Shells, NEW pc, NEW draft, NEW material, NEW next,
           Proceeds(s, pc, draft, material, next), UNCHANGED cases, Prepared(shell'[s])
    PROVE  ShellsOK'
<1>1. \A t \in Shells : Prepared(shell'[t])
  BY DEF ShellsOK, Proceeds
<1>2. Command' = Command
  BY DEF Command
<1> QED
  BY <1>1, <1>2 DEF ShellsOK, Proceeds, Prepared

LEMMA StopsPrepared ==
    ASSUME ShellsOK, NEW s \in Shells, Stops(s), UNCHANGED cases
    PROVE  ShellsOK'
<1>1. Prepared(Idle)
  BY DEF Idle, Prepared, EnsureSteps, PairSteps, DocumentSteps, SaveSteps
<1>2. \A t \in Shells : Prepared(shell'[t])
  BY <1>1 DEF ShellsOK, Stops
<1>3. Command' = Command
  BY DEF Command
<1> QED
  BY <1>2, <1>3 DEF ShellsOK, Stops, Prepared

\* Two commands that differ at most in who else uses the directory.
Alike(c, d) ==
    /\ c.op = d.op /\ c.pc = d.pc /\ c.case = d.case
    /\ c.material = d.material /\ c.draft = d.draft /\ c.next = d.next

\* A command begins: the others only stop having the directory for themselves.
Starts(s, op, command) ==
    /\ ~Active(s)
    /\ shell' \in [Shells -> Command]
    /\ \A t \in Shells : t # s => Alike(shell'[t], shell[t]) /\ ~shell'[t].alone
    /\ Alike(shell'[s], command)
    /\ shell'[s].alone => command.pc # "done" /\ Quiet
    /\ raced \subseteq raced'
    /\ \A t \in Shells : Active(t) /\ shell[t].op = op => op \in raced'
    /\ rendered' = None

LEMMA BeginsStarts ==
    ASSUME ShellsOK, NEW s \in Shells, NEW op, NEW command \in Command,
           command = Idle \/ command.pc # "done", Begins(s, op, command)
    PROVE  Starts(s, op, command)
<1>1. \A t \in Shells : shell[t] \in Command
  BY DEF ShellsOK
<1> DEFINE moved(t) == [shell[t] EXCEPT !.alone = FALSE]
           begun == [command EXCEPT !.alone = Quiet]
<1>2. \A t \in Shells : moved(t) \in Command /\ Alike(moved(t), shell[t]) /\ ~moved(t).alone
  BY <1>1 DEF Command, Alike
<1>3. Quiet \in BOOLEAN
  BY DEF Quiet
<1>4. begun \in Command /\ Alike(begun, command) /\ begun.alone = Quiet
  BY <1>3 DEF Command, Alike
<1>5. ~Idle.alone /\ Idle.pc = "done"
  BY DEF Idle
<1>6. shell' = [t \in Shells |->
          IF t = s THEN IF command = Idle THEN Idle ELSE begun ELSE moved(t)]
  BY DEF Begins
<1> HIDE DEF moved, begun
<1>7. shell' \in [Shells -> Command]
  BY <1>2, <1>4, <1>6
<1>8. \A t \in Shells : t # s => shell'[t] = moved(t)
  BY <1>6
<1>9. shell'[s] = IF command = Idle THEN Idle ELSE begun
  BY <1>6
<1>10. Alike(shell'[s], command) /\ (shell'[s].alone => command.pc # "done" /\ Quiet)
  BY <1>4, <1>5, <1>9 DEF Alike
<1>11. /\ raced \subseteq raced' /\ rendered' = None /\ ~Active(s)
       /\ \A t \in Shells : Active(t) /\ shell[t].op = op => op \in raced'
  BY DEF Begins
<1> QED
  BY <1>2, <1>7, <1>8, <1>10, <1>11 DEF Starts

LEMMA StartsPrepared ==
    ASSUME ShellsOK, NEW s \in Shells, NEW op, NEW command, Starts(s, op, command),
           UNCHANGED cases, Prepared(command)
    PROVE  ShellsOK'
<1>1. ASSUME NEW c, NEW d, Alike(c, d), Prepared(d)
      PROVE  Prepared(c)
  BY <1>1 DEF Prepared, Alike
<1>2. /\ Alike(shell'[s], command)
      /\ \A t \in Shells : t # s => Alike(shell'[t], shell[t])
  BY DEF Starts
<1>3. \A t \in Shells : Prepared(shell[t])
  BY DEF ShellsOK
<1>4. \A t \in Shells : Prepared(shell'[t])
  BY <1>1, <1>2, <1>3
<1>5. Command' = Command
  BY DEF Command
<1> QED
  BY <1>4, <1>5 DEF ShellsOK, Starts, Prepared

-----------------------------------------------------------------------------
(* What each action does, and that it keeps the types *)

\* A command that fails at once.
LEMMA IdleIsCommand == Idle \in Command /\ Prepared(Idle)
  BY DEF Idle, Command, Steps, Prepared, EnsureSteps, PairSteps, DocumentSteps, SaveSteps

LEMMA BeginInitDoes ==
    ASSUME TypeInv, NEW s \in Shells, BeginInit(s)
    PROVE  /\ TypeInv' /\ UNCHANGED <<core, cases, files, document>>
           /\ \/ Starts(s, "init", Idle)
              \/ Fresh /\ core # Native /\ Starts(s, "init", [Idle EXCEPT !.op = "init", !.pc = "key"])
              \/ /\ Fresh /\ core = Native
                 /\ Starts(s, "init", [Idle EXCEPT !.op = "init", !.pc = "open", !.next = "done",
                                                   !.draft = NewIdentity(made', None)])
<1>1. /\ ShellsOK /\ made \in 0..MaxSecrets /\ UNCHANGED <<core, cases, files, document>>
      /\ UNCHANGED <<core, cases, key, certificate, identity, document>>
  BY DEF TypeInv, FilesOK, BeginInit, files
<1>2. ASSUME NEW command \in Command, Prepared(command), command = Idle \/ command.pc # "done",
             Begins(s, "init", command), made' \in 0..MaxSecrets
      PROVE  TypeInv' /\ Starts(s, "init", command)
  <2>1. Starts(s, "init", command)
    BY <1>1, <1>2, BeginsStarts
  <2>2. ShellsOK'
    BY <1>1, <1>2, <2>1, StartsPrepared
  <2>3. FilesOK' /\ DocumentsOK'
    BY <1>1, <1>2 DEF TypeInv, FilesOK, DocumentsOK, CasesOf
  <2>4. HistoriesOK'
    BY <1>1, <1>2 DEF TypeInv, HistoriesOK, Begins
  <2> QED
    BY <2>1, <2>2, <2>3, <2>4 DEF TypeInv
<1>3. CASE ~Fresh /\ Begins(s, "init", Idle) /\ UNCHANGED made
  BY <1>1, <1>2, <1>3, IdleIsCommand
<1>4. CASE /\ Fresh /\ core # Native /\ UNCHANGED made
           /\ Begins(s, "init", [Idle EXCEPT !.op = "init", !.pc = "key"])
  <2> DEFINE command == [Idle EXCEPT !.op = "init", !.pc = "key"]
  <2>1. command \in Command /\ Prepared(command) /\ command.pc # "done"
    BY DEF Idle, Command, Steps, Prepared, EnsureSteps, PairSteps, DocumentSteps, SaveSteps
  <2> QED
    BY <1>1, <1>2, <1>4, <2>1
<1>5. CASE /\ Fresh /\ core = Native /\ Draws(1)
           /\ Begins(s, "init", [Idle EXCEPT !.op = "init", !.pc = "open", !.next = "done",
                                             !.draft = NewIdentity(made', None)])
  <2> DEFINE command == [Idle EXCEPT !.op = "init", !.pc = "open", !.next = "done",
                                     !.draft = NewIdentity(made', None)]
  <2>1. NewIdentity(made', None) \in Material /\ made' \in 0..MaxSecrets
    BY <1>1, <1>5, DrawnIsSecret, NewIsMaterial
  <2>2. command \in Command /\ Prepared(command) /\ command.pc # "done"
    BY <2>1 DEF Idle, Command, Steps, Prepared, EnsureSteps, PairSteps, DocumentSteps, SaveSteps
  <2> QED
    BY <1>1, <1>2, <1>5, <2>1, <2>2
<1> QED
  BY <1>1, <1>3, <1>4, <1>5 DEF BeginInit

\* A step of a command that goes on keeps the types, when its files do.
LEMMA ProceedsKeepsTypes ==
    ASSUME TypeInv, NEW s \in Shells, NEW pc, NEW draft, NEW material, NEW next,
           Proceeds(s, pc, draft, material, next), Prepared(shell'[s]),
           UNCHANGED <<core, cases, raced, rendered>>, made' \in 0..MaxSecrets,
           key' \in Secret \cup {None}, certificate' \in Secret \cup {None},
           identity' \in Material \cup {None, Torn}, DocumentsOK'
    PROVE  TypeInv'
<1>1. ShellsOK'
  BY ProceedsPrepared DEF TypeInv
<1> QED
  BY <1>1 DEF TypeInv, FilesOK, HistoriesOK, CasesOf

LEMMA StopsKeepsTypes ==
    ASSUME TypeInv, NEW s \in Shells, Stops(s),
           UNCHANGED <<core, cases, raced>>, made' \in 0..MaxSecrets, rendered' \in cases \cup {None},
           key' \in Secret \cup {None}, certificate' \in Secret \cup {None},
           identity' \in Material \cup {None, Torn}, DocumentsOK'
    PROVE  TypeInv'
<1>1. ShellsOK'
  BY StopsPrepared DEF TypeInv
<1> QED
  BY <1>1 DEF TypeInv, FilesOK, HistoriesOK, CasesOf

LEMMA FieldTypes ==
    ASSUME TypeInv, NEW s \in Shells
    PROVE  /\ ShellsOK /\ shell[s] \in Command /\ Prepared(shell[s])
           /\ shell[s].draft \in Material \cup Secret \cup {None}
           /\ shell[s].material \in Material \cup {None}
           /\ shell[s].next \in {"done", "ensure vless", "server", None}
<1>1. ShellsOK /\ shell[s] \in Command /\ Prepared(shell[s])
  BY DEF TypeInv, ShellsOK
<1> QED
  BY <1>1 DEF Command

\* The three ways in which actions assign to shell.
LEMMA ActionProceeds ==
    ASSUME TypeInv, NEW s \in Shells, NEW pc \in Steps
    PROVE  /\ Goto(s, pc) => Proceeds(s, pc, shell[s].draft, shell[s].material, shell[s].next)
           /\ \A draft \in Material \cup Secret \cup {None} :
                 shell' = [shell EXCEPT ![s].pc = pc, ![s].draft = draft]
                 => Proceeds(s, pc, draft, shell[s].material, shell[s].next)
           /\ \A draft \in Material \cup Secret \cup {None}, next \in {"done", "ensure vless", "server", None} :
                 shell' = [shell EXCEPT ![s].pc = pc, ![s].next = next, ![s].draft = draft]
                 => Proceeds(s, pc, draft, shell[s].material, next)
<1>1. /\ ShellsOK /\ shell[s] \in Command
      /\ shell[s].material \in Material \cup {None}
      /\ shell[s].next \in {"done", "ensure vless", "server", None}
  BY FieldTypes
<1>2. Goto(s, pc) => Proceeds(s, pc, shell[s].draft, shell[s].material, shell[s].next)
  BY <1>1, GotoProceeds
<1>3. ASSUME NEW draft \in Material \cup Secret \cup {None},
             shell' = [shell EXCEPT ![s].pc = pc, ![s].draft = draft]
      PROVE  Proceeds(s, pc, draft, shell[s].material, shell[s].next)
  <2>1. shell' = [shell EXCEPT ![s] = [shell[s] EXCEPT !.pc = pc, !.draft = draft,
                    !.material = shell[s].material, !.next = shell[s].next]]
    BY <1>1, <1>3 DEF Command, ShellsOK
  <2> QED
    BY <1>1, <2>1, ProceedsTells
<1>4. ASSUME NEW draft \in Material \cup Secret \cup {None},
             NEW next \in {"done", "ensure vless", "server", None},
             shell' = [shell EXCEPT ![s].pc = pc, ![s].next = next, ![s].draft = draft]
      PROVE  Proceeds(s, pc, draft, shell[s].material, next)
  <2>1. shell' = [shell EXCEPT ![s] = [shell[s] EXCEPT !.pc = pc, !.draft = draft,
                    !.material = shell[s].material, !.next = next]]
    BY <1>1, <1>4 DEF Command, ShellsOK
  <2> QED
    BY <1>1, <2>1, ProceedsTells
<1> QED
  BY <1>2, <1>3, <1>4

LEMMA WriteKeyDoes ==
    ASSUME TypeInv, NEW s \in Shells, WriteKey(s)
    PROVE  /\ TypeInv' /\ At(s, "key") /\ key' = made'
           /\ Proceeds(s, "certificate", made', shell[s].material, shell[s].next)
           /\ UNCHANGED <<core, cases, certificate, identity, document, raced, rendered>>
<1>1. /\ At(s, "key") /\ key' = made' /\ Draws(1)
      /\ shell' = [shell EXCEPT ![s].pc = "certificate", ![s].draft = made']
      /\ UNCHANGED <<core, cases, certificate, identity, document, raced, rendered>>
  BY DEF WriteKey
<1>2. made' \in Secret /\ made' \in 0..MaxSecrets /\ "certificate" \in Steps
  BY <1>1, DrawnIsSecret DEF TypeInv, FilesOK, Steps
<1>3. Proceeds(s, "certificate", made', shell[s].material, shell[s].next)
  BY <1>1, <1>2, ActionProceeds
<1>4. Prepared(shell'[s])
  BY <1>1, <1>2, <1>3, FieldTypes DEF Prepared, Proceeds, At, EnsureSteps, PairSteps, DocumentSteps, SaveSteps
<1>5. DocumentsOK'
  BY <1>1 DEF TypeInv, DocumentsOK
<1>6. TypeInv'
  BY <1>1, <1>2, <1>3, <1>4, <1>5, ProceedsKeepsTypes DEF TypeInv, FilesOK
<1> QED
  BY <1>1, <1>3, <1>6

LEMMA WriteCertificateDoes ==
    ASSUME TypeInv, NEW s \in Shells, WriteCertificate(s)
    PROVE  /\ TypeInv' /\ At(s, "certificate") /\ certificate' = shell[s].draft
           /\ Proceeds(s, "fingerprint", shell[s].draft, shell[s].material, shell[s].next)
           /\ UNCHANGED <<core, cases, key, identity, document, raced, rendered>>
<1>1. /\ At(s, "certificate") /\ certificate' = shell[s].draft /\ Goto(s, "fingerprint")
      /\ UNCHANGED <<core, cases, key, identity, document, made, raced, rendered>>
  BY DEF WriteCertificate
<1>2. shell[s].draft \in Secret /\ "fingerprint" \in Steps
  BY <1>1, FieldTypes DEF Prepared, At, Steps
<1>3. Proceeds(s, "fingerprint", shell[s].draft, shell[s].material, shell[s].next)
  BY <1>1, <1>2, ActionProceeds
<1>4. Prepared(shell'[s])
  BY <1>1, <1>2, <1>3, FieldTypes DEF Prepared, Proceeds, At, EnsureSteps, PairSteps, DocumentSteps, SaveSteps
<1>5. DocumentsOK'
  BY <1>1 DEF TypeInv, DocumentsOK
<1>6. TypeInv'
  BY <1>1, <1>2, <1>3, <1>4, <1>5, ProceedsKeepsTypes DEF TypeInv, FilesOK
<1> QED
  BY <1>1, <1>3, <1>6

LEMMA OpensslEndsDoes ==
    ASSUME TypeInv, NEW s \in Shells, OpensslEnds(s)
    PROVE  /\ TypeInv' /\ Stops(s)
           /\ At(s, "key") \/ At(s, "certificate")
           /\ UNCHANGED <<core, cases, identity, document, raced, rendered>>
<1>1. /\ At(s, "key") \/ At(s, "certificate")
      /\ key' = None /\ certificate' = None /\ Ends(s)
      /\ UNCHANGED <<core, cases, identity, document, made, raced, rendered>>
  BY DEF OpensslEnds
<1>2. Stops(s)
  BY <1>1, EndsStops DEF TypeInv
<1>3. DocumentsOK'
  BY <1>1 DEF TypeInv, DocumentsOK
<1>4. TypeInv'
  BY <1>1, <1>2, <1>3, StopsKeepsTypes DEF TypeInv, FilesOK, HistoriesOK
<1> QED
  BY <1>1, <1>2, <1>4

LEMMA FingerprintDoes ==
    ASSUME TypeInv, NEW s \in Shells, Fingerprint(s)
    PROVE  /\ TypeInv' /\ At(s, "fingerprint")
           /\ \/ Proceeds(s, "open", NewIdentity(made', certificate), shell[s].material, "done")
              \/ Stops(s)
           /\ UNCHANGED <<core, cases, key, certificate, identity, document, raced, rendered>>
<1>1. /\ At(s, "fingerprint")
      /\ UNCHANGED <<core, cases, key, certificate, identity, document, raced, rendered>>
  BY DEF Fingerprint, files
<1>2. DocumentsOK'
  BY <1>1 DEF TypeInv, DocumentsOK
<1>3. CASE /\ Draws(1)
           /\ shell' = [shell EXCEPT ![s].pc = "open", ![s].next = "done",
                            ![s].draft = NewIdentity(made', certificate)]
  <2>1. /\ NewIdentity(made', certificate) \in Material /\ made' \in 0..MaxSecrets
        /\ "open" \in Steps
    BY <1>3, DrawnIsSecret, NewIsMaterial DEF TypeInv, FilesOK, Steps
  <2>2. Proceeds(s, "open", NewIdentity(made', certificate), shell[s].material, "done")
    BY <1>3, <2>1, ActionProceeds
  <2>3. Prepared(shell'[s])
    BY <1>1, <2>1, <2>2, FieldTypes DEF Prepared, Proceeds, At, EnsureSteps, PairSteps, DocumentSteps, SaveSteps
  <2>4. TypeInv'
    BY <1>1, <1>2, <2>1, <2>2, <2>3, ProceedsKeepsTypes DEF TypeInv, FilesOK
  <2> QED
    BY <1>1, <2>2, <2>4
<1>4. CASE Ends(s) /\ UNCHANGED made
  <2>1. Stops(s)
    BY <1>4, EndsStops DEF TypeInv
  <2>2. TypeInv'
    BY <1>1, <1>2, <1>4, <2>1, StopsKeepsTypes DEF TypeInv, FilesOK, HistoriesOK
  <2> QED
    BY <1>1, <2>1, <2>2
<1> QED
  BY <1>3, <1>4 DEF Fingerprint

LEMMA OpenIdentityDoes ==
    ASSUME TypeInv, NEW s \in Shells, OpenIdentity(s)
    PROVE  /\ TypeInv' /\ At(s, "open") /\ identity' = Torn
           /\ Proceeds(s, "write", shell[s].draft, shell[s].material, shell[s].next)
           /\ UNCHANGED <<core, cases, key, certificate, document, raced, rendered>>
<1>1. /\ At(s, "open") /\ identity' = Torn /\ Goto(s, "write")
      /\ UNCHANGED <<core, cases, key, certificate, document, made, raced, rendered>>
  BY DEF OpenIdentity
<1>2. "write" \in Steps
  BY DEF Steps
<1>3. Proceeds(s, "write", shell[s].draft, shell[s].material, shell[s].next)
  BY <1>1, <1>2, ActionProceeds
<1>4. Prepared(shell'[s])
  BY <1>1, <1>2, <1>3, FieldTypes DEF Prepared, Proceeds, At, EnsureSteps, PairSteps, DocumentSteps, SaveSteps
<1>5. DocumentsOK'
  BY <1>1 DEF TypeInv, DocumentsOK
<1>6. TypeInv'
  BY <1>1, <1>2, <1>3, <1>4, <1>5, ProceedsKeepsTypes DEF TypeInv, FilesOK
<1> QED
  BY <1>1, <1>3, <1>6

LEMMA WriteIdentityDoes ==
    ASSUME TypeInv, NEW s \in Shells, WriteIdentity(s)
    PROVE  /\ TypeInv' /\ At(s, "write") /\ identity' = shell[s].draft /\ shell[s].draft \in Material
           /\ \/ shell[s].op = "init" /\ Stops(s)
              \/ /\ shell[s].op = "render" /\ shell[s].next \in {"ensure vless", "server"}
                 /\ Proceeds(s, shell[s].next, None, shell[s].material, None)
           /\ UNCHANGED <<core, cases, key, certificate, document, raced, rendered>>
<1>1. /\ At(s, "write") /\ identity' = shell[s].draft
      /\ UNCHANGED <<core, cases, key, certificate, document, made, raced, rendered>>
  BY DEF WriteIdentity
<1>2. /\ shell[s].draft \in Material
      /\ \/ shell[s].op = "init" /\ shell[s].next = "done"
         \/ shell[s].op = "render" /\ shell[s].next \in {"ensure vless", "server"}
  BY <1>1, FieldTypes DEF Prepared, At, SaveSteps
<1>3. DocumentsOK'
  BY <1>1 DEF TypeInv, DocumentsOK
<1>4. CASE shell[s].next = "done"
  <2>1. Ends(s)
    BY <1>4 DEF WriteIdentity
  <2>2. Stops(s)
    BY <2>1, EndsStops DEF TypeInv
  <2>3. TypeInv'
    BY <1>1, <1>2, <1>3, <2>2, StopsKeepsTypes DEF TypeInv, FilesOK, HistoriesOK
  <2> QED
    BY <1>1, <1>2, <1>4, <2>2, <2>3
<1>5. CASE shell[s].next # "done"
  <2>1. shell' = [shell EXCEPT ![s].pc = shell[s].next, ![s].next = None, ![s].draft = None]
    BY <1>5 DEF WriteIdentity
  <2>2. shell[s].next \in {"ensure vless", "server"} /\ shell[s].op = "render" /\ shell[s].next \in Steps
    BY <1>2, <1>5 DEF Steps
  <2>3. Proceeds(s, shell[s].next, None, shell[s].material, None)
    BY <2>1, <2>2, ActionProceeds
  <2>4. Prepared(shell'[s])
    BY <1>1, <2>2, <2>3, FieldTypes DEF Prepared, Proceeds, At, EnsureSteps, PairSteps, DocumentSteps, SaveSteps
  <2>5. TypeInv'
    BY <1>1, <1>2, <1>3, <2>3, <2>4, ProceedsKeepsTypes DEF TypeInv, FilesOK
  <2> QED
    BY <1>1, <1>2, <2>2, <2>3, <2>5
<1> QED
  BY <1>4, <1>5

LEMMA BeginRenderDoes ==
    ASSUME TypeInv, NEW s \in Shells, BeginRender(s)
    PROVE  /\ TypeInv' /\ UNCHANGED <<core, cases, key, certificate, identity, document>>
           /\ \/ Starts(s, "render", Idle)
              \/ identity \in Material /\ \E case \in cases :
                    Starts(s, "render",
                           [Idle EXCEPT !.op = "render", !.case = case, !.material = identity,
                                        !.pc = IF core = Xray THEN "ensure reality" ELSE "server"])
<1>1. /\ ShellsOK /\ UNCHANGED <<core, cases, key, certificate, identity, document, made>>
  BY DEF TypeInv, BeginRender, files
<1>2. ASSUME NEW command \in Command, Prepared(command), command = Idle \/ command.pc # "done",
             Begins(s, "render", command)
      PROVE  TypeInv' /\ Starts(s, "render", command)
  <2>1. Starts(s, "render", command)
    BY <1>1, <1>2, BeginsStarts
  <2>2. ShellsOK'
    BY <1>1, <1>2, <2>1, StartsPrepared
  <2>3. FilesOK' /\ DocumentsOK'
    BY <1>1 DEF TypeInv, FilesOK, DocumentsOK, CasesOf
  <2>4. HistoriesOK'
    BY <1>1, <1>2 DEF TypeInv, HistoriesOK, Begins
  <2> QED
    BY <2>1, <2>2, <2>3, <2>4 DEF TypeInv
<1>3. CASE ~Readable /\ Begins(s, "render", Idle)
  BY <1>1, <1>2, <1>3, IdleIsCommand
<1>4. ASSUME Readable, NEW case \in cases,
             Begins(s, "render",
                    [Idle EXCEPT !.op = "render", !.case = case, !.material = identity,
                                 !.pc = IF core = Xray THEN "ensure reality" ELSE "server"])
      PROVE  /\ TypeInv' /\ identity \in Material
             /\ Starts(s, "render",
                       [Idle EXCEPT !.op = "render", !.case = case, !.material = identity,
                                    !.pc = IF core = Xray THEN "ensure reality" ELSE "server"])
  <2> DEFINE command == [Idle EXCEPT !.op = "render", !.case = case, !.material = identity,
                                     !.pc = IF core = Xray THEN "ensure reality" ELSE "server"]
  <2>1. identity \in Material
    BY <1>4 DEF Readable, TypeInv, FilesOK
  <2>2. command \in Command /\ Prepared(command) /\ command.pc # "done"
    BY <2>1 DEF Idle, Command, Steps, Prepared, EnsureSteps, PairSteps, DocumentSteps, SaveSteps
  <2> QED
    BY <1>2, <1>4, <2>1, <2>2
<1> QED
  BY <1>1, <1>3, <1>4 DEF BeginRender

\* A pair that is there is kept, whichever it is.
LEMMA KeepingDoes ==
    ASSUME TypeInv, NEW s \in Shells, NEW here \in EnsureSteps, NEW kept \in {"ensure vless", "server"},
           At(s, here), Goto(s, kept),
           UNCHANGED <<core, cases, key, certificate, identity, document, made, raced, rendered>>
    PROVE  TypeInv' /\ Proceeds(s, kept, shell[s].draft, shell[s].material, shell[s].next)
<1>1. kept \in Steps
  BY DEF Steps
<1>2. DocumentsOK'
  BY DEF TypeInv, DocumentsOK
<1>3. Proceeds(s, kept, shell[s].draft, shell[s].material, shell[s].next)
  BY <1>1, ActionProceeds
<1>4. Prepared(shell'[s])
  BY <1>3, FieldTypes DEF Prepared, Proceeds, At, EnsureSteps, PairSteps, DocumentSteps, SaveSteps
<1>5. TypeInv'
  BY <1>2, <1>3, <1>4, ProceedsKeepsTypes DEF TypeInv, FilesOK
<1> QED
  BY <1>3, <1>5

\* Otherwise identity.json is read again.
LEMMA CompletingDoes ==
    ASSUME TypeInv, NEW s \in Shells, NEW here \in EnsureSteps, NEW generate \in PairSteps,
           At(s, here), Completes(s, generate),
           UNCHANGED <<core, cases, key, certificate, identity, document, made, raced, rendered>>
    PROVE  /\ TypeInv'
           /\ \/ /\ identity \in Material
                 /\ Proceeds(s, generate, identity, shell[s].material, shell[s].next)
              \/ Stops(s)
<1>1. generate \in Steps
  BY DEF Steps, PairSteps
<1>2. DocumentsOK'
  BY DEF TypeInv, DocumentsOK
<1>3. CASE Readable
  <2>1. identity \in Material
    BY <1>3 DEF Readable, TypeInv, FilesOK
  <2>2. Proceeds(s, generate, identity, shell[s].material, shell[s].next)
    BY <1>1, <1>3, <2>1, ActionProceeds DEF Completes
  <2>3. Prepared(shell'[s])
    BY <2>1, <2>2, FieldTypes DEF Prepared, Proceeds, At, EnsureSteps, PairSteps, DocumentSteps, SaveSteps
  <2>4. TypeInv'
    BY <1>2, <2>2, <2>3, ProceedsKeepsTypes DEF TypeInv, FilesOK
  <2> QED
    BY <2>1, <2>2, <2>4
<1>4. CASE ~Readable
  <2>1. Stops(s)
    BY <1>4, EndsStops DEF Completes, TypeInv
  <2>2. TypeInv'
    BY <1>2, <2>1, StopsKeepsTypes DEF TypeInv, FilesOK, HistoriesOK
  <2> QED
    BY <2>1, <2>2
<1> QED
  BY <1>3, <1>4

LEMMA EnsureRealityDoes ==
    ASSUME TypeInv, NEW s \in Shells, EnsureReality(s)
    PROVE  /\ TypeInv' /\ At(s, "ensure reality")
           /\ \/ Proceeds(s, "ensure vless", shell[s].draft, shell[s].material, shell[s].next)
              \/ /\ ~KeepsReality(s) /\ identity \in Material
                 /\ Proceeds(s, "reality pair", identity, shell[s].material, shell[s].next)
              \/ Stops(s)
           /\ UNCHANGED <<core, cases, key, certificate, identity, document, raced, rendered>>
<1>1. /\ At(s, "ensure reality") /\ "ensure reality" \in EnsureSteps /\ "reality pair" \in PairSteps
      /\ UNCHANGED <<core, cases, key, certificate, identity, document, made, raced, rendered>>
  BY DEF EnsureReality, files, EnsureSteps, PairSteps
<1>2. CASE KeepsReality(s) /\ Goto(s, "ensure vless")
  BY <1>1, <1>2, KeepingDoes
<1>3. CASE ~KeepsReality(s) /\ Completes(s, "reality pair")
  BY <1>1, <1>3, CompletingDoes
<1> QED
  BY <1>2, <1>3 DEF EnsureReality

LEMMA EnsureVlessEncryptionDoes ==
    ASSUME TypeInv, NEW s \in Shells, EnsureVlessEncryption(s)
    PROVE  /\ TypeInv' /\ At(s, "ensure vless")
           /\ \/ Proceeds(s, "server", shell[s].draft, shell[s].material, shell[s].next)
              \/ /\ ~KeepsVless(s) /\ identity \in Material
                 /\ Proceeds(s, "vless pair", identity, shell[s].material, shell[s].next)
              \/ Stops(s)
           /\ UNCHANGED <<core, cases, key, certificate, identity, document, raced, rendered>>
<1>1. /\ At(s, "ensure vless") /\ "ensure vless" \in EnsureSteps /\ "vless pair" \in PairSteps
      /\ UNCHANGED <<core, cases, key, certificate, identity, document, made, raced, rendered>>
  BY DEF EnsureVlessEncryption, files, EnsureSteps, PairSteps
<1>2. CASE KeepsVless(s) /\ Goto(s, "server")
  BY <1>1, <1>2, KeepingDoes
<1>3. CASE ~KeepsVless(s) /\ Completes(s, "vless pair")
  BY <1>1, <1>3, CompletingDoes
<1> QED
  BY <1>2, <1>3 DEF EnsureVlessEncryption

LEMMA InterruptDoes ==
    ASSUME TypeInv, NEW s \in Shells, Interrupt(s)
    PROVE  /\ TypeInv' /\ Active(s) /\ Stops(s)
           /\ UNCHANGED <<core, cases, key, certificate, identity, document, raced, rendered>>
<1>1. /\ Active(s) /\ Ends(s)
      /\ UNCHANGED <<core, cases, key, certificate, identity, document, made, raced, rendered>>
  BY DEF Interrupt, files
<1>2. Stops(s)
  BY <1>1, EndsStops DEF TypeInv
<1>3. DocumentsOK'
  BY <1>1 DEF TypeInv, DocumentsOK
<1>4. TypeInv'
  BY <1>1, <1>2, <1>3, StopsKeepsTypes DEF TypeInv, FilesOK, HistoriesOK
<1> QED
  BY <1>1, <1>2, <1>4

LEMMA GenerateRealityDoes ==
    ASSUME TypeInv, NEW s \in Shells, GenerateReality(s)
    PROVE  /\ TypeInv' /\ At(s, "reality pair")
           /\ \/ Proceeds(s, "open", [shell[s].draft EXCEPT !.reality = made'],
                          [shell[s].material EXCEPT !.reality = made'], "ensure vless")
              \/ Stops(s)
           /\ UNCHANGED <<core, cases, key, certificate, identity, document, raced, rendered>>
<1>1. /\ At(s, "reality pair")
      /\ UNCHANGED <<core, cases, key, certificate, identity, document, raced, rendered>>
  BY DEF GenerateReality, files
<1>2. DocumentsOK'
  BY <1>1 DEF TypeInv, DocumentsOK
<1>3. CASE /\ Draws(1)
           /\ shell' = [shell EXCEPT ![s].pc = "open", ![s].next = "ensure vless",
                            ![s].draft.reality = made', ![s].material.reality = made']
  <2>1. made' \in Secret /\ made' \in 0..MaxSecrets /\ "open" \in Steps
    BY <1>3, DrawnIsSecret DEF TypeInv, FilesOK, Steps
  <2>2. shell[s].draft \in Material /\ shell[s].material \in Material /\ shell[s].op = "render"
    BY <1>1, FieldTypes DEF Prepared, At, PairSteps
  <2> DEFINE draft == [shell[s].draft EXCEPT !.reality = made']
             material == [shell[s].material EXCEPT !.reality = made']
  <2>3. draft \in Material /\ material \in Material
    BY <2>1, <2>2 DEF Material
  <2>4. shell' = [shell EXCEPT ![s] = [shell[s] EXCEPT !.pc = "open", !.draft = draft,
                    !.material = material, !.next = "ensure vless"]]
    BY <1>3, FieldTypes DEF Command, ShellsOK
  <2> HIDE DEF draft, material
  <2>5. Proceeds(s, "open", draft, material, "ensure vless")
    BY <2>1, <2>3, <2>4, ProceedsTells, FieldTypes
  <2>6. Prepared(shell'[s])
    BY <1>1, <2>2, <2>3, <2>5, FieldTypes DEF Prepared, Proceeds, At, EnsureSteps, PairSteps, DocumentSteps, SaveSteps
  <2>7. TypeInv'
    BY <1>1, <1>2, <2>1, <2>5, <2>6, ProceedsKeepsTypes DEF TypeInv, FilesOK
  <2> QED
    BY <1>1, <2>1, <2>5, <2>7 DEF draft, material
<1>4. CASE Ends(s) /\ UNCHANGED made
  <2>1. Stops(s)
    BY <1>4, EndsStops DEF TypeInv
  <2>2. TypeInv'
    BY <1>1, <1>2, <1>4, <2>1, StopsKeepsTypes DEF TypeInv, FilesOK, HistoriesOK
  <2> QED
    BY <1>1, <1>4, <2>1, <2>2 DEF TypeInv, FilesOK
<1> QED
  BY <1>3, <1>4 DEF GenerateReality

LEMMA GenerateVlessEncryptionDoes ==
    ASSUME TypeInv, NEW s \in Shells, GenerateVlessEncryption(s)
    PROVE  /\ TypeInv' /\ At(s, "vless pair")
           /\ \/ Proceeds(s, "open", [shell[s].draft EXCEPT !.vless = made'],
                          [shell[s].material EXCEPT !.vless = made'], "server")
              \/ Stops(s)
           /\ UNCHANGED <<core, cases, key, certificate, identity, document, raced, rendered>>
<1>1. /\ At(s, "vless pair")
      /\ UNCHANGED <<core, cases, key, certificate, identity, document, raced, rendered>>
  BY DEF GenerateVlessEncryption, files
<1>2. DocumentsOK'
  BY <1>1 DEF TypeInv, DocumentsOK
<1>3. CASE /\ Draws(1)
           /\ shell' = [shell EXCEPT ![s].pc = "open", ![s].next = "server",
                            ![s].draft.vless = made', ![s].material.vless = made']
  <2>1. made' \in Secret /\ made' \in 0..MaxSecrets /\ "open" \in Steps
    BY <1>3, DrawnIsSecret DEF TypeInv, FilesOK, Steps
  <2>2. shell[s].draft \in Material /\ shell[s].material \in Material /\ shell[s].op = "render"
    BY <1>1, FieldTypes DEF Prepared, At, PairSteps
  <2> DEFINE draft == [shell[s].draft EXCEPT !.vless = made']
             material == [shell[s].material EXCEPT !.vless = made']
  <2>3. draft \in Material /\ material \in Material
    BY <2>1, <2>2 DEF Material
  <2>4. shell' = [shell EXCEPT ![s] = [shell[s] EXCEPT !.pc = "open", !.draft = draft,
                    !.material = material, !.next = "server"]]
    BY <1>3, FieldTypes DEF Command, ShellsOK
  <2> HIDE DEF draft, material
  <2>5. Proceeds(s, "open", draft, material, "server")
    BY <2>1, <2>3, <2>4, ProceedsTells, FieldTypes
  <2>6. Prepared(shell'[s])
    BY <1>1, <2>2, <2>3, <2>5, FieldTypes DEF Prepared, Proceeds, At, EnsureSteps, PairSteps, DocumentSteps, SaveSteps
  <2>7. TypeInv'
    BY <1>1, <1>2, <2>1, <2>5, <2>6, ProceedsKeepsTypes DEF TypeInv, FilesOK
  <2> QED
    BY <1>1, <2>1, <2>5, <2>7 DEF draft, material
<1>4. CASE Ends(s) /\ UNCHANGED made
  <2>1. Stops(s)
    BY <1>4, EndsStops DEF TypeInv
  <2>2. TypeInv'
    BY <1>1, <1>2, <1>4, <2>1, StopsKeepsTypes DEF TypeInv, FilesOK, HistoriesOK
  <2> QED
    BY <1>1, <1>4, <2>1, <2>2 DEF TypeInv, FilesOK
<1> QED
  BY <1>3, <1>4 DEF GenerateVlessEncryption

LEMMA RenderedIsDocument ==
    ASSUME TypeInv, NEW s \in Shells, shell[s].pc \in DocumentSteps
    PROVE  Rendered(s) \in [case: cases, material: Material] /\ shell[s].op = "render"
<1>1. shell[s].op = "render" /\ shell[s].case \in cases /\ shell[s].material \in Material
  BY FieldTypes DEF Prepared, DocumentSteps
<1> QED
  BY <1>1 DEF Rendered

LEMMA WriteServerDoes ==
    ASSUME TypeInv, NEW s \in Shells, WriteServer(s)
    PROVE  /\ TypeInv' /\ At(s, "server")
           /\ \/ /\ document' = [document EXCEPT !["server"] = Rendered(s)]
                 /\ Proceeds(s, "client", shell[s].draft, shell[s].material, shell[s].next)
              \/ Stops(s) /\ UNCHANGED document
           /\ UNCHANGED <<core, cases, key, certificate, identity, raced, rendered>>
<1>1. /\ At(s, "server")
      /\ UNCHANGED <<core, cases, key, certificate, identity, made, raced, rendered>>
  BY DEF WriteServer, files
<1>2. Rendered(s) \in [case: cases, material: Material]
  BY <1>1, RenderedIsDocument DEF At, DocumentSteps
<1>3. CASE document' = [document EXCEPT !["server"] = Rendered(s)] /\ Goto(s, "client")
  <2>1. DocumentsOK' /\ "client" \in Steps
    BY <1>1, <1>2, <1>3 DEF TypeInv, DocumentsOK, Sides, Steps
  <2>2. Proceeds(s, "client", shell[s].draft, shell[s].material, shell[s].next)
    BY <1>3, <2>1, ActionProceeds
  <2>3. Prepared(shell'[s])
    BY <1>1, <2>2, FieldTypes DEF Prepared, Proceeds, At, EnsureSteps, PairSteps, DocumentSteps, SaveSteps
  <2>4. TypeInv'
    BY <1>1, <2>1, <2>2, <2>3, ProceedsKeepsTypes DEF TypeInv, FilesOK
  <2> QED
    BY <1>1, <1>3, <2>2, <2>4
<1>4. CASE Ends(s) /\ UNCHANGED document
  <2>1. Stops(s)
    BY <1>4, EndsStops DEF TypeInv
  <2>2. DocumentsOK'
    BY <1>1, <1>4 DEF TypeInv, DocumentsOK
  <2>3. TypeInv'
    BY <1>1, <1>4, <2>1, <2>2, StopsKeepsTypes DEF TypeInv, FilesOK, HistoriesOK
  <2> QED
    BY <1>1, <1>4, <2>1, <2>3
<1> QED
  BY <1>3, <1>4 DEF WriteServer

LEMMA WriteClientDoes ==
    ASSUME TypeInv, NEW s \in Shells, WriteClient(s)
    PROVE  /\ TypeInv' /\ At(s, "client") /\ Stops(s)
           /\ document' = [document EXCEPT !["client"] = Rendered(s)]
           /\ rendered' = IF shell[s].alone THEN shell[s].case ELSE None
           /\ UNCHANGED <<core, cases, key, certificate, identity, raced>>
<1>1. /\ At(s, "client") /\ Ends(s)
      /\ document' = [document EXCEPT !["client"] = Rendered(s)]
      /\ rendered' = IF shell[s].alone THEN shell[s].case ELSE None
      /\ UNCHANGED <<core, cases, key, certificate, identity, made, raced>>
  BY DEF WriteClient, files
<1>2. Rendered(s) \in [case: cases, material: Material] /\ shell[s].case \in cases
  BY <1>1, RenderedIsDocument DEF At, DocumentSteps, Rendered
<1>3. DocumentsOK'
  BY <1>1, <1>2 DEF TypeInv, DocumentsOK, Sides
<1>4. Stops(s)
  BY <1>1, EndsStops DEF TypeInv
<1>5. rendered' \in cases \cup {None}
  BY <1>1, <1>2
<1>6. TypeInv'
  BY <1>1, <1>3, <1>4, <1>5, StopsKeepsTypes DEF TypeInv, FilesOK
<1> QED
  BY <1>1, <1>4, <1>6

-----------------------------------------------------------------------------
(* The directory for oneself *)

\* The step of a command that has begun.
Works(s) ==
    /\ Active(s)
    /\ \A t \in Shells : t # s => shell'[t] = shell[t]
    /\ shell'[s].pc # "done" =>
          shell'[s].op = shell[s].op /\ shell'[s].alone = shell[s].alone /\ shell'[s].case = shell[s].case

LEMMA ProceedsWorks ==
    ASSUME NEW s \in Shells, NEW pc, NEW draft, NEW material, NEW next, Active(s),
           Proceeds(s, pc, draft, material, next)
    PROVE  Works(s)
  BY DEF Proceeds, Works

LEMMA StopsWorks ==
    ASSUME NEW s \in Shells, Active(s), Stops(s)
    PROVE  Works(s) /\ shell'[s].pc = "done"
  BY DEF Stops, Works, Idle

\* A command that found nobody else is still the only one.
Sole == \A s, t \in Shells : Active(s) /\ shell[s].alone /\ Active(t) => t = s

\* Its server's document is the one that it wrote.
ServerIsOwn == \A s \in Shells : At(s, "client") /\ shell[s].alone => document["server"] = Rendered(s)

\* After it nothing has run, and both documents are its own.
LastRender ==
    rendered # None =>
        /\ Quiet
        /\ document["server"] = document["client"] /\ document["server"].case = rendered

AloneHolds == Sole /\ ServerIsOwn /\ LastRender

LEMMA AloneWorks ==
    ASSUME AloneHolds, NEW s \in Shells, Works(s),
           shell'[s].pc = "client" =>
               document'["server"] = [case |-> shell'[s].case, material |-> shell'[s].material],
           rendered' = rendered \/ LastRender'
    PROVE  AloneHolds'
<1>1. Sole'
  BY DEF AloneHolds, Sole, Works, Active
<1>2. ServerIsOwn'
  BY DEF AloneHolds, Sole, ServerIsOwn, Works, Active, At, Rendered
<1>3. rendered = None
  BY DEF AloneHolds, LastRender, Quiet, Works
<1>4. LastRender'
  BY <1>3 DEF LastRender
<1> QED
  BY <1>1, <1>2, <1>4 DEF AloneHolds

LEMMA AloneStarts ==
    ASSUME AloneHolds, NEW s \in Shells, NEW op, NEW command, Starts(s, op, command), command.pc # "client"
    PROVE  AloneHolds'
<1>1. Sole'
  BY DEF Sole, Starts, Alike, Active, Quiet
<1>2. ServerIsOwn'
  BY DEF ServerIsOwn, Starts, Alike, At
<1>3. LastRender'
  BY DEF LastRender, Starts
<1> QED
  BY <1>1, <1>2, <1>3 DEF AloneHolds

LEMMA AloneInitSecrets ==
    ASSUME TypeInv, AloneHolds, NEW s \in Shells, InitSecrets(s)
    PROVE  AloneHolds'
<1>1. CASE BeginInit(s)
  <2>1. Idle.pc = "done" /\ [Idle EXCEPT !.op = "init", !.pc = "key"].pc = "key"
    BY DEF Idle
  <2>2. [Idle EXCEPT !.op = "init", !.pc = "open", !.next = "done", !.draft = NewIdentity(made', None)].pc = "open"
    BY DEF Idle
  <2> QED
    BY <1>1, <2>1, <2>2, BeginInitDoes, AloneStarts
<1>2. CASE WriteKey(s)
  <2>1. Works(s) /\ shell'[s].pc = "certificate" /\ UNCHANGED rendered
    BY <1>2, WriteKeyDoes, ProceedsWorks DEF At, Active, Proceeds
  <2> QED
    BY <2>1, AloneWorks
<1>3. CASE WriteCertificate(s)
  <2>1. Works(s) /\ shell'[s].pc = "fingerprint" /\ UNCHANGED rendered
    BY <1>3, WriteCertificateDoes, ProceedsWorks DEF At, Active, Proceeds
  <2> QED
    BY <2>1, AloneWorks
<1>4. CASE OpensslEnds(s)
  <2>1. Works(s) /\ shell'[s].pc = "done" /\ UNCHANGED rendered
    BY <1>4, OpensslEndsDoes, StopsWorks DEF At, Active
  <2> QED
    BY <2>1, AloneWorks
<1>5. CASE Fingerprint(s)
  <2>1. Works(s) /\ shell'[s].pc \in {"open", "done"} /\ UNCHANGED rendered
    BY <1>5, FingerprintDoes, ProceedsWorks, StopsWorks DEF At, Active, Proceeds
  <2> QED
    BY <2>1, AloneWorks
<1> QED
  BY <1>1, <1>2, <1>3, <1>4, <1>5 DEF InitSecrets

LEMMA AloneSaveIdentity ==
    ASSUME TypeInv, AloneHolds, NEW s \in Shells, SaveIdentity(s)
    PROVE  AloneHolds'
<1>1. CASE OpenIdentity(s)
  <2>1. Works(s) /\ shell'[s].pc = "write" /\ UNCHANGED rendered
    BY <1>1, OpenIdentityDoes, ProceedsWorks DEF At, Active, Proceeds
  <2> QED
    BY <2>1, AloneWorks
<1>2. CASE WriteIdentity(s)
  <2>1. Works(s) /\ shell'[s].pc \in {"ensure vless", "server", "done"} /\ UNCHANGED rendered
    BY <1>2, WriteIdentityDoes, ProceedsWorks, StopsWorks DEF At, Active, Proceeds
  <2> QED
    BY <2>1, AloneWorks
<1> QED
  BY <1>1, <1>2 DEF SaveIdentity

LEMMA AloneRender ==
    ASSUME TypeInv, AloneHolds, NEW s \in Shells, Render(s)
    PROVE  AloneHolds'
<1>1. CASE BeginRender(s)
  <2>1. Idle.pc = "done"
    BY DEF Idle
  <2>2. \A case \in cases :
          [Idle EXCEPT !.op = "render", !.case = case, !.material = identity,
                       !.pc = IF core = Xray THEN "ensure reality" ELSE "server"].pc # "client"
    BY DEF Idle
  <2> QED
    BY <1>1, <2>1, <2>2, BeginRenderDoes, AloneStarts
<1>2. CASE EnsureReality(s)
  <2>1. Works(s) /\ shell'[s].pc \in {"ensure vless", "reality pair", "done"} /\ UNCHANGED rendered
    BY <1>2, EnsureRealityDoes, ProceedsWorks, StopsWorks DEF At, Active, Proceeds
  <2> QED
    BY <2>1, AloneWorks
<1>3. CASE EnsureVlessEncryption(s)
  <2>1. Works(s) /\ shell'[s].pc \in {"server", "vless pair", "done"} /\ UNCHANGED rendered
    BY <1>3, EnsureVlessEncryptionDoes, ProceedsWorks, StopsWorks DEF At, Active, Proceeds
  <2> QED
    BY <2>1, AloneWorks
<1>4. CASE GenerateReality(s)
  <2>1. Works(s) /\ shell'[s].pc \in {"open", "done"} /\ UNCHANGED rendered
    BY <1>4, GenerateRealityDoes, ProceedsWorks, StopsWorks DEF At, Active, Proceeds
  <2> QED
    BY <2>1, AloneWorks
<1>5. CASE GenerateVlessEncryption(s)
  <2>1. Works(s) /\ shell'[s].pc \in {"open", "done"} /\ UNCHANGED rendered
    BY <1>5, GenerateVlessEncryptionDoes, ProceedsWorks, StopsWorks DEF At, Active, Proceeds
  <2> QED
    BY <2>1, AloneWorks
<1>6. CASE WriteServer(s)
  <2>1. At(s, "server") /\ Works(s) /\ UNCHANGED rendered
    BY <1>6, WriteServerDoes, ProceedsWorks, StopsWorks DEF At, Active
  <2>2. shell'[s].pc = "client" =>
            document'["server"] = [case |-> shell'[s].case, material |-> shell'[s].material]
    <3>1. CASE /\ document' = [document EXCEPT !["server"] = Rendered(s)]
               /\ Proceeds(s, "client", shell[s].draft, shell[s].material, shell[s].next)
      BY <3>1 DEF TypeInv, DocumentsOK, Sides, Rendered, Proceeds
    <3>2. CASE Stops(s)
      BY <3>2, <2>1, StopsWorks DEF Works
    <3> QED
      BY <1>6, <3>1, <3>2, WriteServerDoes
  <2> QED
    BY <2>1, <2>2, AloneWorks
<1>7. CASE WriteClient(s)
  <2>1. /\ At(s, "client") /\ Works(s) /\ shell'[s].pc = "done"
        /\ document' = [document EXCEPT !["client"] = Rendered(s)]
        /\ rendered' = IF shell[s].alone THEN shell[s].case ELSE None
    BY <1>7, WriteClientDoes, StopsWorks DEF At, Active
  <2>2. LastRender'
    <3> SUFFICES ASSUME shell[s].alone
                 PROVE  /\ Quiet'
                        /\ document'["server"] = document'["client"]
                        /\ document'["server"].case = shell[s].case
      BY <2>1 DEF LastRender
    <3>1. \A t \in Shells : Active(t) => t = s
      BY <2>1 DEF AloneHolds, Sole, Works
    <3>2. Quiet'
      BY <2>1, <3>1 DEF Works, Quiet, Active
    <3>3. document["server"] = Rendered(s)
      BY <2>1 DEF AloneHolds, ServerIsOwn
    <3>4. document'["server"] = Rendered(s) /\ document'["client"] = Rendered(s)
      BY <2>1, <3>3 DEF TypeInv, DocumentsOK, Sides
    <3> QED
      BY <3>2, <3>4 DEF Rendered
  <2> QED
    BY <2>1, <2>2, AloneWorks
<1> QED
  BY <1>1, <1>2, <1>3, <1>4, <1>5, <1>6, <1>7 DEF Render

LEMMA AloneInterrupt ==
    ASSUME TypeInv, AloneHolds, NEW s \in Shells, Interrupt(s)
    PROVE  AloneHolds'
<1>1. Works(s) /\ shell'[s].pc = "done" /\ UNCHANGED rendered
  BY InterruptDoes, StopsWorks
<1> QED
  BY <1>1, AloneWorks

-----------------------------------------------------------------------------
(* One init-secrets at a time *)

Does(s, op) == Active(s) /\ shell[s].op = op

\* No render has begun, and no document is there.
Untouched ==
    /\ \A t \in Shells : ~Does(t, "render")
    /\ \A x \in Sides : document[x] = None

SameSecrets(m, n) == m.id = n.id /\ m.pin = n.pin
Vouched(m) == core # Native => m.pin = certificate /\ m.pin = key

\* What init-secrets has made so far.
Founded(c) ==
    /\ identity = IF c.pc = "write" THEN Torn ELSE None
    /\ c.pc = "certificate" => key = c.draft
    /\ c.pc = "fingerprint" => key = certificate
    /\ c.pc \in SaveSteps => Vouched(c.draft)

\* The material in identity.json, in the hands of a render and in a document.
InHand(c, m) == m = c.material \/ (c.pc \in PairSteps \cup SaveSteps /\ m = c.draft)
Held ==
    {m \in Material :
        \/ m = identity
        \/ \E t \in Shells : Does(t, "render") /\ InHand(shell[t], m)
        \/ \E x \in Sides : document[x] # None /\ m = document[x].material}

OneInit == \A s, t \in Shells : Does(s, "init") /\ Does(t, "init") => s = t
InitFirst ==
    /\ identity = None => Untouched
    /\ \A s \in Shells : Does(s, "init") => Untouched /\ Founded(shell[s])
HeldAgree == \A m \in Held : Vouched(m) /\ \A n \in Held : SameSecrets(m, n)

InitHolds == "init" \notin raced => OneInit /\ InitFirst /\ HeldAgree

\* A step of a render hands on what is held.
LEMMA InitRenderWorks ==
    ASSUME InitHolds, NEW s \in Shells, Does(s, "render"), Works(s),
           UNCHANGED <<core, key, certificate, raced>>, identity' = None => identity = None,
           \A m \in Held' : \E n \in Held : SameSecrets(m, n)
    PROVE  InitHolds'
<1> SUFFICES ASSUME "init" \notin raced PROVE (OneInit /\ InitFirst /\ HeldAgree)'
  BY DEF InitHolds
<1>1. OneInit /\ InitFirst /\ HeldAgree
  BY DEF InitHolds
<1>2. ~Untouched /\ identity # None /\ \A t \in Shells : ~Does(t, "init")
  BY <1>1 DEF Untouched, InitFirst
<1>3. \A t \in Shells : ~Does(t, "init")'
  BY <1>2 DEF Does, Works, Active
<1>4. OneInit' /\ InitFirst'
  BY <1>2, <1>3 DEF OneInit, InitFirst
<1>5. HeldAgree'
  <2> SUFFICES ASSUME NEW m \in Held' PROVE Vouched(m)' /\ \A n \in Held' : SameSecrets(m, n)
    BY DEF HeldAgree, SameSecrets
  <2>1. \A n \in Held' : \E o \in Held : SameSecrets(n, o) /\ Vouched(o)
    BY <1>1 DEF HeldAgree
  <2>2. Vouched(m)'
    BY <2>1 DEF SameSecrets, Vouched
  <2>3. \A n \in Held' : SameSecrets(m, n)
    BY <1>1 DEF HeldAgree, SameSecrets
  <2> QED
    BY <2>2, <2>3
<1> QED
  BY <1>4, <1>5

\* A step of init-secrets: nothing was held, and at most what it writes is.
LEMMA InitInitWorks ==
    ASSUME TypeInv, InitHolds, NEW s \in Shells, Does(s, "init"), Works(s),
           UNCHANGED <<core, document, raced>>,
           "init" \notin raced /\ Founded(shell[s]) =>
              \/ shell'[s].pc # "done" /\ Founded(shell[s])'
              \/ shell'[s].pc = "done" /\ UNCHANGED identity
              \/ shell'[s].pc = "done" /\ identity' \in Material /\ Vouched(identity)'
    PROVE  InitHolds'
<1> SUFFICES ASSUME "init" \notin raced PROVE (OneInit /\ InitFirst /\ HeldAgree)'
  BY DEF InitHolds
<1>1. OneInit /\ InitFirst /\ HeldAgree
  BY DEF InitHolds
<1>2. Untouched /\ Founded(shell[s]) /\ \A t \in Shells : Does(t, "init") => t = s
  BY <1>1 DEF InitFirst, OneInit
<1>3. Untouched'
  BY <1>2 DEF Untouched, Does, Works, Active
<1>4. OneInit' /\ \A t \in Shells : Does(t, "init")' => t = s
  BY <1>2 DEF OneInit, Does, Works, Active
<1>5. InitFirst'
  BY <1>2, <1>3, <1>4 DEF InitFirst, Does, Active
<1>6. \A m \in Held' : m = identity'
  BY <1>3 DEF Held, Untouched
<1>7. identity' \in Material => Vouched(identity)'
  BY <1>2, FilesAssumption DEF Founded
<1>8. HeldAgree'
  BY <1>6, <1>7 DEF HeldAgree, SameSecrets, Held
<1> QED
  BY <1>4, <1>5, <1>8

\* A command fails at once.
LEMMA InitStartsNothing ==
    ASSUME InitHolds, NEW s \in Shells, NEW op, Starts(s, op, Idle),
           UNCHANGED <<core, key, certificate, identity, document>>
    PROVE  InitHolds'
<1> SUFFICES ASSUME "init" \notin raced' PROVE (OneInit /\ InitFirst /\ HeldAgree)'
  BY DEF InitHolds
<1>1. OneInit /\ InitFirst /\ HeldAgree
  BY DEF InitHolds, Starts
<1>2. \A o : \A t \in Shells : Does(t, o)' => Does(t, o) /\ Alike(shell'[t], shell[t])
  BY DEF Does, Starts, Active, Alike, Idle
<1>3. OneInit'
  BY <1>1, <1>2 DEF OneInit
<1>4. Untouched => Untouched'
  BY <1>2 DEF Untouched
<1>5. InitFirst'
  <2>1. identity' = None => Untouched'
    BY <1>1, <1>4 DEF InitFirst
  <2>2. ASSUME NEW t \in Shells, Does(t, "init")'
        PROVE  Untouched' /\ Founded(shell[t])'
    <3>1. Untouched /\ Founded(shell[t]) /\ Alike(shell'[t], shell[t])
      BY <1>1, <1>2, <2>2 DEF InitFirst
    <3> QED
      BY <1>4, <3>1 DEF Founded, Alike, Vouched
  <2> QED
    BY <2>1, <2>2 DEF InitFirst
<1>6. \A m \in Held' : m \in Held
  BY <1>2 DEF Held, InHand, Alike
<1>7. HeldAgree'
  BY <1>1, <1>6 DEF HeldAgree, Vouched
<1> QED
  BY <1>3, <1>5, <1>7

\* init-secrets begins.
LEMMA InitStartsInit ==
    ASSUME InitHolds, NEW s \in Shells, NEW command, Starts(s, "init", command), command.op = "init",
           UNCHANGED <<core, key, certificate, identity, document>>, Fresh,
           command.pc = "key" \/ (command.pc = "open" /\ core = Native)
    PROVE  InitHolds'
<1> SUFFICES ASSUME "init" \notin raced' PROVE (OneInit /\ InitFirst /\ HeldAgree)'
  BY DEF InitHolds
<1>1. OneInit /\ InitFirst /\ HeldAgree /\ \A t \in Shells : ~Does(t, "init")
  BY DEF InitHolds, Starts, Does
<1>2. Untouched
  BY <1>1 DEF InitFirst, Fresh
<1>3. \A o : \A t \in Shells : t # s /\ Does(t, o)' => Does(t, o) /\ Alike(shell'[t], shell[t])
  BY DEF Does, Starts, Active, Alike
<1>4. Does(s, "init")' /\ ~Does(s, "render")' /\ shell'[s].pc = command.pc
  BY DEF Does, Starts, Active, Alike
<1>5. Untouched'
  BY <1>2, <1>3, <1>4 DEF Untouched
<1>6. OneInit' /\ \A t \in Shells : Does(t, "init")' => t = s
  BY <1>1, <1>3 DEF OneInit
<1>7. Founded(shell[s])'
  BY <1>4 DEF Founded, Fresh, Vouched, SaveSteps
<1>8. InitFirst'
  BY <1>5, <1>6, <1>7 DEF InitFirst
<1>9. \A m \in Held' : m = None /\ m \in Material
  BY <1>5 DEF Held, Untouched, Fresh
<1>10. HeldAgree'
  BY <1>9, FilesAssumption DEF HeldAgree
<1> QED
  BY <1>6, <1>8, <1>10

\* A render begins with what is in identity.json.
LEMMA InitStartsRender ==
    ASSUME InitHolds, NEW s \in Shells, NEW command, Starts(s, "render", command), command.op = "render",
           UNCHANGED <<core, key, certificate, identity, document>>,
           identity \in Material, command.material = identity, command.pc \notin PairSteps \cup SaveSteps
    PROVE  InitHolds'
<1> SUFFICES ASSUME "init" \notin raced' PROVE (OneInit /\ InitFirst /\ HeldAgree)'
  BY DEF InitHolds
<1>1. OneInit /\ InitFirst /\ HeldAgree
  BY DEF InitHolds, Starts
<1>2. \A t \in Shells : ~Does(t, "init")
  BY <1>1, FilesAssumption DEF InitFirst, Founded
<1>3. \A o : \A t \in Shells : t # s /\ Does(t, o)' => Does(t, o) /\ Alike(shell'[t], shell[t])
  BY DEF Does, Starts, Active, Alike
<1>4. \A t \in Shells : ~Does(t, "init")'
  BY <1>2, <1>3 DEF Does, Starts, Alike
<1>5. OneInit' /\ InitFirst'
  BY <1>4, FilesAssumption DEF OneInit, InitFirst
<1>6. \A m \in Held' : m \in Held
  BY <1>3 DEF Held, InHand, Alike, Starts
<1>7. HeldAgree'
  BY <1>1, <1>6 DEF HeldAgree, Vouched
<1> QED
  BY <1>5, <1>7

LEMMA InitInitSecrets ==
    ASSUME TypeInv, InitHolds, NEW s \in Shells, InitSecrets(s)
    PROVE  InitHolds'
<1>1. CASE BeginInit(s)
  <2>1. UNCHANGED <<core, key, certificate, identity, document>>
    BY <1>1, BeginInitDoes DEF files
  <2>2. CASE Starts(s, "init", Idle)
    BY <2>1, <2>2, InitStartsNothing
  <2>3. CASE Fresh /\ Starts(s, "init", [Idle EXCEPT !.op = "init", !.pc = "key"])
    <3>1. /\ [Idle EXCEPT !.op = "init", !.pc = "key"].op = "init"
          /\ [Idle EXCEPT !.op = "init", !.pc = "key"].pc = "key"
      BY DEF Idle
    <3> QED
      BY <2>1, <2>3, <3>1, InitStartsInit
  <2>4. CASE /\ Fresh /\ core = Native
             /\ Starts(s, "init", [Idle EXCEPT !.op = "init", !.pc = "open", !.next = "done",
                                               !.draft = NewIdentity(made', None)])
    <3> DEFINE command == [Idle EXCEPT !.op = "init", !.pc = "open", !.next = "done",
                                       !.draft = NewIdentity(made', None)]
    <3>1. command.op = "init" /\ command.pc = "open"
      BY DEF Idle
    <3> QED
      BY <2>1, <2>4, <3>1, InitStartsInit
  <2> QED
    BY <1>1, <2>2, <2>3, <2>4, BeginInitDoes
<1>2. CASE WriteKey(s)
  <2>1. /\ At(s, "key") /\ key' = made' /\ UNCHANGED <<core, identity, document, raced>>
        /\ Proceeds(s, "certificate", made', shell[s].material, shell[s].next)
    BY <1>2, WriteKeyDoes
  <2>2. Does(s, "init") /\ Works(s)
    BY <2>1, FieldTypes, ProceedsWorks DEF At, Active, Does, Prepared
  <2>3. Founded(shell[s]) => shell'[s].pc # "done" /\ Founded(shell[s])'
    BY <2>1 DEF At, Proceeds, Founded, SaveSteps
  <2> QED
    BY <2>1, <2>2, <2>3, InitInitWorks
<1>3. CASE WriteCertificate(s)
  <2>1. /\ At(s, "certificate") /\ certificate' = shell[s].draft
        /\ UNCHANGED <<core, key, identity, document, raced>>
        /\ Proceeds(s, "fingerprint", shell[s].draft, shell[s].material, shell[s].next)
    BY <1>3, WriteCertificateDoes
  <2>2. Does(s, "init") /\ Works(s)
    BY <2>1, FieldTypes, ProceedsWorks DEF At, Active, Does, Prepared
  <2>3. Founded(shell[s]) => shell'[s].pc # "done" /\ Founded(shell[s])'
    BY <2>1 DEF At, Proceeds, Founded, SaveSteps
  <2> QED
    BY <2>1, <2>2, <2>3, InitInitWorks
<1>4. CASE OpensslEnds(s)
  <2>1. /\ At(s, "key") \/ At(s, "certificate")
        /\ Stops(s) /\ UNCHANGED <<core, identity, document, raced>>
    BY <1>4, OpensslEndsDoes
  <2>2. Does(s, "init") /\ Works(s) /\ shell'[s].pc = "done"
    BY <2>1, FieldTypes, StopsWorks DEF At, Active, Does, Prepared
  <2> QED
    BY <2>1, <2>2, InitInitWorks
<1>5. CASE Fingerprint(s)
  <2>1. At(s, "fingerprint") /\ UNCHANGED <<core, key, certificate, identity, document, raced>>
    BY <1>5, FingerprintDoes
  <2>2. Does(s, "init") /\ Active(s)
    BY <2>1, FieldTypes DEF At, Active, Does, Prepared
  <2>3. CASE Proceeds(s, "open", NewIdentity(made', certificate), shell[s].material, "done")
    <3>1. Works(s)
      BY <2>2, <2>3, ProceedsWorks
    <3>2. NewIdentity(made', certificate).pin = certificate
      BY DEF NewIdentity
    <3>3. Founded(shell[s]) => shell'[s].pc # "done" /\ Founded(shell[s])'
      BY <2>1, <2>3, <3>2 DEF At, Proceeds, Founded, SaveSteps, Vouched
    <3> QED
      BY <2>1, <2>2, <3>1, <3>3, InitInitWorks
  <2>4. CASE Stops(s)
    <3>1. Works(s) /\ shell'[s].pc = "done"
      BY <2>2, <2>4, StopsWorks
    <3> QED
      BY <2>1, <2>2, <3>1, InitInitWorks
  <2> QED
    BY <1>5, <2>3, <2>4, FingerprintDoes
<1> QED
  BY <1>1, <1>2, <1>3, <1>4, <1>5 DEF InitSecrets

\* What a render holds, and what it writes and hands on.
LEMMA RenderHandsOn ==
    ASSUME TypeInv, InitHolds, NEW s \in Shells, Does(s, "render"), Works(s),
           UNCHANGED <<core, key, certificate, raced>>, identity' = None => identity = None,
           identity' \in {identity, Torn} \/ (shell[s].pc \in SaveSteps /\ identity' = shell[s].draft),
           shell'[s].pc # "done" =>
              \A m \in Material : InHand(shell'[s], m) => \E n \in Held : SameSecrets(m, n),
           \A x \in Sides : document'[x] = document[x] \/ document'[x].material = shell[s].material
    PROVE  InitHolds'
<1>1. shell[s].material \in Material /\ (shell[s].pc \in PairSteps \cup SaveSteps => shell[s].draft \in Material)
  BY FieldTypes DEF Does, Active, Prepared
<1>2. /\ shell[s].material \in Held
      /\ shell[s].pc \in PairSteps \cup SaveSteps => shell[s].draft \in Held
  BY <1>1 DEF Held, InHand
<1>3. ASSUME NEW m \in Held'
      PROVE  \E n \in Held : SameSecrets(m, n)
  <2>1. m \in Material
    BY <1>3 DEF Held
  <2>2. CASE m = identity'
    <3>1. m \in Held
      BY <1>2, <2>1, <2>2, FilesAssumption DEF Held
    <3> QED
      BY <3>1 DEF SameSecrets
  <2>3. ASSUME NEW t \in Shells, Does(t, "render")', InHand(shell'[t], m)
        PROVE  \E n \in Held : SameSecrets(m, n)
    <3>1. CASE t = s
      BY <2>1, <2>3, <3>1 DEF Does, Active
    <3>2. CASE t # s
      <4>1. Does(t, "render") /\ InHand(shell[t], m)
        BY <2>3, <3>2 DEF Does, Active, Works
      <4>2. m \in Held
        BY <2>1, <4>1 DEF Held
      <4> QED
        BY <4>2 DEF SameSecrets
    <3> QED
      BY <3>1, <3>2
  <2>4. ASSUME NEW x \in Sides, document'[x] # None, m = document'[x].material
        PROVE  \E n \in Held : SameSecrets(m, n)
    <3>1. m \in Held
      BY <1>2, <2>1, <2>4 DEF Held
    <3> QED
      BY <3>1 DEF SameSecrets
  <2> QED
    BY <1>3, <2>2, <2>3, <2>4 DEF Held
<1> QED
  BY <1>3, InitRenderWorks

\* What a render has in its hands is held.
LEMMA InHandIsHeld ==
    ASSUME NEW s \in Shells, Does(s, "render"), NEW m \in Material, InHand(shell[s], m)
    PROVE  m \in Held
  BY DEF Held

\* A render that stops, or that goes on with what it has.
LEMMA InitRenderStops ==
    ASSUME TypeInv, InitHolds, NEW s \in Shells, Does(s, "render"), Stops(s),
           UNCHANGED <<core, key, certificate, raced>>,
           identity' = identity \/ (shell[s].pc \in SaveSteps /\ identity' = shell[s].draft /\ identity' \in Material),
           \A x \in Sides : document'[x] = document[x] \/ document'[x].material = shell[s].material
    PROVE  InitHolds'
<1>1. Works(s) /\ shell'[s].pc = "done"
  BY StopsWorks DEF Does
<1>2. identity' = None => identity = None
  BY FilesAssumption
<1> QED
  BY <1>1, <1>2, RenderHandsOn

LEMMA InitRenderProceeds ==
    ASSUME TypeInv, InitHolds, NEW s \in Shells, Does(s, "render"),
           NEW pc, NEW draft, NEW material, NEW next, Proceeds(s, pc, draft, material, next),
           UNCHANGED <<core, key, certificate, raced>>,
           \/ identity' \in {identity, Torn}
           \/ shell[s].pc \in SaveSteps /\ identity' = shell[s].draft /\ identity' \in Material,
           SameSecrets(material, shell[s].material),
           pc \in PairSteps \cup SaveSteps =>
              draft = identity \/ (shell[s].pc \in PairSteps \cup SaveSteps /\ SameSecrets(draft, shell[s].draft)),
           \A x \in Sides : document'[x] = document[x] \/ document'[x].material = shell[s].material
    PROVE  InitHolds'
<1>1. Works(s)
  BY ProceedsWorks DEF Does
<1>2. identity' = None => identity = None
  BY FilesAssumption
<1>3. /\ shell[s].material \in Material /\ InHand(shell[s], shell[s].material)
      /\ shell[s].pc \in PairSteps \cup SaveSteps =>
            shell[s].draft \in Material /\ InHand(shell[s], shell[s].draft)
  BY FieldTypes DEF Does, Active, Prepared, InHand
<1>4. ASSUME NEW m \in Material, InHand(shell'[s], m)
      PROVE  \E n \in Held : SameSecrets(m, n)
  <2>1. m = material \/ (pc \in PairSteps \cup SaveSteps /\ m = draft)
    BY <1>4 DEF InHand, Proceeds
  <2>2. CASE m = material
    BY <1>3, <2>2, InHandIsHeld
  <2>3. CASE pc \in PairSteps \cup SaveSteps /\ m = draft /\ draft = identity
    BY <2>3 DEF Held, SameSecrets
  <2>4. CASE /\ m = draft
             /\ shell[s].pc \in PairSteps \cup SaveSteps /\ SameSecrets(draft, shell[s].draft)
    BY <1>3, <2>4, InHandIsHeld
  <2> QED
    BY <2>1, <2>2, <2>3, <2>4
<1> QED
  BY <1>1, <1>2, <1>4, RenderHandsOn

LEMMA InitSaveIdentity ==
    ASSUME TypeInv, InitHolds, NEW s \in Shells, SaveIdentity(s)
    PROVE  InitHolds'
<1>1. CASE OpenIdentity(s)
  <2>1. /\ At(s, "open") /\ identity' = Torn /\ UNCHANGED <<core, key, certificate, document, raced>>
        /\ Proceeds(s, "write", shell[s].draft, shell[s].material, shell[s].next)
    BY <1>1, OpenIdentityDoes
  <2>2. Active(s) /\ (Does(s, "init") \/ Does(s, "render")) /\ shell[s].pc \in PairSteps \cup SaveSteps
    BY <2>1, FieldTypes DEF At, Active, Does, Prepared, SaveSteps
  <2>3. CASE Does(s, "init")
    <3>1. Works(s)
      BY <2>1, <2>2, ProceedsWorks
    <3>2. Founded(shell[s]) => shell'[s].pc # "done" /\ Founded(shell[s])'
      BY <2>1 DEF At, Proceeds, Founded, SaveSteps, Vouched
    <3> QED
      BY <2>1, <2>3, <3>1, <3>2, InitInitWorks
  <2>4. CASE Does(s, "render")
    BY <2>1, <2>2, <2>4, InitRenderProceeds DEF SameSecrets
  <2> QED
    BY <2>2, <2>3, <2>4
<1>2. CASE WriteIdentity(s)
  <2>1. /\ At(s, "write") /\ identity' = shell[s].draft /\ identity' \in Material
        /\ UNCHANGED <<core, key, certificate, document, raced>>
    BY <1>2, WriteIdentityDoes
  <2>2. Active(s) /\ shell[s].pc \in SaveSteps
    BY <2>1 DEF At, Active, SaveSteps
  <2>3. CASE shell[s].op = "init" /\ Stops(s)
    <3>1. Works(s) /\ shell'[s].pc = "done" /\ Does(s, "init")
      BY <2>2, <2>3, StopsWorks DEF Does
    <3>2. Founded(shell[s]) => Vouched(identity)'
      BY <2>1, <2>2 DEF Founded, Vouched
    <3> QED
      BY <2>1, <3>1, <3>2, InitInitWorks
  <2>4. CASE /\ shell[s].op = "render" /\ shell[s].next \in {"ensure vless", "server"}
             /\ Proceeds(s, shell[s].next, None, shell[s].material, None)
    <3>1. Does(s, "render") /\ shell[s].next \notin PairSteps \cup SaveSteps
      BY <2>2, <2>4 DEF Does, PairSteps, SaveSteps
    <3> QED
      BY <2>1, <2>2, <2>4, <3>1, InitRenderProceeds DEF SameSecrets
  <2> QED
    BY <1>2, <2>3, <2>4, WriteIdentityDoes
<1> QED
  BY <1>1, <1>2 DEF SaveIdentity

LEMMA InitInterrupt ==
    ASSUME TypeInv, InitHolds, NEW s \in Shells, Interrupt(s)
    PROVE  InitHolds'
<1>1. Active(s) /\ Stops(s) /\ UNCHANGED <<core, key, certificate, identity, document, raced>>
  BY InterruptDoes
<1>2. Works(s) /\ shell'[s].pc = "done"
  BY <1>1, StopsWorks
<1>3. CASE Does(s, "init")
  BY <1>1, <1>2, <1>3, InitInitWorks
<1>4. CASE Does(s, "render")
  BY <1>1, <1>4, InitRenderStops
<1>5. Does(s, "init") \/ Does(s, "render")
  BY <1>1, FieldTypes DEF Active, Does, Prepared, Command, Steps, EnsureSteps, PairSteps, DocumentSteps, SaveSteps
<1> QED
  BY <1>3, <1>4, <1>5

\* A pair that is drawn leaves the id and the pin.
LEMMA CompletedIsSame ==
    ASSUME NEW m \in Material, NEW pair
    PROVE  /\ SameSecrets([m EXCEPT !.reality = pair], m) /\ SameSecrets([m EXCEPT !.vless = pair], m)
           /\ [m EXCEPT !.reality = pair].vless = m.vless /\ [m EXCEPT !.vless = pair].reality = m.reality
  BY DEF SameSecrets, Material

LEMMA InitRender ==
    ASSUME TypeInv, InitHolds, NEW s \in Shells, Render(s)
    PROVE  InitHolds'
<1>1. CASE BeginRender(s)
  <2>1. UNCHANGED <<core, key, certificate, identity, document>>
    BY <1>1, BeginRenderDoes
  <2>2. CASE Starts(s, "render", Idle)
    BY <2>1, <2>2, InitStartsNothing
  <2>3. ASSUME identity \in Material, NEW case \in cases,
               Starts(s, "render",
                      [Idle EXCEPT !.op = "render", !.case = case, !.material = identity,
                                   !.pc = IF core = Xray THEN "ensure reality" ELSE "server"])
        PROVE  InitHolds'
    <3> DEFINE command == [Idle EXCEPT !.op = "render", !.case = case, !.material = identity,
                                       !.pc = IF core = Xray THEN "ensure reality" ELSE "server"]
    <3>1. command.op = "render" /\ command.material = identity /\ command.pc \notin PairSteps \cup SaveSteps
      BY DEF Idle, PairSteps, SaveSteps
    <3> QED
      BY <2>1, <2>3, <3>1, InitStartsRender
  <2> QED
    BY <1>1, <2>2, <2>3, BeginRenderDoes
<1>2. CASE EnsureReality(s)
  <2>1. At(s, "ensure reality") /\ UNCHANGED <<core, key, certificate, identity, document, raced>>
    BY <1>2, EnsureRealityDoes
  <2>2. Does(s, "render") /\ "ensure vless" \notin PairSteps \cup SaveSteps
    BY <2>1, FieldTypes DEF At, Active, Does, Prepared, EnsureSteps, PairSteps, SaveSteps
  <2>3. CASE Stops(s)
    BY <2>1, <2>2, <2>3, InitRenderStops
  <2>4. CASE Proceeds(s, "ensure vless", shell[s].draft, shell[s].material, shell[s].next)
    BY <2>1, <2>2, <2>4, InitRenderProceeds DEF SameSecrets
  <2>5. CASE Proceeds(s, "reality pair", identity, shell[s].material, shell[s].next)
    BY <2>1, <2>2, <2>5, InitRenderProceeds DEF SameSecrets
  <2> QED
    BY <1>2, <2>3, <2>4, <2>5, EnsureRealityDoes
<1>3. CASE EnsureVlessEncryption(s)
  <2>1. At(s, "ensure vless") /\ UNCHANGED <<core, key, certificate, identity, document, raced>>
    BY <1>3, EnsureVlessEncryptionDoes
  <2>2. Does(s, "render") /\ "server" \notin PairSteps \cup SaveSteps
    BY <2>1, FieldTypes DEF At, Active, Does, Prepared, EnsureSteps, PairSteps, SaveSteps
  <2>3. CASE Stops(s)
    BY <2>1, <2>2, <2>3, InitRenderStops
  <2>4. CASE Proceeds(s, "server", shell[s].draft, shell[s].material, shell[s].next)
    BY <2>1, <2>2, <2>4, InitRenderProceeds DEF SameSecrets
  <2>5. CASE Proceeds(s, "vless pair", identity, shell[s].material, shell[s].next)
    BY <2>1, <2>2, <2>5, InitRenderProceeds DEF SameSecrets
  <2> QED
    BY <1>3, <2>3, <2>4, <2>5, EnsureVlessEncryptionDoes
<1>4. CASE GenerateReality(s)
  <2>1. At(s, "reality pair") /\ UNCHANGED <<core, key, certificate, identity, document, raced>>
    BY <1>4, GenerateRealityDoes
  <2>2. /\ Does(s, "render") /\ shell[s].pc \in PairSteps \cup SaveSteps
        /\ shell[s].draft \in Material /\ shell[s].material \in Material
    BY <2>1, FieldTypes DEF At, Active, Does, Prepared, PairSteps
  <2>3. CASE Stops(s)
    BY <2>1, <2>2, <2>3, InitRenderStops
  <2>4. CASE Proceeds(s, "open", [shell[s].draft EXCEPT !.reality = made'],
                      [shell[s].material EXCEPT !.reality = made'], "ensure vless")
    BY <2>1, <2>2, <2>4, CompletedIsSame, InitRenderProceeds
  <2> QED
    BY <1>4, <2>3, <2>4, GenerateRealityDoes
<1>5. CASE GenerateVlessEncryption(s)
  <2>1. At(s, "vless pair") /\ UNCHANGED <<core, key, certificate, identity, document, raced>>
    BY <1>5, GenerateVlessEncryptionDoes
  <2>2. /\ Does(s, "render") /\ shell[s].pc \in PairSteps \cup SaveSteps
        /\ shell[s].draft \in Material /\ shell[s].material \in Material
    BY <2>1, FieldTypes DEF At, Active, Does, Prepared, PairSteps
  <2>3. CASE Stops(s)
    BY <2>1, <2>2, <2>3, InitRenderStops
  <2>4. CASE Proceeds(s, "open", [shell[s].draft EXCEPT !.vless = made'],
                      [shell[s].material EXCEPT !.vless = made'], "server")
    BY <2>1, <2>2, <2>4, CompletedIsSame, InitRenderProceeds
  <2> QED
    BY <1>5, <2>3, <2>4, GenerateVlessEncryptionDoes
<1>6. CASE WriteServer(s)
  <2>1. At(s, "server") /\ UNCHANGED <<core, key, certificate, identity, raced>>
    BY <1>6, WriteServerDoes
  <2>2. Does(s, "render") /\ "client" \notin PairSteps \cup SaveSteps
    BY <2>1, FieldTypes DEF At, Active, Does, Prepared, DocumentSteps, PairSteps, SaveSteps
  <2>3. CASE Stops(s) /\ UNCHANGED document
    BY <2>1, <2>2, <2>3, InitRenderStops
  <2>4. CASE /\ document' = [document EXCEPT !["server"] = Rendered(s)]
             /\ Proceeds(s, "client", shell[s].draft, shell[s].material, shell[s].next)
    <3>1. \A x \in Sides : document'[x] = document[x] \/ document'[x].material = shell[s].material
      BY <2>4 DEF TypeInv, DocumentsOK, Sides, Rendered
    <3> QED
      BY <2>1, <2>2, <2>4, <3>1, InitRenderProceeds DEF SameSecrets
  <2> QED
    BY <1>6, <2>3, <2>4, WriteServerDoes
<1>7. CASE WriteClient(s)
  <2>1. /\ At(s, "client") /\ Stops(s) /\ UNCHANGED <<core, key, certificate, identity, raced>>
        /\ document' = [document EXCEPT !["client"] = Rendered(s)]
    BY <1>7, WriteClientDoes
  <2>2. Does(s, "render")
    BY <2>1, FieldTypes DEF At, Active, Does, Prepared, DocumentSteps
  <2>3. \A x \in Sides : document'[x] = document[x] \/ document'[x].material = shell[s].material
    BY <2>1 DEF TypeInv, DocumentsOK, Sides, Rendered
  <2> QED
    BY <2>1, <2>2, <2>3, InitRenderStops
<1> QED
  BY <1>1, <1>2, <1>3, <1>4, <1>5, <1>6, <1>7 DEF Render

-----------------------------------------------------------------------------
(* One render at a time *)

\* The material of a render is what identity.json holds, or the completion of it
\* that the render is about to write.
RenderKeeps(c) ==
    /\ c.pc \in EnsureSteps \cup PairSteps \cup DocumentSteps => identity = c.material
    /\ c.pc \in PairSteps \cup SaveSteps => c.draft = c.material
    /\ c.pc = "reality pair" => c.material.reality = None
    /\ c.pc = "vless pair" => c.material.vless = None
    /\ c.pc = "open" => Keeps(identity, c.draft)

OneRender == \A s, t \in Shells : Does(s, "render") /\ Does(t, "render") => s = t
RenderHolds ==
    raced = {} => OneRender /\ \A s \in Shells : Does(s, "render") => RenderKeeps(shell[s])

LEMMA RenderRenderWorks ==
    ASSUME RenderHolds, NEW s \in Shells, Does(s, "render"), Works(s), UNCHANGED raced,
           RenderKeeps(shell[s]) /\ shell'[s].pc # "done" => RenderKeeps(shell[s])'
    PROVE  RenderHolds'
<1> SUFFICES ASSUME raced = {}
             PROVE  OneRender' /\ \A t \in Shells : Does(t, "render")' => RenderKeeps(shell[t])'
  BY DEF RenderHolds
<1>1. RenderKeeps(shell[s]) /\ \A t \in Shells : Does(t, "render") => t = s
  BY DEF RenderHolds, OneRender
<1>2. \A t \in Shells : Does(t, "render")' => t = s
  BY <1>1 DEF Does, Works, Active
<1>3. Does(s, "render")' => RenderKeeps(shell[s])'
  BY <1>1 DEF Does, Active
<1> QED
  BY <1>2, <1>3 DEF OneRender

\* No render has begun when init-secrets writes.
LEMMA RenderInitWorks ==
    ASSUME InitHolds, RenderHolds, NEW s \in Shells, Does(s, "init"), Works(s), UNCHANGED raced
    PROVE  RenderHolds'
<1> SUFFICES ASSUME raced = {} PROVE \A t \in Shells : ~Does(t, "render")'
  BY DEF RenderHolds, OneRender
<1>1. \A t \in Shells : ~Does(t, "render")
  BY DEF InitHolds, InitFirst, Untouched
<1> QED
  BY <1>1 DEF Does, Works, Active

\* A command begins that is no render.
LEMMA RenderStartsOther ==
    ASSUME RenderHolds, NEW s \in Shells, NEW op, NEW command, Starts(s, op, command),
           command.pc = "done" \/ command.op = "init", UNCHANGED identity
    PROVE  RenderHolds'
<1> SUFFICES ASSUME raced = {}
             PROVE  OneRender' /\ \A t \in Shells : Does(t, "render")' => RenderKeeps(shell[t])'
  BY DEF RenderHolds, Starts
<1>1. \A t \in Shells : Does(t, "render")' => Does(t, "render") /\ Alike(shell'[t], shell[t])
  BY DEF Does, Starts, Active, Alike
<1>2. OneRender'
  BY <1>1 DEF RenderHolds, OneRender
<1>3. ASSUME NEW t \in Shells, Does(t, "render")' PROVE RenderKeeps(shell[t])'
  <2>1. RenderKeeps(shell[t]) /\ Alike(shell'[t], shell[t])
    BY <1>1, <1>3 DEF RenderHolds
  <2> QED
    BY <2>1 DEF RenderKeeps, Alike
<1> QED
  BY <1>2, <1>3

\* A render begins: there is no other.
LEMMA RenderStartsRender ==
    ASSUME RenderHolds, NEW s \in Shells, NEW command, Starts(s, "render", command), UNCHANGED identity,
           command.pc \in EnsureSteps \cup DocumentSteps, command.material = identity
    PROVE  RenderHolds'
<1> SUFFICES ASSUME raced' = {}
             PROVE  OneRender' /\ \A t \in Shells : Does(t, "render")' => RenderKeeps(shell[t])'
  BY DEF RenderHolds
<1>1. \A t \in Shells : ~Does(t, "render")
  BY DEF Starts, Does
<1>2. \A t \in Shells : Does(t, "render")' => t = s
  BY <1>1 DEF Does, Starts, Active, Alike
<1>3. RenderKeeps(shell[s])'
  BY DEF RenderKeeps, Starts, Alike, EnsureSteps, DocumentSteps, PairSteps, SaveSteps
<1> QED
  BY <1>2, <1>3 DEF OneRender

LEMMA RenderInitSecrets ==
    ASSUME TypeInv, InitHolds, RenderHolds, NEW s \in Shells, InitSecrets(s)
    PROVE  RenderHolds'
<1>1. CASE BeginInit(s)
  <2>1. UNCHANGED identity
    BY <1>1, BeginInitDoes DEF files
  <2>2. /\ Idle.pc = "done" /\ [Idle EXCEPT !.op = "init", !.pc = "key"].op = "init"
        /\ [Idle EXCEPT !.op = "init", !.pc = "open", !.next = "done",
                        !.draft = NewIdentity(made', None)].op = "init"
    BY DEF Idle
  <2> QED
    BY <1>1, <2>1, <2>2, BeginInitDoes, RenderStartsOther
<1>2. CASE WriteKey(s)
  <2>1. Does(s, "init") /\ Works(s) /\ UNCHANGED raced
    BY <1>2, WriteKeyDoes, FieldTypes, ProceedsWorks DEF At, Active, Does, Prepared
  <2> QED
    BY <2>1, RenderInitWorks
<1>3. CASE WriteCertificate(s)
  <2>1. Does(s, "init") /\ Works(s) /\ UNCHANGED raced
    BY <1>3, WriteCertificateDoes, FieldTypes, ProceedsWorks DEF At, Active, Does, Prepared
  <2> QED
    BY <2>1, RenderInitWorks
<1>4. CASE OpensslEnds(s)
  <2>1. Does(s, "init") /\ Works(s) /\ UNCHANGED raced
    BY <1>4, OpensslEndsDoes, FieldTypes, StopsWorks DEF At, Active, Does, Prepared
  <2> QED
    BY <2>1, RenderInitWorks
<1>5. CASE Fingerprint(s)
  <2>1. Does(s, "init") /\ Works(s) /\ UNCHANGED raced
    BY <1>5, FingerprintDoes, FieldTypes, ProceedsWorks, StopsWorks DEF At, Active, Does, Prepared
  <2> QED
    BY <2>1, RenderInitWorks
<1> QED
  BY <1>1, <1>2, <1>3, <1>4, <1>5 DEF InitSecrets

LEMMA RenderSaveIdentity ==
    ASSUME TypeInv, InitHolds, RenderHolds, NEW s \in Shells, SaveIdentity(s)
    PROVE  RenderHolds'
<1>1. CASE OpenIdentity(s)
  <2>1. /\ At(s, "open") /\ UNCHANGED raced
        /\ Proceeds(s, "write", shell[s].draft, shell[s].material, shell[s].next)
    BY <1>1, OpenIdentityDoes
  <2>2. Works(s) /\ (Does(s, "init") \/ Does(s, "render"))
    BY <2>1, FieldTypes, ProceedsWorks DEF At, Active, Does, Prepared, SaveSteps
  <2>3. RenderKeeps(shell[s]) => RenderKeeps(shell[s])'
    BY <2>1 DEF At, Proceeds, RenderKeeps, EnsureSteps, DocumentSteps, PairSteps, SaveSteps
  <2> QED
    BY <2>1, <2>2, <2>3, RenderInitWorks, RenderRenderWorks
<1>2. CASE WriteIdentity(s)
  <2>1. At(s, "write") /\ identity' = shell[s].draft /\ UNCHANGED raced
    BY <1>2, WriteIdentityDoes
  <2>2. CASE shell[s].op = "init" /\ Stops(s)
    <3>1. Works(s) /\ Does(s, "init")
      BY <2>1, <2>2, StopsWorks DEF At, Active, Does
    <3> QED
      BY <2>1, <3>1, RenderInitWorks
  <2>3. CASE /\ shell[s].op = "render" /\ shell[s].next \in {"ensure vless", "server"}
             /\ Proceeds(s, shell[s].next, None, shell[s].material, None)
    <3>1. Works(s) /\ Does(s, "render")
      BY <2>1, <2>3, ProceedsWorks DEF At, Active, Does
    <3>2. RenderKeeps(shell[s]) => RenderKeeps(shell[s])'
      BY <2>1, <2>3 DEF At, Proceeds, RenderKeeps, EnsureSteps, DocumentSteps, PairSteps, SaveSteps
    <3> QED
      BY <2>1, <3>1, <3>2, RenderRenderWorks
  <2> QED
    BY <1>2, <2>2, <2>3, WriteIdentityDoes
<1> QED
  BY <1>1, <1>2 DEF SaveIdentity

LEMMA RenderInterrupt ==
    ASSUME TypeInv, InitHolds, RenderHolds, NEW s \in Shells, Interrupt(s)
    PROVE  RenderHolds'
<1>1. Works(s) /\ shell'[s].pc = "done" /\ Active(s) /\ UNCHANGED raced
  BY InterruptDoes, StopsWorks
<1>2. Does(s, "init") \/ Does(s, "render")
  BY <1>1, FieldTypes DEF Active, Does, Prepared, Command, Steps, EnsureSteps, PairSteps, DocumentSteps, SaveSteps
<1> QED
  BY <1>1, <1>2, RenderInitWorks, RenderRenderWorks

LEMMA RenderRender ==
    ASSUME TypeInv, InitHolds, RenderHolds, NEW s \in Shells, Render(s)
    PROVE  RenderHolds'
<1>1. CASE BeginRender(s)
  <2>1. UNCHANGED identity /\ Idle.pc = "done"
    BY <1>1, BeginRenderDoes DEF Idle
  <2>2. CASE Starts(s, "render", Idle)
    BY <2>1, <2>2, RenderStartsOther
  <2>3. ASSUME NEW case \in cases,
               Starts(s, "render",
                      [Idle EXCEPT !.op = "render", !.case = case, !.material = identity,
                                   !.pc = IF core = Xray THEN "ensure reality" ELSE "server"])
        PROVE  RenderHolds'
    <3> DEFINE command == [Idle EXCEPT !.op = "render", !.case = case, !.material = identity,
                                       !.pc = IF core = Xray THEN "ensure reality" ELSE "server"]
    <3>1. command.material = identity /\ command.pc \in EnsureSteps \cup DocumentSteps
      BY DEF Idle, EnsureSteps, DocumentSteps
    <3> QED
      BY <2>1, <2>3, <3>1, RenderStartsRender
  <2> QED
    BY <1>1, <2>2, <2>3, BeginRenderDoes
<1>2. CASE EnsureReality(s)
  <2>1. At(s, "ensure reality") /\ UNCHANGED <<identity, raced>>
    BY <1>2, EnsureRealityDoes
  <2>2. Does(s, "render") /\ Works(s)
    BY <1>2, <2>1, EnsureRealityDoes, FieldTypes, ProceedsWorks, StopsWorks
       DEF At, Active, Does, Prepared, EnsureSteps
  <2>3. RenderKeeps(shell[s]) /\ shell'[s].pc # "done" => RenderKeeps(shell[s])'
    <3>1. CASE Proceeds(s, "ensure vless", shell[s].draft, shell[s].material, shell[s].next)
      BY <2>1, <3>1 DEF At, Proceeds, RenderKeeps, EnsureSteps, DocumentSteps, PairSteps, SaveSteps
    <3>2. CASE /\ ~KeepsReality(s)
               /\ Proceeds(s, "reality pair", identity, shell[s].material, shell[s].next)
      BY <2>1, <3>2 DEF At, Proceeds, RenderKeeps, KeepsReality, EnsureSteps, DocumentSteps, PairSteps, SaveSteps
    <3>3. CASE Stops(s)
      BY <3>3 DEF Stops, Idle
    <3> QED
      BY <1>2, <3>1, <3>2, <3>3, EnsureRealityDoes
  <2> QED
    BY <2>1, <2>2, <2>3, RenderRenderWorks
<1>3. CASE EnsureVlessEncryption(s)
  <2>1. At(s, "ensure vless") /\ UNCHANGED <<identity, raced>>
    BY <1>3, EnsureVlessEncryptionDoes
  <2>2. Does(s, "render") /\ Works(s)
    BY <1>3, <2>1, EnsureVlessEncryptionDoes, FieldTypes, ProceedsWorks, StopsWorks
       DEF At, Active, Does, Prepared, EnsureSteps
  <2>3. RenderKeeps(shell[s]) /\ shell'[s].pc # "done" => RenderKeeps(shell[s])'
    <3>1. CASE Proceeds(s, "server", shell[s].draft, shell[s].material, shell[s].next)
      BY <2>1, <3>1 DEF At, Proceeds, RenderKeeps, EnsureSteps, DocumentSteps, PairSteps, SaveSteps
    <3>2. CASE /\ ~KeepsVless(s)
               /\ Proceeds(s, "vless pair", identity, shell[s].material, shell[s].next)
      BY <2>1, <3>2 DEF At, Proceeds, RenderKeeps, KeepsVless, EnsureSteps, DocumentSteps, PairSteps, SaveSteps
    <3>3. CASE Stops(s)
      BY <3>3 DEF Stops, Idle
    <3> QED
      BY <1>3, <3>1, <3>2, <3>3, EnsureVlessEncryptionDoes
  <2> QED
    BY <2>1, <2>2, <2>3, RenderRenderWorks
<1>4. CASE GenerateReality(s)
  <2>1. At(s, "reality pair") /\ UNCHANGED <<identity, raced>>
    BY <1>4, GenerateRealityDoes
  <2>2. Does(s, "render") /\ Works(s) /\ shell[s].material \in Material
    BY <1>4, <2>1, GenerateRealityDoes, FieldTypes, ProceedsWorks, StopsWorks
       DEF At, Active, Does, Prepared, PairSteps
  <2>3. RenderKeeps(shell[s]) /\ shell'[s].pc # "done" => RenderKeeps(shell[s])'
    <3>1. CASE Proceeds(s, "open", [shell[s].draft EXCEPT !.reality = made'],
                        [shell[s].material EXCEPT !.reality = made'], "ensure vless")
      <4> SUFFICES ASSUME RenderKeeps(shell[s]) PROVE RenderKeeps(shell[s])'
        OBVIOUS
      <4>1. /\ identity = shell[s].material /\ shell[s].draft = shell[s].material
            /\ shell[s].material.reality = None
        BY <2>1 DEF RenderKeeps, At, PairSteps
      <4>2. Keeps(shell[s].material, [shell[s].material EXCEPT !.reality = made'])
        BY <2>2, <4>1, CompletedIsSame DEF Keeps, SameSecrets
      <4> QED
        BY <2>1, <3>1, <4>1, <4>2 DEF Proceeds, RenderKeeps, EnsureSteps, DocumentSteps, PairSteps, SaveSteps
    <3>2. CASE Stops(s)
      BY <3>2 DEF Stops, Idle
    <3> QED
      BY <1>4, <3>1, <3>2, GenerateRealityDoes
  <2> QED
    BY <2>1, <2>2, <2>3, RenderRenderWorks
<1>5. CASE GenerateVlessEncryption(s)
  <2>1. At(s, "vless pair") /\ UNCHANGED <<identity, raced>>
    BY <1>5, GenerateVlessEncryptionDoes
  <2>2. Does(s, "render") /\ Works(s) /\ shell[s].material \in Material
    BY <1>5, <2>1, GenerateVlessEncryptionDoes, FieldTypes, ProceedsWorks, StopsWorks
       DEF At, Active, Does, Prepared, PairSteps
  <2>3. RenderKeeps(shell[s]) /\ shell'[s].pc # "done" => RenderKeeps(shell[s])'
    <3>1. CASE Proceeds(s, "open", [shell[s].draft EXCEPT !.vless = made'],
                        [shell[s].material EXCEPT !.vless = made'], "server")
      <4> SUFFICES ASSUME RenderKeeps(shell[s]) PROVE RenderKeeps(shell[s])'
        OBVIOUS
      <4>1. /\ identity = shell[s].material /\ shell[s].draft = shell[s].material
            /\ shell[s].material.vless = None
        BY <2>1 DEF RenderKeeps, At, PairSteps
      <4>2. Keeps(shell[s].material, [shell[s].material EXCEPT !.vless = made'])
        BY <2>2, <4>1, CompletedIsSame DEF Keeps, SameSecrets
      <4> QED
        BY <2>1, <3>1, <4>1, <4>2 DEF Proceeds, RenderKeeps, EnsureSteps, DocumentSteps, PairSteps, SaveSteps
    <3>2. CASE Stops(s)
      BY <3>2 DEF Stops, Idle
    <3> QED
      BY <1>5, <3>1, <3>2, GenerateVlessEncryptionDoes
  <2> QED
    BY <2>1, <2>2, <2>3, RenderRenderWorks
<1>6. CASE WriteServer(s)
  <2>1. At(s, "server") /\ UNCHANGED <<identity, raced>>
    BY <1>6, WriteServerDoes
  <2>2. Does(s, "render") /\ Works(s)
    BY <1>6, <2>1, WriteServerDoes, FieldTypes, ProceedsWorks, StopsWorks
       DEF At, Active, Does, Prepared, DocumentSteps
  <2>3. RenderKeeps(shell[s]) /\ shell'[s].pc # "done" => RenderKeeps(shell[s])'
    <3>1. CASE Proceeds(s, "client", shell[s].draft, shell[s].material, shell[s].next)
      BY <2>1, <3>1 DEF At, Proceeds, RenderKeeps, EnsureSteps, DocumentSteps, PairSteps, SaveSteps
    <3>2. CASE Stops(s)
      BY <3>2 DEF Stops, Idle
    <3> QED
      BY <1>6, <3>1, <3>2, WriteServerDoes
  <2> QED
    BY <2>1, <2>2, <2>3, RenderRenderWorks
<1>7. CASE WriteClient(s)
  <2>1. At(s, "client") /\ Stops(s) /\ UNCHANGED <<identity, raced>>
    BY <1>7, WriteClientDoes
  <2>2. Does(s, "render") /\ Works(s) /\ shell'[s].pc = "done"
    BY <2>1, FieldTypes, StopsWorks DEF At, Active, Does, Prepared, DocumentSteps
  <2> QED
    BY <2>1, <2>2, RenderRenderWorks
<1> QED
  BY <1>1, <1>2, <1>3, <1>4, <1>5, <1>6, <1>7 DEF Render

-----------------------------------------------------------------------------
(* The theorems *)

CredentialsInv == TypeInv /\ AloneHolds /\ InitHolds /\ RenderHolds

LEMMA CredentialsInit == Init => CredentialsInv
<1> SUFFICES ASSUME Init PROVE CredentialsInv
  OBVIOUS
<1>1. \A s \in Shells : shell[s] = Idle
  BY DEF Init
<1>2. TypeInv
  <2>1. FilesOK /\ HistoriesOK
    BY BoundsAssumption DEF Init, FilesOK, HistoriesOK
  <2>2. ShellsOK
    BY <1>1, IdleIsCommand DEF Init, ShellsOK
  <2>3. DocumentsOK
    BY DEF Init, DocumentsOK
  <2> QED
    BY <2>1, <2>2, <2>3 DEF TypeInv
<1>3. \A s \in Shells : ~Active(s) /\ ~At(s, "client")
  BY <1>1 DEF Active, At, Idle
<1>4. AloneHolds
  BY <1>3 DEF AloneHolds, Sole, ServerIsOwn, LastRender, Init
<1>5. Untouched
  BY <1>3 DEF Untouched, Does, Init
<1>6. \A m \in Held : m = None /\ m \in Material
  BY <1>5 DEF Held, Untouched, Init
<1>7. InitHolds
  BY <1>3, <1>5, <1>6, FilesAssumption DEF InitHolds, OneInit, InitFirst, HeldAgree, Does
<1>8. RenderHolds
  BY <1>3 DEF RenderHolds, OneRender, Does
<1> QED
  BY <1>2, <1>4, <1>7, <1>8 DEF CredentialsInv

LEMMA CredentialsNext == CredentialsInv /\ [Next]_vars => CredentialsInv'
<1> SUFFICES ASSUME CredentialsInv, [Next]_vars PROVE CredentialsInv'
  OBVIOUS
<1>1. ASSUME NEW s \in Shells, InitSecrets(s)
      PROVE  CredentialsInv'
  <2>1. TypeInv'
    BY <1>1, BeginInitDoes, WriteKeyDoes, WriteCertificateDoes, OpensslEndsDoes, FingerprintDoes
       DEF CredentialsInv, InitSecrets
  <2> QED
    BY <1>1, <2>1, AloneInitSecrets, InitInitSecrets, RenderInitSecrets DEF CredentialsInv
<1>2. ASSUME NEW s \in Shells, SaveIdentity(s)
      PROVE  CredentialsInv'
  <2>1. TypeInv'
    BY <1>2, OpenIdentityDoes, WriteIdentityDoes DEF CredentialsInv, SaveIdentity
  <2> QED
    BY <1>2, <2>1, AloneSaveIdentity, InitSaveIdentity, RenderSaveIdentity DEF CredentialsInv
<1>3. ASSUME NEW s \in Shells, Render(s)
      PROVE  CredentialsInv'
  <2>1. TypeInv'
    BY <1>3, BeginRenderDoes, EnsureRealityDoes, EnsureVlessEncryptionDoes, GenerateRealityDoes,
       GenerateVlessEncryptionDoes, WriteServerDoes, WriteClientDoes DEF CredentialsInv, Render
  <2> QED
    BY <1>3, <2>1, AloneRender, InitRender, RenderRender DEF CredentialsInv
<1>4. ASSUME NEW s \in Shells, Interrupt(s)
      PROVE  CredentialsInv'
  BY <1>4, InterruptDoes, AloneInterrupt, InitInterrupt, RenderInterrupt DEF CredentialsInv
<1>5. CASE UNCHANGED vars
  <2>1. TypeInv'
    BY <1>5 DEF CredentialsInv, TypeInv, FilesOK, ShellsOK, DocumentsOK, HistoriesOK, CasesOf,
                Command, Prepared, vars, files
  <2>2. AloneHolds'
    BY <1>5 DEF CredentialsInv, AloneHolds, Sole, ServerIsOwn, LastRender, Active, At, Quiet,
                Rendered, vars, files
  <2>3. InitHolds'
    BY <1>5 DEF CredentialsInv, InitHolds, OneInit, InitFirst, HeldAgree, Held, Untouched, Founded,
                Vouched, Does, Active, vars, files
  <2>4. RenderHolds'
    BY <1>5 DEF CredentialsInv, RenderHolds, OneRender, RenderKeeps, Does, Active, vars, files
  <2> QED
    BY <2>1, <2>2, <2>3, <2>4 DEF CredentialsInv
<1> QED
  BY <1>1, <1>2, <1>3, <1>4, <1>5 DEF Next

\* Whatever commands of however many shells do, and wherever they are killed:
\* what every command holds at its step, that init-secrets comes first, that all
\* material agrees with it, and what a render completes.
THEOREM CredentialsInvariant == Spec => []CredentialsInv
  BY CredentialsInit, CredentialsNext, PTL DEF Spec

\* Every command is at one of its steps, identity.json is absent, torn or whole,
\* and the documents are of cases of this kernel (rendering.py:10-169).
THEOREM CredentialsTypes == Spec => []TypeOK
<1>1. CredentialsInv => TypeOK
  BY TypesTell DEF CredentialsInv
<1> QED
  BY <1>1, CredentialsInvariant, PTL

\* The client's document of a case without REALITY keys is told by the id and
\* the pin of its material.
LEMMA SameXrayClient ==
    ASSUME NEW c, Composition(c) \in Compositions, ~NeedsReality(c), NEW m, NEW n, SameSecrets(m, n)
    PROVE  RenderXrayClient(c, m) = RenderXrayClient(c, n)
<1> USE DEF SameSecrets
<1>1. CASE Composition(c) = <<"shadowsocks", "raw", "shadowsocks-2022">>
  BY <1>1 DEF RenderXrayClient, Shadowsocks2022Client, Shadowsocks2022
<1>2. CASE Composition(c) = <<"vmess", "websocket", "tls">>
  BY <1>2 DEF RenderXrayClient, VmessWebsocketTlsClient, Websocket, Pinned
<1>3. CASE Composition(c) = <<"vmess", "xhttp", "tls">>
  BY <1>3 DEF RenderXrayClient, VmessXhttpH2TlsClient, XhttpH2, Xhttp, Pinned
<1>4. CASE Composition(c) = <<"trojan", "raw", "tls">>
  BY <1>4 DEF RenderXrayClient, TrojanRawTlsClient, TrojanUser, Pinned
<1>5. CASE Composition(c) = <<"trojan", "websocket", "tls">>
  BY <1>5 DEF RenderXrayClient, TrojanWebsocketTlsClient, TrojanUser, Websocket, Pinned
<1>6. /\ Composition(c) # <<"vless", "raw", "reality">>
      /\ Composition(c) # <<"vless", "xhttp", "reality">>
  BY DEF Composition, NeedsReality
<1> QED
  BY <1>1, <1>2, <1>3, <1>4, <1>5, <1>6 DEF Compositions

LEMMA SameClient ==
    ASSUME NEW c \in ComposableCases, ~NeedsReality(c), NEW m, NEW n, SameSecrets(m, n)
    PROVE  RenderClient(c, m) = RenderClient(c, n)
<1>1. CASE c.core = Xray
  <2>1. RenderXrayClient(c, m) = RenderXrayClient(c, n)
    BY <1>1, EveryXrayCaseHasARenderer, SameXrayClient
  <2> QED
    BY <1>1, <2>1 DEF RenderClient, Xray, Hysteria2, Native
<1>2. CASE c.core = Hysteria2
  BY <1>2 DEF SameSecrets, RenderClient, Xray, Hysteria2, Native, Hysteria2Client, Hysteria2User,
              Salamander, Pinned
<1>3. CASE c.core = Native
  BY <1>3 DEF SameSecrets, RenderClient, Xray, Hysteria2, Native, ShadowsocksR
<1> QED
  BY <1>1, <1>2, <1>3, CoreOfCase DEF Cores

\* The native kernel has no certificate.
LEMMA NativeNeedsNoCertificate ==
    ASSUME NEW c \in ComposableCases, c.core = Native, NEW m, NEW n, NEW pin,
           Serves(RenderServer(c, m), RenderClient(c, n), pin, pin)
    PROVE  \A file, other : Serves(RenderServer(c, m), RenderClient(c, n), file, other)
<1>1. RenderServer(c, m) = ShadowsocksR(c, m)
  BY DEF RenderServer, Xray, Hysteria2, Native
<1>2. ShadowsocksR(c, m).security.kind = "none"
  BY DEF ShadowsocksR, Document, Plain
<1> QED
  BY <1>1, <1>2 DEF Serves

\* As long as one init-secrets ran at a time, the documents of a case serve each
\* other with the certificate and the key on disk: those of a render that had the
\* directory for itself, and those without REALITY keys whoever wrote them
\* (lifecycle/xray/credentials.py:20-90, rendering.py:10-169).
THEOREM PairsServe == Spec => []PairServes
<1>1. ASSUME CredentialsInv PROVE PairServes
  <2> SUFFICES ASSUME "init" \notin raced PROVE
          /\ rendered # None => \A x \in Sides : document[x].case = rendered
          /\ (/\ \A x \in Sides : Written(x)
              /\ SameCase
              /\ NeedsReality(document["server"].case) => rendered # None)
             => Serves(RenderServer(document["server"].case, document["server"].material),
                       RenderClient(document["client"].case, document["client"].material),
                       certificate, key)
    BY DEF PairServes
  <2>1. rendered # None =>
          document["server"] = document["client"] /\ document["server"].case = rendered
    BY <1>1 DEF CredentialsInv, AloneHolds, LastRender
  <2>2. rendered # None => \A x \in Sides : document[x].case = rendered
    BY <2>1 DEF Sides
  <2>3. ASSUME \A x \in Sides : Written(x), SameCase,
               NeedsReality(document["server"].case) => rendered # None
        PROVE  Serves(RenderServer(document["server"].case, document["server"].material),
                      RenderClient(document["client"].case, document["client"].material),
                      certificate, key)
    <3> DEFINE c == document["server"].case
               m == document["server"].material
               n == document["client"].material
    <3>1. document["server"] # None /\ document["client"] # None /\ document["client"].case = c
      BY <2>3 DEF Written, SameCase, Sides
    <3>2. c \in cases /\ m \in Material /\ n \in Material
      BY <1>1, <3>1 DEF CredentialsInv, TypeInv, DocumentsOK, Sides
    <3>3. c \in ComposableCases /\ c.core = core
      BY <1>1, <3>2 DEF CredentialsInv, TypeInv, FilesOK, CasesOf
    <3>4. m \in Held /\ n \in Held
      BY <3>1, <3>2 DEF Held, Sides
    <3>5. SameSecrets(m, n) /\ Vouched(m)
      BY <1>1, <3>4 DEF CredentialsInv, InitHolds, HeldAgree
    <3>6. NeedsReality(c) => m = n
      BY <2>1, <2>3
    <3> HIDE DEF c, m, n
    <3>7. RenderClient(c, n) = RenderClient(c, m)
      BY <3>3, <3>5, <3>6, SameClient
    <3>8. Serves(RenderServer(c, m), RenderClient(c, n), m.pin, m.pin)
      BY <3>3, <3>7, EveryCaseIsRenderedToFit
    <3>9. Serves(RenderServer(c, m), RenderClient(c, n), certificate, key)
      BY <3>3, <3>5, <3>8, NativeNeedsNoCertificate DEF Vouched
    <3> QED
      BY <3>1, <3>9 DEF c, m, n
  <2> QED
    BY <2>2, <2>3
<1> QED
  BY <1>1, CredentialsInvariant, PTL

\* Commands that do not overlap never replace a secret that is in identity.json:
\* what is about to be written completes what is there ("never overwritten",
\* credentials.py:20; "one persistent pair", xray/credentials.py:55).
THEOREM SecretsStay == Spec => SecretsPersist
<1>1. ASSUME CredentialsInv, [Next]_vars
      PROVE  [Readable /\ identity' = Torn /\ raced = {} =>
                 \E s \in Shells : At(s, "open") /\ Keeps(identity, shell[s].draft)]_vars
  <2> SUFFICES ASSUME Readable, identity' = Torn, raced = {}
               PROVE  \E s \in Shells : At(s, "open") /\ Keeps(identity, shell[s].draft)
    OBVIOUS
  <2>1. TypeInv /\ identity # Torn /\ identity # None
    BY <1>1 DEF CredentialsInv, Readable
  <2>2. PICK s \in Shells : InitSecrets(s) \/ SaveIdentity(s) \/ Render(s) \/ Interrupt(s)
    BY <1>1, <2>1 DEF Next, vars, files
  <2>3. ~InitSecrets(s)
    BY <2>1, BeginInitDoes, WriteKeyDoes, WriteCertificateDoes, OpensslEndsDoes, FingerprintDoes
       DEF InitSecrets, files
  <2>4. ~Render(s)
    BY <2>1, BeginRenderDoes, EnsureRealityDoes, EnsureVlessEncryptionDoes, GenerateRealityDoes,
       GenerateVlessEncryptionDoes, WriteServerDoes, WriteClientDoes DEF Render
  <2>5. ~Interrupt(s) /\ ~WriteIdentity(s)
    BY <2>1, InterruptDoes, WriteIdentityDoes, FilesAssumption
  <2>6. At(s, "open")
    BY <2>1, <2>2, <2>3, <2>4, <2>5, OpenIdentityDoes DEF SaveIdentity
  <2>7. Does(s, "init") \/ Does(s, "render")
    BY <2>1, <2>6, FieldTypes DEF At, Active, Does, Prepared, SaveSteps
  <2>8. ~Does(s, "init")
    BY <1>1, <2>1, <2>6 DEF CredentialsInv, InitHolds, InitFirst, Founded, At
  <2>9. Keeps(identity, shell[s].draft)
    BY <1>1, <2>6, <2>7, <2>8 DEF CredentialsInv, RenderHolds, RenderKeeps, At
  <2> QED
    BY <2>6, <2>9
<1> QED
  BY <1>1, CredentialsInvariant, PTL DEF Spec, SecretsPersist
=============================================================================
