---------------------------- MODULE Credentials ----------------------------
(***************************************************************************)
(* The secrets directory of one kernel, and the commands that use it:      *)
(* `init-secrets`, which creates it, and `render`, which completes         *)
(* identity.json with the keys a case needs and writes the two documents.  *)
(*                                                                         *)
(* The directory is read, completed and written back without a lock, so    *)
(* commands of several shells interleave, and any of them may be killed    *)
(* between two steps; identity.json is written in place.  Secrets are      *)
(* numbers that are never drawn twice.  A generated document is kept as    *)
(* the case and the material it is rendered from (see Renderers);          *)
(* documents that are written in part are in Endpoints.                    *)
(***************************************************************************)
EXTENDS Renderers, Naturals, FiniteSets

CONSTANTS
    Shells,       \* terminals in which lab runs
    Torn,         \* a file that was opened for writing and not written yet
    MaxSecrets,   \* bound: how many secrets are drawn
    MaxCases      \* bound: how many cases are rendered

ASSUME BoundsAssumption == MaxSecrets \in Nat /\ MaxCases \in Nat

Sides == {"server", "client"}

\* What identity.json holds.
Secret == 1..MaxSecrets
Material == [id: Secret, pin: Secret \cup {None}, reality: Secret \cup {None}, vless: Secret \cup {None}]

\* A file that is not there, a file written in part and a whole one differ.
ASSUME FilesAssumption ==
    /\ Torn \notin Material \cup {None} /\ None \notin Material
    /\ None \notin [case: ComposableCases, material: Material]

VARIABLES
    core, cases,  \* the kernel whose directory this is, and its cases that are used
    key,          \* server.key
    certificate,  \* server.crt
    identity,     \* identity.json
    document,     \* the generated documents, per side
    shell,        \* per shell: its command, the material it holds, what it will write
    made,         \* secrets drawn so far
    raced,        \* history: which commands overlapped another of their kind
    rendered      \* history: the case of a render that ran alone and succeeded last

files == <<key, certificate, identity>>
vars == <<core, cases, key, certificate, identity, document, shell, made, raced, rendered>>

Active(s) == shell[s].pc # "done"
Quiet == \A s \in Shells : ~Active(s)
At(s, step) == shell[s].pc = step

Idle == [op |-> None, pc |-> "done", case |-> None, material |-> None, draft |-> None,
         next |-> None, alone |-> FALSE]

Goto(s, step) == shell' = [shell EXCEPT ![s].pc = step]
Ends(s) == shell' = [shell EXCEPT ![s] = Idle]

\* A command begins.  One whose first reads make it fail is over at once.
Begins(s, op, command) ==
    /\ ~Active(s)
    /\ shell' = [t \in Shells |->
          IF t = s THEN IF command = Idle THEN Idle ELSE [command EXCEPT !.alone = Quiet]
          ELSE [shell[t] EXCEPT !.alone = FALSE]]
    /\ raced' = raced \cup {o \in {op} : \E t \in Shells : Active(t) /\ shell[t].op = o}
    /\ rendered' = None

Draws(n) == made + n <= MaxSecrets /\ made' = made + n

-----------------------------------------------------------------------------
(* init-secrets *)

NewIdentity(id, pin) == [id |-> id, pin |-> pin, reality |-> None, vless |-> None]

\* Mutant of Fresh: only the pair of files is looked at.
FreshPair == key = None /\ certificate = None

\* Existing secrets are never overwritten.
Fresh == key = None /\ certificate = None /\ identity = None

BeginInit(s) ==
    /\ \/ ~Fresh /\ Begins(s, "init", Idle) /\ UNCHANGED made
       \/ /\ Fresh /\ core # Native
          /\ Begins(s, "init", [Idle EXCEPT !.op = "init", !.pc = "key"]) /\ UNCHANGED made
       \/ /\ Fresh /\ core = Native /\ Draws(1)
          /\ Begins(s, "init", [Idle EXCEPT !.op = "init", !.pc = "open", !.next = "done",
                                            !.draft = NewIdentity(made', None)])
    /\ UNCHANGED <<core, cases, files, document>>

\* openssl writes the key, then the certificate.
WriteKey(s) ==
    /\ At(s, "key")
    /\ Draws(1)
    /\ key' = made'
    /\ shell' = [shell EXCEPT ![s].pc = "certificate", ![s].draft = made']
    /\ UNCHANGED <<core, cases, certificate, identity, document, raced, rendered>>

WriteCertificate(s) ==
    /\ At(s, "certificate")
    /\ certificate' = shell[s].draft
    /\ Goto(s, "fingerprint")
    /\ UNCHANGED <<core, cases, key, identity, document, made, raced, rendered>>

\* openssl fails or is killed by its timeout: both files are removed.
OpensslEnds(s) ==
    /\ At(s, "key") \/ At(s, "certificate")
    /\ key' = None /\ certificate' = None
    /\ Ends(s)
    /\ UNCHANGED <<core, cases, identity, document, made, raced, rendered>>

\* The certificate is read back and the client id is drawn.
Fingerprint(s) ==
    /\ At(s, "fingerprint")
    /\ \/ /\ certificate # None
          /\ Draws(1)
          /\ shell' = [shell EXCEPT ![s].pc = "open", ![s].next = "done",
                           ![s].draft = NewIdentity(made', certificate)]
       \/ Ends(s) /\ UNCHANGED made
    /\ UNCHANGED <<core, cases, files, document, raced, rendered>>

-----------------------------------------------------------------------------
(* identity.json is written in place *)

OpenIdentity(s) ==
    /\ At(s, "open")
    /\ identity' = Torn
    /\ Goto(s, "write")
    /\ UNCHANGED <<core, cases, key, certificate, document, made, raced, rendered>>

WriteIdentity(s) ==
    /\ At(s, "write")
    /\ identity' = shell[s].draft
    /\ IF shell[s].next = "done" THEN Ends(s)
       ELSE shell' = [shell EXCEPT ![s].pc = shell[s].next, ![s].next = None, ![s].draft = None]
    /\ UNCHANGED <<core, cases, key, certificate, document, made, raced, rendered>>

-----------------------------------------------------------------------------
(* render *)

\* Mutant of Readable: a file that is there is taken for a whole one.
Exists == identity # None
Readable == identity \notin {None, Torn}

CasesOf(c) == {case \in ComposableCases : case.core = c}

\* The material is loaded.  Only Xray completes it.
BeginRender(s) ==
    /\ \/ ~Readable /\ Begins(s, "render", Idle)
       \/ /\ Readable
          /\ \E case \in cases :
                Begins(s, "render",
                       [Idle EXCEPT !.op = "render", !.case = case, !.material = identity,
                                    !.pc = IF core = Xray THEN "ensure reality" ELSE "server"])
    /\ UNCHANGED <<core, cases, files, document, made>>

\* Mutant of KeepsReality: a fresh pair for every rendering.
NeverKeepsReality(s) == ~NeedsReality(shell[s].case)

KeepsReality(s) == NeedsReality(shell[s].case) => shell[s].material.reality # None
KeepsVless(s) == NeedsVlessEncryption(shell[s].case) => shell[s].material.vless # None

\* identity.json is read again, to be completed.
Completes(s, generate) ==
    IF Readable
    THEN shell' = [shell EXCEPT ![s].pc = generate, ![s].draft = identity]
    ELSE Ends(s)

EnsureReality(s) ==
    /\ At(s, "ensure reality")
    /\ IF KeepsReality(s) THEN Goto(s, "ensure vless") ELSE Completes(s, "reality pair")
    /\ UNCHANGED <<core, cases, files, document, made, raced, rendered>>

EnsureVlessEncryption(s) ==
    /\ At(s, "ensure vless")
    /\ IF KeepsVless(s) THEN Goto(s, "server") ELSE Completes(s, "vless pair")
    /\ UNCHANGED <<core, cases, files, document, made, raced, rendered>>

\* A pair is drawn in a container, which may fail.
GenerateReality(s) ==
    /\ At(s, "reality pair")
    /\ \/ /\ Draws(1)
          /\ shell' = [shell EXCEPT ![s].pc = "open", ![s].next = "ensure vless",
                           ![s].draft.reality = made', ![s].material.reality = made']
       \/ Ends(s) /\ UNCHANGED made
    /\ UNCHANGED <<core, cases, files, document, raced, rendered>>

GenerateVlessEncryption(s) ==
    /\ At(s, "vless pair")
    /\ \/ /\ Draws(1)
          /\ shell' = [shell EXCEPT ![s].pc = "open", ![s].next = "server",
                           ![s].draft.vless = made', ![s].material.vless = made']
       \/ Ends(s) /\ UNCHANGED made
    /\ UNCHANGED <<core, cases, files, document, raced, rendered>>

Rendered(s) == [case |-> shell[s].case, material |-> shell[s].material]

WriteServer(s) ==
    /\ At(s, "server")
    /\ IF Renders(shell[s].case, shell[s].material)
       THEN document' = [document EXCEPT !["server"] = Rendered(s)] /\ Goto(s, "client")
       ELSE Ends(s) /\ UNCHANGED document
    /\ UNCHANGED <<core, cases, files, made, raced, rendered>>

WriteClient(s) ==
    /\ At(s, "client")
    /\ document' = [document EXCEPT !["client"] = Rendered(s)]
    /\ Ends(s)
    /\ rendered' = IF shell[s].alone THEN shell[s].case ELSE None
    /\ UNCHANGED <<core, cases, files, made, raced>>

-----------------------------------------------------------------------------
\* Ctrl+C, or the machine stops.
Interrupt(s) ==
    /\ Active(s)
    /\ Ends(s)
    /\ UNCHANGED <<core, cases, files, document, made, raced, rendered>>

Init ==
    /\ core \in Cores
    /\ cases \in {chosen \in SUBSET CasesOf(core) : Cardinality(chosen) = MaxCases}
    /\ key = None /\ certificate = None /\ identity = None
    /\ document = [x \in Sides |-> None]
    /\ shell = [s \in Shells |-> Idle]
    /\ made = 0
    /\ raced = {} /\ rendered = None

InitSecrets(s) ==
    BeginInit(s) \/ WriteKey(s) \/ WriteCertificate(s) \/ OpensslEnds(s) \/ Fingerprint(s)

SaveIdentity(s) == OpenIdentity(s) \/ WriteIdentity(s)

Render(s) ==
    \/ BeginRender(s) \/ EnsureReality(s) \/ EnsureVlessEncryption(s)
    \/ GenerateReality(s) \/ GenerateVlessEncryption(s) \/ WriteServer(s) \/ WriteClient(s)

Next == \E s \in Shells : InitSecrets(s) \/ SaveIdentity(s) \/ Render(s) \/ Interrupt(s)

Spec == Init /\ [][Next]_vars

-----------------------------------------------------------------------------
(* Properties *)

Steps == {"key", "certificate", "fingerprint", "open", "write", "ensure reality", "reality pair",
          "ensure vless", "vless pair", "server", "client", "done"}

TypeOK ==
    /\ core \in Cores /\ made \in 0..MaxSecrets
    /\ key \in Secret \cup {None} /\ certificate \in Secret \cup {None}
    /\ identity \in Material \cup {None, Torn}
    /\ \A x \in Sides : document[x] # None =>
          document[x].case \in cases /\ document[x].material \in Material
    /\ \A s \in Shells :
          /\ shell[s].pc \in Steps /\ shell[s].op \in {"init", "render", None}
          /\ shell[s].case \in cases \cup {None} /\ shell[s].alone \in BOOLEAN
          /\ shell[s].material \in Material \cup {None}
    /\ raced \subseteq {"init", "render"} /\ rendered \in cases \cup {None}

Written(x) == document[x] # None
SameCase == document["server"].case = document["client"].case

\* A render that had the directory for itself and succeeds leaves a server that
\* serves its client, with the keys and the certificate on disk, for every case
\* that composes: whatever renders raced, failed or were killed before, as long
\* as one init-secrets ran at a time.  Racing renders may mix their REALITY
\* keys, but two documents of one case without such keys fit, whoever wrote them.
PairServes ==
    "init" \notin raced =>
        /\ rendered # None => \A x \in Sides : document[x].case = rendered
        /\ (/\ \A x \in Sides : Written(x)
            /\ SameCase
            /\ NeedsReality(document["server"].case) => rendered # None)
           => Serves(RenderServer(document["server"].case, document["server"].material),
                     RenderClient(document["client"].case, document["client"].material),
                     certificate, key)

Keeps(old, new) ==
    /\ new.id = old.id /\ new.pin = old.pin
    /\ old.reality # None => new.reality = old.reality
    /\ old.vless # None => new.vless = old.vless

\* Secrets, once in identity.json, are never replaced by commands that do not
\* overlap ("never overwritten", credentials.py:20; "one persistent pair",
\* xray/credentials.py:55): every write completes the identity that was there.
SecretsPersist ==
    [][Readable /\ identity' = Torn /\ raced = {} =>
          \E s \in Shells : At(s, "open") /\ Keeps(identity, shell[s].draft)]_vars
=============================================================================
