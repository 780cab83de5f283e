# A verification project for ProxyTrafficLab

ProxyTrafficLab records labelled PCAPs of web traffic that runs through proxies
(Xray, Hysteria 2, ShadowsocksR) or without one. It renders server and client
configurations, runs both as Docker containers, drives a browser or a SOCKS
workload, captures with tcpdump (Linux) or dumpcap (Windows), tracks the flows
in the growing file to decide when to cut it, isolates the browser with the
Windows firewall, and audits the dataset afterwards.

This directory holds TLA+ modules translated from that code, TLC
configurations that check them on small instances, and TLAPS proofs of what
should hold on every instance. `PROJECT.json` lists the runs, the source lines
behind every definition, the mutants that show each property can fail, the
hazards, the findings and the theorems. File references below are relative to
`src/proxy_traffic_lab/` unless they start with `scripts/` or `docs/`.

## 1. The system

| Component | State | Operations | Talks to |
|---|---|---|---|
| TCP flow tracker (`capture/flow_tracker.py`, `PcapTcpFlowTracker`) | file offset, flow list, tuple index, SYN index | `poll`, `stats` | reads the PCAP tcpdump appends to; polled by every capture loop |
| Windows trackers (same file, `PcapL4ConversationTracker`, `PcapIpPacketTracker`) | offsets, TCP/UDP conversation sets, packet counters | `poll`, `stats` | read the PCAP dumpcap appends to |
| Capture segment (`capture/segment.py`, `capture/tcpdump.py`) | one tcpdump process, one PCAP, two timers, the stop reason, `capture.json` | start, sample, decide, stop, record | tcpdump under sudo, a tracker, the operator's Ctrl+C |
| Segmented capture (`capture/segmented.py`) | segment index, list of sessions | next segment, stop, abort | capture segment, sudo |
| Windows capture (`capture/windows.py`, `scripts/windows/capture.ps1`) | dumpcap, browser process, isolation flag, segment index, timers | enable isolation, capture segment, rotate, disable isolation | `isolate.ps1`, dumpcap, trackers |
| Network isolation (`scripts/windows/isolate.ps1`, `capture/windows.py`) | firewall policy, allow rules, state file, scheduled task, watchdog | Enable, Disable, Recover, Watch, startup recovery | Windows Firewall, Task Scheduler, the capture process |
| Container lifecycle (`lifecycle/docker.py`, `lifecycle/*.py`, `lifecycle/xray/*.py`) | containers, labels, generated files | render, validate, start, stop, status | Docker, generated configuration, secrets |
| Credentials (`encryptions/credentials.py`, `lifecycle/xray/credentials.py`) | `server.crt`, `server.key`, `identity.json` | init, load, ensure REALITY / VLESS encryption keys | openssl, Docker, renderers |
| Renderers (`protocols/**`), configuration (`configuration/**`) | none; functions of case and material | render, validate, compose | lifecycle |
| Workloads (`traffic/socks5_udp.py`, `traffic/playwright_web.py`) | control connection, what the UDP socket holds, statuses of the events | associate, exchange, visit, close | client container, echo target, web sites |
| Pilot capture (`capture/pilot.py`) | tcpdump, the result of the workload, the exception on its way | check, start, run the workload, stop, write three files | workloads, tcpdump, records |
| Dataset (`dataset/records.py`, `dataset/audit.py`) | records, digests and logs on disk | write, audit | capture records |
| Timed series (`scripts/pcap/timed-series.sh`) | segment number, timer, the lab it runs | run for a time, rewrite the record | capture segment, `timeout(1)`, `jq` |
| Dumpcap backend, state machine (`capture/backend.py`, `capture/state_machine.py`), record schema (`dataset/schema.py`) | capture state | prepare, start, stop, finalize | their unit tests; no command uses them |
| PCAP filters, browser cycle (`scripts/pcap/filter-*.sh`, `split-ip.sh`, `scripts/browser/class02-cycle.sh`) | a temporary file, a page number | filter, replace, open pages | finished PCAPs |
| Kernel images, doctor, CLI | none, or Docker images | build, pull, lock, diagnose, dispatch | all of the above |

What makes the system hard to test:

* **Two processes share a growing file.** The trackers poll a PCAP while its
  writer appends; a record may be half there; a killed writer leaves a torn
  tail for ever.
* **Decisions are taken on samples.** The loop sleeps, takes a size, polls,
  looks whether tcpdump lives, decides, then stops tcpdump; traffic flows
  between all of these, so each value is stale when it is used.
* **Ctrl+C** may fall between any two statements; inside the loop it means
  "record and end", outside of it it is an exception.
* **Nobody locks anything.** Four kinds of PowerShell scripts restore the
  firewall and only a state file keeps them apart. Containers are inspected and
  then acted on; two files of one pair are written one after the other.
* **Failure in the middle**: a power loss between two firewall commands, a
  profile that cannot be restored, tcpdump that survives SIGKILL, openssl that
  dies after the key is written, a pilot that is killed between its PCAP, its
  record and its manifest.
* **UDP answers come late.** The SOCKS workload reads one datagram per exchange
  from a socket that anyone may send to and that it never empties.

What must be true, per component: the tracker reports what one pass over the
finished file would (no schedule of polls matters); a record describes the
sealed file and its reason is true; a series rotates only at idle boundaries
and never runs two captures; the user's firewall policy is never lost and
comes back; a running container serves the configuration its label says; a
record that passes the audit is a capture that succeeded.

## 2. Modules

| Module | Models | Kind |
|---|---|---|
| `FlowCount` | what a capture loop relies on when it polls | abstract |
| `FlowTracker` | `PcapTcpFlowTracker` and the growing file | component |
| `FlowTrackerProofs` | theorems about `FlowTracker` | proofs |
| `DatasetAudit` | the checks of `audit_session`, over what the writers of `records.py` leave | operators |
| `CaptureSegment` | `capture_segment`, `tcpdump.py`, `write_segment_record`, over `DatasetAudit` | component |
| `CaptureSegmentProofs` | lemmas about a segment, for the series built of them | proofs |
| `CaptureSeries` | what a series of segments promises | abstract |
| `SegmentedCapture` | `run_segmented_capture` over `CaptureSegment` | composition |
| `TimedSeries` | `timed-series.sh` over `CaptureSegment` | composition |
| `CaptureSeriesProofs` | that a series, plain or timed, runs one capture at a time, and that a plain one keeps `CaptureSeries`' promise with records that are true | proofs |
| `TrafficWorkloads` | the UDP exchanges and the pages of a pilot | component |
| `PilotCapture` | `_run_workload_capture` over `TrafficWorkloads` and `DatasetAudit` | composition |
| `PilotCaptureProofs` | what counts as an echo, and what the audit accepts | proofs |
| `NetworkIsolation` | `isolate.ps1` and the process that calls it | component |
| `NetworkIsolationProofs` | that the policy is kept and the layers are in place | proofs |
| `WindowsTrackers` | `PcapL4ConversationTracker`, `PcapIpPacketTracker` | component |
| `WindowsCapture` | the Windows series and its segments over `WindowsTrackers` | composition |
| `WindowsCaptureProofs` | that the records of a Windows series are true | proofs |
| `Endpoints` | render, start and stop of an endpoint over Docker (`lifecycle/**`) | component |
| `EndpointsProofs` | what overlapping and lone commands leave, and that servers are always stopped | proofs |
| `Renderers` | which cases compose, and the pair of documents of a case (`protocols/**`, `rendering.py`) | operators |
| `Credentials` | `init-secrets` and `render` over one secrets directory | component |
| `CredentialsProofs` | that every pair fits, and that racing or killed commands leave pairs that do | proofs |
| `MC*` | constants for TLC | model |

### FlowTracker

A byte position is the number of whole records before it. The writer actions
(`CreateFile`, `WriteHeader`, `BeginRecord`, `FinishRecord`, `StopWriter`) are
tcpdump as seen through the file; they interleave with `OpenPcap`,
`ReadRecord` and `PollReturns`, so the file grows in the middle of a poll.
`records` holds a packet as its directional tuple, sequence number and flags;
every frame the parsers reject is the one value `NotTcp`. `flows`,
`tupleToFlow` and `seenSyns` are `_flows`, `_tuple_to_flow` and `_seen_syns`;
`ConsumeTcp` is `_consume_ethernet` from line 152 on. `CountMode` chooses
between `segment.py`'s and `windows.py`'s way of counting.

The properties compare the tables, built record by record over any schedule of
polls, with a definition that looks at the capture as a whole: `Births` are the
first occurrences of each start, `BelongsTo` assigns every record to the latest
birth on its conversation, `FlowBornAt` folds its packets (`MatchesTrace`,
`ReportMatchesTrace`). `FlowCount` is the promise the loops use: reports never
take a flow or a completion back (`ReportsImplementFlowCount`).

### DatasetAudit and CaptureSegment

`DatasetAudit` is the automatic gate, `audit_session`, as predicates of what a
session directory holds at one moment; it has no steps. A key that a writer
leaves out, and a file that is not there, is `None`; a file whose write was cut
short is `Torn`. A PCAP is the number of its whole packets and whether it ends
inside one, and its digest is the PCAP itself. Two of its answers are warnings
and let a session pass: no manifest, and a log without a drop counter.

In `CaptureSegment`, `pc` names the statement `capture_segment` executes next.
`TakeSize`, `PollTracker` and the decisions are separate steps, because tcpdump,
traffic and Ctrl+C interleave with them. Time is kept where the code reads the
clock: each sample is `interval` seconds after the last, and `target_reached_at`
and `quiet_started_at` are ages that saturate at the threshold they are compared
with. `fresh` is the bytes since the last size, saturating just above what is
noise, so traffic need not end. The three limits (bytes, TCP flows, UDP
conversations) are a variable fixed in `SegmentInit`, so one run covers all.

CPython delivers a signal only between byte codes; the assignment of a stop
reason and the `break` after it have no call in between at which the handler
runs, hence `InterruptLoop` leaves the reason as it was (see the comment there).
A Ctrl+C in a poll may cut `_consume_ethernet` between two of its tables:
`halfRead` says what that leaves, and `FinalStats` which counts the poll after
the loop then gives. Such a record is off by one flow
(`RecordDescribesSealedFile`), calls that flow open, and is therefore refused:
what the audit accepts is a sealed file with its target and no cut flow
(`AcceptedSegmentIsWhole`).

### SegmentedCapture

Extends `CaptureSegment` with the series: `segmentIndex`, `sessions` and sudo's
timestamp. Every step of a segment is a step of the series. `CaptureSeries` is
the abstract promise; the refinement maps "a PCAP is being written" to every
`pc` but `ready`.

### TimedSeries

Extends `CaptureSegment` with the script: it runs a flow-limited capture whose
idle time is longer than `timeout(1)` gives it (`Duration < IdleSeconds`), so that a
segment ends only by the timer. The script passes an idle time of 86400 seconds and
does not check that the duration it is given is shorter (`timed-series.sh:109-115`);
segments of a day or more are outside the model. `timeout --foreground`
signals lab alone, hence `TimerFires` is the segment's `Interrupt` and tcpdump is
only ever stopped by lab; `LabKilled` is `--kill-after`. The script looks at the
output of lab and not at its status: `PcapReported` is the line that
`segment.py:254` prints after the record is written. `elapsed` is the time lab has
slept; the timer is due before lab has slept longer than it. `RewriteRecord` is
`jq` and `mv`, which replace the record in one piece. `OneTimedCaptureAtATime`
says that a tcpdump left behind by a killed or failed lab is the last one,
`ElapsedMeansSealed` what a record that says `duration_elapsed` stands for.

### TrafficWorkloads and PilotCapture

In `TrafficWorkloads` a datagram is its index. `inbox` is the socket's queue: echoes
in any order, late or twice, and `0` for what the header check refuses. An
exchange sends one datagram and reads one, whoever sent it and whatever waited
before. So a reply that comes after its timeout makes the next exchange fail and
leaves that one's own reply behind: all later exchanges may fail although
every echo arrives. What the index in the payload does guarantee is that none of
them succeeds on an old reply (`OkMeansFreshEcho`); `backlog` is the history
variable it needs.

`PilotCapture` adds `_run_workload_capture`: the checks, tcpdump, the workload, and
the `finally` clause that writes `traffic.jsonl`, `metadata.json` and
`manifest.sha256` one after the other. `raising` is the exception on its way
through that clause. `InterruptTry` is Ctrl+C inside the `try` block, `InterruptOutside`
Ctrl+C or a failing write anywhere else, `Killed` the death of the process, which leaves
tcpdump running; the last two may cut the file of that moment short (`CutShort`).
The properties go both ways: at no moment does the audit accept a directory that
is unfinished or disagrees with what the workload did (`AcceptedIsWhole`), and a
command that returned normally leaves one it accepts unless tcpdump saw
nothing, dropped packets or tore one (`ReturnedIsAccepted`).

### NetworkIsolation

Each helper, watchdog, startup task and manual invocation is a PowerShell
process with its own `pc`; a step is one command that reads or writes shared
state (`firewall`, `rules`, `saved`, `task`). The two jobs that share
`Restore-FirewallState` share its steps (`DisableStep`); `job` says where they
continue. `Throw` is PowerShell's error handling: inside the `try` of
`Enable-Isolation` an error runs the `finally` clause, whose own errors do not
skip the rest of it. The mishaps are a failing command, a killed capture, a closed
terminal (the helper dies too), and a power loss; `MaxMishaps` bounds their
number in one behaviour, in any mixture. `Overlap` says whether scripts of two
captures may run at the same time.

Every command may fail, the removals too, and they fail in two ways. An error of
`Remove-NetFirewallRule` stops the script (`CommandFails` at `unrule` and `clear`), and it
does so after the state file is gone. What runs under `SilentlyContinue`
(`Get-NetFirewallRule`, `Unregister-ScheduledTask`) fails without being noticed, and the script goes on
(`RemovalFailsUnseen`). The history variable `left` says which of rules and task the
last removal left: it is added to when a removal fails or its script is cut off
between the removal of the state file and its own end, and taken from when one
works. `CleanWhenIdle` says that nothing else stays behind. It does not say that a
Disable by hand (`docs/zh/plain-capture.md:165-172`) removes what stayed: without a
state file `Disable-Isolation` removes the task only (180-186), so allow rules stay
until the next capture clears them (222).

`PolicyIsKept` says that the policy can be put back after any power loss, not that
the startup task does it: Block is set (249) before the task is registered (250),
and a power loss in between leaves a state file that is restored by hand or by the
next capture. Once a capture runs, `IsolationProtected` includes the task.

### WindowsTrackers and WindowsCapture

`WindowsTrackers` keeps the two trackers that `windows.py` polls one after the
other. Each consumes one record per step, then moves its own offset; `CutL4` and
`CutIp` are what a Ctrl+C between those two statements leaves. The loop over
the file, with its torn records, is the one `FlowTracker` models, so here
`records` holds complete records. `TrueL4Stats` and `TruePackets` define the
numbers by looking at the whole file.

`WindowsCapture` extends it with `_run_windows_ipv6_flow_capture` and
`_capture_windows_ipv6_flow_segment`. `pc` names the next statement at which
something can interleave; `ReadL4Record` and `ReadIpRecord` serve the three
polls of the code (loop, Ctrl+C handler, record). The Ctrl+C actions differ by
place as the `try` blocks do: `InterruptLoop` reaches the handler,
`InterruptHandler` only the `finally` clause, `InterruptSegment` neither. A run
of `isolate.ps1` is started (`EnableIsolation`, `ReleaseIsolation`), ends well or fails
(`HelperEnables`, `HelperDisables`), and only then does the call return and the flag change
(`EnableReturns`, `DisableReturns`). So a Ctrl+C in one of these calls meets a helper that
runs, which `subprocess.run` then kills (`cut`), or one that has already ended, whose
outcome stays what it was; in the `finally` clause it may also come before the
helper is started. `struck` is the history of where it fell. `PollRaises`, as in
`CaptureSegment`, is a tracker that refuses the file's header.
`exposed` and `calm` are history variables. The loop reads nothing of a
tracker but `total_flows`, so the conversation tracker stands for both that it
may use.

The properties are about what the trackers' replay leaves in `capture.json`: the
conversation sets do not mind a record consumed twice, and the packet counters
are off by one at most, and only in an interrupted segment
(`RecordDescribesSealedFile`); and about what
an error or a Ctrl+C leaves running (`NoExposedRecord`,
`IsolationReleased`). `IsolationReleased` allows the network to stay blocked after
a helper that failed, or a Ctrl+C in the enabling call or in the `finally` clause.
That a single Ctrl+C in the enabling call can do that although the helper
succeeded is a finding (`OneInterruptIsUndone`).

### Endpoints

One endpoint, a client or a server of one of the three kernels (`core`, `side`,
chosen in `Init`), the two generated documents of that kernel, the container of
the endpoint's name, and a few shells in which `lab` runs. A shell executes one
Docker command, one file read or one file write per step, so that commands of
two shells interleave as the code lets them: nothing is locked. The three
kernels share the steps and differ where the code does: what validation looks
at (`Valid`, `ValidatesInDocker`), whether a start compares the image
(`ReadImage`), and whether the helper that replaces a container looks at it
again (`Replace`, `LookAgain`).

Every Docker command may fail, with or without effect, at any time, and so may
Ctrl+C. `docker inspect` that fails reads as "absent" (`Sees`). The container's
process exits and, for clients, is started again by Docker; it then reads
whatever the mounted document holds, while the label keeps the hash of the
start. Copying a document to the client's machine with `scp`, as the docs do,
is the rendering of that document as far as the client is concerned.

The properties look back at a *round*: the commands from the moment that all
shells were idle until they are idle again. `round` is a history variable; it
is dropped when something fails, when the image changes or when commands of two
kinds mix, because then nothing is promised. Commands that overlap may stop each
other's container, but when all are over they have agreed (`OverlapsAgree`): after
stops nothing is left, after starts a running container whose label, image and
loaded document are the wanted ones. A start may have failed on the way, its
container removed by another; a command that is alone succeeds
(`LoneCommandSucceeds`). Whatever earlier rounds left
behind is still there, so the properties say that a created, exited, foreign or
half-removed container is in nobody's way. Two limits of the code show in their
premises. `looping`: a client in a restart loop cannot be stopped (a finding).
`stale`: when a document is rendered while Docker restarts the client, the
process serves another document than its label says, and after the first one is
rendered again a start keeps it.

### Renderers and Credentials

`Renderers` turns a case and the material of its kernel into two documents. A
document is what the two sides must agree on: protocol, user secret, stream
(method, path, mode, ALPN) and security. A key pair is one value of which the server
holds one half and the client the other; a hashed secret is the tuple of what is
hashed, so `trojan` and `ss2022` secrets of one id differ as their prefixes do.
`Rules` are those of `configs/compatibility.yaml`, `ComposableCases` the cases
`validate_case_composition` lets through. `Serves` is external: what a kernel
checks of its peer.

`Credentials` runs these over the files `server.key`, `server.crt` and
`identity.json` of one kernel. `init-secrets` and `render` are executed file by file;
`identity.json` is opened (`Torn`) and then written, and a renderer of Xray reads
it once for the material and once more to complete it, as
`ensure_reality_material` does. Secrets are numbers in the order in which they were
drawn, so two of them are equal only if they are the same secret. `raced` and
`rendered` are history variables: nothing is locked, so two inits at once can
pin a certificate the other has replaced, and two renders at once may each keep
a REALITY pair of their own. `PairServes` says what holds although nothing is
locked: every other race, every failure and every killed command leaves
documents that fit, or a directory the next render refuses or completes.
`SecretsPersist` is the promise of "never overwritten".

## 3. Runs

| Run | Asks | Instance |
|---|---|---|
| `flow_tracker` | Are tables and reports those of one pass over the file, at every moment? Does every record get read? | an IPv4 and an IPv6 conversation, two initial sequence numbers, every flag shape, 4 records, established mode, fair reader |
| `segment_race` | Is no flow ever cut? (finding) | TCP limit, 2 flows |
| `series` | Do reason, record and audit tell the truth about the sealed file? Is the series' promise kept, does it end? | 2 segments, all limits; target 2 bytes / 1 flow, idle 2 s, timeout 4 s, samples 1 or 2 s apart, 2 flows |
| `timed_series` | What does a record stand for that was ended by the timer? Does one capture run at a time, and does the series end? | 2 segments of 3 s, TCP and UDP limits, idle 4 s, slack 1 s, 2 flows |
| `pilot` | Which datagrams count as answered, what does the audit accept after any crash, does the command end? | 3 datagrams or pages, a socket that holds 2, 2 packets |
| `isolation` | Is the policy kept, does it come back, and what may stay behind? | 2 captures one after the other, 2 profiles, any 3 mishaps |
| `isolation_layers` | Are all layers there when two captures start together? (finding) | 2 captures, overlap, no mishap |
| `windows_capture` | What does `capture.json` say after any Ctrl+C, and what is left running? Does the series end? | 2 segments, an IPv4 and an IPv6 conversation, 2 records a file, idle 1 s, samples 1 or 2 s apart |
| `windows_ctrl_c` | Does the `finally` clause undo one Ctrl+C? (finding) | the same |
| `endpoints` | What do starts and stops leave, whatever failed before them? | 2 shells, 2 cases, 2 images, every kernel and side |
| `endpoints_loop` | Can a client always be stopped? (finding) | the same |
| `credentials` | Do the documents fit and the secrets last, whatever was killed or raced? | 2 shells, every kernel, 2 of its cases, 4 secrets |

Why the bounds are enough. *Records*: the shortest history in which a tuple is
taken over, its old flow receives a retransmitted start, and a late packet
follows has four records. The other conversation can
start between any two of them. *Flows in a segment*: one to reach the target, and
one that starts after the last poll or keeps it from draining. *Segments*: the
loops only compare the index with the count, so a segment with a successor and
one without are all there are. *Datagrams*: a late echo is read by the second
exchange, whose own echo is read by the third; two in the queue are a late reply
and a stray or a duplicate. *Packets of a pilot*: none, some, and one more after
the record counted them. *Timed segments*: three seconds are a sample in time, a
late one and the timer between two. *Ages* saturate at their
thresholds, so larger times give no new decision. *Mishaps*: a failing enable,
a failing undo and a power loss need three; profiles are set one at a time, so
two already show a half-restored policy. *Records of a Windows segment*: one
that meets the target and one that arrives later, or a start and the late
segment of its conversation; either can be the one Ctrl+C cuts. *Shells*: every
step of a command reads or changes the one container, so the interesting races
are between two commands. *Cases and images*: the code compares them for
equality only; the wanted one and another one. Commands, renderings and
failures are not bounded. *Secrets*: an init takes two, a REALITY and a VLESS
pair one each; four are enough for all of them, for two racing inits, and for
two racing renders after an init.

`CHECK_DEADLOCK FALSE` is used in the runs of captures and of the isolation
because all of these systems end: a capture returns, a series finishes, the
captures are over, a pilot or a script has returned. Commands of `Endpoints` and
`Credentials` can always be given, so their runs check deadlock.

### Fairness

* `FlowTracker`: weak fairness of the reader. The capture loop polls on every
  progress interval. The writer has none; it may stop anywhere.
* `WindowsCapture`: weak fairness of the capture process, for the same reasons, and
  of the run of `isolate.ps1` it waits for, a finite sequence of commands.
  Traffic, dumpcap and Ctrl+C have none. Nothing in `windows.py` ends a segment
  whose traffic goes on, hence the premise of `DrainedSeriesEnds`; the bound on
  records makes traffic stop.
* `CaptureSegment`, `SegmentedCapture`: weak fairness of the capture process's own
  steps. Its sleeps are finite, `process.wait` calls have timeouts, and the tracker's
  poll is a finite read. Traffic, Ctrl+C, tcpdump's death and sudo have none.
  A flow-limited segment has no deadline in the code (`segment.py:177-187` only
  warns), hence `DrainedSeriesEnds`, one part of `SeriesEnds`, assumes that flows end and
  traffic stops.
* `TimedSeries`: weak fairness of the script, its timer and lab; every action of
  theirs is a finite command. No assumption on traffic is needed: the timer ends what
  a flow-limited segment would not.
* `PilotCapture`: weak fairness of the command. Every exchange has a timeout, every
  page a deadline, and `stop_tcpdump` three; the network and tcpdump have none. The
  calls of Playwright that have no timeout of their own (`page.mouse.wheel`, `page.title`,
  `context.close`, `browser.close` in `playwright_web.py`) are taken to return: `PilotEnds` does
  not cover a browser that stops answering.
* `NetworkIsolation`: weak fairness of each script's steps, of the capture's
  end, of switching the machine on and of the scheduler's retry. Captures need
  not start and nothing need go wrong.

## 4. Findings

* `segment_race`: `docs/zh/proxy-capture.md:56` promises that a PCAP is never
  closed while a flow is active. `segment.py` decides on a poll, then signals
  tcpdump; a flow that starts in between is in the file, open. What does hold is
  `AcceptedSegmentIsWhole`: the record counts the cut flow as active, so the audit
  refuses such a segment.
* `isolation_layers`: `docs/zh/plain-capture.md:148-152` promises three layers
  of recovery for an isolated capture. `isolate.ps1` checks the owner (204-212)
  and saves the state later (219); of two captures that start together, both
  pass, and the one whose state is overwritten has no state file of its own.
* `windows_ctrl_c`: line 150 of the same page promises that the `finally` clause undoes one
  Ctrl+C. `isolation_enabled` is set (`windows.py:201`) after the call that enables the
  isolation has returned (200); a Ctrl+C in between leaves the flag `False` and the
  network blocked when the clause is through. The second layer, the watchdog,
  then restores the policy when the process is gone.
* `endpoints_loop`: to change the case, `docs/zh/proxy-capture.md:247-248` runs
  `lab client stop` and `lab client start`. A client that Docker keeps restarting
  is "stopped" to `container_state` (`docker.py:26`), so no `docker stop` is sent
  and `docker rm` is refused: both commands fail until the process holds or the
  container is stopped by hand. Servers are not exposed to it (`ServersAreStopped`).

## 5. Proofs

`FlowTrackerProofs` proves for every set of conversations, sequence numbers and
packets, any number of records and both count modes:

* `TypeCorrect`: `Spec => []TypeOK`.
* `IndexCorrect`: `Spec => []IndexConsistent`. The inductive invariant is
  `TypeOK /\ IndexConsistent`. The interesting step is `OpenFlow`, which takes
  both directions of a tuple from whatever flow owned them: `TuplesConsistent`
  holds because the table is closed under `Reverse`, and `SynsConsistent`
  because the new index is larger than every index in the table.
* `OnlyProgress`: `Spec => FlowsOnlyProgress`, from `ObservedProgress` (one
  flow, one packet) and the typed tables.
* `ReportsNeverGoBack`: `Spec => ReportsImplementFlowCount`, the refinement. The
  invariant relates the last report to the present flow list: what was
  reported is a lower bound of what `Stats` gives now, by the monotonicity of
  `Counted` and of `Counted \ Active` under `Progress` and the library's
  theorems on cardinalities of subsets.
* `TablesMatchTrace`, `ReportsMatchTrace`: `Spec => []MatchesTrace` and
  `[]ReportMatchesTrace`, the heart of the component: tables built record by record,
  over any schedule of polls, are those of one pass over the capture. `MatchesTrace`
  alone is not inductive, since it speaks of the flow list only; `TraceInv` says what
  each table holds in terms of the records read: every flow is the fold of the packets
  of its birth (`FlowsTraced`), the keys of the starts seen lead to the births
  (`KeysTraced`, `StartsTraced`), a tuple leads to the latest birth of its conversation
  (`TuplesTraced`), and flows are numbered in the order of their births
  (`RanksTraced`). The lemmas say how the births, what belongs to one and its
  fold grow by one record (`BirthsGrow`, `OwnGrows`, `FlowGrows`).
* `PollsAreCurrent`: `Spec => PollIsCurrent`.

`CaptureSeriesProofs`, for every set of limits, all thresholds and any number
of segments, with the lemmas of `CaptureSegmentProofs` on the segment itself:

* `OneAtATime`: `Spec => OneCaptureAtATime`. The inductive invariant
  `StoppedWithSegment` says that no tcpdump runs while `pc` is `ready`, `recording` or
  `returned`. A segment that raised may have left one, and ends the series.
* `SeriesKeepsPromise`: `Spec => KeepsPromise`, the refinement of `CaptureSeries`. The
  invariant `PromiseInv` counts the sessions against `segmentIndex` and keeps the
  reasons of a running series idle (`SessionsIdle`), for which a record must carry
  one of the named reasons (`ReasonNamed`). `SegmentReturns` maps to `Seal`, the three
  ways to abort to `Abort`, everything inside a segment to a stutter.
* `SeriesDescribesFiles`, `SeriesEndsCalm`, `SeriesAcceptsWhole`, `SeriesTypes`:
  `RecordDescribesSealedFile`, `IdleMeansCalm`, `AcceptedSegmentIsWhole` and
  `SeriesTypeOK`. They follow from `SegmentInv`, inductive for a segment and kept
  by its successor, which relates what the loop has counted to what is in the file
  at each of its steps, the silence the loop has measured to the one there was,
  and half a poll (`halfRead`) to the flow that the counts may miss.

For timed series the module proves `OneTimedAtATime` in the same way; there it is the
script's look at the output of lab that keeps a raised segment from being followed
(`StoppedWithLab`). `ElapsedIsSealed` proves `ElapsedMeansSealed`: the script
rewrites a record only after lab is gone, so it is one that lab finished.

`PilotCaptureProofs`, for any number of exchanges, any queue and any packets:

* `NoStaleEcho`: `Spec => OkMeansFreshEcho`. While an exchange waits, no index in the
  queue or on its way is larger than its own, and those that waited before it was
  sent are smaller (`OnlySent`), so the head of the queue can be its own echo
  only if nothing waited. The other workload and an idle one are excluded by
  `OwnSteps`.
* `AuditAcceptsWholePilots`: `Spec => []AcceptedIsWhole`. `WholeInv` follows the
  order of the `finally` clause: tcpdump is stopped before anything is written, the
  log is complete before the record, and a record describes files that no longer
  change. A record the audit accepts has successes, hence a result, hence a log.
* `PilotTypes`, `ReturnedPilotsAccepted`: `PilotTypeOK` and the converse,
  `ReturnedIsAccepted`, which needs that each check of the audit finds what the same
  call of the pilot wrote.

`NetworkIsolationProofs`:

* `IsolationTypes`: `Spec => []TypeOK`, whether captures overlap or not.
* `PolicyStaysKept`, `CapturesStayIsolated`, `NothingStaysBehind`: `PolicyIsKept`,
  `IsolationProtected` and `CleanWhenIdle`, under the hypothesis `~Overlap`. It is the
  hypothesis of the run `isolation` too; without it the three are false
  (finding `isolation_layers`). The inductive invariant `ApartInv` says which
  captures and watchdogs live (`Lives`), that scripts that write do so alone (`Alone`),
  and for each script at each step what it may rely on: that the file it is to restore
  from holds the user's policy (`Restores`), what of rules, task and state is in place
  so far (`Enables`, `Protects`), and that rules and task without a state file are
  about to be removed or are in `left` (`Cleans`).

`WindowsCaptureProofs`, for any profiles, packets, thresholds and intervals:
`SeriesTypes`, `RecordsDescribeFiles`, `SeriesEndsQuiet`, `ExposedFilesHaveNoRecord` and
`SeriesReleases`. The inductive invariant `SeriesInv` has a part for each thing that
two steps of the series must agree on: what either tracker has read of the file,
whole or cut by Ctrl+C (`ReadsHold`), the isolation, the flag and the outcome of the
helper at each step of the series, before and after the call that waits for it
returns (`ReleaseHolds`), the record against the file (`RecordHolds`), the
stop reasons (`SeriesHolds`), the target (`TargetHolds`) and the quiet timer against the
silence there was (`TimerHolds`). That a complete read of the file gives
`TrueL4Stats` is a lemma about the trackers.

`CredentialsProofs`, for any number of shells, secrets and cases:

* `EveryCaseIsRenderedToFit`, for any material: from the rules that every Xray case has
  a renderer (`EveryXrayCaseHasARenderer`), then composition by composition that
  both sides derive the same values.
* `PairsServe`: `Spec => []PairServes`. `PairServes` speaks of documents, which say
  nothing of where their material came from. The invariant follows the material: as
  long as one init-secrets ran at a time, nothing was rendered before it
  (`InitFirst`), and whatever is in identity.json, in the hands of a render or in a
  document (`Held`) has the id and the pin that it made (`HeldAgree`). For cases
  without REALITY keys this is all that the client's document depends on
  (`SameClient`); for the others `AloneHolds` shows that a render that had the
  directory for itself wrote both documents.
* `SecretsStay`: `Spec => SecretsPersist`, from `RenderHolds`: the material of a lone
  render is what identity.json holds, or the completion it is about to write.
* `CredentialsTypes`: `Spec => []TypeOK`, with what each command has at each step.

`EndpointsProofs`, for any number of shells, cases and images, every kernel and side:

* `TypeCorrect`: `Spec => []TypeOK`, with what each command has at each step
  (`Underway`).
* `OverlappingCommandsAgree` and `LoneCommandsSucceed`: `OverlapsAgree` and
  `LoneCommandSucceeds`. Within a round every step is a calm one (`RoundIsCalm`): Docker
  refuses only what the container's state makes it refuse, nothing is rendered, and
  commands are all starts or all stops. The invariant `RoundInv` says that starts under way hash the present document and image
  (`AllUpToDate`) and that a container serves what its label says unless the round
  is `stale` (`AllHonest`). Its centre is `StartsAgree`: once a start is over, either
  the wanted container runs, or another start is still on its way to `docker run`
  (`Rescue`), whatever it stops and removes before. `StopsAgree` is the same for
  stops. For a lone command `LoneInv` says at each step what it will find.
* `ServersAreStopped`: `Spec => [](side = "server" => StopsAnyContainer)`. Servers run
  with `--restart no`, so the finding `endpoints_loop` is about clients only.

The proofs assume only the named assumptions on the constants. Besides bounds
that are numbers, they are that intervals between samples are positive and have a
longest (a sleep is never endless), and that `None` (a value that is not there) and
`Torn` (a file written in part) differ from what they stand beside: numbers, truth
values, records, states, documents and containers.

Every invariant and every action property of the runs that pass is proved. Only
liveness under fairness is model-checked and not proved: it
(`EveryRecordIsRead`, `SeriesEnds`, `DrainedSeriesEnds`, `TimedSeriesEnds`,
`PilotEnds`, `PolicyComesBack`) is out of TLAPS's reach and stays with TLC.

## 6. Abstractions and what is not modelled

* Bytes of packets, headers and byte orders: `poll` either accepts a header
  (`ethernet`) or raises (`unsupported`), and a frame is a packet or `NotTcp`.
* A poll that Ctrl+C cuts short is modelled where its effect is seen, in
  `CaptureSegment` and `WindowsCapture`; `FlowTracker` has whole polls only. The cut
  is that of a poll that meets a new flow; a packet of a known flow, read again by
  the last poll, leaves the same tables wherever it was cut.
* Of the audit, the checks that need the contents of packets (server address, port,
  BPF, traffic outside the tunnel), which are run with the case of the session,
  and `capinfos` running into its timeout. Of a pilot, `traffic_error`, which the
  audit does not read. A tcpdump that dies during the workload is not noticed by
  `pilot.py`, and modelled so.
* Of the SOCKS exchange, the bytes, and the control connection beyond its being
  opened or refused; of a page, what it shows. Ctrl+C in a timed series reaches lab
  and the script; what `tee` still prints is left out.
* Not modelled at all, for want of anything that could interleave: `backend.py`,
  `state_machine.py` and `schema.py`, which only their unit tests call;
  `filter-tcp.sh`, `filter-site.sh`, `split-ip.sh` and `class02-cycle.sh`, each one pass over
  a finished file or a loop over pages; `scripts/windows/capture.ps1`, one dumpcap for
  a fixed time.
* Rates are compared as bytes over an integer interval; floating point is not
  modelled.
* A process id is not reused for a second capture, and under WSL the id that
  `windows.py` passes is taken to be one Windows knows. The second is listed as a
  hazard.
* Permissions of generated files (`prepare_read_permissions`, `chmod 0600`), ports
  and addresses in them; secrets are given once. An image lock changes in one
  step. `status` and `logs` of an endpoint read only.
* Ports, addresses, host names, routing and bandwidth of a document: arguments, or
  the same for all cases. The loader, the doctor and the CLI read, dispatch and
  print; the catalogues only list what the rules may name.

## 7. Plan

The parts with behaviour of their own are modelled, and every safety property of a
passing run is proved. What remains is out of the tools' reach or without behaviour
(section 6). Two parts would be worth a module if they changed:
`scripts/windows/capture.ps1`, should it capture in segments, and the configuration
loader, should it keep state between two readings.
