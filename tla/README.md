# SIPfax in TLA+

SIPfax answers SIP telephone calls from dial-up modems, runs a modem program
per call, and starts `pppd` on the PTY that program opens.  Around it stand
hooks, a redundancy bridge, a helper that prepares the telephone adapter, and
tools that measure what went over the line.  This directory specifies what all
of these do to shared state (ports, calls, processes, addresses, firewall rules,
registrations, secrets, captured streams) and what happens when they interleave,
fail, die, and run again.  Paths are relative to the repository.

Contents: 1 inventory, 2 plan, 3 the modules, 4 the runs, 5 the proofs,
6 findings, 7 abstractions and what is not modelled, 8 running it.

## 1. Inventory

### Concurrency

The service is one Node.js process.  A handler (datagram, `exit`, `error`,
`listening`, stdout data, timer, HTTP request) runs to completion, then the
promise reactions it made ready run, then the next event.  So a handler with
the reactions it makes ready is one atomic action, and everything awaited from
outside (a bind, a close, an exit, a timer) ends one action and begins another
later, in any order relative to other events.  Modem programs, pppd, hooks and
the Python programs are separate processes, interleaved freely; a step of one of
these is one command, one system call or one file replaced.

### Components

| Component | Source | State | Operations |
|---|---|---|---|
| SIP server | `src/server.js`, `src/index.js` | metrics, pending INVITE handlers | INVITE and its repetitions, ACK, BYE, stop |
| Call manager | `src/session.js` | table of calls by Call-ID, cap, call states | `startFromInvite`, `acknowledge`, `terminate`, `openPty`, `closePty`, `authenticatePpp`, `setMaxSessions` |
| Line | `src/line.js` | readiness promise, modem, RTP endpoint, continuity | `start`, `stop`, media frames, modem control events |
| RTP endpoint and port pool | `src/media.js` | socket, remote address, sequence number and timestamp, `used` ports | bind, parse, send, close; `allocate`, `release` |
| RTP continuity | `src/rtp-continuity.js` | last packet of the source | `accept`, `reset` |
| RTP pacer | `src/rtp-pacer.js` | queue, deadline, timer | `push`, `tick`, `reset` |
| Modem process backend | `src/media.js` | child process, stdout and control buffers | `start`, `stop`, frames, control lines, exit |
| PPP session controller, address pool | `src/ppp.js` | sessions, `terminating`, `exited` promises; leases by Call-ID | `begin`, `authenticate`, `startPppd`, `stopPppd`, `terminate`; `lease`, `release` |
| pppd supervisor | `src/pppd-supervisor.js` | processes by Call-ID, hook tokens, lease files, secrets file | `start`, `stop`, exit, notifications, `acceptHookEvent` |
| Hook scripts | `deploy/ppp`, `bin/sipfax-egress-apply` | active-lease markers, retained forwarding, firewall rules | `ip-up`, `ip-down` |
| Configuration | `src/config.js`, `src/index.js` | settings in memory, on disk, and applied | add and remove users, set, save, load |
| Secrets migration | `deploy/prepare-ppp-secrets.py` | secrets in `/etc/ppp`, managed copy, rollback copy | one run of three replacements |
| RED encoder and bridge | `deploy/sipfax_red.py` | last packet, registration; lock, rule, queue, control socket | packet, serve, `--sync`, `--cleanup` |
| ATA preparation | `deploy/ata187-prepare.py`, its dialplan | lock, pending and active profile | one run of a console dialogue |
| Capture tools | `artifacts/lkma-193a/pcap_to_wav.py`, `research/v90/audit_rtp.py`, `research/v90/audit_rtcp.py`, `research/v34-rx/pcap_util.py` | statistics of a stream | read a file, parse, count, report |
| MP decoder | `research/v34-rx/mp_decode.py` | none | symbols to bits, descramble, find frames, lock to TRN |
| Trellis tables and B1 signal | `tools/gen_trellis_trans_16.py`, `research/v90/audit_b1.py`, `research/v90/analyze_training.py` | none | labels, transitions, tables; the known signal; its events |
| Upload fixture and audit | `tools/ppp-upload-fixture.py`, `tools/audit-ppp-upload.py` | the fixture's records | receive; verify one attempt |
| Egress policy, operator HTTP, SIP and SDP text | `src/ppp.js`, `src/operator.js`, `src/sip.js`, `src/sdp.js` | last 20 events | see section 7 |
| Modem engines, LAPM, research scripts, installer, web page | the rest | | see section 7 |

### How they interact

- SIP server calls the manager synchronously and awaits `session.ready`, a
  promise the Line settles when its socket is bound or fails.
- The manager owns one Line per call; the Line owns an RTP endpoint (with a
  port of the pool) and a modem process.  The modem's `exit` and control events
  come back to the manager through callbacks that compare the table's entry
  with the call they were made for (`ownsCall`).
- RTP packets go through the continuity filter to the modem's stdin; frames of
  its stdout become RTP packets, through the pacer when one is configured.
- The manager calls the PPP controller: `begin` on ACK, `startPppd` and
  `stopPppd` on the modem's PTY events, `terminate` at the end of a call.
- The controller leases an address, tells the supervisor to start pppd, and
  keeps the promise `session.exited` of the process.  `terminate` hands the
  address back in a reaction to that promise.
- The supervisor writes a lease file per Call-ID, which the hooks read when
  they run; the hooks report through the operator HTTP server with the token
  they read.  It writes the secrets file, through the link that the migration
  put into `/etc/ppp`.
- The PBX's dialplan takes a lock, has the ATA prepared over ssh, writes the
  call into its database, tells the redundancy bridge to look there, and dials.
  The bridge rewrites the packets that the PBX sends to that call's port.
- The tools read captures of these streams, and records of uploads through them.

### Behaviours that are hard, and what correctness means

| Component | Hard behaviour | Correct means |
|---|---|---|
| Call manager, SIP server, Line | The end of a call, the modem's exit, the bind result, ACK and repeated INVITEs come in any order; the INVITE handler resumes after an await | one answer per INVITE and the same one for repetitions; 200 only for a live, bound call; nothing of a call outlives it; admissions below the cap |
| Port pool | The port returns after an asynchronous close that may fail | the books equal the sockets that may be open, and two of these never share a port |
| PPP controller, address pool | SIGTERM is not exit; Call-IDs are used again; a start may fail after it stopped its predecessor | an address is leased to one call, stays leased until its pppd exits, and returns then |
| Supervisor, hooks | Exits, notifications and hook events of replaced processes arrive late | they change nothing of the successor |
| Egress hooks | Killed between two effects, run in an unexpected order | rules and forwarding equal what active leases justify |
| RTP continuity | Wrap-around, late packets, copies, silence in between | the modem hears each packet once, in order, on the sender's clock |
| Framing, RTP pacer | Frames cut at any byte, timers early and late, a full queue, the end of a call | frames arrive whole, in order, not before their time and not after the end |
| Configuration | Memory changes before the file, or the file before the running services | what was confirmed is what runs and what survives a restart |
| Secrets migration | Killed between any two replacements, run again, secrets changed in between | pppd always reads what was last written for it |
| Redundancy bridge | A queue of packets of an older call, a stalled bridge, a restart with the rule still there, requests that outlive their client | the redundant block is the predecessor; rule, queue and socket belong to the bridge that serves; the registration is that of the call that goes on |
| ATA preparation | Helpers that hang or are left behind, an ATA that restarts | a prepared call keeps the profile it asked for; nothing activates during a call |
| Capture tools | Loss, copies and reordering at the wrap; padding, trailers, cut files | a report is true: losses are not hidden, a clean stream is clean, tools agree |
| MP decoder | Damage, a rotated line, joining in the middle, frames of two lengths | reported frames were sent, whole ones are found |
| Uploads | Breaking off at any point, retries under one name | verified exactly when it came through |

`PROJECT.json` lists the same hazards one by one with their lines and the
properties that cover them, or why none does.

## 2. Plan

All of it is done; the order was that of importance.

1. `PppSessions`, `ExclusivePool`, `PppHooks`: addresses, pppds and hooks.
2. `CallManager`, then `Sipfax`, the composition with `PppSessions`.
3. `EgressHook`: the firewall and forwarding, with faults.
4. `RtpCapture`, `RtpContinuity`, `RedStream`, composed in `RtpPath`: the stream.
5. `AudioOut`: the way back.
6. `RedBridge`, `AtaPrepare`, composed in `RedCall`: calls of the ATA.
7. `Credentials`: users, configuration, secrets and their migration.
8. `CaptureFrames` and `RtcpReports`, composed in `Captures`; `G711`, `MpFrames`,
   `Training`, `Uploads`: the tools, gathered with `RtpPath` and `AudioOut` in
   `Measurements`.
9. Proofs for each module whose safety rests on an inductive argument.

What could come next is small: the comparison of whole paths in `audit_rtp.py`,
and proofs about the remaining tools.

Every module takes its sets as CONSTANTS, has one action per operation, offers
the choice of an address or port as a set (`Lowest`, `Offered`) rather than
with CHOOSE, and declares no RECURSIVE operator, so that it can be proved about.

## 3. The modules

### ExclusivePool

What a pool of reusable items promises: an item has at most one holder, only a
holder uses it, and it goes back when the last use has ended.  `held` says who
has what, `inUse` who may still touch it.  It has no code of its own.

### PppSessions

| Variable | Code |
|---|---|
| `sess`, `lease`, `exited` | `state`, `lease`, `exited` of `PppSessionController.sessions.get(c)`; `exited` names the process whose promise it is |
| `terminating`, `closures` | the Set `terminating`, and the reactions `terminate` attached to promises: `<<c, p>>` releases `c` when `p` exits |
| `leases` | `AddressPool.leases` |
| `current`, `supState` | `PppdSupervisor.sessions.get(c)` and its state |
| `descriptor` | the process whose `notifyToken` the lease file of `c` holds |
| `proc`, `procCall`, `procAddr` | the processes: unborn, alive, told to terminate, exited, or never spawned; and what they were started with |

`Begin`, `Authenticate`, `StartPppd`, `StopPppd`, `Terminate` are the methods of
the same name, each with the supervisor's part of it.  `StartPppd` with
`spawned = FALSE` is a spawn that emits `error`; `StartPppdThrows` is an
exception between the supervisor's `stop` and the spawn.  `PppdNotifies`,
`PppdExits`, `HookEvent` are the handlers of the child's stdout, of its exit
and of a hook's report.  `ReopenPty` tells whether a modem program may report
`pty-opened` again in one call.

### PppHooks

Adds `hook[p]`, how far the hooks of `p` have come, and `hookToken[p]`, the
token the running hook has read.  A hook first takes the common lock and reads
the lease file (`HookReads`), later posts (`HookPosts`); between these two, and
before the first, anything may happen to the call.

### CallManager

`entry` is the table of calls, `used` the ports in use, `maxSessions` the cap.
A Line is one member of `Lines` with its Call-ID, port, call state, socket and
modem.  `waiting[l]` are the INVITE handlers that await its readiness,
`replies` the final answers, `accepted` the metric.  Actions: `Invite`,
`BuildFails`, `InviteAgain`, `Ack`, `Bye`, `SetMaxSessions` (messages and
administrator), `ModemExits` (child), `Listening`, `BindFails`, `SocketClosed`,
`CloseFails` (operating system).

### Sipfax

Instances of both, joined as `index.js` wires them: `Ack` is `CM!Ack` and
`PPP!Begin` in one step; `Bye`, `ModemExits` and `BindFails` end the PPP session
of the call with it; `PtyOpened` and `PtyClosed` need a running modem of a
current Line; pppd's and the socket's own steps leave the other side alone.

### EgressHook

The program that `ip-up` and `ip-down` run, one at a time under a file lock.  A
step is one command (`iptables`, `nft`, `sysctl`) or one file replaced.

| Variable | Code |
|---|---|
| `nft` | whether `nft` is installed: one transaction per ruleset, else one `iptables` command per rule |
| `faults` | what may go wrong in a behaviour: failing commands per invocation, and whether hooks are killed; it never changes |
| `base` | the forwarding switches before the first call; the code does not know it |
| `sys` | the kernel's switches: the global one, which takes all others with it when written, and one per interface |
| `rules[c][n]` | copies of rule `n` of call `c` in the kernel |
| `marker[c]` | the active-lease file: link, `teardownStarted`, `removedOperations`, `rulesRemoved` |
| `snapshot` | `.forwarding-state` |
| `hook` | the running hook: the next command, its link, the operations done, the `previous` values of `setForwarding` |
| `fails` | commands that failed in this invocation |

`StartUp` and `StartDown` are an invocation that finds something to do,
`Ignored` an `ip-down` of a link that is not active.  `Install` and `Undo` are
`applyRules` up, `Retain`, `Forward`, `Unforward` the two forwarding functions,
`Mark` the marker, `Clean` the cleanup after an error; `Teardown`, `Remove`,
`Record`, `RulesRemoved`, `Unmark` are `ip-down`, and `Restore` is used by both.
Each command may fail (`Fails`), and `Dies` is a kill, or a file that cannot be
written, which ends a hook the same way.

### RtpCapture, RtpContinuity, RedStream, RtpPath

One RTP stream and three readers of it.  A packet is the index under which it
was sent; sequence number, timestamp and SSRC follow.  The sender goes on after
silence, restarts its clock or changes its SSRC; the network loses, repeats and
reorders packets within the window `Late` and `Burst`.

| Variable | Code |
|---|---|
| `sent`, `seen` | what was sent, and captured in this order; known to nobody |
| `packetCount`, `expectedPackets`, `outOfOrder`, `gaps`, `lastSequence` | `StreamStats` of `pcap_to_wav.py` |
| `previous` | `RtpContinuity.previous`; `restarts`, `base`, `handed`, `delivered` record what the modem got |
| `registration` | `control.registration` of `sipfax_red.py`; `queue` the kernel's packets |
| `registered`, `history`, `wire` | `RedEncoder.registration`, `.previous`, and the packet that left last |

`Arrive` is one packet: captured, filtered and handed to the modem, and queued
for the bridge; `Encode` is the bridge's verdict on the oldest queued one.
`Flow` is the set of an SSRC's positions in the capture, and `Hops` the pairs of
neighbours in it, of which `SequenceAnomalies`, `SequenceWraps` and
`TimestampAnomalies` are what `audit_rtp.py` reports; `RedPrimary` is its reader
of redundant audio.

### AudioOut

| Variable | Code |
|---|---|
| `written`, `pipe` | frames of the modem program, and its bytes under way |
| `stdoutBuffer` | `ModemProcessBackend.stdoutBuffer` |
| `remote`, `open` | the endpoint knows where to send; Line not stopped |
| `out` | `seq`, `stamp` of the endpoint; `queue`, `timer`, `deadline` of the pacer; `sent`, the packets that left, and when |
| `paced`, `now` | whether there is a pacer; the clock, in samples |

`Chunk` is `acceptProcessOutput` for any number of bytes with everything it
calls; `Tick` the pacer's timer, a little early or any time late; `StopLine`
stops modem, pacer and socket in one go, as `Line.stop` does.

### RedBridge, AtaPrepare, RedCall

`RedBridge`: `at[p]` is where a run of `sipfax_red.py` is in `serve`; `flock`,
`rules`, `socketOf`, `nfq` are the lock file, the copies of the rule, the path
of the control socket and the packet queue; `backlog`, `handling` and
`registration` belong to the control thread, `client[k]` to a `--sync` run.
Every command may fail.  `iptables -D` and `-I` that fail end the process or its
start (`RemoveRule`, `InsertRule`), and so do the binding of the queue and of the
path, and `chown` or `chmod` after it (`BindControl`, step `"bindPurge"`);
`iptables -C` that fails, for whatever reason, ends the search for the rule as if
there were none (`RemoveRule`), so that a copy may stay: `overlooked`, which the
program does not have, records that the last search left one.  `Ends` kills a
process anywhere: the kernel then closes its files, but rule and path stay.

`AtaPrepare`: `step[h]` is where a helper is, `want[h]` the profile it was
configured for, `prepareLock` the lock, `pending` and `active` the ATA's
profiles.  A command without an answer may have been executed (`HelperFails`);
the ATA forgets its pending profile between calls and may restart.

`RedCall` runs them from the dialplan: `chan[c]` is where call `c` is,
`callLock` the lock of the route, `db` the PBX's database entry.  `ackedBy`
records which bridge answered a call.  `Prepared` ends the wait for a helper with
its success or, at any moment and wherever the helper is, with the failure of
ssh or its 22 seconds; the helper goes on.  `strays`, known to nobody, are those
that took `prepare.lock` after that and after the last helper that was waited for
had taken it.  Helpers may be that late since the alarm of 18 seconds is set only
after an import (`ata187-prepare.py:103-106`).

### Credentials

| Variable | Code |
|---|---|
| `disk`, `memory`, `store` | `config.json`, `SipfaxConfig.data`, `ppp.credentials` |
| `running`, `launched` | the service runs; it has launched a pppd |
| `source`, `target`, `backup` | `/etc/ppp/chap-secrets`, the managed copy, the rollback copy |
| `migration`, `result` | the running script and how the last one ended |
| `acked`, `dirty`, `lastWritten`, `original`, `rewritten` | what the operator was told, and what was true before: known to nobody |

### CaptureFrames, RtcpReports, Captures, G711, MpFrames, Training, Uploads, Measurements

`CaptureFrames`: one frame told by its header fields, up to `MaxDamage` of which
are not as they were sent; four parsers find the audio in it, each with its own
arithmetic.  `copied` is how much of a capture file can be read so far.
`RtcpReports`: a compound of packet headers that is cut or extended.  `Captures`
is the two, side by side.  `G711`:
both codecs of `pcap_to_wav.py` and the decoders of `pcap_util.py` and
`audit_dil.py`, byte by byte.  `MpFrames`: the frame of
either type a modem repeats, scrambled and modulated bit for bit, one symbol of
which is hit; and the decoder, with the one loop of `find_frames` that looks for
both types at every bit (`IsFrame`) and skips what it takes for the length of the
one it found (`EndOf`), two bits too many for a short one.  `Training`: the B1 signal of
`audit_b1.py`, two symbols a step, with the encoder's states; the branch tables
of `gen_trellis_trans_16.py` and the descrambler of `analyze_training.py`, which
must fit it; and the choice of events among candidates, found in the order of
the sampling phases.  `Uploads`: the fixture's threads, its
records, the client's notes, and `Verified`, the audit.

`Measurements` puts these beside `RtpPath` and `AudioOut`; it extends these two,
`Captures` and `Uploads`, so that their properties are the ones proved, and
instantiates the rest. The parts share no variable: `subject` picks, in the
initial state, whose turn a behaviour is.

## 4. The runs

Each invariant of a run is a conjunction of named parts, each with its own
comment; the type invariant of a module is one of these parts where the run does
not name it (`HooksTypeOK` of `PppHooks` only documents the variables).

| Run | Instance | Shows |
|---|---|---|
| `ppp_sessions` | 2 Call-IDs, 3 pppds, 2 addresses, re-opened PTYs | leases are kept, ends are scheduled, an exit frees the right address, `ExclusivePool` is implemented |
| `ppp_reopened` | same | violation 1 of section 6 |
| `ppp_hooks` | 1 Call-ID, 2 pppds with hooks, fair exits | a token read before its pppd was replaced is powerless; a hung-up call frees address and Call-ID |
| `ppp_hooks_stale` | same | violation 2 |
| `calls` | 2 Call-IDs, 2 Lines, 2 ports, cap 1 to 2, fair operating system | answers, ports and Lines, `ExclusivePool`, and that answers are sent and ports return |
| `service` | 2 Call-IDs, 2 Lines, 2 pppds, 1 address | calls, sessions, pppds and leases correspond; whatever ends a call, its address returns |
| `egress` | 2 Call-IDs, 3 links, 2 interfaces, 2 rules; either one failing command per hook, or two and kills | originals never forgotten, active leases served, rules before forwarding; without kills exact progress, nothing left at rest, teardown completes |
| `egress_twice` | same, two failures, no kill | violation 3 |
| `measurements` | 4 packets modulo 8, 3 captured; 3 frames of audio; frames with 2 damaged fields; 2 RTCP packets; 256 codes; a long MP frame three times, a short one five times; all 64 pairs of B1, 4 candidates in 6 samples; 2 uploads | the stream, the way back and all tools: see the ten invariants |
| `red_call` | 2 calls, 2 runs of the bridge, 2 settings, 1 restart of the ATA, few mishaps at once | bridge intact, profile kept, registration follows the call, no activation in a call |
| `credentials` | 2 users, 1 password, 4 changes | what was confirmed holds; secrets are kept |
| `credentials_stale` | 1 user, 2 changes | violation 4 |

**Bounds.** Processes, Lines, calls of the ATA, runs of the bridge and uploads
are used once each, so their number bounds the length of a history: two allow
something and its successor, or two at a time; three pppds allow a call, its
successor under the same Call-ID and a concurrent call.  Two Call-IDs suffice
for any two calls to meet; a third adds nothing to a property about pairs.  Run
`calls` has as many ports as Lines, so its pool is never exhausted; the refusal
it then gives is an early return without effect, and the theorems of section 5
cover any number of ports.  `MaxLimit` bounds the cap.  In `EgressHook` two
links of one Call-ID make a reconnect and its late `ip-down`, and the other call
has another outbound interface, so that the shared switch is told from its own;
two rules make a first, a last and one in between to stop at.  `Faults` is the
set of fault models tried, `MaxCopies` bounds the copies of a rule that killed
hooks leave.

In `RtpPath` sequence numbers begin three below the wrap of a range of 8;
`Late` and `Burst` are the largest the window allows there; four packets make a
loss, a copy and a reordering before the wrap, at it and behind it.  `MaxSent`,
`MaxSeen` and `QueueMax` bound the stream and the queue.  In `AudioOut`
`Limit = 1` overflows with the second packet that waits; `MaxFrames` and
`MaxTime` bound it.  `MaxDamage` fields, `MaxPackets` and `MaxSize` bytes bound
frames and compounds, `Repeats`, `Hits` and `Joins` an MP signal (hits are put
at the edges of frames and symbols), `MaxUpload` and `MaxErrors` an upload.
In `MpFrames` three long frames leave one in the middle that is heard whole from
a late join, and five short ones, of which the search sees every second, two.
`MaxCalls`, `MaxProcs` and `MaxReboots` bound `RedCall`, and `FewMishaps`, a
constraint of the run, what may come together: besides a run of the bridge either
a second one, or a restart of the ATA, or a helper that failed or was left
behind; without a bridge two of these.  What becomes of the ATA and of the bridge
meets only in the dialplan, which sees of each but success or failure, and
failure also without a mishap, as ssh, `--sync` and the caller may fail at any
time.  The theorems have no such bound.  `MaxCap` and
`MaxChanges` `Credentials`.  Call-IDs and processes are symmetric in the runs of
`PppSessions`, which have no liveness properties.

**Deadlock** is checked in every run but two.  In `measurements` a behaviour
ends when its packets, bytes or uploads are used up, and in `red_call` when its
calls and processes are; the programs themselves wait for the next one.  The
other models never stop: the cap can be set, a call begun, a login tried, a
service started.

**Fairness.** `PppSessions`, `PppHooks` and `Sipfax`: weak fairness of the exit
of a process that was sent SIGTERM, since pppd handles SIGTERM by terminating
the link and exiting.  Nothing is assumed of a process not told to stop, and
none of the messages, logins, hooks or PTY events is fair.  `CallManager`: the
operating system completes a bind (with success or failure) and a close
(likewise).  `EgressHook`: a running hook goes on, and `ip-down` is repeated
while the marker is there, which the deployment guide asks of the operator
(`deploy/README.md:400-402`); strongly, since the lock is taken again and again;
the property assumes that commands stop failing in the end and hooks are not
killed.  Properties of liveness name the exceptions the code has: an INVITE
whose call ended during the bind is never answered, since a socket closed while
binding reports nothing, and a port whose close failed never returns.

**Mutants.** Next to each definition stand variants of it with a plausible
mistake (`FreeWithServer` leases the server's own address, `ReleasedByCallId`
releases whatever the Call-ID has now, `TickAsItWakes` believes its timer...).
They are used nowhere in the specifications; every property is violated by at
least one of them, which `PROJECT.json` records.

## 5. The proofs

Assumptions are those of the modules' constants: pools are not empty, markers
such as `None` are nothing else, and for a stream that neither delays nor losses
reach half the range of sequence numbers.

**`PppSessionsProofs`**, for every number of calls, processes and addresses:
`TypeCorrect`, `LeasesStayKept`, `EndsStayScheduled` and the action property
`ExitsReleaseOnlyEndedCalls`, whatever the modem programs do;
`AddressesHeldUntilExit` and `LiveAddressesAreUnique` when a modem opens one PTY
per call (`ReopenPty = FALSE`); and `RefinesExclusivePool`.

*The invariant.*  None of these is inductive alone.  That two leases differ
needs nothing else, but that a release frees the right one needs that it was
scheduled for the process that uses it.  `Inv` therefore adds: a call without a
session has neither lease, promise nor process (`NoSession`); a session's lease
is the pool's (`LeaseInPool`); the awaited process is the session's own and uses
its lease (`AwaitedIsOwn`); the supervisor's process is the awaited one and not
yet signalled (`CurrentIsAwaited`); a pending release is for a process that uses
the address it will free (`PendingAddress`); a live process has a call and an
address (`LiveIsStarted`).  One lemma per action shows that it keeps `Inv`, with
one step per conjunct.

*One PTY per call.*  `NoneForgotten`, that every live process is still referred
to by a promise of its session or a pending release, is inductive on top of
`Inv` when a start never overwrites an unresolved promise.  With
`AccountableKeepsAddress` it gives `AddressHeldUntilExit`, and with
`LeaseExclusive` that live addresses are unique.

*Refinement.*  The users of the pool are the calls with a live process the
controller still refers to; `OneAccountable` shows there is one such process per
call, so its exit is the pool's `Finish`.  A start is `Acquire` or `Use`,
`terminate` without a living process `Release`, everything else a stutter.

*Hooks.*  With `PppHooks` added, `HooksImplementSessions` says that the sessions
still do only what `PppSessions` allows, since a hook's report is one of its
`HookEvent`s: the token that is presented belongs to a process of the hook's own
Call-ID (`TokensOfCall`).  So `HooksKeepLeases` costs no new proof.  `HooksInv`
adds which hooks can run at all (`HooksOfPppds`) and that they take turns
(`HooksTakeTurns`, theorem `TurnsAreTaken`): under the common lock one runs at a
time, and one lease of a Call-ID is active at a time.
`RetiredTokensArePowerless` is an action property: a token names the process it
was made for, and a process that lost its place is never current again, because
every step that makes one current makes a new one (`StartsAreNew`).  Finding 2 is
the case it leaves out, in which the hook has read its successor's token.

**`CallManagerProofs`**, for every number of calls, Lines and ports and every
cap: `TypeCorrect`, `PortsStayRight`, `NoLineIsOrphaned`, `AnswersAlwaysAgree`,
the action property `AcceptancesAreReady`, and `RefinesExclusivePool`.  The books and the disjointness of ports need each
other: a closed socket gives back its own port only because no other open
socket has it.  `EntryIsOwn` (a Line is under the Call-ID it was made for),
`LineBorn` (an unused Line has nothing) and `RepliesFollowSocket` (a bound
socket's call was answered 200, one that is binding was not answered and has its
first handler waiting) make it inductive; `HangupKeepsInv` serves BYE, modem
exit and failed bind.  `CountInv` adds that the set of accepted Lines is finite,
which counting needs although `Lines` may be infinite.  In the refinement `Invite` is `Acquire`, `SocketClosed` is `Finish`,
and everything else a stutter.

**`RtpPathProofs`**, for every range of sequence numbers and timestamps, packet
length, window and number of packets: `LossStaysReported`, `ModemKeepsHearing`,
`CleanAuditStaysTrue` and `RedundancyStaysTrue`.  `PathInv` has four parts.
`CaptureInv` keeps two numbers that the tool does not have: the newest packet,
and the last one, whose distance decides modulo the range what is late
(`LossInv`: what is expected is at least first to newest, and what was counted
twice is ahead of it).  `DeliveryInv` says that the filter's last packet is the
last one delivered, and the newest of its source, from which `InOrderOnce`
follows: a step below half the range is a step ahead.  `ClockInv` counts
samples handed over against timestamps passed, modulo the range.  The lemmas
about distances modulo a range come first, since the solver does not know `%`.

`AuditInv` is for the audit: a flow without an anomaly is `Sound`, by hops, by
its length and by its wraps.  It needs `Near`: what may come next of a flow is
within the window of its last packet, although packets of the other SSRC may
have moved the window on since.  That holds because the SSRC changes at most
once (`OneHandover`); with it, a step of one modulo the range is the next packet
(`StepTells`), and a wrap is one more in the quotient (`DivStep`).

`BridgeInv` is for the redundancy: the bridge's queue and memory hold packets
that arrived, none much older than those before it, and the memory is of the
call registered last.  `RedundancyStaysTrue` has the hypothesis `BridgeKeepsUp`:
from the packet remembered to the next one judged it is not more than a whole
range of sequence numbers.  The code has no such guard.  A queue that stays full
for 65536 packets, 22 minutes, would let as many pass unseen, and the one after
them could be taken for the successor; section 7 says so too.  In the runs the
hypothesis holds, since fewer packets are sent than there are numbers.

**`RedCallProofs`**, for every number of calls, processes, settings and
profiles, with kills, failures and restarts: `BridgeStaysIntact`,
`CallsKeepTheirProfile`, the action property `NobodyActivatesInCall`, and
`HelpersTakeTurns`.  `Inv` is `BridgeInv`, who has the lock at which step and
what is in place there, so that only a process with the lock touches the rule,
and `RouteInv`, that a helper at the ATA has the lock its successor would need
(`Prepares`), and that once the present call's helper is ready only a stray can
be at the ATA (`Holds`).  Two exceptions are in the properties, since the code has
them (points 5 and 6 of section 6): a serving bridge has its rule once, and a
process that ends leaves none, unless the last search `overlooked` one; and a
prepared call keeps its profile unless a stray got as far as activating.  A stray
is one only until the next call's helper takes the lock, so that the exception
does not outlive the call it concerns.
`RegistrationsFollowCalls` needs more, as `RegistrationFollowsCall` is about
requests that are answered late, in another order than they were made by
processes that may be replaced in between.  `ControlInv` adds: where the
dialplan of a call is says how far its two clients are (`Dialplan`); a client
is with one control thread once, and the thread's answer is the registration it
has just assigned (`Queue`, `Request`); the set request of the call that holds
the call lock is the last in the queue, so that what is read for it is that
call (`LastIsOwn`); after it was told ACTIVE nothing comes until the call ends
(`KeptFor`); and a thread that still names a call whose row is deleted has that
call's clear request before it (`EndsWith`).  `ControlInvariant` and `TypesHold`
are proved with it, from the assumption that there is a setting and that a
restarted ATA has a value for each (`AtaAssumption`).

**`CredentialsProofs`**, for every set of users, passwords and settings:
`ConfigurationSurvives` and `SecretsStayKept`.  `IInv` adds what is in memory
when nothing is dirty, and for each step of the migration what the three files
hold relative to the data it read.

**`MeasurementsProofs`** is about three parts of `Measurements` by themselves.

*Audio.*  `AudioAlwaysArrives` proves `AudioArrives` of `AudioOut`, for any frame
sizes that fit their two length bytes, any number of frames, any delay, limit and
earliness of timers, and any ranges (`AudioConstants`, which the run assumes as
`AudioAssumption`).  `AudioInv` says that for some `r`, the frames read:

- `Streaming`: `stdoutBuffer` and `pipe` together are the stream of the frames
  behind frame `r`, each length followed by its bytes where the lengths before it
  say (`IsStream`), and the buffer alone does not have a whole frame.  A frame
  written keeps that (`StreamGrows`); taking as many as are whole advances `r` by
  just these frames (`FramesTaken`), wherever the stream was cut.
- `Numbered`: what was sent and what waits, together, carry frames up to `r` in
  order; sequence number and timestamp differ by the frames and samples between
  two packets, modulo their ranges, past a packet the pacer refused too; and
  without an overflow no frame is missing and the newest is `r`.
- `Timed`: what waits has a timer, and nothing waits after the end.
- `Paced`: any packet left later than the duration of those sent between it and
  an earlier one.  What makes this inductive is `DeadlineAhead`: the deadline
  is later than every packet already sent by the duration of what was sent since.

Five folds are in the way here and below (sums, `TakeFrames`, `SendAll`,
`RecordEnds`, `DecodeReports`).  Each is shown to be the last of a sequence of
values that step by the folded operator (`TotalSteps`, `TakeSteps`, `SendSteps`,
`RecordSteps`, `DecodeSteps`), from the definition of the community modules' fold,
and what holds along that sequence is shown by induction over the set of
positions where it holds (`Induction`), which needs no operator as a parameter.

*Captures.*  `CapturesStayRead` proves `CapturesAreRead` of `Captures`, for any frames
whose fields are numbers and flags, any values that damage may put there, in any
number of fields, any records of a file and any headers
(`FrameConstants`, `ReportConstants`, which the run assumes as
`CapturesAssumption`).  The invariant is only that a frame has its fields
(`CapturesInv`): what is proved is what the readers compute from any of them.

- Frames: `WavFinds` and `AuditFinds` say what `pcap_to_wav` and `audit_rtp` find in
  one form, an offset, the end of the datagram (`WavEnd`, `AuditEnd`) and a header
  and padding that fit (`Sound`); agreement and containment are then arithmetic
  about these (`AudioStaysWithin`, `ToolsStayAgreed`, `FlowsKeepTheAudio`,
  `ServiceHears`, `ReportsStayWhole`).
- Files: `EndsFollow` and `EndsAscend` say where records end; the number of whole
  ones is the place of the last end copied (`SameRecordsRead`).
- Datagrams: behind packet `k` the loop of `decode_reports` has given up or has read
  `m` packets, `k` unless the bytes ended there (`Reads`); what it `Found` lies in
  these, in order, as many in each as announced.  `DecodeKeeps` is the step,
  `AllOrNothingRead` what it means when the last byte has been read.

*Uploads.*  `AuditVerifiesExactly`, for every number of uploads and sizes, under
`UploadsAssumption`.  `UploadsInv` ties each request to the one record it led to
and to what its client noted; that no attempt's other record is taken for it is
then counted (`MatchesAreFinite`).

**`SipfaxProofs`**, for every number of calls, Lines, ports, processes and
addresses.  `ImplementsCallManager` and `ImplementsPppSessions` are refinements:
each step of the service is, with the other side's variables dropped, a step of
`CallManager` or none, and the same for `PppSessions` (the second needs the
first: that a failed bind ends a session of a known call follows from
`NoOrphanLine`).  The two proof modules are instantiated with the service's
variables, so that their invariants `X!Inv` and `Y!Inv` hold here without a new
proof.  `Joined` is what is added: a session exists exactly while the call is
established (`SessionsMatch`), a pppd not told to stop has a call whose modem
runs (`AlivePppdHasCall`), and a leased address a session or a pppd that has to
exit (`LeaseHasSession`).  Every handler has to do its part of both sides in one
step to keep it; `EndKeepsJoined` serves BYE, modem exit and failed bind.
`SidesStayAgreed` follows, and, with one PTY per call, `AddressesStayOwn`.

**`EgressHookProofs`**, for every number of calls, links and rules.  With any
failures and hooks that are killed anywhere: `BaselineIsKept`,
`ActiveAreServed` and the action property `ForwardsOnlyFiltered`.  `IInv` says
for each place in a hook which marker the call has (`MarkerOfHook`), which of its
rules are in the kernel at least (`RulesOfHook`), whether the snapshot is there
(`SnapshotOfHook`) and what the switches are (`SwitchesOfHook`); that a killed
hook leaves a state in which all this is still true of the next is `EndKeeps`.
`ProgressIsKept` and `RestsClean` have the hypothesis that no hook is killed and
at most one command of each fails, for which `Exact` counts every rule in the
kernel: it is owed by the marker or, while a hook runs, by how far it has come
(`RulesExact`), a hook on its way back has had its failure (`FailedOnce`), and a
snapshot without an active lease belongs to a running hook (`SnapshotExact`).
The hypothesis is the code's limit and not the proof's: finding 3 is what
happens with two failures, and a hook killed between a rule and its marker
leaves a rule no later hook knows of.

What the refinement of the pool is worth is `UsersHaveTheirAddress`, at the end
of `PppSessionsProofs`: no address has two holders, and every call whose pppd the
controller refers to holds the pppd's address.

*Only model-checked:* all liveness (`HungUpIsReleased`, `AnsweredUnlessEnded`,
`PortReturns`, `HangupFreesAddress`, `TeardownCompletes`), which is beyond the
prover; and in `Measurements` `NothingConfused` and `SignalsAreRead`, which are about
finite tables and one instance's bits, and `TrainingIsRead`, which is about finite
tables and a sort.

## 6. Findings

1. **A replaced pppd is forgotten** (run `ppp_reopened`).  `startPppd`
   (`src/ppp.js:409`) overwrites `session.exited`.  After a second `pty-opened`
   in one call, hang-up waits for the second pppd only; its address is free for
   another call while the first pppd, which only has SIGTERM, still uses it.
   `test/ppp-lease-exit.test.js:10` says the address is retained until the
   child exits.  The modem programs of the repository open one PTY per call, for
   which run `service` and `AddressesHeldUntilExit` show that it is.
2. **A hook can speak for its successor** (run `ppp_hooks_stale`).  The lease
   file is keyed by Call-ID and rewritten by every start
   (`src/pppd-supervisor.js:124`).  A hook of the replaced pppd that reads it
   afterwards presents the new token and sets the state of the new session.
   `test/ppp-hook-lifecycle.test.js:11` says hook events update only their
   current process.
3. **A failed cleanup is not retried** (run `egress_twice`).  When `ip-up` fails
   after its rules are installed, and a command of its cleanup
   (`bin/sipfax-egress-apply:72-73`) fails too, rules and snapshot stay, but there
   is no marker: every `ip-down` of that lease returns at line 60.
   `deploy/README.md:388` says `ip-down` removes the call's rules and restores
   the saved values, and `:401` that repeating it retries restoration.  The next
   call's `ip-up` and `ip-down` restore the switches (`BaselineKept` shows they
   are not forgotten); the rules stay.
4. **A change of the users does not reach the secrets file** (run
   `credentials_stale`).  `src/index.js:104` replaces the credential store; the
   file is rendered only when a pppd is launched (`src/pppd-supervisor.js:164`).
   The comment at `src/pppd-supervisor.js:350-352` says it is rendered also when
   the user list changes.

Three more were met while modelling.  They have no run of their own; the modules
state what the documentation says, and the properties that are checked and
proved except just these cases.

5. **A busy iptables leaves the rule** (`StoppingRemovesRule` of `RedCall`).
   `remove_rule` (`deploy/sipfax_red.py:167`) takes any failure of `iptables -C`,
   which is called without `-w`, for absence.  The bridge then stops with its rule
   in place, or starts and inserts it a second time; `deploy/cisco-ata187.md:184`
   says stopping removes it.  While no bridge has the queue the kernel lets
   packets bypass it, and the next search that succeeds removes every copy.
   `StoppingRemovesRule` among the invariants of `MCRedCall.cfg` fails.
6. **A late helper can activate during a call** (`NeverActivatedInCall` of
   `RedCall`).  A helper whose ssh failed before it reached its lock
   (`deploy/ata187-prepare.py:112`; the import before it, line 103, is outside the
   alarm) takes it when the next call's helper is done, and activates after that
   call was dialled.  `deploy/cisco-ata187.md:75` says activation must not overlap
   another call.  `NeverActivatedInCall` among the properties of `MCRedCall.cfg`
   fails.
7. **Every second short frame is missed** (`EveryFrameReported` of `MpFrames`).
   `build_mp` (`research/v34-rx/mp_decode.py:167-188`) makes type 0 frames of 86
   bits; `find_frames` takes them to have 88 (line 132) and, having found one, goes
   on two bits into the next.  Line 126 says it returns every CRC-valid frame.  The
   CRC is read from the right place, so what is reported is right
   (`FramesWereSent`), and long frames are all found (`FramesAreFound`); the
   self-test sends only those.  `EveryFrameReported` in place of `FramesAreFound`
   in `SignalsAreRead` makes `MCMeasurements.cfg` fail.

## 7. Abstractions and what is not modelled

- Addresses and ports are numbers from 1; CIDR arithmetic is left out.  Names,
  tokens and Call-IDs are model values; a token is the process it was made for,
  which is exact since `randomBytes` makes a new one per start.
- A process and a Line are used once; this renames, it does not restrict.
- A notification of pppd or a hook is one of the two link states.  The
  interface name a hook reports, and the retry of a lost report, are left out.
- In `EgressHook` a file is replaced at once; the marker of `ip-up` is written
  in place, and a kill within that write is not modelled.  The interfaces, the
  descriptor and the installed firewall tools do not change during a call, as
  `deploy/README.md:402-409` demands.  `net.ipv4.conf.all.forwarding` is part of
  the global switch.  The report to the service after the work is in `PppHooks`.
- A port that another program holds shows as `BindFails`.
- An `ip-up` that finds another lease of its Call-ID active is refused and not
  tried again (`bin/sipfax-egress-apply:56`); `Ignored` models it, and nothing
  promises more.
- `Authenticate` is only called by tests in the repository; it is in the model
  because the method is part of the controller.
- Stopping the service (BYE of every call, then exit) is left out: it repeats
  `Bye`.
- A packet's audio is told by its index, so that "the same audio" is exact.  All
  packets of a stream have the same length; the sender sends all of a stream
  before the first packet arrives, which changes nothing a reader could see.
- A stalled bridge for a whole wrap of sequence numbers (65536 packets past the
  queue) is outside the window; see the hazard at `sipfax_red.py:37`.
- Frames are told by what their fields say and where a reader looks for them;
  records of a file by their sizes.  MP symbols are the points they are decided
  for: filters and noise are left out, a hit is a wrong decision.
- The dialplan, Asterisk, the ATA's firmware, ssh and the network are external,
  modelled from what the repository's files say of them.
- The migration treats two files one after the other in the same way; here there
  is one.  Owners and modes are left out.
- A JSON file that cannot be parsed, which no crash leaves behind since files are
  renamed into place, is not a state of `Credentials`.

*Not modelled*, with the reason in `PROJECT.json`: the egress policy, SIP and SDP
text and the operator's HTTP routes (stateless functions of text), the audio
codecs of `media.js` and its test fixtures, which only tests use (the codecs of
`pcap_to_wav.py` are in `G711`; `encodeALaw` of `media.js` differs from them for
magnitudes from 512 to 2047, which it codes linearly), the comparison of whole paths in
`audit_rtp.py`, the signal research scripts (floating-point filters and
statistics), the laboratory's drivers and the release packaging (straight-line
programs without state between runs), the vendored modem engines with their
LAPM, the installer and the web page.

## 8. Running

In this directory, with TLC and TLAPS 1.4.5 installed:

    tlc -config MCPppSessions.cfg MCPppSessions.tla
    tlapm PppSessionsProofs.tla

Each run's module and configuration are listed in `PROJECT.json`.
