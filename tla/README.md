# A TLA+ verification project for NexKVM

NexKVM shares one keyboard and mouse, the clipboard and files between machines
on a LAN. A daemon (`apps/desktop`) runs on every machine; its libraries are
under `crates/`, a control panel is in `apps/gui`. This directory holds TLA+ models
of the daemon, of the control panel, of the library crates and of the platform
back ends, the TLC configurations that check them on small instances, and TLAPS
proofs about the daemon's core that hold for every instance. `PROJECT.json` maps every definition to the
source lines it models and lists runs, mutants, findings, hazards and theorems.

Running it, inside this directory:

    tlc -workers 2 -config InputHandoff.cfg InputHandoff
    tlapm InputHandoffProofs.tla

## 1. Inventory

How the parts meet, on one machine:

    UDP announcements -> registry -> planner -> target channel -> driver -> dial
                                        ^                                   |
                                        +--- success / failure / end -------+
                                                                            v
    inbound accept ----------------------> secure session -> arbitration (lease)
                                                                            v
                                    fan-out to lanes: input | clipboard | files

| Part | State it keeps | Operations | What is hard about it | What makes it correct |
|---|---|---|---|---|
| Input hand-off (`input_session.rs`, macOS `capture.rs`, handlers in `main.rs`) | capture queue, suppression flag and fault; cursor focus, inputs held remotely, guard; inputs held by the injector | capture callback, routing, release batches, focus timeout, reconfiguration, shutdown, injection, release at the end | callback and two tasks on two machines interleave; futures are dropped at any await; links die mid-batch | local input is never left swallowed, no key stays pressed remotely, old input is not forwarded, focus comes back |
| Peer-session arbitration (`peer_session.rs`) | active peers, leases, lanes, router | decide, acknowledge, fan out, route, drain, release | both sides dial at once; acknowledgements are lost or late; lanes outlive their deadline | one session per peer, on the same link at both ends, no lease leaks |
| File transfer (`file_transfer.rs`, `file_transfer_disk.rs`) | durable send queue, receive state, part and final files; protocol position; transfer permit | offer, accept, stream in lockstep with checkpoints, publish, complete, resume, cancel | crash between any two disk writes, lost messages, crossing offers, user edits, timeouts | nothing unverified is published, nothing is overwritten, progress is kept, a queued transfer arrives |
| Discovery and reconnection (`crates/discovery`, driver in `connection.rs`) | registry, planner entries, bounded target channel, dial in progress | observe, expire, poll, send target, dial, report | a planner entry stands for several attempts and sessions whose reports race | a connected mark is always taken back, every reachable trusted peer is served again |
| Connection runtime (`connection.rs`) | 32 admission permits, inbound links being classified | accept, classify, secure, manage session, explicit dial | slow or failing handshakes at the limit | permits come back, live sessions hold none |
| Automatic pairing (`automatic_pairing.rs`, `pairing.rs`, `coordinator.rs`) | trust store and configuration on both sides | exchange, approve, persist, exchange outcome, roll back | two-sided commit without a coordinator | trust on both sides or on neither, except for a named window |
| Clipboard (`clipboard_runtime.rs`, `crates/clipboard`) | current selection and stamp per connection, hashes for echo suppression, history | poll, offer, accept, resolve, write | echoes, equal stamps, failing writes, three devices | convergence, no echo loop |
| Secure channel (`secure.rs`, `sequence.rs`) | handshake position, counters, replay window | handshake, send, receive | order, replay, counter limits | accepted frames are a duplicate-free sequence |
| History and timeline (`crates/storage`, `crates/clipboard/src/history.rs`, `timeline.rs`) | encrypted archive, pinned entries, sharing lists | record, prune, pin, clear, restore | two writers and the command line; limits in entries and bytes at once | what is written can be read back, pinned entries stay, the origin is the sender |
| Daemon runtime (`main.rs`, `connection.rs`, `input_session.rs`) | what runs, permits, tasks, leases | start, accept, dial, spawn, shut down, abort at a deadline | a shutdown while links still come up | one forwarder, nothing left behind, no peer served that is not selected |
| Control panel (`apps/gui/src/main.rs`) | children, prompts, settings, pending sends, history list | frame, poll children, answer, save, restart, drop files | children and files change between two frames | answers go to the request they were given for, the daemon runs with what was saved |
| Collaboration, workspace, plugins (`crates/core`, `crates/plugins`) | participants, leases, placements, grants, event queue | join, delegate, snap, throw, load, reload, publish | long call sequences, users that come back, artifacts that change | control is delegated to one, grants are approved ones |
| Pointer, keyboard, gestures (`crates/input`) | map, focus, batches, held modifiers | edit, cross, switch, coalesce, inject | a failure in the middle of a batch; a trip there and back | nothing stays pressed, the pointer comes home |
| Native input (`platform-macos`, `platform-windows`) | event tap, hooks, handles, key tables | start, stop, suppress, capture, inject | a thread that starts while its owner goes away | no handle used after it is freed, no thread left |
| Linux desktop (`platform-linux`) | portal sessions, PipeWire objects, device graph | connect, negotiate, capture, play, enumerate | native callbacks race a timeout; every exit must release | every object given back, frames complete, devices real |
| macOS screen (`platform-macos/src/screen_*.rs`) | frame counter, CoreFoundation objects | list, capture, encode | VideoToolbox calls back on its own thread while the call fails | memory alive while it may be used, all of it given back |
| Screen and audio streaming (`crates/streaming`) | plans, thumbnails, route, jitter buffer | negotiate, hover, route, push, pop | reordering, overflow while filling | plans can run, nothing stale is shown, audio in order |
| Transfer library and wire format (`crates/streaming/src/file_transfer_*.rs`) | queue, sender, receiver, reassembler | enqueue, pause, resume, cut, open, encode, decode | checkpoints at file ends, old chunks after a pause | files whole, no gap, both ends read the same |
| Mesh, remote sessions, link health (`crates/network`) | graph, offers, tickets, samples, window | observe, route, offer, answer, plan, ping, adapt | late, repeated and misdirected answers; rounding | cheapest trusted route, sessions agreed on, death is real |
| Encodings, telemetry, CLI, key files | none, or data outside the models | | | left to unit tests |

The components that are left out, with the reasons, are under `components` in
`PROJECT.json`; the dangers found while reading are under `hazards`, each at the
line where it bites and with the properties that would catch it.

## 2. Modules

| Module | Models | Extends or instantiates |
|---|---|---|
| `InputHandoff` | event tap, forwarder and injector of one direction | |
| `InputHandoffProofs` | theorems about it | `InputHandoff`, `TLAPS` |
| `PeerSessions` | abstract: which link a daemon serves | |
| `SessionArbitration` | two daemons arbitrating their links | instantiates `PeerSessions` |
| `SessionArbitrationProofs` | theorems and the refinement proof | `SessionArbitration`, `TLAPS` |
| `FileTransfer` | the file lanes of two peers and their disks | |
| `FileTransferProofs` | theorems about it | `FileTransfer`, `TLAPS` |
| `Reconnect` | discovery, planner, driver and session reports | |
| `ReconnectProofs` | theorems about it | `Reconnect`, `TLAPS` |
| `Pairing` | the pairing transaction over both devices' files | |
| `PairingProofs` | theorem about it | `Pairing`, `TLAPS` |
| `SecureChannel` | handshake, ids, sealing, replay window, framed stream | |
| `SecureChannelProofs` | theorem about it | `SecureChannel`, `TLAPS` |
| `ClipboardSync` | one resolver per link, one clipboard per device | |
| `RecentEntries` | most-recent-first lists with pins | |
| `ClipboardHistory`, `ClipboardTimeline` | the archive, the shared timeline | `RecentEntries` |
| `ClipboardProofs` | theorems about the three | `ClipboardSync`, `ClipboardTimeline`, `TLAPS` |
| `DaemonRuntime` | run_daemon, accept loop, explicit dialer, supervisor | |
| `Dashboard`, `HistoryView` | the control panel and its history list | |
| `Workspace`, `Collaboration`, `Plugins` | virtual desktop; sessions and leases; plugin host and bus | |
| `DesktopMap`, `KeyboardFocus` | where the pointer goes; who gets the keyboard, batching, injection | |
| `CaptureThreads`, `NativeKeys` | native capture threads; key codes, buttons and drags | |
| `LinuxPortal` | capabilities, RemoteDesktop and InputCapture portals | |
| `LinuxPipeWire`, `PipeWireGraph`, `SpaPods` | one-frame calls; device enumeration; format PODs | |
| `MacScreen` | screen capture and VideoToolbox encoding | |
| `ScreenStream`, `AudioPlayout` | negotiation and previews; route and jitter buffer | |
| `TransferLibrary`, `TransferWire` | in-memory endpoints; messages on the wire | |
| `MeshRoutes`, `RemoteSession`, `LinkHealth` | routes; offers, plans, tickets; heartbeat, quality, bitrate | |
| `MCSessionArbitration`, `MCFileTransfer` | instances for TLC | the module of that name |
| `MCReconnect` | two LANs in one state space, and the theorem about both | `ReconnectProofs`, and an `INSTANCE` of it |
| `MCTransfers` | storage and delivery in one state space | `MCFileTransfer`, and an `INSTANCE` of `FileTransfer` |
| `MCSharing` | connecting and sharing | `SessionArbitration` and an `INSTANCE` of it, `MCReconnect`, `Pairing` to `ClipboardTimeline` |
| `MCServices` | everything else | the modules from `DaemonRuntime` down |

The models meet in their assumptions: `Reconnect` lets a session win only while
none is served, and `FileTransfer` reconnects only when both lanes of the old
session are gone; both facts are what `SessionArbitration` establishes
(`LanesOfOneSession`). `DaemonRuntime` leaves the choice between two links to
`SessionArbitration` and what a forwarder does to `InputHandoff`; `ClipboardSync`
and `Pairing` run over a channel that loses whole frames only, which is what
`SecureChannel` shows.

Parts that share no variable are checked in one run: `subject` picks, in the
initial state, the part a behaviour is about, and every other part keeps one
initial state. The state space is the sum of the parts', never their product, and
a property of the run says what each of its parts promises on the behaviours
about it. Two instances of one module (`calm` or faulty, quiet or `crowded`,
`delivering` or storing) are told apart in the same way. The fairness of a part is
assumed on the behaviours about it only. In `services` a VIEW names the variables
of the part in question: the others are constant, so it identifies no two states
that differ. Modules that meet in one run have no name in common, hence prefixes
such as `Arb`, `Pair` and `Gui`.

Liveness is stated as what holds from some point on, or again and again, rather
than with leads-to: "every arbitration ends" is "from some point on no task is
arbitrating". The two agree because links, dials, initiators and queued transfers
are finite in number, so an attempt that never ends is one that goes on for ever;
TLC checks the first far faster.

Operators that contain a slip on purpose stand next to the definitions they
replace and say which slip it is; `PROJECT.json` names the ones whose effect is
checked, and the others document the nearest miss.

### InputHandoff

One direction, source to target. `queue`, `suppressed` and `fault` are the
`EventTapControl` and its channel; `focus`, `heldS`, `guard` the local variables of
`forward_reconfigurable_until_shutdown`; `outbox` and `mode` the batch being sent
and what follows it; `net` the link; `heldT` the injector's record and `down` what
the target's OS holds pressed. `fwd` is the await or atomic access the forwarder
is at: it can be interleaved, failed or dropped exactly there. `CheckFault` and
`StoreSuppressed` are two steps because `set_suppressed` reads the fault and
stores the flag separately. `Route` is one iteration of the select loop for one
event; `ShutdownForwarder`, `Reconfigure`, `CaptureError` and `FocusTimeout` are
its other branches; `SendOne`, `SendFails`, `FinishBatch` the batch;
`CloseForwarder` and `DropForwarder` the two ways the task ends, by returning and
by being dropped (`SuppressionGuard::drop`). At the target `Inject`, `EndReceive`,
`ReleaseHeld`, `EndInjector`, and `AbortInjector` for the supervisor's deadline.
Pointer positions are abstracted to crossing the edge or not; a batch of releases
is a set because its order is left open.

### SessionArbitration and PeerSessions

`stage[d][l]` is where daemon `d`'s task for link `l` is in `arbitrate_and_fan_out`
or `route_inbound`; `active` and `owns` are the arbiter's set and the leases;
`lanes` the live lane handles; `lanesDone` the monitor's signal. The authority (lower
identity) takes `FallbackExpires`, `Decide`, `SendDecision`, `ReceiveAck`, the follower
`ReceiveDecision`, `SendAck`, `FollowerFansOut`; both `CloseRejected`, `RouterEnds`,
`ShutdownDeadline`, `ReleaseLease`. `PeerSessions` says what this is for: a daemon
serves one link at a time, each at most once, and only links the follower has
committed to. The refinement maps `committed` to the links the follower has
fanned out or is about to, `serving` to the links with live lanes, `used` to
`fanned`.

### FileTransfer

Both peers may send. A file's bytes are abstracted to a length and whether they
are the queued bytes, which is what a digest tells apart. `pc` names the await or
the disk write a lane is at; each disk write (`Prepare`, `Reconcile`, `WritePart`,
`LinkPart`, `UnlinkPart`, `PersistCheckpoint`, ...) is a step of its own, and `Crash`
may come between any two and leave part of a chunk behind. `queue`, `source`,
`root`, `state`, `part`, `final` and `moved` are on disk and survive it. Messages still
buffered when the link breaks count as lost. A poll with nothing to offer is a
stutter and not modelled. One transfer is queued per peer, admission policy is
the set `Admits`, and the winner of a collision, in the code a comparison of
the sending devices' ids, is a constant. Losing power (writes reordered after a crash) is
left out.

### Reconnect

One daemon. `registry` is ordered by last sighting; `planner[d]` is the planner's
map with the backoff reduced to whether the cooldown has passed; `emitted` is what
the poll loop still has to put in the bounded channel `targets`; `driver` is the
peer the serial driver is dialling. An outbound session is counted where it is:
`arbitrating`, `served`, or `ending` (over but not reported). Time is abstracted:
an announcement (TTL 15 s) may expire, a cooldown (1 s doubling to 30 s) elapse
and a dial (handshake limit 10 s) last at any moment, so every real timing is
covered. The planner is told of outbound sessions only, as in the code. `Without`
cuts the one entry of a device out of the registry's order.

### Pairing

`PairStep` is what runs between two awaits or two writes of
`automatic_pairing.rs`: hello, code, approval, exchange of the answers, trust
store, configuration, exchange of the outcome, rollback. A write replaces its file
atomically, may fail, and may fail after it has replaced the file. A responder
serves its initiators one after the other. `PairingConsistent` names the window in
which one side keeps a trust the other has rolled back: the outcome message was
lost, or the process died.

### SecureChannel

The handshake of `secure.rs` with key ranks that decide the roles, pinned keys and
the version check; ids from the allocator all lanes share; a frame written in two
pieces, so that a send whose future is dropped leaves a torn frame. `ChannelSafe`:
no nonce is used twice, a channel that is open at one end has met its peer at the
other, what is opened was sent, once and in order, and the bits of the replay
window are exactly the ids accepted near the highest. The window's mask, a
`u128`, is the set of its bits: a shift moves every position and drops those past
the end. A torn frame is never
taken for a message.

### ClipboardSync, ClipboardHistory, ClipboardTimeline

A stamp is its rank among the stamps of its link, renumbered after every step, so
that clocks that disagree need no bound on time. `ClipboardsConverge` holds on a
pair and on a chain of three and fails on a ring (section 3). A selection too large
for a frame ends the session that polls it (`PollTooLarge`); none is ever sent, so
the receiver's limit and decoder, the errors of `accept_inbound`, never meet one.
An archive
transaction is one step because it holds the cross-process lock; `Prune` works on
entries and bytes together: it keeps the pinned entries and as many of the most
recent others as fit (`KeptAt`). The archive and the timeline share the list
operators of `RecentEntries` and no state.

### DaemonRuntime, Dashboard, HistoryView

A link is where its task is; a permit is held from accept to the end of the
handshake. `Dashboard` is one frame of `App::update`, child by child, then one user
action; children and files move between. `HistoryView` is the worker thread that
lists the archive, with the revision the frame has marked as observed; the frame
looks at the archive only while a history is kept and its section is open.

### Libraries

`Workspace`, `DesktopMap` and `KeyboardFocus` use small integers for pixels, fractions
of a screen and time. `Collaboration`, `Plugins`, `ScreenStream`, `AudioPlayout`,
`TransferLibrary` and `RemoteSession` have one action per public call that changes
state, with the caller's arguments from small sets. `MeshRoutes` searches one queue
entry per step. `LinkHealth` keeps smoothed values in fixed point, rounded down.
`TransferWire` models a frame as typed fields and reads it with the decoder's own
order of checks; the writer may be this build or another.

### Platform back ends

`CaptureThreads` has the thread's steps between publishing a handle and running
its loop apart, because a stop may fall between them, and `set_suppressed` in two,
because a fault may. `LinuxPipeWire` makes each native call a step that may fail,
so that every exit is taken with every set of objects, and knows which value owns
each object: what no value owns when the call returns is `lost`. A call asks for
DMA-BUF or mapped memory; the first gives a descriptor of 24 bytes, whose length
nothing checks, the second the chunk's bytes, which `validate_pipewire_payload`
compares with the format. Portal sessions are counted, since nothing closes one.
`PipeWireGraph` lets the graph change while it is enumerated, ids reused;
`SpaPods` reads a format word by word against what was announced, cut off
anywhere. `MacScreen` keeps, for each call, the objects it has not given back and
whether VideoToolbox may still read its frame. `LinuxPortal` has a worker thread per
capture session and waits that are given up.

## 3. Runs

| Run | Distinct states | Shows |
|---|---|---|
| `input_handoff` | 437 k | two sessions with breaks, overflow, edits, shutdown, aborts: suppression, held inputs, freshness; shutdown completes, a lost link ends the injector, focus returns |
| `arbitration_safety` | 658 k | three links with all faults: leases, lanes, same link, refinement of `PeerSessions` |
| `transfers` | 918 k | storing: what is on the disks, with a crash between any two writes, source and destination edits, a busy permit, both peers sending and one refusing; delivering: both transfers arrive although offers cross, the link breaks, a process crashes and waits time out, unless a receive directory is orphaned |
| `sharing` | 425 k | reconnection on a crowded LAN (a connected mark always has a session that will report its end) and on a quiet one (every trusted peer is served again); arbitrations end and leases of dead links come back under all faults, cross-dialling settles on a calm network; pairing, secure channel, clipboard on a pair and a chain, archive and timeline |
| `services` | 832 k | 22 parts: the daemon's supervision, the control panel, the libraries and the platform back ends |

Each takes between one and three and a half minutes with two workers. What the
properties of the two wide runs are made of:

| Property | Parts it speaks of |
|---|---|
| `ReconnectTypeOK`, `ConnectedHasSession`, `QuietReconnects` | registry and channel within bounds; the planner's marks have sessions; peers are served again and again |
| `ArbitrationTerminates`, `LeaseReturned`, `CalmDialSettles` | no task arbitrates for ever; leases only of live links; one common link |
| `PairingConsistent`, `AttemptEnds` | outcome and files agree with the user's answer and the other side; an answered attempt ends |
| `ChannelSafe` | section 2 |
| `LinksAgree`, `ClipboardsConverge` | what a resolver holds was sent or copied; selections become equal |
| `HistoriesFaithful`, `PinnedEntriesStay` | archive readable, origins right, sharing lists follow retention; pins survive everything but unpinning |
| `TeamworkSound` | `WorkspaceCoherent`, `CollaborationControlled`, `PluginsConfined` |
| `ControlPanelSound` | `DashboardSound`, `HistoryFollows` |
| `NetworkSound` | `DaemonSound`, `MeshSound`, `RemoteSound`, `LinkSound` |
| `MediaSound` | screens, audio, PipeWire, PODs, the device graph, macOS screens, portals |
| `TransferLibrarySound` | `LibrarySound`, `CodecsAgree` |
| `InputPathSound` | `CaptureThreadsSafe`, `NativeInputFaithful`, `DesktopMapSound`, `KeyboardSound` |

Deadlock checking is off throughout: the bounds on inputs, links, faults or
departures let a finished model stop, as a daemon with nothing to do does.

### Findings: runs that end in a counterexample

| Run | The code | What it contradicts |
|---|---|---|
| `transfer_empty_file` | a completed zero-byte file is sent again on resume, refused, and retried for ever (`file_transfer.rs:227`) | `file_transfer_disk.rs:89-90`: no duplicate final marker |
| `transfer_livelock` | each rejected re-offer restarts the 30-second wait of a receiver whose sender has given up (`file_transfer.rs:997`) | the test at `file_transfer.rs:3203`: bounded progress |
| `reconnect_redial` | a peer is emitted again when its one-second cooldown passes during an attempt, and the second target is dialled although the first has connected; arbitration rejects the link and its end overwrites the connected mark (`connection.rs:368`) | `reconnect.rs:143` and the test at line 252: not dialled again |
| `clipboard_ring` | every link has a resolver of its own and forwards under a new stamp what another link delivered, so on a ring of three two copies chase each other for ever (`clipboard_runtime.rs:121`) | `crates/clipboard/src/conflict.rs`: all peers converge on the same selection |
| `panel_prompt` | the outcome of one pairing request and the prompt of the next arrive in one batch of output; the outcome erases the prompt (`apps/gui/src/main.rs:1243`) | `docs/setup-macos-apple-silicon.md:78-80`: both GUIs show identity, fingerprint and code |
| `history_refresh` | the revision of an archive that changed while a worker lists it is stored as observed, and no listing follows (`apps/gui/src/main.rs:721`) | the same document, lines 152-153: the history refreshes automatically |
| `remote_policy` | `answer_offer` takes any policy of its own: the offerer alone asks for trust, encryption and replay protection (`remote_session.rs:303`) | `remote_session.rs:10-12`: only when both sides require them |

`transfers` states what still holds of delivery: a receive directory that stays
orphaned, here or at the peer, is the only exception `TransfersDelivered` makes
(each failed offer closes the session, so it can starve the other direction
too). Its manifests hold no empty file, and no third peer holds the permit, which
the livelock needs.

### What the properties except

These are shortcomings met while modelling that a property names as its
exception, or that lie just outside a model. Where a document or a comment
promises otherwise they have a run among the findings.

- Control panel: `PromptsKept` and `HistoryFollows` say that nothing but the races
  of `panel_prompt` and `history_refresh` loses a prompt or leaves an old list.
- `docs/security.md:76-78` says the daemon the panel starts does not expose the
  pairing prompt; the panel's code shows it, and `Dashboard` models it.
- Windows input starts its forwarder on the backlog of its capture channel
  (`apps/desktop/src/main.rs:556`). The comment that rules a backlog out is the
  macOS capture's (`capture.rs:492-493`) and `NoStaleInput` is about that platform.
- A late answer turns an established remote session into a failed one
  (`remote_session.rs:238-241`), which the documentation of `accept_answer` does
  not exclude; `FailureIsJustified` says that this takes an answer that is really
  there and refuses, or belongs to another session. `EstablishedIsAgreed` is what
  the answerer's own policy asks for. Planning over a browser ticket does not
  claim it (`browser.rs:88`).
- A stop that falls between the event-tap thread's last check and `CFRunLoopRun` is
  lost, and `Drop` waits for ever (`capture.rs:716`, excepted in `NoStrandedThread`).
- A flush that fails loses the rest of its batch (`injection.rs:184`): `NoStuckKeys`
  lets the keys it lost differ, and only those, until their next event.
- A selection too large for a frame closes, at the first poll of every session, the
  connection that input shares, until something else is copied
  (`clipboard_runtime.rs:165`, `main.rs:733-736`). `ClipboardsConverge` excepts it.
- An idle file lane answers a Cancel with a Cancel (`file_transfer.rs:472`).
- A penalty for mobile links can only bring the bitrate down to its minimum.
- Overlapping macOS captures may be numbered against their times
  (`screen_capture.rs:7-8` promises an order; excepted in `CapturesOrdered`), and
  `mach_absolute_time` divided by 1000 is not in microseconds on every machine.
- A PipeWire property list leaks when one property cannot be set
  (`pipewire_audio.rs:1383`, `pipewire_screen.rs:1385`), a stream when its format
  cannot be fixed (`pipewire_screen.rs:1285`); `NothingHeldWhenIdle` says that nothing
  else is ever lost. Portal sessions are never closed (`OnePortalDialog` counts
  them). The descriptor of a DMA-BUF frame names a plane whose stream is destroyed
  before the caller can read it. Frames are numbered from 1 in every call, although
  `pipewire_screen.rs:100` speaks of a monotonic sequence number.
- Big-endian floats are taken for little-endian ones
  (`pipewire_audio.rs:600`); a source that is gone falls back to the first stream
  (`pipewire_screen.rs:674`). The addresses of hooks and event tables that Rust
  moves after they were registered are outside the model.

### Bounds

Every bound is a CONSTANT. Two keys, one of them the emergency key, suffice to
confuse one input with another; a queue of one overflows; two sessions give a
backlog; three inputs hand over, press and release. Three links are a cross-dial plus a redial while the first is draining.
A first file of two chunks, a second file and a directory give every kind of
checkpoint. A registry of one evicts; three open sessions of a peer report in
every order; a channel of one blocks the poll loop. In `MaxOpen`, `NetCapacity` and
the fault budgets the bound only removes behaviours; safety for all larger
values of the constants is what the proofs are for. In `sharing` and `services` each
part has the least that makes its cases happen: two or three devices, a capacity
of one or two with one item more than fits, one failure of each kind of system
call (a second one would meet a call that is already returning), two callers
where calls overlap, and call sequences of three or four, which every pair of
operations with a preparation needs. Numbers sit around their limits: the last
two message ids, a body one byte over, bit rates on both sides of `i32::MAX`
scaled down.

### Fairness

Weak fairness only. `InputHandoff`: the tasks of source and target run when
ready, every send has a timeout, the focus timer fires (`select!` and
`tokio::time`); user, link and configuration owe nothing. `SessionArbitration`: tasks
run, waits are bounded by timeouts, and a lane handler returns after its session
has ended, because its receive fails. `FileTransfer`: lanes run, including the
30-second timeout of a wait that gets nothing, a lost session is replaced (what
`Reconnect` shows), and another peer's transfer gives the permit back; faults,
early timeouts and users owe nothing. `Reconnect`: poll loop, driver and session
tasks run, cooldowns pass, and a peer on the network goes on announcing itself.
Links are not assumed to end by themselves. `Pairing`: a device's steps run once its
user has answered, and every wait has a timeout. `ClipboardSync`: the poll timer
fires, received updates are handled, a lost peer is dialled again; a lost
connection and a failing write owe nothing and are bounded. `HistoryView`: workers
end, and the frame of an open section looks at the archive every 500 ms
(`HistoryCatchesUp` fails all the same). The merged instances keep the fairness of
the modules they combine, each on the behaviours about its part.

## 4. Proofs

All with TLAPS, for every value of the constants that satisfies the named
assumptions: capacities are positive, the emergency key is a key, dialled links
are links (`ConstantsOK`, `ReconnectConstantsOK`); a manifest has an entry and a
chunk a byte (`TransferConstantsOK`); the responder is not among its initiators
(`PairingConstants`); a clipboard link has two different ends and a session at
each (`ClipboardConstants`); the ids of the lanes' messages start above the control
message's and inside the id space (`SecureConstants`); sizes and limits are natural
numbers, and a history keeps at least one entry (`HistoryConstants`,
`TimelineConstants`). The bounds of section 3 are constants of these
modules too, so the theorems hold whatever their values.

`InputHandoffProofs`. `TypeOK` is inductive and proved in four parts, one per
actor. `LocalInputRestored` is not inductive: `FocusInv` adds what guard, focus and
mode are at every place of the forwarder, the key fact being that a raised flag
always has a raised guard: no await separates the store of the flag from the
guard's own record, so no drop can fall between them. `HeldInv` ties `down` to the injector's record. `FreshInv` adds that the
capture queue holds only current input while a forwarder runs, since the
backlog is discarded when a session starts. `StreamMirrorsHeld` needs `BatchInv`
(a batch has at most one event per input); `AfterAppend` and `AfterTail` say how
what the target will hold changes when an event enters or leaves the link, so
each action is checked input by input. `LocalFocusLeavesTargetClean` follows from
the mirror and `FocusInv`.

`SessionArbitrationProofs`. One inductive invariant `Inv`: types, lease accounting,
which message may be in flight at which pair of places, and that lanes are alive
only under a lease. One lemma per action. The refinement has one lemma saying
that every step not starting or stopping lanes keeps the abstract variables, and
one that maps the remaining steps to `Commit`, `Start` or `Stop`.

`ReconnectProofs`. `ConnectedHasSession` with the types of the attempt path and of
the session counters. A success report and the count of its session change in
one step, and every later move of that session keeps it counted until its end
is reported. `RegistryBounded` is the whole type invariant: the registry names no
peer twice, so observing a known peer does not make it grow, and at its capacity
the oldest entry goes before a new one comes (`WithoutFacts`, `ObserveRegistry`);
the poll loop puts a target in the channel only while there is room. `MCReconnect`
applies it to the crowded LAN as well, whose constants satisfy the same
assumptions (`CrowdConstants`), which gives `ReconnectTypeOK` of the run `sharing`.

`FileTransferProofs`. One inductive invariant `Inv` gives three invariants and two
action properties. None of them is inductive:

- `PublishedIsVerified` needs `WriterOK`: the open writer has hashed exactly the
  bytes of its part file up to the receiver's place, although the file may have
  been resumed, truncated by a crash and reopened; `ChunkOK` keeps the chunk under
  way fitting the state on disk.
- `RemovedMeansDelivered` needs `CheckpointOK` and `PrefixOK`: what a checkpoint
  in use declares complete is published, and what lies on disk is a prefix of
  the manifest, so the checkpoint after the last file means every file; `AckOK`
  carries that fact over the channel to the sender that removes its record.
- `CleanSent` and `CleanDisk`: while no source was edited only the queued bytes
  travel.

Where the user may edit received files, they hold until the first such edit
(`touched`).
Most of a lane's steps write nothing; `LaneKept`, `QuietStep`, `LeaveStep` and
`ReplyStep` say once what such a step preserves, and the steps that write have a
lemma each. `UserFilesSurvive` and `StoredStaysStored` (`NoSilentOverwrite`,
`ProgressKept`) then follow step by step from `Inv`.

`PairingProofs`. `PairingConsistent` speaks of the two devices' files after their
attempts; `PairInv` says for each end of each connection, at each place of the
transaction, what its files, its answers and its peer's messages are: nothing
has changed before the first write (`EarlyOK`), whoever applies has both answers
(`UsersOK`), a rollback has the old entry at hand and a configuration that does
not name the peer (`FilesOK`, `ApplyOK`), and what an end has told the other of its
writes stays true (`ToldOK`), which no later failure of its own may contradict. A
responder that serves one initiator is `away` from the others (`ServeOK`), whose
entries its steps therefore leave alone; that makes the theorem hold for any
number of initiators.

`ClipboardProofs`. `LinksAgree` is about resolvers whose link is quiet. `ClipInv`
describes a link that is not: what travels to one end is no newer than what the
other holds, what an end holds has arrived, was overtaken or is on its way, its
clock has passed its own stamp (`Half`), and a stamp belongs to one selection
(`OneHeld`). On a quiet link the two stamps are then equal, and so the selections
are. `SendLink` and `ReceiveLink` prove it for one update; `RelabelLink` shows that
the model's renumbering of stamps, an order isomorphism on the ranks in use
(`RenumberOrder`), loses nothing; `Spaced` (ranks are even) is why a new stamp can
fall between two old ones, as it does when wall clocks disagree.

`HistoriesFaithful` and `PinnedEntriesStay` rest on what the list operators return,
shown without induction: the rank of a position in a set is a bijection
(`RankFacts`, `RankOnto`), so `Sub` lists each chosen entry once (`SubFacts`), and its
bytes, counted as a set of cells, inject into those of the whole
(`SelectedBytes`); `PruneFacts` says that pruning keeps every pinned entry and
either fits or keeps only those. `HistoryInv` strengthens the bound of decoding (four
times the capacity) to the capacity: a list that does not fit consists of pinned
entries, so if the recorded selection is among them it was in the archive before,
and the list is no longer than the old one; otherwise the recorder persists
nothing (`RecordedFits`). A poll that finds a selection keeps its origin, which is
the last sender by `OriginIsSender` itself. In the timeline the same facts show that
only entries of the selection being shared get its list.

`SecureChannelProofs`. `ChannelInv` says who has met whom and that an open end is
`Joined` (both have accepted the other's hello and their keys differ, so each
direction has a key of its own); that the messages of an end have ids without a
gap, the control message 0 and then from the first data id on (`CounterOK`, `IdOf`),
also when a send was dropped half way; what was sealed, what is in flight and what
was opened in terms of these numbers (`SealOK`, `FlightOK`, `OpenedOK`); that the bits
of the window are the opened numbers below the highest (`WindowOK`), and, until a
frame is misordered, that opened, travelling and half-written pieces follow one
another (`StreamOK`). Nonces are then unique because numbers are, and a replay is
refused because its number is a bit of the window or lies below it.

The invariants of the file transfer, pairing, clipboard, history and channel
proofs were also checked by TLC on the instances of section 3.

Only model-checked, and why:

- liveness (`ClipboardsConverge`, the reconnection and delivery properties):
  fairness and ENABLED are outside the prover;
- the properties of the `services` run: each speaks of several parts whose models
  search, sort and fold over sequences, and what such a definition computes is
  proved by induction over data, which the provers lack.

## 5. Plan

Modelled and checked: all the modules of section 2. To prove, in this order:

1. `CaptureThreads` and `MacScreen`: handles and memory that are alive while used.
2. `HistoryView` and `DaemonRuntime`, whose models fold over nothing.

## 6. Not modelled

- Cryptography, compression and digests are ideal or lossless; key files, QR codes
  and fingerprint texts are data no property tells apart.
- Packet layouts other than the transfer lane's, sockets and QUIC's machinery.
- Continuous filters (`prediction.rs`, `transition.rs`), real coordinates and pixels:
  geometry is over small integers.
- `automation.rs`, `engine.rs`, `session.rs` of the network crate, `reconnect_auth.rs`,
  the retry schedule and the transport selector: code the daemon does not run, or
  pure functions of their arguments.
- The native clipboards, the X11 back end, the WebAssembly and native plugin
  runtimes: calls into other systems with no state here.
- TOML, encryption at rest and field-by-field validation; the command line's
  printing, widgets and layout, telemetry, the simulation and the mobile stub.
- Losing power: writes that a crash reorders after they returned.
- A key pressed locally before a hand-off and released while local input is
  swallowed (`capture.rs:107`), and a broken record that fails every queue scan
  (`file_transfer.rs:2019`): hazards listed without a property.

`components` in `PROJECT.json` says for each part what is in and what is out.
