# Formal models of the OpenPocketCine desktop camera link

TLA+ models of the parts of this repository where time, a lossy link and several
threads of control meet: how a camera setting travels from the operator's hand
to the camera and back (**the SET path**), how the desktop notices that the live
picture died and brings it back (**the feed**), how it finds, pairs and provisions
a camera over Bluetooth (**the connection screen**), how it watches and controls a
feed that a phone shares (**the phone join**), and how the library takes the
camera into playback and back (**the library**). TLC checks the models on small
instances; TLAPS proves the main safety properties for every value of the
constants.

Paths below are relative to `src/`; `opc-camera` stands for
`Apps/Desktop/crates/opc-camera/src`, `opc-monitor` for
`Apps/Desktop/crates/opc-monitor/src`, `opc-media` and `opc-relay` likewise,
`core` for `Sources/OpenPocketViewCore`.

Contents: 1 the system · 2 plan · 3 modules · 4 runs, bounds and fairness ·
5 proofs · 6 where the code and its documents part · 7 what is not modelled.

## 1. The system

The repository holds a Swift core of policies (`core`), a C boundary to it
(`Sources/OpenPocketCineDesktopFacade`), and a Rust desktop application that
drives the policies from threads of its own. (The iOS and Android shells that
use the same core are not in this tree.) The desktop's picture and control path:

```
 operator ── shell (UI thread) ──channel──► worker (link.rs) ──UDP──► camera
                ▲                              │  CameraSession::poll, over and over
                └──────── events, outcomes ────┘  drain · tick · dispatch · recover
                                                  │            │          │
                                    Sequencer ◄───┘            │          └► FeedWatchdog (Swift)
                                       └─ SetDriver (Rust) ── CameraSetMailbox (Swift)
```

Three more threads live beside it: `ble_worker` behind the connection screen, the
phone session behind a shared feed, and the media worker behind the library. Each
is a pair of channels, a loop that polls, and an outside party that may be slow,
silent or gone:

```
 connection screen ──BleCmd──► ble_worker ──writes──► camera ──notifications──► one buffer
        ▲   └─ LAN search ◄────BleEvent
 window (view.rs) ──ToPhone──► WatcherSession::run ──TCP──► the phone that shares
        ▲                            │ WatcherRelayRecovery
        └─────────FromPhone──────────┘
 shell's library ──MediaAction──► MediaDriver (media.rs) ──jobs──► media worker ──HTTP──► camera
        ▲                            │ Browse · resume ──commands──► worker (link.rs)
        └────reports, listing────────┘
```

| Component | State it keeps | Operations | Hard behaviour | What makes it correct |
|---|---|---|---|---|
| **SET mailbox** `core/CameraSetMailbox.swift` | per opcode: open generation, its sequence numbers, superseded numbers, pending flag, rate-limit hold | offer, beginLaunch, noteTransmit, decideAck, timeout, pendingLaunch | late, repeated, reordered answers; a cap on superseded numbers | only an answer to the open generation closes it; one pending, the newest |
| **SET driver** `opc-camera/mailbox.rs` | per opcode: the commands themselves (held, in flight, late), age, retransmit flag, outcomes | fire, reply, tick, launch_pending, note_transmitted, take_outcomes | two maps in two languages updated by separate calls | in step with the mailbox; newest SET never lost; at most one retransmit; every SET settles |
| **Sequencer** `opc-camera/sequence.rs` | phase, queue, what was sent once | tick, fire_set, on_reply | handshake deadline; commands wait for the phase | nothing but handshakes before the camera answers; one enable |
| **Camera session** `opc-camera/session.rs` | socket, sequencer, health clocks, frame sequence, settle window, format round-trip | poll (drain, tick, dispatch, recover), reopen_datalink | datalink replaced between two steps of a poll; state that survives it and state that does not | outcomes reach the shell; one connect enable per datalink; the Pocket 3's own format comes back |
| **Feed watchdog** `core/FeedWatchdog.swift` | stage, time of last action, enables this stall | tick(snapshot) | graces that may extend each other for ever; resets half-way up | every stall is repaired; rebuilds are spaced; enables are bounded |
| **Worker and shell** `opc-monitor/link.rs`, `shell.rs` | channel, pins, notices, taps | command, presented, repair blocked, events | the shell's view lags the worker's | pins are released by an outcome |
| **ACK pump** `opc-camera/transport.rs`, `core/DumlTransport.swift` | three window cursors | note video / status / reply, acks due | telemetry may seed a cursor, reordering may rewind one | no rewind past what was acknowledged |
| **Framing, depacketizer** `core/HevcDepacketizer.swift`, `opc-camera/depacketizer.rs` | partial access unit | push packet | lost or interleaved fragments | a unit is complete or dropped |
| **Connection screen** `opc-monitor/connect.rs`, `ble_impl.rs` | screen, what was picked, what to remember; the worker's place; peripheral, streams, buffer | scan, pick, cancel, phones, home Wi-Fi, reset; the five phases of Pair | cancel is read only at polling points; one buffer for all connections; events of an operation already left | what is read and remembered is one camera's; every exit disconnects; every wait ends |
| **Station provisioning** `opc-camera/station.rs`, `opc-monitor/station.rs` | step, attempt, readbacks | next step, receive, timeout | a lost reply is not a failed join | unconfirmed only after every attempt |
| **BLE and Wi-Fi policies** `opc-camera/pairing.rs`, `wifi.rs` | state, deadlines | on notification, tick | | not run by the desktop: only their own tests call them |
| **Library** `opc-media/browse.rs`, `worker.rs`, `resume.rs`, `opc-monitor/media.rs`, `shell.rs` | listing phase and cursor, pending fetch, reader, arms and checks, resume | open, refresh, close, tap, select, delete, list, fetch, resume | late reports after a close; delete taps with anything between; the camera's mode against the driver's idea of it | behind the viewfinder nothing runs on; only what was asked opens; only a second tap deletes |
| **Phone join** `opc-relay/session.rs`, `opc-monitor/phone.rs`, `core/WatcherRelayRecovery.swift`, `WatcherRelayControlLease.swift` | status, token, two silence clocks, retries, asks in the channel | connect, read, tick, flush, request, command, release | a drop between an ask and its write; tokens of a connection that is gone | one idea of who controls; redials bounded; stalls seen |
| **Discovery, wire format, headless watcher** `opc-relay/discovery.rs`, `opc-watcher` | backlog | browse, decode | overfull backlog | decodes from a keyframe |
| **Gimbal moves** `opc-monitor/moves.rs`, `core/GimbalProgram.swift` | take phase, keyframes | run, cancel, sample | camera drops out half-way | motion stops when the take ends |
| **Virtual camera** `opc-vcam` | latest frame | publish, read | reader in the middle of a publish | whole frames only |
| tables, decoder, renderer, chrome, C boundary | little or none | | | |

Several properties meet at one place, the **datalink**: one UDP socket with its
sequencer, its driver and mailbox, and a frame sequence that starts from 0. The
watchdog may throw it away at the end of any poll (`reopen_datalink`). Health
clocks, the watchdog and the format round-trip survive that; the mailbox, the
queue and everything on the wire do not. Most of what is interesting in this
code is an interleaving of that event with something half done.

## 2. Plan

The order follows what an operator would lose. What is done is marked.

1. *Done.* `CameraSetMailbox` → `SetDriver` → `SetSession`, abstract
   specification `LatestWins`, proofs `SetDriverProofs`, `SetSessionProofs`,
   `SetWireProofs`, `SetPromiseProofs`.
2. *Done.* `FeedWatchdog` → `FeedSession`, proofs `FeedSessionProofs`.
3. *Done.* `StationProvisioning` → `ConnectFlow`: the connection screen, its
   Bluetooth worker, provisioning and the LAN search, proofs `ConnectFlowProofs`.
4. *Done.* `WatcherRecovery`, `ControlLease` → `PhoneWatch`: the join to a phone's
   shared feed and control over it, proofs `PhoneWatchProofs`.
5. *Done.* `Browse` → `Media`: the library, its fetching thread and the way back to
   live view, proofs `MediaProofs`.
6. *Done.* The refinement of `LatestWins` by `SetSession`, step by step, and every
   safety property of the passing runs for all constants.

Runs are bounded to a few minutes; each answers a question of its own.

## 3. Modules

### The SET path

`CameraSetMailbox` is the Swift actor's row of one opcode as a record (`open`,
`seqs`, `pending`, `superseded`, `hold`) with one operator per method:
`MustWait`/`Coalesce`/`OfferLaunched` (offer), `BeginLaunch`, `SupersedeOpen`
with its trimming cap, `NoteTransmit`, `Accepts`/`CloseOpen` (decideAck),
`TimeoutDecision`/`AfterTimeout` (timeout, as the desktop calls it, without
subscribe matches), `PendingLaunch`. Times are counted down to the event.

`SetDriver` adds the Rust half for one opcode: the held, in-flight and late
commands and the outcomes, with `FireHeld`/`FireLaunched`, `Reply`, `Tick`
(settle or retransmit, then launch what is pending) and `Age`. `InStep` states
what the two halves must agree on. `Direct`, a stand-in the tests use in place of
the core, is not modelled.

`SetSession` is the worker's loop around a driver per opcode. One round is
`commands → receive → tick → dispatch → recover`:

| Action | Code |
|---|---|
| `Fire` | channel drained in `link.rs`; `CameraSession::send`, `Sequencer::fire_set`, `SetDriver::fire` |
| `StartPoll`, `HandshakeReply`, `Receive`, `BeginTick` | the drain of `CameraSession::poll`; outcomes are taken while it drains and once after it |
| `TickKey` | `SetDriver::tick` for one opcode; map order is not fixed in the code, so any order |
| `Dispatch`, `EndDispatch` | `CameraSession::dispatch`: encode, credit the number to the open generation, send |
| `KeepDatalink`, `Reopen` | `recover`; `reopen_datalink` |
| `CameraHears` | external: the camera hears a datagram, any number of times, in any order, or never, and answers under its number |
| `Elapse` | the clock (`Instant`) moves between two rounds |

The receive step takes any answer the camera has given on this socket, which
covers loss, delay, repetition and reordering. Answers on a closed socket are
gone, because the new socket has a new port.

`LatestWins` is what the mailbox promises without numbers, clocks or a network:
per opcode one SET held and one open, newest first, and a verdict for each.
`SetSession` implements it under the mapping at its end (`KeepsPromise`).

### The feed

`FeedWatchdog` is `FeedWatchdog.tick` as a function of the ladder's state and a
snapshot: `Decide` names the rung, `AfterTick` the new state. Ages are bounded by
`AgeCap`, each beyond everything it is compared with. Two branches the desktop
cannot reach are left out: the decoder rung (the facade never says that decoder
output is expected) and the path guard (path loss is never reported). The gimbal
stick's 3 s hold is the same rule as the 4 s control hold and is folded into it.

`FeedSession` is the worker's loop again, this time for the picture:
`StartPoll`, what arrives (`HandshakeReply`, `VideoPacket`, `Status`) and what
the shell says (`Command`, `Presented`, `SetRepairBlocked`) during `receive`;
`Handshake` or `Serve` at the tick; then `recover`, which first looks at the
Pocket 3 format round-trip (`Kick`, `Wait`, `Restore`, `PokeEnable`), and then at
the watchdog (`NotYet`, `NoRepair`, `ResendEnable`, `ReopenDatalink`). `Settled`
is the 150 ms settle window running out, which may happen inside a slow drain.
`last_live_enable` and `health.last_enable` are always set together and survive
a rebuild, so they are one clock.

Simplifications that a reader should know: the app-presence beacon and
registration bursts carry no state the properties see; an I/O error ends the
worker and with it the model; once the handshake has timed out (`Unreachable`)
the last poll's recover is not taken, which could only send a format change to a
camera that did not answer.

### The connection screen

`StationProvisioning` is `Provisioning` (`opc-camera/station.rs`) as a pure
machine: the step it is on, the join attempt, the readbacks, `Receive` with one
disjunct per (step, input) of the code. Delays only postpone a step and are left out.

`ConnectFlow` has both threads of `connect.rs` and the transport between them and
the cameras. A camera stands for its name, address, model and Wi-Fi, so "what is
read is this camera's" is an equation.

| Action | Code |
|---|---|
| `Pick`, `ScanAgain`, `CancelPairing`, `BrowsePhones`, `BackToCameras`, `HomeWifi`, `JoinHomeWifi`, `ResetStation`, `Choose` | the buttons of `draw_screen`, each with all it sends |
| `Drain`, `SearchAnswer` | `ConnectApp::update`: all the events of the worker that wait, the LAN search's answer |
| `Notify` | external: a notification reaches the shared buffer, late or repeated, as long as its stream lives |
| `TakeCommand`, `ScanEnds`, `Connect`, `ConnectFails` | `ble_worker`'s own loop and the first steps |
| `PinPoll`, `WakePoll`, `WakeEnds`, `ReadName`, `ReadPassword`, `ReadCancelled` | phases 2 to 5 of Pair |
| `SessionPoll`, `SendStep`, `StepAnswered`, `StepWaits`, `StepUnanswered`, `ProvisioningEnds` | `open_session`, `provision_connected`, `exchange` (`opc-monitor/station.rs`) |
| `ResetAnswered`, `ResetWaits` | `reset_station` with `forget` |
| `Cancelled`, `TimesOut`, `Unanswered`, `WriteFails` | the ways out, with `disconnect` |

A frame of the UI takes all the events that wait (`connect.rs:744`) and then draws the
buttons, so a click finds none waiting. This takes a frame to be short against the
worker's polls of 50 ms: what the worker tells while one frame is drawn is seen before
the next click. Only the phone browser opens a frame later than its button
(`want_phones`), ahead of what came in between. A UI that stands still within a frame
for a whole operation of the worker is outside the model.

`ConnectFails` has all the ways out of `connect`: before the Bluetooth connection is up,
after (`ble_impl.rs:230-298`: the services, the characteristic, the subscription, the
arming write), where the connection stays up and the peripheral is not set, and the
first two writes of Pair, which disconnect. `link.up` is what the computer is connected
to, whether the transport knows it or not. A `disconnect` takes the connection down;
the code ignores its result, and a `disconnect` that fails is not modelled.

### The phone join

`WatcherRecovery` is `WatcherRelayRecovery` as a record of clocks in seconds,
`ControlLease` the phone's lease as one watcher sees it. `PhoneWatch` composes them
with the session thread (`ReadMessage`, `ReadNothing`, `ReadEnd`: one turn of
`WatcherSession::run` each, with what `should_continue` takes, what `handle` does,
what `flush_outgoing` writes, and `tick`), the dial (`Connect`, `ConnectFails`), the
bridge of `phone.rs` (`ControlAfter`, `Asked`, `OnStatus`), the window (`Press`,
`Drain`, `Leave`), and the phone and its network as externals (`HostAccepts`,
`HostRefuses`, `HostReports`, `HostDecides`, `HostTakesRelease`, `HostParks`, `Cut`).
The phone notices that the old connection is gone before it serves the next one.
What a picture shows is left out; that it is too old (`FrameFreshness`) is a choice.

### The library

`Browse` is `opc-media`'s listing: phases, cursor, retries, and the orders it gives
the camera. `Media` is the rest: the shell's screens and taps (`OpenLibrary`,
`Tap`, `Open`,
`Download`, `DeleteTapped`, `SelectMode`, `DeleteChecked`, `CloseLibrary`, `ClosePlayer`), the driver's reports and ticks, the media
worker's queue, the resume and its sends, and the camera (external), which takes an
order at once, refuses it or loses it, and whose answers are late or lost. A take is a number, the
newer the larger; takes from `VideoBase` up are clips. The worker's two channels (jobs
and reports) are one queue, which a fetch leaves when its report is read.

## 4. Runs

`taps` and `zoom` mean: an opcode that waits for its answer, and the zoom
opcode, which pipelines.

| Run | Question | Answer |
|---|---|---|
| `sets_taps` | Three SETs of one opcode, taps and shutter, at any time, with a rebuild | types; `DriverInStep`; `NewestIsKept`; `OneRetransmit`; `AckedWasHeardUnlessCrowded`; `LeftIsFollowedUp`; `HoldsItsPlace`; implements `LatestWins` |
| `sets_zoom` | Three zoom writes, sliders and taps | `NewestIsKept`, `WireInOrder`, implements `LatestWins`, and live: `NothingWaitsForEver` |
| `feed_ladder` | An operator who writes and leaves, any feed | types; `ConnectEnablesOnce`; `LadderStartsOver`; `RebuildsAreSpaced`; `FreshSessionIsLeftAlone` |
| `feed_pocket3` | A Pocket 3 that may record | `TwoResendsPerStall`; live: `StallIsRepaired`, `EveryDatalinkIsEnabled`, `FormatComesBackInTheDark` |
| `connect_pairing` | Two cameras, every button at any moment, notifications late, twice or never, connects that fail halfway | types; `ReadsItsOwnCamera`; `RemembersOneCamera`; `OnlyHalfConnectsLeak`; `PhonesLeftByChoice`; `UnconfirmedAfterEveryAttempt`; live: `EveryWaitEnds` |
| `watch_join` | A connection cut at any moment, a phone that grants, reclaims and parks control | types; `ControlSettles`; `BoundedDials`; `StallsAreSeen`; `StaleAsksDie`; live: `JoinEnds` |
| `media_library` | A library opened, used and left in any order over a link that loses and delays | types; `OffScreenIsIdle`; `OpensWhatWasAsked`; `DeletesOnTheSecondTap`; live: `ListingEnds` |
| `sets_v_ack`, `sets_v_reopen`, `feed_v_control`, `feed_v_format`, `media_v_resume` | Sentences of the repository that the code does not keep | section 6 |

**Bounds, and why they are enough.** SETs: one opcode (opcodes share nothing but
the queue; that they do not mix is proved, `Apart`), `MaxFires` 3 (one in flight,
one held, one that replaces it: the mailbox has no fourth place), two in the
violation runs, `MaxReopens` 1 where a rebuild matters. Retransmit and settle
times are 2 and 3 units and the holds 1: only their order matters to the code
(300 ms, 2 s, 100 ms, 50 ms). The sequence modulus is the real one, 2^16, so a
wrap is not reached; the caps of the superseded set are the real ones too, and the
proofs cover every other value (all but `AcksAreEarned` also a wrap). Feed: thresholds 1, 2, 3, 4, 4, 5 units for the
code's 2, 4, 5, 8, 15 and 60 s. They keep every order and every sum the rules
compare (`WatchdogAssumption`), and are the smallest that do; the handshake
deadline and the round-trip's pause are 1. `resends` and all counters need no
bound of their own. Connection screen: two cameras (one that wants video mode first,
one that may lack the role getter, so both special paths are walked, and one to be
confused with the other), two join attempts and two readbacks (one that
is followed by another, and the last), five presses, two notifications in the
buffer (so one poll may hear two), and two events that wait for a frame; the proofs cover
every other value. Phone join: seconds are scaled to 2, 3, 2, 2 and 1 with
`StableAfter` more than `MaxGap`, two retries for three, one message and one ask under
way (two, the greeting and its token, when the phone accepts); the proofs cover every
other value. Library: one photo and one clip on pages of one, so that an older page
exists; one enter attempt, one round of resume, five clicks, one answer in flight; the
proofs cover the rest.

**Clocks.** `PromptPolls` says that the worker ends a round in each unit of time.
It is an assumption about the worker's speed and not about the network: the loop
at `opc-monitor/link.rs:197-222` reads a non-blocking socket and, when a round
brought nothing, only yields.
Where a property does not hold without it, its comment says so.

**Fairness.** Weak fairness on the worker's steps: the same loop, which takes the
next step whatever arrives. Strong fairness on `Elapse`: the clock moves again and
again, though the model lets it move only between rounds. For `NothingWaitsForEver`
also strong fairness on `HandshakeReply`: without a camera that answers in the end
nothing is sent. No fairness is assumed on replies, video or telemetry.
`connect_pairing`: weak fairness on the UI's update (it redraws while anything is
awaited), on the worker's polls and deadlines, and on the search's answer; none on the
operator and the cameras. `watch_join`: the session thread turns, a dial returns
within `connect_timeout`, and the clock goes on. A second does not pass over a
deadline that is due: `tick` runs when a read times out (50 ms), and a phone that sends
no pictures sends its state at 5 Hz. `media_library`: the window redraws, so the
driver's ticks go on and every timer runs out; the camera may stay silent for ever and
a fetch never report.

**Limits of two properties.** `TwoResendsPerStall` needs an operator who stays at
the live picture: the ladder is frozen while repairs are blocked, so a first
picture that comes and goes meanwhile does not start it over, and a third enable
may follow. `AckedWasHeardUnlessCrowded` leaves out the SETs of finding 1.
`EveryWaitEnds` excepts a worker that has stopped: a Cancel that the worker reads
between two operations ends it for good, and Back to cameras then scans with nobody to
answer. The LAN search's answer has no guard for the phone screen in
the code: `PhonesLeftByChoice` holds because a search starts only when the worker has
nothing more to say (`Searches`, section 5), and `Drain` shows it before the next click.
`OnlyHalfConnectsLeak` excepts the connection that a failed `connect` leaves up.
`FreshSessionIsLeftAlone` ends with the first rebuild (section 6, 4).
`DeletesOnTheSecondTap` allows a batch
armed before the library was left to fire on one tap after coming back, on the same
checks.

## 5. Proofs

All proofs are for arbitrary constants under the named assumptions
(`MailboxAssumption`, `DriverAssumption`, `SessionAssumption`, `WatchdogAssumption`,
`FeedAssumption`, `ProvisioningAssumption`, `ConnectAssumption`, `RecoveryAssumption`, `LeaseAssumption`, `WatchAssumption`,
`BrowseAssumption`, `MediaAssumption`): any opcodes, any number of SETs and rebuilds,
any times in the right order, any takes, any length of wire and channel.

`SetDriverProofs` has the lemmas about the operators: each keeps a driver
`Sound` (typed, in step, its commands its own), and after each a SET that was
known is still tracked or has a verdict (`Follows`). A second set says what each
operator does to the commands in the driver's hands and to its outcomes (`Settled`,
`StillWaits`, `LetsPendingGo`, `Holds`, `PutsInFlight`, `IsAnswered`): the wire and
the refinement are proved from these, and never open the mailbox again.

`SetSessionProofs`:
- `TypeCorrect`, `MailboxInStep`, `NewestNeverLost` follow from one invariant,
  `IInv == Typed /\ DriversSound /\ NewestIsKnown`. Types alone are not
  inductive: `Typed` must also know that whatever is in the driver, the queue and
  on the wire is a SET that was fired, `DriversSound` that the two halves agree
  before the step, and `NewestIsKnown` is `NewestIsKept` in the form a step
  preserves (outcomes move from driver to shell).
- `PlaceHeld` (`HoldsItsPlace`, an action property) needs one more invariant,
  `Apart`: two drivers never hold the same SET, so a verdict found in one is
  about the SET of that opcode.

`SetWireProofs`, what leaves on one datalink, each invariant resting on those before:
- `Catalogued`: there is one book of opcode and kind by number, and everything in hand,
  queued or sent agrees with it. So a number stands for one SET of one opcode.
- `Due`: what a reply launched is due only until the tick that follows, and it is the
  SET in flight, of which nothing has been sent. Without it a command due could be
  older than what the tick sends.
- `InOrder`: the queue is ascending behind the wire, and the SET in flight and the one
  held are no older than either. It gives `SetsLeaveInOrder` (`WireInOrder`).
- `Counted`: transmissions that left, that are queued (`Load`) and that are due come to
  one before the retransmit and two after it; a SET the driver has let go of keeps its
  limit while it waits in the queue. It gives `RetransmittedOnce` (`OneRetransmit`). The
  property alone looks only at the queue, and says nothing of what the next tick adds.

`SetPromiseProofs`:
- `ImplementsThePromise` (`KeepsPromise`): `SetSession` implements `LatestWins`. A step
  of the session is first put in two parts, so that the many actions become few cases:
  one opcode does one thing, or none (`Changes(D)`: it is fired and held, fired and
  launched, answered, or its tick is over), and the outcomes may then be handed to the
  shell (`Brings(D)`), which no verdict notices. Each of the few is matched with the
  action of `LatestWins` it stands for (`PromisedSteps`, `KeyKeepsPromise`); the rest
  stutters (`RestKeepsPromise`), and a rebuild is the promise's own
  (`ReopenKeepsPromise`). It needs `Apart` and `InOrder` (what is held is newer than what is
  open) and `VerdictsStand`: on a SET in hand nothing was said but "unanswered", so a
  verdict is never taken back or given twice.
- `AcksAreEarned` (`AckedWasHeardUnlessCrowded`), from four invariants. `Numbered`: the
  datagrams are numbered from 0 and no number stands for two. `Attributed`: every number
  credited to an open generation is that of a datagram of the SET it was opened for, or
  that SET is crowded; for what is queued the same is said ahead of time
  (`QueueMeant`). `AnswersHeard`: an answer bears the number of a datagram the camera
  heard. `AcksHeard` joins them. The theorem has a hypothesis, `2 * MaxFires <
  SeqModulus`: no SET leaves more than twice (`Counted`), so the numbers of a datalink do
  not wrap. It is a limit of the claim and not of the proof. The program's 16-bit counter
  numbers its other frames too and wraps sooner; past that point a number could be
  one that a generation still open or a late answer already has.
- `LeftIsKept` (`LeftIsFollowedUp`) and `OnlyARebuildForgets`. `GoneIsHeeded` says that
  what left on this datalink, or waits in the queue to leave, is tracked by its driver or
  has a verdict. It holds because a fire only drops the SET that is held, and that one
  has not left (`InOrder`); because a tick sends only what is in hand; and because a SET
  is let go of only with a verdict. Until the first rebuild what was ever sent is what is
  on the wire, so the sentence that finding 2 refutes holds up to a rebuild.

`FeedSessionProofs`:
- `FeedTypeCorrect`. The inductive invariant `Typed` adds `Fresh` (a datalink that
  has not opened has sent nothing and has no settle window) and `Budget` (each of
  the two places that send the enable is spent once); without them the history of
  enables has no bound.
- `EnabledOnce`, under `PromptPolls`: `Owed` says that an open datalink that was
  not enabled is in its settle window and before its first tick, so the tick
  that spends the sequencer's flag sends nothing.
- `RebuildsSpaced`, for any operator, body and speed: `RebuildIsOlder` says that
  a rung above idle is younger than the last rebuild, or the rebuild was waited
  out. So the pause between two rungs is a pause between two rebuilds, also when
  a tick that was not live reset the ladder in between.
- `LadderStartsOverThere`, for bodies other than the Pocket 3: `OnlyWhileAsking`
  says that a rung above the enables stands only until the first handshake of its
  socket has been sent.
- `TwoResendsAStall` (`TwoResendsPerStall`), for any body and speed. `Spent` has two
  halves: before the first picture the only enable is that of the ladder's first rung,
  after it the ladder's own count covers what was sent. They meet in the round of the
  first picture, whose tick finds the feed alive (`JustSeen`).
- `FirstDatalinkSettles` (`FreshSessionIsLeftAlone`), for any operator, body and speed.
  `FirstSettles` says that up to the first rebuild an enable that was sent is one that
  waited for its settle window, and that the format round-trip begins only after it.

`ConnectFlowProofs`, from one invariant
`IInv == TypeOK /\ Named /\ Linked /\ ReadsItsOwnCamera /\ OnlyHalfConnectsLeak`:
- `TypeCorrect` needs `Named`: until a camera is picked nothing is asked of the worker but
  a scan or a cancel, and every pairing order and every place of the worker beyond the scan
  has a camera. `HeardType` says what a poll of the notification buffer returns, without
  which no poll is typed.
- `CredentialsAreOneCameras` and `OnlyHalfConnects` need `Linked`: in an operation the
  peripheral and the only live stream are the target's, nothing else is connected but
  what failed halfway, and beyond the first poll of a phase, which throws the rest away,
  all that the buffer holds is the target's. The two depend on each other: the buffer is
  clean because nothing was left subscribed, and nothing is, because each exit
  disconnects.
- `UnconfirmedOnlyAfterEveryAttempt` is an action property. It goes through `Receive`,
  step by step of the machine (`ReceiveFollows`), to the one branch that ends
  unconfirmed.
- `OneCameraIsRemembered` (`RemembersOneCamera`) and `PhonesAreLeftByChoice`
  (`PhonesLeftByChoice`), for any cameras, presses, attempts and readbacks, any number of
  notifications heard in one poll and of events that wait for a frame. They need a second
  invariant, `Orderly`, on the three queues between the operator and the camera.
  Commands and events carry no attempt, and the LAN search remembers the camera that
  the screen holds when the answer comes; so both properties come down to `Searches`:
  while a search runs, the screen shows it, the worker is idle with nothing asked and
  nothing told, and the pending station is the one searched for. A search starts from a
  `stationDone`, hence `Joins` (a join ordered or running is the pending one, or stands
  behind a Cancel) and `Ready` (nothing but a Cancel is next for an idle worker when the
  home Wi-Fi screen is shown). These rest on the key fact: once the first step of
  provisioning is sent, nothing waits ahead of a Cancel (`Followed`). A worker that waits
  eats one order a poll, and the session and the first step are a poll each, so it is
  enough that few wait when an operation begins. That is `Balanced`. The operator clicks
  on what the last event shows (`View`), so however many events there are they offer one
  order, and an order costs the view that offered it: the orders ahead of a Cancel, less
  the Cancels, and what may still offer a new one (`Offers`: the view, the operation, the
  search) come to 3 at most, and to 2 in the phases that an operation reaches by eating
  one (`Low`). `Weighs` counts the queue by a function over its positions and not by a
  sum. `Cancels` says which Cancels may stand last or side by side. Each part is preserved
  by a turn of the worker in general, which goes on (`GoesOn`) or ends (`Ends`), and each
  action then only says which turn it is.

`PhoneWatchProofs`, from one invariant `Base /\ Beyond`:
- `Base` is `TypeOK`, `Coherent` (the session's place, its transport, its status and
  its recovery policy agree: a loop with no transport is in a pause, a live one has a
  picture deadline and so on) and `Line` (on a connection the phone serves, the last
  token sent, or the session's own once all are read, names the holder of the lease,
  and a connection is greeted once, first of all). It gives `PhoneTypeCorrect`.
- `ControlIsAgreed` needs `Line` for the phone's half and `Window` for the other: the
  bridge's control is the session's, and on its way to the window if not there yet.
- `DialsAreBounded` needs `Dials`: a retry is counted before its dial.
- `StallsEnd` needs `Clocking`: what is left of the picture clock and the time without
  a picture add up to the time limit, and the count of steady pictures is the time
  watched unless a gap has cleared both.
- `LostAsksStayLost` needs `Asks`: a lost ask stands in the channel only while the
  session waits to dial again.

`MediaProofs`: `LibraryTypeCorrect` (a listing `Sound` with its policy, a resume within
its rounds), `LibraryRests` by `Rest` (what each screen excludes), `OnlyWhatWasAsked`,
and `DeletesAreDeliberate` by `ArmedByTap` (an arm or a batch arm
stands only on what the last tap was on).

**Model-checked only.**
- Liveness and fairness, which are out of the prover's reach: `NothingWaitsForEver`,
  `StallIsRepaired`, `EveryDatalinkIsEnabled`, `FormatComesBackInTheDark`,
  `EveryWaitEnds`, `JoinEnds`, `ListingEnds`.

No operator of the project is recursive, so nothing proved rests on an induction over
data. Numbers of transmissions are cardinalities and not recursive sums for that reason.

## 6. Where the code and its documents part

1, 2, 3, 5 and 6 are runs in which TLC finds the sentence violated; `PROJECT.json` quotes
the sentences. 4 is the step that the guard of `FreshSessionIsLeftAlone` leaves out. 7
contradicts no document, but a reader of the code should know of it.

1. `sets_v_ack`: two launches of one opcode that wait in the queue together are
   both credited to the newer generation; the answer to the older acknowledges the
   newer (`opc-camera/session.rs:793`).
2. `sets_v_reopen`: a rebuild drops the SETs in flight with no outcome. Nothing else
   does (`OnlyARebuildForgets`).
3. `feed_v_control`: steady camera writes hold every repair off on a datalink that
   has had no video, since the grace lifts on the age of a packet.
4. After a rebuild the watchdog may send the enable within the settle window, just
   before the connect path's own, although the comment at `opc-camera/session.rs:425-428`
   says that it must not, since that would put two `0x09/0xa8` on a fresh session. The
   guard asks only whether an enable was ever sent, and `last_live_enable` survives the
   rebuild: in the model, drop `~Seen(ages.rebuild)` from the property and TLC finds the
   resend. It never does on the first datalink (`FirstDatalinkSettles`).
5. `feed_v_format`: a first picture between the two format changes ends the
   round-trip early, and the Pocket 3 stays in the other format.
6. `media_v_resume`: the driver is told of pictures only off the viewfinder
   (`opc-monitor/view.rs:818`), and a resume runs only on it. So no live picture ends a
   resume; it enables live view in every round that is left.
7. A `connect` that fails after the Bluetooth connection is up (`ble_impl.rs:230-298`)
   leaves it up and sets no peripheral, so the `disconnect`s that follow do nothing. Until
   the program ends or a later operation on that camera connects and ends, the camera is
   held. `OnlyHalfConnectsLeak` says that nothing else is, and that this way out works.

## 7. Not modelled, and why

- `pairing.rs` and `wifi.rs` of `opc-camera`: only their own tests call them; the
  desktop pairs through `ble_worker`.
- The ACK pump's cursors: what makes a cursor right is what the camera does with it,
  and that is not in the repository.
- Reassembly, framing, tables, byte layouts and CRCs: one reader, no concurrency, and
  covered by the repository's vectors.
- Gimbal moves and programs: their difficulty is in real-valued curves.
- Virtual camera: the latest frame under a mutex, and operating-system glue.
- `SessionRecovery`, `FeedIncidentRecorder` and the other phone-side policies: their
  callers are not in this tree, so the order of the calls, which is what a model would
  check, is not known.
- Decoder, renderer, colour (pixel arithmetic), user interface, the C boundary's
  marshalling, discovery and the headless watcher.
- Of the shell: pins of tapped values, notices, sheets, gamepad. Of the library:
  thumbnails, favourites, bursts, the internal store, the player's clock and sound,
  cache files and HTTP ranges. Of the connection screen: typed text, the phone
  browser's list, closing the window, parsing of what `netsh` and `ipconfig` print.

`PROJECT.json` lists every component with its status, and every hazard with the
properties that would show it going wrong.
