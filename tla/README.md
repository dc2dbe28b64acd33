# TLA+ models of fpv-video-stream

This directory holds TLA+ models of the scan agent and the dashboard, the TLC
configurations that check them on small instances, and TLAPS proofs, for every
instance, of all safety invariants that the passing runs check.

- Parse: `tlasany M.tla`. Check: `tlc -config X.cfg M`. Prove: `tlapm M_proofs.tla`.
- `PROJECT.json` lists the components, the runs, the mutants, the hazards, the
  theorems, and for every definition the source lines it stands for.
- A definition whose name starts with `Bug_` is a plausible mistake in the
  definition below it. No specification uses it: it shows that a property
  notices that mistake.

## 1. The system

A node carries one software radio (bladeRF or HackRF). Its scan agent sweeps the
FPV bands, demodulates what it finds, and on the operator's command shows a live
picture (view), transmits a clip (TX) or relays the strongest video to another
frequency (relay). It talks to the dashboard through an MQTT broker with
retained topics, and pushes the live picture with ffmpeg to MediaMTX, from where
the operator's browser reads it with WHEP. A Node server keeps the device
registry, the detection journal and the archive of frames.

| component | state it keeps | operations | talks to |
|---|---|---|---|
| view controller `agent/scan/view_controller.py` | `_pending`, `_stop`, `_last` | `set_command` (MQTT thread), `pending`, `run_view` (scan thread), `announce` | stream engine, publisher |
| TX controller `agent/tx/tx_controller.py` | `_pending`, `_retune`, `_stop`, render cache and its key | `set_command`, `pending`, `run_tx` | render, radio, publisher |
| relay `agent/relay/relay_controller.py` | `armed`, `dst_mhz`, `_pending`, `_stop`, `_last` | `set_command`, `update_hits`, `pending`, `run_relay` | full-duplex radio, publisher |
| main loop `agent/scan/main.py` | whose turn, the sweep's device, `blade_fails`, back-off | poll TX, view, relay; sweep; reset; exit | all controllers, the device |
| publisher `agent/scan/publisher.py` | `_client`, hooks | `connect`, `_on_connect`, `_on_message`, `publish_*` | paho, broker |
| capture `agent/scan/bladerf_source.py`, `iqring.py` | `_radio`, reader thread, ring | `tune`, `read_chunk`, `recover`, `close` | device, `run_stream_source` |
| encoder `agent/video/view_encoder.py` | frame queue, `_last`, `_osd_text`, ffmpeg | `submit`, `idle`, `set_osd`, writer and supervisor | ffmpeg |
| legacy engines `agent/video/stream_demod.py` (`run_stream`, `run_stream_persistent`) | `ChunkMailbox`, `FrameQueue`, two subprocesses, reader and writer threads | a session, its teardown | hackrf_transfer, ffmpeg, encoder |
| sweep `run_cycle` of `agent/scan/main.py`, `detector.py`, `video_emit.py` | candidates, carriers, cooldowns, hits, detections | band, dwell, carrier, abort, hand-over | device, emitter, relay, RX5808, publisher |
| thresholds `agent/scan/threshold_controller.py` | live settings, defaults, JSON file | `apply`, reset, `announce`, load | publisher, sweep |
| RX5808 `agent/scan/rx5808_controller.py`, `rx5808.py` | mode, targets, index, synthesizer register | `set_command`, `update_targets`, hop | SPI, publisher |
| frame archive `lib/frame-archive.js` | list, id set, PNG files, index file | `ingest`, `prune`, `list`, `_load` | MQTT, disk |
| detection journal `lib/detection-journal.js` and list `dashboard/public/viewer.js` | baselines, event ring, event file; claims by detection | `ingest`, load; `applyDetections`, `prune`, `seedFromJournal` | MQTT, page |
| viewer players `dashboard/public/app.js`, `whep.js` | per id: player, retry object; `<video>` | sync at every render, retry, `onDead` | MediaMTX |
| registry, server API, telemetry, configuration, screens | see `PROJECT.json` | | |

What is hard in this code:

- **Two threads per controller.** The MQTT thread stores a request under a lock
  and sets a stop event after it; the scan thread reads the request, clears the
  event and streams. Every pair of those steps can interleave.
- **One device, four users.** The sweep, view, TX and relay open the same USB
  device; an open over one's own handle fails, and a handle leaked by a failed
  open breaks every later one in the process.
- **Retained messages.** What the dashboard shows is the last message the broker
  kept, perhaps from a process that is gone, perhaps read before a change and
  sent after it.
- **Long-lived helpers.** The reader thread, the writer thread with ffmpeg and
  the WHEP calls outlive the session that started them.
- **Files written in place**, in two steps, with restarts in between.
- **One loop, many readers.** The sweep runs for seconds while requests and new
  settings arrive, and what it found is divided between the relay, the receiver
  and the dashboard.

What makes each part correct is listed with its run in section 3.

## 2. Modules

| module | models | composition |
|---|---|---|
| `SessionService` | what a controller promises: the newest start waits, a stop cancels it, one session at a time, each start at most once | abstract; refined by `ViewController` and `TxController`, instantiated twice in `ScanAgent` |
| `DeviceLease` | what the process owes the device: one handle at a time, no open of a broken device, an exit with every handle closed | abstract; refined by `ScanAgent` |
| `ViewController` | `view_controller.py` with the engine's loop | |
| `TxController` | `tx_controller.py`, `tx_render.py`, `bladerf_tx.py` | |
| `RelayController` | `relay_controller.py`, `bladerf_relay.py` | |
| `ScanAgent` | `main.py`: polling order, sessions, sweep, failures | composes two `SessionService`s and the relay |
| `MqttPublisher` | `publisher.py`, the announce chain of `main.py`, the `_last`/`_pub` of the controllers, the broker | |
| `ViewCapture` | `BladerfViewSource`, `IqRing`, `run_stream_source` | |
| `ViewEncoder` | `ViewEncoder`, `FrameQueue`, `FramePacer`, the labels | |
| `LegacyStream` | `run_stream`, `run_stream_persistent`, `ChunkMailbox`, `writer_loop` | |
| `ScanCycle` | `run_cycle` with `find_candidates` and `maybe_emit` | |
| `ThresholdController` | `threshold_controller.py` and its use in `main()` | |
| `Rx5808Controller` | `rx5808_controller.py`, `rx5808.py` | |
| `FrameArchive` | `frame-archive.js` and the server's handler and timer | |
| `DetectionFeed` | `detection-journal.js`, the list of `viewer.js`, the broker between them | composes server and page |
| `ViewerPlayers` | one id of `viewerPlayers`, its card, `startWhep` | |
| `MCViewEngines` | | `ViewCapture`, `ViewEncoder`, `LegacyStream` |
| `MCSweep` | | `ScanCycle`, `ThresholdController`, `Rx5808Controller` |
| `MCDashboard` | | `FrameArchive`, `DetectionFeed`, `ViewerPlayers` |
| other `MC…` | the constants of one module for TLC | |
| `…_proofs` | | theorems: see section 4 |

The three modules `MCViewEngines`, `MCSweep` and `MCDashboard` put components
side by side that share no state. Nothing would be learned from their products, so
each behaviour is of one component, which the initial state chooses (`engine`,
`part`), while the others rest; each component keeps its own fairness, and a
liveness property is stated for the behaviours of its component. Components that
do share state are composed inside a module: the controllers in `ScanAgent`,
publisher and broker in `MqttPublisher`, main and network thread in
`ThresholdController`, server, broker and page in `DetectionFeed`.

How state and actions correspond to the code:

- A controller's `pc` is the place of the scan thread in `run_view`, `run_tx` or
  `run_relay`, `net` the place of the MQTT thread in `set_command`. A step ends
  where the other thread can see a difference: at a lock, at the event, at a
  publish, at the radio.
- Requests are numbered by the order of the starts. Frequencies, gains and
  parameters are left out where no property tells them apart; the relay keeps
  source, band, signal-to-noise ratio and target, because its guard band is about
  them; TX keeps the clip, because the cache is about it.
- Deadlines are a nondeterministic end of the stream (`StreamTimesOut`,
  `TransmitEnds`), except in the relay, where `Expire` makes the deadline pass so
  that fairness can speak of it. Retries on a timer are actions without a clock.
- `ViewCapture` numbers a block by the session on whose frequency its pull
  began. `ViewEncoder` numbers a frame by its session; black is 0.
- `FrameArchive` takes frame numbers as timestamps and a growing horizon for the
  retention limit. A crash can strike between any two writes, and cut the file
  being written (`Torn`).
- `LegacyStream` counts chunks and frames. A session's capture, ffmpeg, reader and
  writer are indexed by the session, since those of an earlier one may still run;
  the stop event is one for all.
- `ScanCycle` gives a band a spectrum of a few bins with their level above the noise
  floor. `Runs` is `find_candidates`; a carrier is known by the sum of its first and
  last bin, which is twice its centre. What a dwell is classified as is open.
- `ThresholdController` applies a command key by key, as the network thread does on the
  live settings. `Rx5808Controller` keeps the integer arithmetic of the register.
- `DetectionFeed` has a payload as a timestamp with a set of keys, the broker's last
  payload per scanner, and time in steps. A page asks for the newest `MaxListed`
  events only (`limit=500` in `app.js`).
- `ViewerPlayers` runs one browser task per step. A WHEP answer is one step: the
  track events, the resolution of `setRemoteDescription` and the continuation of
  both async functions run before the next task. Generations, elements and
  connections are identities: a new one is any number that nothing live has.
- History variables (`starts`, `windows`, `late`, `revoked`, `fresh`, `raced`,
  `foreign`, `newest`, `stale`, `hurt`, `overdue`, `tried`, `gap`, …) are marked as
  such in the modules and guard nothing.

## 3. The runs

| run | question | states | bounds |
|---|---|---|---|
| `view` | Is the radio given back, is what is shown what is streamed, is a cancelled or replaced start ever streamed, does a stop take effect, is `SessionService` implemented? | 3 217 | 3 starts, 2 stops |
| `view_retune` | *violation:* is a start in a session a prompt retune? | | same |
| `tx` | Is every window on the air paid for by a start or a retune, is the radio closed, is the clip the requested one, is a stop kept, is `SessionService` implemented? | 56 120 | 2 clips, 2 starts, 1 stop, 2 retunes, 1 bad render |
| `tx_stop` | *violation:* is a stop always still set when a transmission is entered? | | 1 retune |
| `tx_cache` | *violation:* is the cache what its key says? | | 3 starts, 1 bad render |
| `relay` | Does the guard band hold for what is transmitted, how much is sent after a disarm or a manual command, does every session end? | 30 544 | 4 sources, 2 targets |
| `agent` | Is the device free at every open, is one mode in session, is `DeviceLease` kept, is every start taken up? | 10 212 | 2 view starts, 2 TX starts, fail limit 3 |
| `publisher` | Does state of a dead process outlive the announcements, is presence true, is the state shown the state of the agent? | 490 080 | 2 of 3 controllers, 1 crash, 1 drop |
| `engines` | *Capture:* does the radio outlive its reader, how much of the old frequency is read after a retune, is a silent device given up? *Encoder:* does the picture ever go back, does the label follow the session, does the stream come back? *Legacy:* how much is let out after a stop, does a session blame its own teardown, do its threads end? | 467 824 | 3 requests, ring 3, chunk 2, 2 recoveries; 2 sessions, queue 2, 2 faults; 2 sessions, mailbox 1, queue 1 |
| `sweep` | *Cycle:* how long does a request wait for the sweep, is every carrier of a band looked at, are the relay's hits among the detections? *Thresholds:* do the settings survive commands, failed writes and restarts? *Receiver:* is every listed channel visited again? | 281 780 | 2 bands, 3 spectra, 2 thresholds, 2 cycles; 2 keys, 3 commands, 2 faults; 3 channels, 3 commands, 2 faults |
| `dashboard` | *Archive:* are list, ids and files in agreement, do expired frames leave? *Feed:* does the page claim for a scanner what it reports, does a reload lose a row? *Players:* does a superseded call leave a connection or a picture, does a generation call twice, does a player return? | 252 691 | 2 scanners, 3 frames, room for 2, 2 faults; 1 key, time 3, ring 3, list 2, 1 restart; 2 streams, 4 changes, 2 attempts, 2 deaths |
| `frames_order` | *violation:* is the list of frames newest first? | | same |

Why the bounds are enough. A race in a controller needs a request in session,
one that waits and one that replaces it: three starts. A stop can come before,
in and after the window it is lost in: two. TX distinguishes a clip in the cache
from another: two clips. A retune can be consumed, and be left over: two. The
relay needs two targets so that a source is allowed for one and not for the
other, a weak source, and one in a band that is not allowed. The ring must hold
more than a chunk, so that a block of the old frequency can be in front of new
ones. A legacy session is only disturbed by the threads of the one before: two.
The sweep needs a spectrum with more carriers than the budget and one with more
than the looser allowance, equal levels for the order of the sort, and two bands
that may hold the same carrier for the cooldown. Two settings tell a file written
before a second command from one after it, and three commands include a reset
between two others. The receiver needs two channels with one register. The
archive must be over its maximum by one and have one frame redelivered after its
eviction. The feed needs two scanners, of which one claims what the other has
dropped, and a ring longer than what a page asks for; with one key more (8 521 759
states) it shows the same. The players need
an old call, a newer one and a card that left and returned. Each property is shown
to fail under a mutant within the same bounds.

### The four violations

- `view_retune`. `view_controller.py:54` says a start's event means "active session
  -> retune now". `run_view` clears the event at the head of its loop (line 77),
  after it has asked for a pending request (line 85); a reset of the device may
  lie in between. A start in this window keeps waiting while the old frequency is
  streamed, until another command or `max_s`.
- `tx_stop`. `run_tx` is to transmit "until stop / the max_s deadline". A stop that
  arrives between `_consume_retune()` (line 141) and the `clear()` that drops the
  retune's own trigger (line 144) is dropped with it, and the transmission goes on.
- `tx_cache`. `render()` truncates the one cache file (`tx_render.py:58`) before it
  can fail; `run_tx` keeps the earlier key. The next start of the earlier clip
  skips its render and transmits what is left of the file.

- `frames_order`. `list()` is "newest-first" with the timestamp as its cursor
  (`frame-archive.js:52-54`), but walks the list in the order of arrival. A frame that
  comes late, as the retained one does after a reconnect, is listed before newer
  ones, and the gallery, which goes on from the last frame shown
  (`views/frames.js:84`), skips what lies between.

### Fairness

Safety properties assume none. Liveness assumes of the code only what its
scheduling gives:

- The MQTT thread finishes `set_command`, and the scan thread keeps running:
  weak fairness of `SetStopEvent`, `Poll`, `SessionStep`, `LoopStep`. A stream
  always ends by its deadline, so weak fairness of the disjunction of its steps
  includes an end; in the relay the passing of the deadline is `Expire`. No
  fairness is given to commands, to faults, or to the device.
- `MqttPublisher`: connecting, callbacks, delivery on a live connection, and the
  restart by systemd. Drops and crashes are finite in number, by their bounds.
- `ViewCapture`: both threads; every read and pull has a timeout. Nothing is assumed
  of the device or of the deadline: `SilenceEnds` is about a device that stays
  silent, and must not lean on the deadline.
- `ViewEncoder`: the writer thread, and that `set_osd()` and `idle()` return.
- `LegacyStream`: the loop and the threads. hackrf_transfer need not deliver, nor
  ffmpeg read: a killed subprocess gives EOF or EPIPE, and that must suffice.
- `Rx5808Controller`: the hopping thread. Nothing is assumed of the carriers or the
  commands; `TargetsVisited` is about lists that have settled.
- `FrameArchive`: the handler and the prune timer (strong fairness of `StartPrune`,
  since a handler may keep the thread busy whenever the timer is looked at).
- `ViewerPlayers`: a render comes with every data tick and at least every 30 s
  (the viewer screen being open), timers fire, each call is answered or refused,
  and a server that is asked for ever answers (strong fairness of the answer).

`ScanCycle`, `ThresholdController` and `DetectionFeed` have safety properties only.

`dashboard` switches deadlock checking off: with the viewer offline and the bounds
spent, the page rests. All other runs check it.

## 4. Proofs

| module | of | theorems |
|---|---|---|
| `ViewController_proofs` | `ViewController` | `TypeCorrect`, `ShownIsTrue`, `StaleIsNeverServed`, `Refines`, `OncePerStart` |
| `TxController_proofs` | `TxController` | `TypeCorrect`, `EveryWindowIsPaid`, `RadioIsReleased`, `RightClip`, `StopIsKept`, `Refines`, `OncePerStart` |
| `RelayController_proofs` | `RelayController` | `TypeCorrect`, `GuardIsHeld`, `OneLateBlock` |
| `ScanAgent_proofs` | `ScanAgent` | `TypeCorrect`, `Exclusion`, `LeaseIsKept`, `HandlesHaveSessions` |
| `MqttPublisher_proofs` | `MqttPublisher` | `TypeCorrect`, `DeadStateIsReplaced`, `PresenceIsKept`, `StateIsShown` |
| `ViewEngines_proofs` | `ViewCapture` | `ReaderNeverOrphaned`, `CaptureTypeCorrect`, `OneBlockAtMost` |
| | `ViewEncoder` (`E!`) | `EncoderTypeCorrect`, `PictureNeverRewinds`, `LabelIsKept` |
| | `LegacyStream` (`L!`) | `LegacyTypeCorrect`, `NothingIsFlushed`, `OwnTeardownIsNoError` |
| | `MCViewEngines` | `EnginesAreSafe` |
| `Sweep_proofs` | `ScanCycle` | `SweepYields`, `HitsAreDetections`, `NoCarrierMissed` |
| | `ThresholdController` (`T!`) | `SettingsTypeCorrect`, `SettingsAreKept` |
| | `Rx5808Controller` (`R!`) | `TuningIsClose`, `TopicIsTrue` |
| | `MCSweep` | `SweepIsSafe` |
| `Dashboard_proofs` | `FrameArchive` | `ArchiveTypeCorrect`, `ArchiveAgrees` |
| | `DetectionFeed` (`F!`) | `FeedTypeCorrect`, `ClaimsAreThePayloads`, `ReloadIsComplete` |
| | `ViewerPlayers` (`P!`) | `PlayersTypeCorrect`, `OnePlayer`, `OneCall` |
| | `MCDashboard` | `DashboardIsSafe` |

**For which constants.** For all that meet the modules' assumptions: any number of
commands, sessions, faults and crashes, any set of hits, targets, scanners, keys,
channels and streams, any guard, fail limit, capacity, budget, allowance and time to
live, any spectra and thresholds. The assumptions say that counts are naturals, that
capacities are not zero, that a mark like `Nothing` is not a value, and that sets that
are counted or sorted are finite. Those with more in them:

- `ViewEngines`, `Sweep` and `Dashboard` prove components that their MC module
  instantiates. What such a component assumes is a definition of it (`EncoderBounds`,
  `LegacyBounds`, `ThresholdBounds`, `RxBounds`, `FeedBounds`, `PlayersBounds`), which
  the MC module assumes of its constants (`EngineBounds`, `ControllerBounds`,
  `ScreenBounds`) and TLC evaluates.
- `FeedBounds` has `LiveStale <= RecentTtl`: `viewer.js:6-7` has 120 s and 300 s. With
  a longer live time a row may outlive its event in the listing.
- `ViewerPlayers` numbers generations, elements and connections from a finite set
  (`Ids`). In the program they are object identities, of which there is always a new
  one; `NumbersAreNew` proves that the set never runs out, for any number of changes.

**How.** Each theorem comes from an inductive invariant, proved in one lemma for the
initial states, one per action or group of actions, and one for the step. Type
invariants of modules with a proof are proved instead of run. The theorems about two
or three components side by side (`EnginesAreSafe`, `SweepIsSafe`, `DashboardIsSafe`)
follow since a behaviour of the run is one of each component (`EachRuns`).

- **View.** The waiting request is the newest start and newer than every
  cancelled one and than the one in session; without that, a step from an
  arbitrary state could serve a start that was cancelled. `Refines` maps
  `accepted`, `waiting`, `serving` to `starts`, `pending`, `Serving`. `OncePerStart` is
  proved of the promise and holds of the controller because it refines it.
- **TX.** `WindowInv` counts: windows begun, plus the one due at the present place
  of `run_tx`, plus a retune that waits, never exceed sessions plus retunes.
  `CacheInv` relates the key to the cache while no render has gone wrong. `KeptInv`
  says that without a retune only the head of a session drops the event.
- **Relay.** `GuardInv` holds the relation between source and target in every place
  it passes through: the snapshot and the choice of `update_hits`, the pending
  request, the request in session, the radio. `dst` itself is in none of them,
  which is why a later arm cannot break it. `LateInv` ties the counted blocks to
  the place of the loop.
- **Agent.** `HeldInv` says which handle is open at each place of the loop and
  `ServiceInv` which mode is in session; `LeaseIsKept` shows that each step is a
  step of `DeviceLease` or leaves it alone. `HandlesHaveSessions` joins the two with
  `RequestInv`, the promise of `SessionService` for the requests of both operators:
  at most one handle is open, a view's or a transmitter's belongs to a start that was
  accepted and no longer waits, a relay's is open only while neither is served. A
  failing session that returned to the loop before its close, or a close that kept
  the handle, breaks it.
- **Publisher.** `AnnouncedInv`: what a process says of TX and relay is at the broker or
  on its way, except before the places where `main()` announces it. `PresenceInv`: a
  live connection is shown, or about to be; without one a will is out or nobody is
  shown. `NewestInv`: the message in flight, or else the retained one, is the present
  state, unless an announcement has overtaken a change.
- **Capture.** `HandleHeld` says where the handle is at each place of the scan
  thread, and that it is being closed only while the reader is waited for.
  `ForeignInv` follows the one block of another session from the pull through the
  ring to the demodulator: it is in one of them, and there is no second.
- **Encoder.** `OrderInv` says that frames get newer on their way from what is shown
  over the freeze frame and the frame in hand to the end of the queue; the freeze
  frame may lag behind the frame in hand only until that is kept. `LabelInv` says
  that the stored label is the one called for, and the file's unless a thread is
  about to write.
- **Legacy.** `LateInv` needs `ProcsInv` (an ffmpeg runs only in its own session): a
  session told to stop keeps its event set until its ffmpeg is dead, so a writer
  that has let its one frame out finds the event, and later has nothing to write
  to. `FaultInv` says that whatever may become an error has a failed subprocess
  behind it until the teardown has taken its last look.
- **Sweep.** `PromptInv`: a capture is decided on while nobody waits. `StrictInv` and
  `LooseInv` carry what the two passes have behind them, so that at the end of a band
  the centres of the looser list are among those captured. The lists are any
  sequence `SetToSeqs` allows in the right order, and the lemmas about `SubSeq` say
  what the budget leaves of them.
- **Thresholds.** `StartInv` says what a process starts from, `ForceInv` that the
  settings in force are those asked for once the rest of the command in hand is laid
  over them, and those on disk unless a save failed or is to come, `ShownInv` the same of
  the topic. `OverlayLaws` is the algebra: of settings laid over each other.
- **Receiver.** `TuningIsClose` is arithmetic of `freq_to_register`, for every
  frequency above the IF. It is about the operator alone and is no property of a run;
  `RegistersTune` evaluates it for the channels of the run. `TopicIsTrue`: what is on
  the topic is what the register holds, except between the two writes.
- **Archive.** `ListInv`: the id set always is the set of the listed frames, without
  repetition. `FilesInv` says what the PNG files are at each place of an operation:
  one file more between its write and the push, and the index's frames while the
  server is down. `RemovalRemoves` and `AppendAdds` say what taking out of a list
  and appending to it do to its set.
- **Feed.** `RowsAreYoung`: a row is as young as the last payload of each scanner that
  claims it, so that a row that has expired is no current claim. `ReloadIsComplete`
  needs a second invariant, relative to the first: `BaselineInv` (while nothing is
  missed the baselines are what was logged, one per scanner) and `RowsAreTold` (the
  key of every row is in a retained payload, in the last logged one, or in a "gone"
  event, and not older there than on the page). A key that leaves the logged payloads
  is told by `Diff` (`DiffTellsWhatWent`), which rests on `SetToSeq` listing every
  element of a finite set (`SetToSeqIsSeq`).
- **Players.** `AttemptInv`: a busy entry has one call, an idle one none, and one of
  call, timer and player. `CountInv` bounds the superseded calls by the changes of the
  viewer, so that a new generation or connection differs from all that are alive;
  without it a late answer could be taken for one of the new generation.

**What stays with TLC.** Every liveness property, since liveness under fairness is
beyond the prover: `StopTakesEffect`, `SessionsEnd`, `StartsAreTaken`,
`SilentCaptureEnds`, `EncoderSettles`, `ThreadsEnd`, `TargetsVisited`,
`ExpiredFramesLeave`, `PresenceReturns`, `PlayerReturns`, and the fair part of
`KeepsPromise` and `KeepsLease`, of which `Refines` and `LeaseIsKept` prove the rest.
The loop of `find_candidates` is modelled as the set of its maximal runs (`Runs`), not by
recursion, so that nothing had to be left out for that.

## 5. Seen while modelling, without a run

- View: `set_command` sets the event after it has left the lock (line 53-54). When the
  scan thread takes the request and clears the event in between, the late event
  ends the session of its own start (line 77 says a stop flag of its own must not).
- TX: a retune sent while idle is kept (line 62 says it is ignored) and prolongs a
  later session; and each window computes a new deadline (line 133), so that one
  start may be on the air for `max_s` per retune. `WindowsArePaid` is what holds.
- Relay: a disarm between the check of `armed` (line 145) and the clear of the event
  (line 151), followed by an arm, leaves the session running on the old request.
  `AtMostOneLateBlock` is stated for the other disarms.
- Publisher: `loop_start()` precedes `self._client = client` (lines 78-79). If the
  first callback wins, `_publish` drops its announcements. TX and relay are
  announced again by `main()`; the view is not, so a stale active view of a crashed
  process may stay at the broker, contrary to `view_controller.py:67-68`.
  `NothingOutlives` is stated for what `main()` announces.
- Publisher: `announce()` and the relay's commands publish a `_last` read before a
  change, and store it again; `ShownIsDone` excludes those topics (`raced`).
- Encoder: the writer stores the freeze frame after taking it (lines 127, 134);
  `idle()` in between leaves the last picture of the session where the docstring
  promises black. The next session replaces it.
- Encoder: a respawn may overwrite a newer label with the one it read before
  (line 90); `LabelFollows` excludes it (`stale`) until the next change.
- Capture: "consecutive" recoveries (`stream_demod.py:446`) are counted over the whole
  session.
- Capture: libbladeRF's own buffers are outside the model, so that "one block" is one
  of the program's. `HackrfSource.tune` sets `_radio` before `start_rx`, so that a failed
  start leaves a source that looks open until the next reset.
- Legacy: the last error wins, and `JoinWriter` gives a clean end five seconds at most;
  what ffmpeg has not read by then is dropped (`stream_demod.py:342-344`).
- Sweep: a candidate deferred by the budget has its second chance in the looser pass
  only, and carriers beyond the allowance of the lowest ones have none in any cycle
  whose spectrum is the same; a carrier in its cooldown uses allowance up. A looser
  run with another centre than the strict one has its carrier captured twice. In a
  cycle in which every carrier is in its cooldown there is no hit, and the relay's
  pending request is cleared. A clock that is set back silences the emitter. A write of
  the state file may fail after the hits were handed over. The capture of a band
  is not interrupted: `AbortPrompt` counts captures, not seconds.
- Thresholds: every command writes all settings to the file, so that a later change of
  the environment has no effect until a reset; a default outside the range is
  clamped by the first save and restart. A sweep may read a mixture of two commands.
  The announcement of the main thread may overtake a newer one of the network
  thread (`raced`), and stays at the broker until the next command.
- RX5808: a list whose order keeps changing may keep a target from its turn. 5865 and
  5866 MHz share a register. A manual command with an unknown channel does switch the
  mode (`rx5808_controller.py:60`), although the docstring says it is ignored.
- Feed: a reload may give a row an older `last_seen` than it had, so that it leaves
  earlier. After a restart, an evicted baseline or a lost event the journal no longer
  tells what went; `ReloadKeepsRows` excludes that (`gap`).
- Players: a superseded call takes the `<video>` in `ontrack` and its close blanks it
  under the newer player. `whep.js:33` speaks of the opposite order only.
- Camera tiles: `closeTile` and `restartTile` forget a call that is still under way.
- Registry: the command line and the server edit one file; the later save wins.

## 6. Not modelled

- Demodulation and rendering (`video/frame.py`, `demod.py`, …), classification and the
  search for a picture: numerical functions of one block, without protocol. The models
  leave their outcome open wherever it is used.
- Configuration: read once at the start; constants here.
- Telemetry: `/proc` and `/sys` on a timer, in one thread.
- The TX command line: a render and a transmission without the controller.
- Registry and generated MediaMTX configuration: one server thread and a person at
  the command line; the one race is the lost edit above.
- Login, API and SSE: handlers without shared progress.
- Screens, installation, unit files, tests. What is assumed of systemd and the broker
  is marked external in `PROJECT.json`.
- `HackrfSource`: its callbacks run on a thread of libhackrf, of which the source shows
  too little to place them; `run_stream_source` above it is in `ViewCapture`.

Details per component are in `PROJECT.json`.

## 7. Plan

Done, in order of importance: controllers and their promise; the agent and the
lease; publisher; capture and encoder; archive; players; legacy engines; sweep,
thresholds and receiver; detection feed; the proofs of section 4, which state every
safety invariant of the passing runs.

Next:

1. To prove: an abstract specification of the archive (a set of frames with a
   bound) and of the publisher (the state of the newest process) with their
   refinements; for a label overtaken by a respawn, that the next change repairs it.
2. A composition of `ViewController` with `ViewCapture` and `ViewEncoder`, so that
   "what is shown is what is on the air" spans the three.
3. `Registry`: server memory, file and command line, and the generated configuration.
4. Camera tiles beside `ViewerPlayers`.
5. `HackrfSource`, once the callback contract of the driver is written down.
