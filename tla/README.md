# A verification of the BMCU firmware

TLA+ modules for the firmware in `src/src` of oh-my-bmcu, a filament buffer for
Bambu Lab printers: a CH32V203 that feeds four channels, answers the printer on
a serial bus, keeps what it must remember in its own flash, and drives four
motors.  The modules are written from the code; `PROJECT.json` names the lines
each definition stands for, the hazards at the lines where they bite, the runs
of TLC with their properties, and the theorems that TLAPS checks.

## 1. The system

One main loop (`main.cpp`), no operating system.  A pass polls the receive
ring, lets the AHUB and the BambuBus protocol take a frame, sends an answer,
queues at most one flash save, runs motor control, and lets the flash
background job take one step.  Interrupts only end transmissions and count
wraps of the receive ring.  The watchdog resets a pass that hangs.

| Component | State | Operations | Talks to |
|---|---|---|---|
| NVM journals (`Flash_saves.cpp`, `nvm_records.h`, `nvm_journal.h`) | the sector's pages, caches (`g_fil_*`, `g_sta_*`), one job, a sticky fault | read, write (queue), background step, recovery at boot | called by the saves; waits for the bus to be quiet |
| NVM pages (same file) | calibration in two slots, motor directions in one | read, write, clear, all blocking | calibration, motion control |
| Saves and loaded channel (`main.cpp`, `boot_restore.h`) | dirty flags, `g_loaded_ch`, pending restore | claim, set loaded/unloaded, save runs, boot restore | `set_motion`, motor control, the journals |
| BambuBus AMS protocol (`bambu_bus_ams.cpp`) | `ams[]`, hold timers, registration | motion, status, record, version, registration, heartbeat and online-detect frames | loaded channel, bus port, other units |
| AHUB protocol (`ahub_bus.cpp`) | `ams[]`, its own link, a reply that waits | heartbeat, query, set | bus port, saves |
| Bus port (`_bus_hardware.*`) | receive ring, parser, three receive and two transmit buffers | poll, parse a byte, release, send, interrupts | both protocols |
| Host link (`bus_link.h`, `host_link.h`, `main.cpp`) | last heartbeat and a latch per protocol, the host's protocol, the registration | heartbeat, poll, online detect, offline decision | bus port, motor control |
| Motion control (`Motion_control.cpp`, `motion_limits.h`) | position, motion and PWM of each motor, guards, latches | one run per pass; the test of directions at boot | AMS state, sensors, loaded channel |
| Jam latch, auto-unload (`jam_latch.h`, `auto_unload.h`) | a latch and its timed runs per channel | one pass each | motion control |
| Double-switch autoload (`dm_rearm.h`, `dm_stage2.h`) | loaded flag, excursions, a Stage-2 run | one pass each | motion control |
| Pull calibration (`Motion_control.cpp`, `mc_pull_*.h`) | the range of each buffer | measurement at boot, clear and load gestures | NVM pages, sensors |
| Sensors (`ADC_DMA.cpp`, `adc_stream.h`, `many_soft_AS5600.cpp`, `as5600_sample.h`) | halves and average of the ADC, tracker and health of each angle sensor | poll, restart | motion control |
| Watchdog and black box (`watchdog.cpp`, `blackbox.h`) | a record in the backup registers | boot, phase, pass, trap | everything |
| LEDs, clock, debug log, CRC | | not modelled | |

What is hard here:

* power can fail at any flash operation, also while recovering from the last failure;
* a save takes many passes, and what it saves can change meanwhile;
* the printer's commands come in any order, for any channel, while a motor
  still carries out an earlier one, and switches open under a person's hand;
* two images of the firmware (restore at boot, or at the printer's first
  reference) must differ only in what they show before that reference;
* the link, the readings and the bus can stop at any time; counters wrap;
* limits of time and distance are kept over interruptions, stale readings and
  changes of motion by several guards that each keep a clock of their own;
* hardware goes on between two steps of the code: the receive ring fills, the
  ADC completes a half, an interrupt starts the next transmission.

For each component, what makes it correct:

* journals: a power cut leaves the old or the new value; nothing programs a used
  slot; caches and flash agree; every job ends and every marked record is saved;
* pages: a record changes as a whole, and the pages agree with what runs on them;
* loaded channel: one answer to "which channel is loaded" in RAM, on the bus and
  in flash, whatever the order of commands, retractions and power cuts;
* protocols: of several units one answers; a host's packet is taken whole or not
  at all, and the answer tells which;
* bus port: no frame that lost nothing is assembled from two, none is overwritten
  while it is read, the transmitter always ends; a lost link stays lost until a heartbeat;
* motion: no motor runs for ever, on stale readings, offline, or into a jam
  nobody cleared; the autoload pushes a filament once; no wrong direction is kept;
* calibration: a lever at rest reads as one, and only a press that was held clears;
* sensors: no reading is an average of nothing, corrupted angles cost little;
* black box: what the next boot reads is true of one run.

## 2. The modules

```
NvStore            what a store promises: the last or the new value survives
  ^ refined by FilamentDurable, LoadedDurable
FlashSaves         the journals          FlashSavesStore  refinement, liveness
CalibrationStore   the pages: boot, measurement's result, directions, clear

AmsState           the AMS in RAM, a handler is an operator on it
LoadedChannel      main loop x printer x switches x retractions x NvStore
AhubHost           extends it by the host's packets, replies and heartbeats
BootRestoreImages  the two images side by side: extends LoadedChannel by another one
FilamentInfo       filament records x saves x NvStore

PacketQueue        what the bus port promises: a queue of two frames
  ^ refined by QueueOfTwo
BusReceiver        line x ring x parser x buffers x transmitter x interrupts
RingCounter        how many bytes the DMA has written, read while it goes on
HostLink           heartbeats x clock that wraps x main loop x registration
UnitDiscovery      several units x lossy line x printer's discovery

MotionLimits       the guards, as operators
  JamLatch, AutoUnload      operators     ChannelPass  a pass of one channel
  PullBack         an unload and its redetect
  DmAutoload       the autoload of a channel with two switches
  PushControl      the pushes of send, use and idle with their limits
DirectionTest      the test of the motors' directions at boot
Calibration        the measurement of the buffers
BufferGestures     what a hand at the buffers may ask for
AngleTrack, AdcStream     the sensors
BlackBox           the record kept over resets
```

`LoadedChannel` and `FilamentInfo` use the journals through `NvStore`, and
`FlashSaves` is shown to implement `NvStore`: that is how the layers compose
without multiplying their states.  Proofs are in modules of their own:

| Proofs | about |
|---|---|
| `FlashSavesProofs` | `FlashSaves`, `FlashSavesStore` |
| `LoadedChannelProofs` | `LoadedChannel`, `BootRestoreImages` |
| `SupervisionProofs` | `HostLink`, `UnitDiscovery`, `RingCounter`, `BlackBox` |
| `BusProofs` | `BusReceiver`, `PacketQueue` |
| `ChannelProofs` | `ChannelPass`, `JamLatch`, `AutoUnload` |
| `MotionProofs` | `PullBack`, `PushControl`, `MotionLimits` |
| `CalibrationProofs` | `CalibrationStore`, `DirectionTest`, `BufferGestures` |
| `IntervalLemmas` | greatest elements, remainders |

### FlashSaves

A record slot is `Erased`, a complete record, or `Torn` (programmed, and no
record): a record's magic is its last halfword, so a slot is `Torn` until that
one is in.  The page numbers are those of `Flash_saves.h`.

* `Flash_AMS_filament_write` and `Flash_AMS_state_write` answer TRUE when the
  cache equals the value and no job runs, and queue a job otherwise; a rollover
  is four jobs in a row (`BackgroundRollPage`, `BackgroundRollScratch`).
* `Flash_background_run` starts one page erase or one halfword, looks at its
  result, and moves the job on.  `bus_background_ready()` is a free choice.
* A power cut or a fault in an operation leaves any outcome the hardware can
  produce (`TornErase`, `TornProgram`), an erase of a log page also a mix of old,
  erased and garbage slots.  `MaxStaTears` bounds how many log erases are torn in
  a behaviour; see section 4.
* `Boot`, `RecoverErase`, `RecoverProgram`, `RecoverRetire` are
  `Flash_saves_init` and its recovery from the scratch page, and a power cut may
  hit each of their operations.
* `StaNewest` is the newest log record as a set; `StaScanLoop` is the code's
  one-pass loop.  The assumption `ScanAssumption` of `MCFlashSaves`, which TLC
  evaluates, says that the two are equal on every log.

### CalibrationStore

The calibration alternates between two pages, the newer told by a number that
wraps; the directions have one.  A page is an erase, then its words, the first one
last.  `Boot`, the writes after a measurement and after the direction test, and the
two clears of the gesture are cut into these steps, and power and flash errors come
between any two.

### AmsState and LoadedChannel

The AMS state is one record and a handler an operator from state to state,
because `set_motion` calls `ams_state_set_unloaded`, which calls
`boot_restore_on_unloaded`, in the middle of its own assignments.
`LoadedChannel` runs them in the order of the main loop: a command ("bus"), a
save ("nvm"), motor control ("motion"), then the next pass.  Field by field:
`num` is `now_filament_num`, `useFlag` `filament_use_flag`, `held`
`time_sendout_onuse_ticks[] # 0`, `loaded` `g_loaded_ch`, `flashPending`
`g_loaded_flash_pending`, `dirty`/`value` `g_state_dirty`/`g_state_write_value`,
`restore` `g_boot_restore.ch`; `blank` is `g_sta_have_saved = 0`.

The 15 s hold of `on_use` is the flag `held` and a free choice `late`, which
covers every timing and the wrap of the 32-bit tick count.  The feed pressure
and what only feeds it are left out.  Of the motors the model keeps a pull back
and its redetect, since while any channel retracts no command reaches any motor.
`Calibrated` channels can pull back; on the others a pull back ends at once.

### AhubHost

Around the loop of `LoadedChannel`: packets at an address, a reply that waits for
the line, and the end of the restore at the first heartbeat.  A set packet is a list
of entries, each for a channel and good or bad.  The host sets motions and the
active channel itself and `set_motion` never runs.

### BootRestoreImages

`ram` is the default image (`BMCU_BOOT_RESTORE_LOADED` 1), `off` the other, an
instance of `LoadedChannel` on that state.  Each step is a step of both under the
same command, switch readings, end of retractions, save and power cut; `taken` says
that the printer has referenced the restored channel since the boot.  Where the run
`loaded` looks at one image, the other is its copy.

### FilamentInfo

Records are abstract; `Terminate` is what `flashinfo_to_ram` does to a name that
fills all its 20 bytes, which an AHUB host can send.  `taken` stands for the
loaded-channel log, which asks for the flash job first in every pass.

### BusReceiver and RingCounter

A byte is its frame and its offset.  The line appends to `ring` the bytes that
arrive while we do not transmit; the main loop (`pc`) snapshots how many there are
(`PollSnapshot`, `left`), consumes them one by one or a heartbeat at a time
(`Irq...`, `FastBeat`), gives up a frame the line has left open (`StallReset`),
hands a packet over and builds an answer (`TakePacket`), and starts it (`Send`).
Bytes, the end of a transmission and faults come between any two of these steps.
A header is two bytes here, start and the rest; a header that was not sent as one
may turn out to be anything the code accepts or refuses, and a payload byte may
look like a start byte.

The heartbeats' fast path (_bus_hardware.cpp:145) looks at the ring before the parser
does, and at four bytes only, not at `receiving()` nor at the CRC8.  A heartbeat whose
header is at the front and whose bytes are all there is skipped (`FastBeat`).  Any other
bytes, those of an open frame's payload too, may look like one (`FalseBeat`): the code
skips as many bytes as their third one says and leaves the parser where it is, so an open
frame loses its middle and goes on with the bytes of later ones.  `spoiled` is the ghost
that remembers which frames lost bytes, on the line or in this way.  `mark` is `rx_tx_mark`, counted in unread bytes.

How many bytes there are is `rx_produced()`, which is `RingCounter`: it combines the
DMA's counter, its flag of a completed round and the interrupt's count, read one after
the other while bytes come.  Of the hardware it assumes that the flag is set with the
counter's zero or its reload, and that the interrupt is served within a round (18 ms).

Taken as given: the drain is faster than the line between two of its overflow checks;
bytes that only look like a header state a length no greater than the longest frame's.

### HostLink and UnitDiscovery

The tick of the last heartbeat is kept as its distance to now, modulo the range
of the counter.  Heartbeats come at any time (`HeartbeatSeen`), time passes
(`Tick`), and `BambuPass` and `AhubPass` are what a pass of the main loop does
with them; `silence` is the real silence, which only the properties and the
ghosts use.  The host speaks one of the two protocols (`speaks`).  `AmsAuto` is
the image with the AUTO slot.  A packet `good` carries our own identity.

`UnitDiscovery` has the other end: several units with a token each and perhaps the
same prefix, a printer that probes, confirms and gives numbers (external), frames
that are lost or dealt with after the printer has given up, and restarts.  `stray`
are the units that missed an arrange command and still hold an old number.

### ChannelPass, with JamLatch and AutoUnload

One pass of one channel in the order of `Motion_control_run` and `motor_motion_run`:
`Latched` (key, jam latch), `Commanded` (the printer or the BMCU's own retraction),
the auto-unload, `Driven` (the motor control).  `FreshPass`, `BadSensorPass` and
`StalePass` are the three ways a pass goes.  The PWM is a class, chosen freely
among those the control can produce for the buffer's level; thresholds keep their
order, and `seen` remembers what the properties need of earlier passes.  The channel
is inserted and calibrated; the pass right after boot, without time, is left out.

### PullBack, DmAutoload, PushControl

Each has the part of the pass it is about, against a gear that turns, slips or is
blocked, keys that flicker and readings that go stale.

* `PullBack`: pull back and redetect with their target, empty key and limits, and the
  order in which they are looked at when several hold on one pass.
* `DmAutoload`: the watch of the key (`dm_rearm`), Stage-1, Stage-2 with its
  interruptions, a failure and its retract, and what auto-unload and printer do to
  them.  A hand does not push forward during a retract; `net` leaves Stage-1 out.
* `PushControl`: the guard of a load, the hold at its end, the anti-stall and the limit
  at full force of a channel in use, the idle push with its brake.  The gear turns only
  when driven; of the PID and the PWM ramp only the bands are kept.

### DirectionTest, Calibration, BufferGestures

* `DirectionTest`: all tested channels in the same steps of 10 ms, a gear that turns
  only when driven, without coasting, and reads that may be lost or corrupted.
* `Calibration`: one loop per step of the measurement with its limits, readings in mV,
  and what a stored range makes of a reading.
* `BufferGestures`: a hand, the switches and the stream of readings go their own way from
  tick to tick and a pass sees the last readings.  The steps of a clear in flash are in
  `CalibrationStore`; here it is done or fails.

### AngleTrack, AdcStream, BlackBox

* `AngleTrack`: angles relative to the tracker's, true, lost or corrupted, polls late.
* `AdcStream`: the DMA completes halves between any two steps of a poll, transfer errors
  stop it, and the passes restart it.  The filter's reset, the double buffer of the
  average and its generation are left out; the boot has found the stream alive.
* `BlackBox`: every 16-bit store is a step, and a reset of any kind may follow it.  A check
  word stands for the words it checks; the boot itself does not trap or hang.

## 3. The runs

A run is one suite: a behaviour of it is a behaviour of one of its parts (the
variable `part` or the initial state says which), the others at rest.  Its properties
are conjunctions of the named parts in the modules.

| Run | What it has | Properties |
|---|---|---|
| `flash` | 2 channels with 2 slots of 2 halfwords, a log of 2 pages with 2 slots, power cuts, faults and torn erases; the filament records | `JobsAreSafe`, `FilCachesMatchFlash`, `FilamentDurable`, `LoadedDurable`, `RecordsAreSaved` |
| `loaded` | 2 channels, one calibrated, either image, and both side by side | `OneChannelAtATime`, `LogIsTrue`, `ImagesAgree`, `NothingWaits` |
| `bus` | 3 frames of 3 or 4 bytes, a ring of 5; one fault, or two frames that lose bytes on the line or to a false heartbeat | `FramesAreWhole`, `AnswersAreWhole`, `QueueOfTwo`, `AlwaysReadyAgain` |
| `supervision` | the link of either image; the ring's counters; the black box | `MotorsFollowTheLink`, `RegisteredInThisLink`, `RingIsTrue`, `RecordIsTrue` |
| `ahub` | 2 channels, set packets of up to 2 entries | `HostStatesStand`, `AnswerTellsTheTruth`, `PacketsGo` |
| `units` | 2 units, 2 numbers, an arrange command, a restart, either image | `OneUnitAnswers`, `UnitsFound` |
| `channel` | a channel under every command; its auto-unload; an unload with its redetect | `JamIsTrue`, `BrakesHold`, `UnloadNeedsItsOwnLift`, `UnloadsAreBounded`, `UnloadsEndTrue` |
| `dm` | a parked filament; a run that is interrupted; a blocked gear | `StaysParked`, `RunsAreBounded`, `RunsEnd` |
| `push` | a load; a channel in use; a parked one | `LoadKeepsItsLimit`, `PushesEnd` |
| `calibration` | measurement, pages, directions, gestures | `PagesAgree`, `CalibrationIsAtomic`, `DirectionIsRight`, `MeasuredWell`, `LoadGestureIsTrue`, `ClearsArePresses` |
| `sensors` | an angle sensor; the ADC stream | `AnglesAreTrue`, `StreamIsTrue` |
| `push_held` | a parked channel while another one retracts | `BrakeEndsAsDocumented`, which is violated: section 7 |

Each property of a passing run is listed with a mutant: a plausible bug of one mapped
definition under which that run finds the property violated.

What the less obvious properties say:

* `JobsAreSafe`: nothing programs a slot that is not erased, and the log, which
  finds its next slot by looking ahead and erases a page when all slots are used,
  never erases the page of its newest record.
* `FilamentDurable`, `LoadedDurable`: the journals implement `NvStore`; a cut at any
  operation leaves the old value or the new one, and an acknowledgement means stored.
* `RecordsAreSaved`: jobs end; a record without a mark is the one in flash, or would be
  after a reboot cut its name, whatever was set while a job was under way; and a
  marked one that settles is saved.
* `LogIsTrue`: what the log holds once the pending save is done is the loaded channel,
  or none while the channel is only claimed; a channel in `on_use` that is still the
  loaded one is saved or being saved, so a print can resume after a power cut.
* `ImagesAgree`: test/test_boot_restore says that option 0, "from the printer's first
  reference on", reports the same state command by command as option 1.  Here it
  holds for every interleaving with switches, retractions and saves.
* `FramesAreWhole`: of a frame that lost nothing, on the line or to a false heartbeat,
  the parser has taken the beginning, up to where our own answer cut it, and nothing is
  added to it afterwards, also next to frames that are damaged; a heartbeat of the
  printer's that counts was received to its last byte, and the fast path takes no
  beginning of an undamaged frame for something else.  It promises nothing of a frame the
  fast path took bytes of: such a frame is joined to later bytes, which section 7 says,
  and as with what the line damages, the checksums must find it.
* `QueueOfTwo`: what the handlers get through `bus_recv_data_ptr` is a FIFO of two,
  so no buffer is written while it waits.
* `MotorsFollowTheLink`: after each pass the motors may run exactly if the last
  heartbeat is at most the timeout old by real time, not by the counter.
* `OneUnitAnswers`: no request is answered twice, unless a unit missed the printer's
  arrange command (section 7).
* `HostStatesStand`: once an AHUB host was heard, nothing the unit knows from before
  its boot changes what the host set.
* `JamIsTrue`: the latch trips exactly when fresh readings have shown the buffer low for
  the whole trip time, and what the printer commands never hides a jam whose buffer
  was not read back up.
* `BrakesHold`: a jammed channel is not pushed by any control, and a push that used up
  its time stays braked while the printer goes on commanding `on_use`, whatever stale
  spells and retractions of other channels come between.
* `UnloadNeedsItsOwnLift`: the lift that releases a jam also arms an auto-unload;
  letting go must not start it.
* `UnloadsEndTrue`: an unload drives no longer than its time and never on into a blocked
  gear; it ends for what was really read (one empty publication is read again on many
  passes), and the fault is shown exactly if filament may be left.
* `UnloadsAreBounded`: an auto-unload drives no longer than its limits, and every unload
  ends.
* `StaysParked`: a parked filament counts as inserted only when it was seen to leave,
  and a failed autoload is not tried again.
* `RunsAreBounded`: Stage-2 pushes no more than its length over all interruptions.
* `LoadKeepsItsLimit`: a load has one limit over all its stages, and the hold at its
  end is not taken for a stall, unless the gear jittered without getting anywhere or
  stood before the hold began.
* `CalibrationIsAtomic`, `PagesAgree`: what a boot reads changes with the word that
  completes a record, and is what the firmware runs on.
* `DirectionIsRight`: whatever one corrupted read says, a direction that is kept is the
  motor's; a free gear is found.
* `MeasuredWell`: a lever at rest reads as one under every range that is saved.
* `RecordIsTrue`: a reset between any two stores leaves no trap of an older run to be
  blamed on the new one, and no pass longer than it was.

## 4. Bounds, and why they are enough

Every bound is a constant of its module or of the MC module.  The theorems of section 6
have none.

* Two channels: the rules distinguish "this channel", "the active one", "the
  loaded one" and "the restored one"; two channels give every pattern of equality
  that the conditions test two at a time.
* Two slots per page and two halfwords per record give: an empty, a half full and
  a full page, and a record that is neither erased nor complete.  Two log pages: the
  page of the newest record and another one, and a slot in the middle of each.
* `SeqMod` and torn erases.  A torn erase lets an old record live for one more
  round of the log, and the comparison is right while all live numbers lie within
  half of `SeqMod`.  The firmware has 256 slots against a half range of 2^15, so it
  would take more than 127 torn erases in successive rounds; the model has 4 slots
  and one torn erase, for which 14 is enough and 12 is not.  That is a property of the
  small instance; `MaxStaTears` names the bound.  Torn erases are combined with two
  values of the log only, and three values are used without them, so a record older than
  the last one is told from the one being written.
* `CalibrationStore`: sequence numbers modulo 4, the least range in which newer and
  older differ; two buffers.
* Bus: three frames, one whose answer cuts the second, and a third that must not be
  joined to it; or two that wait and a third that finds the queue full; or a false
  heartbeat in one frame that reaches into the next, while the third is joined to the
  first.  A ring
  of five bytes fills with little more than one frame unread.  `RingCounter`: a ring of 4,
  three rounds, an interrupt each half.
* `HostLink`: a counter of 16 ticks wraps several times in a silence; the timeout and a
  pass together stay within half its range, as 1 s and a pass do within 2^31 ticks.
* `UnitDiscovery`: one frame waits at each unit, one arrange command and one restart: a
  confirm that is late, one for the other unit, and one for an earlier self.
* Motors: times are 1 to 6 ticks and distances 1 to 3 counts of a gear of 4 to 16, kept in
  the order of the code's (a stall before a time limit, a half turn above every
  distance); a tick between passes may be longer than `StepMax`, the gap that the guards
  leave out.  `PushControl` counts in 50 or 100 ms so that its rests, kicks and limits keep
  their ratios.
* `Levels`, `Hands`, `Readings`: one value on each side of every threshold that the part
  compares with.
* `DirectionTest`: half a turn is 6 counts, one corrupted read.  The assumption
  `Detect + (MaxBad + 1) * Speed + Quarter < Half` holds in the code with room (163,
  below 200 a step, 41, 2048).
* `BufferGestures`: each of the two gestures has an instance with its own times, in the
  order of the code's.
* `AngleTrack`: half a turn 32, 2 counts a ms, one gap between polls, two corrupted reads.
  At 1 count a ms the gear turns 9 of 32 while a baseline is kept (`RoomAssumption`).
  `AdcStream`: an average of two halves, one for the liveness.  `BlackBox`: passes of 2, one
  phase and one cause, two resets.

## 5. Fairness

* `FlashSavesStore!FairSpec`: the flash operation ends, and the background job's
  step is taken when the main loop comes round.  `bus_background_ready()` gates the
  job between operations; the bus has quiet gaps, since the printer polls.
* `LoadedChannel!FairSpec`: weak fairness for the pass (the main loop never
  blocks), strong fairness for `Save`, as the bus is quiet again and again but not
  for ever, and for the end of retractions: a pull back and a redetect have limits
  for distance, time and stall (`motion_limits.h`), evaluated on every pass with
  the link up; strong, since the link may be lost and found.
* `FilamentInfo!FairSpec`: strong for `Save`, as the log may take the job in
  between; weak for the log's job, which ends by `JobEnds`.
* `BusReceiver!FairSpec`: the main loop goes on, a transmission ends (its deadline
  sees to that), the polls between two passes are finitely many, and a quiet line
  is found quiet, since the 200 us pass.  The printer may stop anywhere.
* `AhubHost`: boot, passes, saves and motor control are taken, and a reply's
  transmission ends.
* `UnitDiscovery`: weak for each unit's pass and transmission; strong for the line: an
  answer is heard, a probe and a confirm reach the unit again and again.  Without it
  the line may lose every frame, and nobody is found.
* `PullBack`, `DmAutoload`: weak for the passes, strong for passes no longer than `StepMax`
  (a gap clears the stall window and adds nothing to a budget, so passes that are
  always late would never end anything; the watchdog and the main loop see that
  they are not).
* `Calibration`: the loop goes on; its own limits end it.
* `BufferGestures`: ticks, passes and the end of a clear; strong for a pass that would clear
  to find the flash idle, since jobs end.
* `AdcStream`: the hardware's tick, the pass and its steps; strong that a restart works again
  and again.  A peripheral that stays dead keeps the motors braked, which is
  `DrivesOnRecent`.

The antecedents matter.  `NothingWaits` and `RecordsAreSaved` assume that
power stays on and that the value settles: a record changed for ever, faster
than a flash job, is never the one in flash.  `stuck` (`g_flash_fault`) is the
honest exception: after a verify failure the firmware stops writing until a boot.

## 6. Proofs

TLAPS checks every theorem below for every value of the constants, under the
assumptions named; TLC evaluates those assumptions in the runs.  The pattern is the
same throughout: what a run checks is not inductive, so an invariant says what the
states between two calls rely on; TLC has checked it on the run's instance; each
action (or each step of a handler) has a lemma of what it may change, and the
invariant follows from those.

### The journals (`FlashSavesProofs`)

Under `GeometryAssumption` and `ValueAssumption`:

* `Invariance`: `Spec => []IInv`.  To see that a rollover is safe one must know, at
  each of its jobs, which page holds the intact copy.  `IInv` says it stage by stage
  (`AppendSafe`, `CopySafe`, `RewriteSafe`, `RetireSafe`, `RecoverySafe`), that no
  scratch copy outlives its rollover (`NoStrayScratch`), that the caches of channels
  without a job are what a scan finds (`OthersScanned`), and that the log's
  acknowledged record is out of the reach of its job (`LogSafe`).
* `TypeCorrect`, `ErasedFirst`, `NewestKept`, `SafeJobs` and `FilCachesMatch` follow.
* `FilamentStore`: `Spec => FilamentDurable`, that the filament journals implement
  `NvStore`: each flash operation leaves the stored records alone or is the commit,
  the acknowledgement is the store's, a cut is the store's crash.

`IntervalLemmas` has what these and the ring of the bus port need of greatest
elements, quotients and remainders.

### The calibration (`CalibrationProofs`)

* The store, under `StoreAssumption` (a sequence number wraps at any even
  `SeqRange` of at least 4): `StoreInvariance`, `StoreTyped`, `PagesAlwaysAgree`,
  `AtomicAlways`.  `StoreInv` says that two readable slots have neighbouring
  numbers (`InOrder`), that a job writes the spare slot, with the number that follows
  (`JobFits`), and that the motors run on what a boot would read (`ValidIsStored`,
  `ResetIsWhole`, `DirsFollow`).
* The direction test, under `DirectionAssumption`: `DirectionsAreRight`.
  `DirectionInv` relates the sum of the readings to the way the motor has really
  turned: the sum counts the motor's way, but for what the corrupted reads that are
  still allowed for can have added.
* The gestures, under `GestureAssumption`: `PretencesEnd`, `LoadsFollowPresses`,
  `LoadGestureTrue`.  `PretenceInv` bounds how long a filament is pretended to be there;
  by `PressInv` the last press was read no longer ago than the gesture has lasted.
* The gesture that clears, under the same assumption: `ClearsAreHeld`.  By `HeldInv` a
  hold is as long as its history; while the last readings show the press, it has been
  loose no longer than they are old; a loose spell no readings can have hidden is still
  going on, and no pass can complete the hold in it.  So what clears was kept up for the
  whole hold, but for spells as short as old readings and one gap between them.

### The loaded channel (`LoadedChannelProofs`)

For every number of channels and every set of calibrated ones, under
`ChannelAssumption`, `CalibratedAssumption` and `NoPendingAssumption`:

* `OnlyActiveMoves`, `LoadedMeansActive` and `RestoreIsShown`, together
  `OneAtATime`; `LogFollowsLoaded` and `PrintingSavedAlways`, together
  `LogIsTrueAlways`.
* Handlers are operators from an AMS state to the next one, so each has one lemma
  that it preserves `Coherent` (what the fields of a state say of each other) and
  `Follows` (what they say of the log).  Some do so only once the printer has taken
  the restored channel over: `ReferencedKeeps` says when it has, and
  `MovingMeansTaken` and `TakenIsActive` what follows from it.
* The invariant adds what the interleaving needs: a write under way leaves the
  state marked for a save (`MarkedWhilePending`), which is why a late
  acknowledgement of an older value does no harm; a retraction starts only after
  the restore is over (`RetractsTaken`); nothing is loaded before the boot.

### Both images (`LoadedChannelProofs`)

`ImagesAlwaysAgree`, for any number of channels and calibrated ones.  It is a
statement about two runs of one program, so its invariant `ImagesInv` is a relation
between two states: either the restore still waits in the default image, and the
images differ in the loaded channel it shows and in nothing a power cut would leave
(`Waits`), or they are equal but for the use flag when no channel is active (`Twins`).
Each handler has a lemma that it keeps the pair; an unload and the printer's first
reference to the channel turn the one kind of pair into the other.  That no retraction
starts while the restore waits is taken from the invariant of `LoadedChannel`.

### Supervision (`SupervisionProofs`)

The link, for every timeout, pass length and counter range with `LinkAssumption`:
`MotorsStop`, `NeverStaleRegistration`, `LinkTypeCorrect`.  The invariant says that
the counter tells the real silence as long as it matters (`Tells`): for a heartbeat
not yet read, and for a link found alive at the last pass; everything older is
latched as lost.

* `OneAnswer`, for any number of units and numbers: a number that a unit holds was given
  by the printer to it alone, whatever waits in its inbox or is about to be answered
  (the frames of one port keep their order, so a late confirm is dealt with before a
  newer one), unless it missed the command to forget it.
* `RingAlwaysTrue`, for every size of the ring and range of its positions: the DMA's
  counter, flag and interrupt count, read one after the other, give a position the DMA
  really was at meanwhile.  The flag can only rise while the interrupt is masked, and a
  sample whose flag rose in between is taken again.
* `RecordAlwaysTrue`, for every width of the registers: a record's magic is cleared
  before its words change and written after them, and a trap is written once in a run,
  over a check word found empty; so whichever store the reset follows, what checks is of
  one run.

### The bus port (`BusProofs`)

For every length of frames and of the ring and every number of faults, under
`BusAssumption`:

* `AnswersWholeAlways`: from `PortInv`.  The bytes still to be dealt with (those of
  the queued frames, of the open frame and of the ring) are in the order they were
  sent, none of them begins a frame up to the last answered one, and the third
  receive buffer is the parser's alone.
* `QueueRefined`: the three buffers, two indices and the pointer implement the queue
  of two frames of `PacketQueue`.
* `FramesWholeAlways`: from `WholeInv`, which is `PortInv` with `CutInv` and
  `HeadInv`: counted from any byte in the ring with no cut between, the k-th byte
  after it is the k-th of its frame, unless that frame lost a byte (`spoiled`) or is
  over.  This is what lets a parser that knows nothing but a length be right about
  frames, and it is why a restart of the reception has to reset the parser.  Bytes the
  fast path takes for a heartbeat, wherever it does, belong to frames that are `spoiled`
  from then on; `~MarkInside` keeps it from reaching over the mark of our transmission.

### A channel (`ChannelProofs`)

For all thresholds, times and readings, under `JamAssumption`,
`AutoUnloadAssumption`, `LimitsAssumption` and `PassAssumption`:

* `JamIsAlwaysTrue`, `BrakesAlwaysHold`, `UnloadsAreLifted`.
* A pass is three steps, `Latched`, `Commanded` and `Driven`, and has a lemma for
  each: what the step may change of the latch, the brake and the lift.
* `ChannelInv`: the latch's run is exactly what fresh readings have shown
  (`JamInv`); a tangle reported means a jam whose buffer has not risen
  (`TangleInv`); what a motion says of the position and the jam (`MotionFits`); a
  push that used up its time stays braked in `on_use` (`SpentInv`); an armed lift
  began below the neutral band after the last jam (`LiftInv`).

### An unload, a load, the pushes and the angle sensor (`MotionProofs`)

`UnloadsTrue`, for all times, lengths, gaps and turns of the gear, under `PullAssumption`
and `LimitsAssumption`.  The property counts what the gear and the clock have really
done: the time driven, how long the gear was driven hard without getting farther than
`StallMove` from where it stood, how far the filament went, the new publications.  By
`PullInv` the guard's own fields tell the same as long as the motor is driven, and have
not reached a limit; `CheckTells` says what one check makes of each field and
`ResultTells` what its answer means of the histories.  An offline pass drives nothing and
looks at no limit, so the fields may stand still while the histories begin again.

`LoadsKeepTheirLimit`, for all limits, times, levels and turns of the gear, under
`InputsAssumption`, `PushAssumption` and `LoadAssumption`.  The last has what the code
relies on: passes shorter than what the anti-stall's rest leaves of the stall window
(200 ms of 1000), a gear that does not turn half its range in a pass, and a hold that
pushes as hard as a stall only 2 % or more below its target, where the anti-stall
counts.  A pass is two halves with lemmas of their own: what it is prepared with (time,
the printer's command, the motion that runs out; `Prepares`, `Befores`) and what the
control then does (`Runs`, `SendTells`, `DriveTells`); `Leaves` names what a control
does not touch.  `LoadInv` says:

* the position the guard counts from is how far the load has gone, modulo the range of
  the sensor; a load is less than its limit and one turn long, which is less than the
  range minus the limit, so a wrap hides no part of it;
* a motor that is still on has not gone too far, and one that was stopped stays off;
* in a hold that pushes hard, whose gear neither jittered nor stood before, the guard has
  counted no more stalled time than the anti-stall, which rests first.

`IdlePushesHold`, under these and `IdleAssumption` (the limit is a positive number): the
push of a parked channel keeps `IdlePushIsBounded` and `EdgeBrakeHolds`.  The histories
count the time the motor was really on, and how long the gear has not got farther than
`StallMove` from where it stood.  `IdleInv` has three cases: the channel does not push
(`Calm`); it pushes, and the guard knows how long the motor has been on but for one
`StepMax` for each pass with stale readings, and how long the gear has not got anywhere
(`Pushes`); or the push hit a limit, and the motor stays off until the buffer is up,
far down after a brake at the edge, or the printer moves the channel (`Braked`).

`UsePushesEnd`, under these and `UseAssumption` (a longest pass, shorter than
`StallRestMs`; a band of `on_use` that begins above 50 %): `PushEnds`.  Below 50 % the
control asks for full force, kick or not (`FarBelow`), so each pass adds to the count of
full force, shortens a rest or begins one.  A rest begins in
the pass that takes the anti-stall's count beyond `StallRestMs`; the passes before it
pushed for at least `StallRestMs - Longest`.
`UseInv` keeps that account (`Owed`): with n rests so far, the time tried is at most the
push counted and the time of n rests, and the push they followed, n times
`StallRestMs - Longest`, is within the push counted and what the anti-stall has still to
count.  The count ends below `PushMaxMs`, so n is bounded, and with it the time.

`AnglesAlwaysTrue`, for all thresholds, gaps and numbers of corrupted reads, under
`AngleAssumption` and `RoomAssumption`: while a baseline is kept, the gear turns less
than half a turn.  A baseline is kept for nine polls at most, so at the 10 counts a ms
the firmware commands that leaves room for polls 22 ms apart.  `AngleInv` says what the
odometer lacks (`Lacks`): the turn `d` since the last accepted read, less an error `e`
made before.

* With a true baseline the angle is `d` modulo a turn, and `e` is two units per corrupted
  read at most, a unit being the largest step believed and the motion of the longest
  time without a baseline.
* A baseline that may be wrong has cost a unit less so far: the next true angle, believed
  or made the new baseline, can cost one more.

From a true baseline a true angle is always believed and costs nothing, as `d` is the
shortest way to it (`ShortWay`).  Jumps in a row come between failed reads in a row, so
the polls since the last accepted read are at most `FailTrip` per jump and the failures
since (`PollsCounted`), which bounds the time and with it the unit.

### What is only model-checked

* What rests on induction over data or on folds: that the log implements the store
  (`LoadedDurable`) with its scan loop, `AverageIsOfRecent`, `HostStatesStand` and
  `AnswerTellsTheTruth` of `AhubHost`.
* `RunsAreBounded` speaks about several instances of a module, with time settings of
  their own; `UnloadsAreBounded` too, and its second half is liveness.
* `StaysParked`, `MeasuredWell`, `StreamIsTrue` and the records of `FilamentInfo`.
* `PushesEnd` speaks about two instances of `PushControl`; what it says of each,
  `IdlePushIsBounded`, `EdgeBrakeHolds` and `PushEnds`, is proved of the module.
* Of `ClearsArePresses` what must happen (a press kept up does clear) is liveness; that
  only a kept-up press clears is proved.
* Liveness, all of it: out of the prover's reach.

## 7. What the models show that is not obvious

* **A braked push can begin again.**  docs/oh-my-bmcu/README.md:35 lists what ends
  the brake of an idle push that stalled or took too long.  An unload of another
  channel ends it too: during the unload `motor_motion_switch` is skipped for every
  channel (Motion_control.cpp:2748), an ordinary unload outlasts the second for
  which line 2414 commands the idle control, `run()` lets it run out (lines
  1175-1189), and the change back from stop to idle resets the push.  The run
  `push_held` shows it.
* The use flag does not follow the motion.  A retraction of channel i that ends
  after the printer put channel j in use sets `filament_use_flag` to 0
  (Motion_control.cpp:2384); until the printer's next command j is in use with flag
  0, and an idle poll in between unloads it.  No text claims otherwise.
* A `pull_back` commanded while the switches already read empty has no motor to
  end it: the motion stays `pull_back` until the printer's next command.  So
  `RetractionEnds` speaks about the position, not the motion.
* After a fault in a flash operation, caches and flash may differ until the next
  boot; every write is refused meanwhile.
* The directions have one page and no spare: a power cut while they are saved loses
  all of them, and they are measured again.  So `CalibrationIsAtomic` promises old or
  new of the calibration only, and `PagesAgree` that directions that are known are
  the ones in flash.
* With double microswitches the gesture's window is armed again 2 s after it ran
  out (Motion_control.cpp:654), so a press held longer can still load;
  docs/oh-my-bmcu/hardware-test-plan.md:413 expects that it does not.
* A first round of the double-microswitch autoload inside an interrupted run may
  push beyond the length of the second stage, so `RunsAreBounded` bounds the pushes of
  the second stage, and the time against a gear that does not turn.
* Each corrupted angle that is taken for a baseline can cost distance for good, and
  twice: when it is taken and when a true one is believed again.  Each time it is the
  largest step believed since the last one, which is half a turn at polls slower than
  about 1.5 ms with failed reads between.  `AnglesAreTrue` bounds the loss by twice that
  and the motion meanwhile; with more corrupted reads in a row than TLC has here, a
  bound of one step each would be false.
* The heartbeats' fast path can fire inside a frame's payload, which
  docs/oh-my-bmcu/README.md:154 names as an open defect.  `FalseBeat` is that case: the
  frame that is open loses bytes and the parser fills it up with those of the next one,
  whose head is gone with it, and `bambubus_heartbeat_seen_fast()` counts a heartbeat
  nobody sent.  What holds, and `FramesAreWhole` says, is that frames which lost no byte
  are parsed whole or not at all; `AlwaysReadyAgain` holds with false heartbeats too.
* Half a buffer of samples that completes in the poll that finds a transfer error is
  stamped as fresh and its samples are dropped.
* A unit that misses an arrange command keeps its number, and may share it with one
  that heard it: `OneUnitAnswers` counts the units that missed none.  A
  request for serial numbers of up to 33 data bytes carries no number: every
  registered unit would answer it.
* A load that holds is no stall only with passes shorter than the rest of the stall
  window (200 ms).
* What a gesture changed and nobody saved yet is lost at a restart.

## 8. Not modelled, and what comes next

The components not modelled, with the reasons, are in `PROJECT.json`.  Left out
of those that are modelled:

* the contents of replies; of the AHUB, the address of the slot that is chosen
  automatically, and the dryer's fields;
* PID arithmetic, PWM ramps, the feed pressure, LEDs, register set-up, the
  bit-banged I2C, the set-up of the ADC, checksums as such, the watchdog's budgets
  in milliseconds;
* what nothing calls: `Flash_AMS_filament_clear`, `Flash_NVM_full_clear`,
  `Motion_control_save_dm_key_none_thresholds`, `ams_datas_set_need_to_save`.
