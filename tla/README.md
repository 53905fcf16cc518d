# A verification project for the RF pen and its dongle

The repository is the firmware of a 2.4 GHz presenter pen, of the USB dongle it works with,
and of the other products built from the same SDK (Telink, `hamster_sdk_v5.4/tlsdk`): a
keyboard, the remote control of a vacuum cleaner with its receiver, and a Bluetooth library.
Paths below are relative to `src/hamster_sdk_v5.4/tlsdk`.

All of it is C on bare hardware: one main loop per device, interrupts that preempt it at any
instruction, shared globals, a radio that loses packets, and sleep modes that forget the RAM.

## Inventory

| Component | Files | State | Operations | Hard behaviour |
|---|---|---|---|---|
| Link layer, dongle | `vendor/link_layer/rf_ll.c`, `rf_ll.h` | channel mask, selected channel, hold, packet counters, hopping mode | slot timer, receive and transmit interrupts | hops while answers are lost |
| Link layer, pen | `rf_ll.c` | channel, mask of the last answer, sync, misses | `device_send_packet`, `irq_device_rx`, `ll_add_clock_time` | late answers, retries, unsynchronised clocks |
| Pen: frames | `vendor/mouse/mouse_rf.c`, `.h`, `mouse.c` | queue of 8 frames, sequence number, budget, misses, mode | `mouse_rf_prepare`, `mouse_rf_process`, `mouse_task_when_rf` | task runs in the middle of a transmission; restarts |
| Pen: buttons | `vendor/mouse/mouse_button.c` | scan counters | `rc_button_process_and_mapping` | chords, long press against release |
| Pen: power | `vendor/common/device_power.c`, `mouse.c` | sleep mode and its counters | `mouse_power_saving_process`, `device_sleep_wakeup` | must sleep, and not over a frame |
| Pen, keyboard: LED | `vendor/common/device_led.c`, `kb_led.c` | the pattern shown | `device_led_setup`, `device_led_process` | keeps the device awake |
| Dongle: packets | `vendor/dongle/dongle.c` | answer types, last sequence numbers | `rf_rx_response`, three callbacks | runs in the radio interrupt |
| Dongle: pairing | `dongle.c`, `vendor/dongle/dongle_custom.c` | ids in RAM, write-once records, windows | `callback_pairing`, `set_device_id_in_firmware`, `custom_init`, host commands | failed writes, power loss, competing devices |
| Dongle: keyboard reports | `proj/app/usbkb.c` | classes not released, last data | report in the interrupt, release in the main loop | preemption, busy endpoints |
| Dongle: mouse reports | `proj/app/usbmouse.c` | ring of frames | add in the interrupt, report in the main loop | ring shared without a lock |
| Dongle: wake-up of the host | `vendor/dongle/dongle_suspend.c` | `resume_host_flg`, suspend flag | request in the interrupt, resume in the main loop | the computer resumes by itself meanwhile |
| USB driver | `proj/drivers/usb.c`, `usbdesc.c` | connection, transfer under way | reset, suspend, control transfers | requests given up half way |
| Keyboard | `vendor/keyboard_remington/kb.c`, `kb_rf.c`, `kb_pm.c` | ring of matrices, ring of reports, lock, mode, misses | main loop, frames, pairing, sleep | stalled radio, rings full, deep sleep |
| Key matrix | `proj/drivers/keyboard.c` | last scans, scan window | scan, ghost keys, debouncing | keys that change during a scan |
| Vacuum controller | `vendor/vacuum_controller/*` | debounced buttons, report, mode | `button_detect_proc`, `vc_rf_proc`, `vc_pm_proc` | two buttons in every order, reports dropped |
| Vacuum receiver | `vendor/vacuum_receiver/vacuum_receiver.c` | ring of events, release counter | interrupt, `uart_tx_proc`, release, suspend | interrupt between any two steps |
| Bluetooth library | `proj_lib/blt_ll/blt_ll.c`, `blt_att.c` | fifo, sn and nesn, channel map, commands that wait | `blt_brx`, attribute requests | loss both ways, agreed instants |
| Utilities | `proj/common/mmem.c`, `list.c`, `ringbuffer.h` | blocks, list; ring | allocate, free; insert, remove | memory that moves; two threads |

How they interact: the pen's main loop calls the link layer, which waits for the radio
interrupt; the dongle's radio interrupt calls `rf_rx_response`, sends the answer, then calls
the callback, which changes the pairing state, writes USB reports or asks for a wake-up of
the computer; the dongle's main loop sends releases and mouse reports and serves the host.
Timer interrupt, radio interrupt and main loop share globals without locks.  The keyboard
takes the pen's place on the same link; the vacuum products are another pair on it.

Correctness: pen and dongle never lose the last shared channel unnoticed; frames arrive in
order and at most once; the release of a key arrives; the dongle remembers every key the host
believes is down and releases it; a pairing survives restarts as it was, and a working dongle
is not re-paired; every device left alone goes to sleep and loses nothing by it; what a queue
takes comes out, in order.  The hazards, each at its line and with the properties that would
catch it going wrong, are listed in `PROJECT.json`.

## Modules

| Module | Models | Composes |
|---|---|---|
| `HostLink` | the dongle's half of `rf_ll.c` | – |
| `RadioLink` | the device's half, the radio between them, restarts | extends `HostLink` |
| `OrderedStream` | abstract: frames are passed on in order, each at most once | – |
| `PenDelivery` | `mouse_rf.c`, the pass of `mouse.c`, the duplicate check of `callback_keyboard`; sleep, power loss, replugging | implements `OrderedStream` |
| `PenButton` | `rc_button_process_and_mapping` | – |
| `PenPower` | `mouse_sync_process`, `mouse_power_saving_process`, the sleep machine of `device_power.c` | – |
| `DeviceLed` | `device_led.c`, which `kb_led.c` repeats | – |
| `MouseRing` | `usbmouse.c`: ring between interrupt and main loop | implements `OrderedStream` |
| `UsbKb` | `usbkb.c` and the endpoint it shares with the mouse; interrupt, main loop, host, suspend, reset | – |
| `DonglePairing` | `callback_pairing`, `dongle_custom.c`, host commands; restarts of dongle and devices | – |
| `RemoteWakeup` | `dongle_suspend.c`, `usb_handle_irq`'s suspend flag, the callbacks' requests | – |
| `UsbControl` | control transfers that read descriptors, and the host that gives them up | – |
| `Keyboard` | `kb.c`, `kb_rf.c` and the buffers of `keyboard.c`: from matrix to host, with lock and id frames | – |
| `KeyboardPower` | `kb_rf.c`, `kb_pm.c`, `kb_info.c`: pairing, link state, sleep, battery and LED | – |
| `KeyMatrix` | scan, ghost keys and debouncing of `keyboard.c`, over switches without diodes | – |
| `VacuumController` | the controller from its buttons to what the receiver takes | – |
| `VacuumReceiver` | the receiver from the radio interrupt to the wire | – |
| `ReliableQueue` | abstract: what is put in comes out once, in order, nothing left out | – |
| `BltLink` | `blt_brx`, `blt_brx_sn_nesn`, the fifo, commands with an instant; master external | implements `ReliableQueue` twice, once each way |
| `BltAtt` | `l2cap_att_handler` as a client discovers services, characteristics and handles | – |
| `RingBuffer` | `ringbuffer.h`, two threads | implements `ReliableQueue` |
| `ManagedMemory` | `mmem.c` with the list of `list.c` | – |
| `RadioLinkProofs`, `UsbKbProofs`, `PenDeliveryProofs`, `DonglePairingProofs` | theorems | extend the module they name, and TLAPS |
| `MouseProofs` | theorems about `PenButton` and `MouseRing` | extends `MCMouse` |
| `SleepProofs` | theorems about `KeyboardPower`, `PenPower` and `DeviceLed` | extends these |
| `LivePartsProofs` | theorems about `UsbControl`, `VacuumController`, `BltLink`, `RemoteWakeup`, and all of `MCLiveParts` | extends `MCLiveParts` and `SleepProofs` |
| `PartsProofs` | theorems about `RingBuffer`, `ManagedMemory`, `KeyMatrix`, `Keyboard`, `VacuumReceiver`, `BltAtt`, and all of `MCParts` | extends `MCParts` and `DonglePairingProofs` |
| `MCRadioLink`, `MCDonglePairing` | values for TLC | extend the modules they name |
| `MCMouse`, `MCParts`, `MCLiveParts` | several independent modules in one run | extend those modules |

State variables and actions carry the names of the code's globals and functions wherever
there is one.  Where interrupts can come between two accesses a function is several actions,
one per access: `BM_CLR` in `UsbKb` is `ReleaseLoad` and `ReleaseStore`; a removal in
`RingBuffer` checks the count, moves the pointer, then counts; the main loop of
`RemoteWakeup` has a step for each look at a flag the interrupt writes, and one for its
clearing; the counters of `VacuumReceiver`, which the interrupt clears, are counted up in a step
that reads (`VrTop`, `VrCount`) and one that writes (`VrTick`, `VrCounted`).  A function that runs
inside an interrupt and is not preempted is one action, and so is a pass of a main loop where
no interrupt shares its state (`Keyboard`, `KeyboardPower`, `PenPower`, `VacuumController`).
History variables, which no guard of the code's actions reads, are marked as such where they
are declared.  `PROJECT.json` gives the source lines of every definition.

Where the modules meet: `PenButton`'s `map_value` is the key or no key that
`mouse_task_when_rf` of `PenDelivery` chooses freely; `HostHears` of `PenDelivery` is one
exchange of `RadioLink`; when the pen may go to deep sleep, which `PenDelivery` assumes, is
what `PpNothingLost` of `PenPower` shows; the frames that arrive are the interrupts of
`UsbKb`, `MouseRing` and `RemoteWakeup`; `DonglePairing` decides whether the dongle takes the
packets at all; `KeyMatrix` makes the matrices that `Keyboard` queues, and `KeyboardPower`
has its sleep.  Each module lets the input from its neighbours be anything the neighbour can
do, so no product of them is needed for the properties below.

The three `MC...` modules with a variable `part` are sums, not products: a behaviour chooses
one part, only its actions are taken, and the others stay in (one of) their initial states.
A state of the sum is a state of one part, so an invariant of a part holds in the sum just if
it holds in the part, and the refinements and liveness properties are asked of the same
behaviours a run of the part alone would have.

## Runs

| Run | Question | Bounds |
|---|---|---|
| `link` | Do pen and dongle keep a shared channel; does a pen that is not answered end up searching? | threshold 2 packets, difference 1, hold 1 slot, the radio's retry 1, sync 1 and search 2 misses; normal and slow hopping |
| `delivery` | Do frames arrive in order and once; is a key released? | queue 4, sequence numbers modulo 3, 2 misses, debounce 2, 8 frames |
| `delivery_skip` | Does the dongle skip only packets it had? (no) | queue 2, 16 sequence numbers, 6 frames |
| `usbkb` | Is every key down at the host remembered and in the end released? | one key per class, 3 frames or host events |
| `usbkb_stuck` | Does the timeout always release? (no) | 2 events |
| `mouse` | Does every press of a button give one key; does the ring shared without a lock keep order and the newest frame, and release the button? | threshold 3 passes, all readings of three buttons; ring 4, 2 frames a packet, 5 frames, 1 other event |
| `buttons_long` | Is a long press 120 passes long? (no) | threshold 3 |
| `pairing_ok` | Is the device bound when the host is told so? (no) | a pen, a keyboard, a mouse; 2 records, 2 restarts, all modes |
| `pairing_ask` | Does the dongle bind to the device that answers the request for its id? (no) | the same |
| `keyboard_id` | Are the frames that carry the id rejected as the comment says? (no) | reports of up to three keys |
| `parts` | Pairing through restarts and failed writes; the keyboard's buffers and lock; the key matrix; the vacuum receiver; managed memory; the ring buffer; attribute discovery | pairing as above; ring 2, buffer 4, window 6; 2 × 2 keys; ring 4; 3 bytes, 3 blocks; 3 bytes, 8 insertions; tables of two or three services, types of values of 2 and of 16 bytes |
| `live_parts` | LED; sleep of keyboard, controller and pen; wake-up of the computer; control transfers; a Bluetooth connection: do they come to an end, and lose nothing? | thresholds of 1 to 6 passes in the order of the code's values, the receiver's patience 4; fifo 2, instants modulo 4, two maps |

What the passing runs show, property by property.

- `link`: `SharedChannel` - a pen that trusts its mask has a channel in common with the
  dongle, whatever was lost; `SearchesWhenDeaf` - one that is not answered searches.
- `delivery`: `QueueHoldsLatest`, `AckedWasPassedOn` (what is acknowledged was passed on, but
  for restarts and full turns of lost numbers), `BudgetLasts` (of the two counters that limit
  the retransmissions the right one acts), `InOrderOnce` (refinement), `KeyIsReleased`.
- `usbkb`: `Remembered`, `KeysReleased`.
- `mouse`: `NewestSurvives`, `InOrderOnce` (refinement), `ButtonReleased`; `OneKeyPerPress`,
  `OneLongPress`.
- `parts`: `Durable` (a restart finds the ids the dongle worked with), `WorkingStays` (a
  dongle at work is not re-bound); `KbFlushed` (no key is left in the buffers when the
  scan stops), `KbLocks` (one toggle a press, no key down while locked); `KmSettled` and
  `KmNoPhantom` (what the matrix reports is what is down, as far as it can be told);
  `VrRingIsQueue`, `VrReleaseLast`; `MmKeeps` (every block keeps its bytes as they move);
  `RbInOrder` (refinement); `AttDiscovered` (no handle is skipped; a client that meets a
  16-byte type has what came before it).
- `live_parts`: `LedShown`; `SleepTakesNothing` and `DevicesRest` (each device goes to sleep,
  not over what waits, and asks for its dongle as long as it should); `VcSettled` and
  `VcBalanced` (the receiver follows the buttons, with presses and releases in turn, and its
  own release comes into play in an outage or deep sleep only);
  `UcExact` and `HostServed` (the bytes asked for, an answer to every request, a key wakes
  the computer); `RwNoSpuriousWake` (nothing else does, but for a flag left over);
  `BltInOrder` (refinement, both
  ways), `BltArrives`, `BltMapFollows` (both ends change the map in the same event).

Properties with an exception (`KmSettled`, `VcSettled`, `VcBalanced`, `VrReleaseLast`,
`UcExact`, `RwNoSpuriousWake`, `AttDiscovered`, `AckedWasPassedOn`, `BltMapFollows`,
`KbFlushed`, `KbLocks`) name it in the formula:
the comment there says what the code does instead, and the hazard in `PROJECT.json` has the
line.

Why these bounds are enough.  *Link*: what matters is the order of the thresholds, and the
order of the code's values is kept; the theorems cover all others.  Slow hopping is reached;
that mouse packets bring the normal mode back is left to the theorems.  *Delivery*: four slots overflow and
both pointers wrap; three sequence numbers make a full turn of lost numbers happen, which 256
would hide; the code's limit of 255 misses and its budget of three times as many keep their
ratio.  *Keyboard reports*: three events are a key, a second frame or reset while the first
is being released, and one more; the theorem covers any number.  *Mouse ring*: four slots and
five frames fill the ring, overflow it and go on; the main loop meets at most one interrupt
per pass (packets are at least 1 ms apart, a pass over this code takes microseconds).
*Pairing*: two records are one to spoil and one to use, two restarts load a record, use it
and load it again.  *Keyboard*: rings of two and four overflow, reports are merged
and the oldest dropped; the window of six passes is the code's; a frame is given up after three
tries, so that this happens; repetitions and the forgetting of the status keep their order.
*Matrix*: two rows and columns are the smallest with a ghost key, which needs three keys; four fingers press all.  *Receiver*: the ring is full with three events.
*Controller*: the receiver's patience (4 passes) is longer than a repetition takes (1, and two
more until it is out), as 50 passes of 10 ms are, so that only lost frames
end it, or power and down held together.
*Memory*: three blocks of nought to two bytes, in every order.  *Sleep*: every threshold is
smaller than in the code, in an order that lets each be the one that ends the wait.
*Bluetooth*: four values of the event counter wrap between a command and its instant.

Deadlock is checked in every run but `parts`, where a discovery comes to its end and the
insertions into the ring buffer are bounded; no other part of it stops.

## Fairness

Safety runs assume none.  The liveness properties assume what the hardware gives:

- `RadioLink`: the pen's loop goes on and every wait in it ends (timeouts of
  `device_send_packet`), and the pen has something to send again and again (strong fairness of
  `BeginSend`).  Nothing is assumed of the radio: packets and answers may be lost for ever.
- `PenDelivery`: the pen's loop goes on; a frame sent again and again is heard and answered
  at some point (strong fairness of `Hears`).  The property exempts frames the pen gives up.
- `UsbKb`, `MouseRing`: interrupts end, the main loop runs, time passes, the host polls and
  neither suspends nor stays away for ever.  `KeysReleased` assumes in the formula that the
  mouse pauses: mouse reports come first in `usb_data_report_proc`.
- `DeviceLed`, `KeyboardPower`, `VacuumController`, `PenPower`: the main loop runs, nothing
  else.  That a button is let go at some point is a hypothesis of the formulas.
- `RemoteWakeup`: the main loop runs, the timer ends the sleep, and a computer that is
  resumed wakes up.  One assumption on time is in the model itself (`RwHostSleeps`): a computer
  that woke during a pass of the main loop does not suspend again before the flag is cleared in
  the same pass, for only 3 ms of an idle bus are a suspend.
- `UsbControl`: the main loop serves the flags and the host goes on with its transfer; that
  it does not give up for ever is part of the formula.
- `BltLink`: the device goes on listening and advertising; a packet and its answer get through
  now and then (strong fairness), or the connection is lost, which the formula allows.

## Proofs

TLAPS checks the following for every value of the constants the named assumptions allow.

`RadioLinkProofs`: `TypeOK`, `SharedChannel`, and two action properties that no run checks,
`HopDiscipline` and `Alternates`.  `SharedChannel` is not inductive: it says that *some*
channel is shared and must survive a hop.  The strengthening `IInv` says which one.
`TunedInv`: the entries of the mask differ and the radio is where the selection says.
`NearInv`: the pen's mask has the entry the next hop will spare (`Kept`); the other entry it
has too, or that entry has too few packets for a hop to spare it instead.  `DevInv`: the pen
sends on a channel of its mask, but for the rest of a call in which a late answer gave it a
new mask.  `AckInv`: an answer in flight is at most one hop old.

`UsbKbProofs`: `TypeOK` and `Remembered`, for every set of keys and any number of frames and
events.  `OwnInv` is the strengthening: between its test, its write and its load the main loop
finds what it found before, unless an interrupt came.

`MouseProofs`, buttons: `PbTypeOK`, `OneKeyPerPress`, `OneLongPress`.  The strengthening ties
the code's counters to the time the button was down, and keeps the counter of a button that
had its long press at the threshold or beyond.

`MouseProofs`, ring: `NewestSurvives` and the refinement of `OrderedStream`, for any size above
2 and packets of any length.  `Held`: the frames between the pointers are numbered without a
gap up to the newest.  `Order` says what the main loop's old look at the read pointer is worth
at each of its steps: the frame it is at is the oldest in the ring, or, if the interrupt has
overflowed the ring in this pass (`Overrun`), the one before it; and then the ring is full, so
that storing the pointer again loses no frame but that one.  `MouseTypeOK` covers both.

`PenDeliveryProofs`: `TypeOK`, `QueueHoldsLatest`, `BudgetLasts`, `AckedWasPassedOn` and the
refinement of `OrderedStream`, for any queue size, sequence range and limit.  `Budget`: what
is left of a frame's budget and the misses add up to more than the limit on misses, by one
more while nothing is on the air - so the limit acts first.  `InStep`: as long as nothing
restarted, the pen's number is the dongle's plus the frames lost, modulo the range.  `Held`:
the frames between the pointers, which run modulo twice the size, are numbered without a gap
up to the newest; `FramesCount` and `PlaceMod` take the `%` out of it first.  `Order`: what
waits in the queue is newer than what was passed on, and so is the frame being sent whenever
the dongle would take it; every step is then one of `OrderedStream` or a stutter.

`DonglePairingProofs`: `TypeOK`, `WorkingStays`, `Durable`, for any set of devices and any
number of records and restarts.  `Asking`: an id is asked for only while the type has none -
without it the callbacks could re-bind a dongle at work.  `Recorded`: as long as no record went
wrong, they are written in order, blank from `custom_binding_idx` on, and the last one of each
type is the device in RAM, which is what `custom_init` looks for.  That a set of numbers has a
least element comes from `WellFoundedInduction`.

`SleepProofs`: `LedShown`; that the keyboard does not go to deep sleep over a report
(`KpNothingLost`), the pen not over a frame or a held button (`PpNothingLost`), and that waiting
for the keys to be let go ends in deep sleep (`KpWaitDeepEnds`), which no run checks by itself.
`LedCounts` relates the flashes left to the time since the pattern began.  `KpWaits` and
`KpQuiet`: who waits has lost its dongle, and the passes counted in basic sleep are no more than
those without an answer, so that the host's status is forgotten in time.  `PpKnows`: a pen that
knows no dongle asks in every pass, but for the one in which it wakes.

`LivePartsProofs`, one part after the other:

- `UsbControl`: `UcExact`, for any descriptors, packet size and lengths.  `UcPhases` says of a
  request that nothing was mixed into where the bytes are in each of its phases: unread, in the
  fifo, asked for, or all at the host.
- `VacuumController`: `VcSettled` and `VcBalanced`, for any thresholds.  `VcAgrees`: the receiver
  shows what was told, but for the frame under way, whose events fit what it shows, and waits for
  a release just while it shows a key.  The receiver releases by itself whatever the controller
  does (`VrTimeout`); what it takes is that no frame is heard for half a second with a key held.
  `VcPatient` shows that repetitions prevent it: it has counted no more passes than the
  controller since its last frame (`VcCounted`).  What remains is excepted in `Spoils`: all
  frames of that time were lost, or power and down were held, which do not repeat.  The key is
  then released, and a repetition only sets `not_release_flg` (`KeptDown`).  Assumed is
  `VR_TIMEOUT` > `VC_REPEAT` + 2.  `VcStillInv`
  counts from the last change: the samples agree, then the filter has them (`VC_DEBOUNCE`), then
  a repetition makes good what was dropped (`VC_REPEAT`); `VcStill` is assumed to leave time for
  both, without which `VcSettled` would ask too early.
- `BltLink`: the bound of the fifo, both refinements of `ReliableQueue`, and `BltMapFollows`.
  `BltInv` reads the two bits: the master's nesn differs from what the device heard last just
  when it has taken the answer, its sn just when its packet is new.  `BltMapWaits`: a command
  that is to come is the master's, one that came waits with the master's map and instant;
  `BltMapsMeet`: only in the event of the instant is the device a map behind.  An instant is
  assumed at least two events ahead, as a master has to choose it.
- `RemoteWakeup`: `RwTypeOK`, `RwNoSpuriousWake`.  `RwFlagExplained` says where a flag that is
  set comes from: a key in this sleep, or one before the computer last woke, for whatever
  reason, that the main loop has not looked at since (`rw_stale`).
- `MCLiveParts`: `LiveTypeOK` and `SleepTakesNothing`, from the invariants of all parts.

`PartsProofs`:

- `RingBuffer`: `RbTypeOK` and the refinement of `ReliableQueue`, for any size.  `RbCounted` says
  what the count means while both threads are under way: the pointers are ahead of it by what
  was moved and not yet counted, and neither gets more than it was promised.
- `ManagedMemory`: `MmKeeps`, for any memory and blocks.  `MmLaid`: the blocks lie one behind the
  other in the order of the list, up to the top, so that what moves is what lies behind.
  `MmPackedHolds`, which no run checks: no byte is lost to a gap, and all memory is available
  again when the last block is freed.
- `KeyMatrix`: `KmSettled` and `KmNoPhantom`, for any rows, columns and fingers.  The lemmas about
  `Wired` show what a scan during which no key changes reads: rows that are connected read the
  same, others share no column; ghost removal then leaves just the keys that can be told from
  others.  `KmReads` follows the two matrices the debouncing compares through the scan window,
  `KmStays` through two scans without a change.  The window is assumed to be 3 or more: after a
  release two more scans are needed to forget a key.
- `Keyboard`: `KbTypeOK`, `KbLocks` and `KbFlushed`, whatever keys there are.  `KbTold`: the
  dongle has what the frame says, will have it, or it was given up; `KbToggled`: a toggle stays
  in the count of keys until all are up.  For `KbFlushed` the passes after the last key is up
  are counted.  `KbCleared` says what the scan still holds in each of them; `KbRecent`, that
  the newest thing queued then is an empty report; `KbShallow`, that what is queued in front of
  it is no more than the stalls and the passes left allow; `KbDrained`, that the buffers are
  read down to it before the scan stops; `KbTried`, that as long as stalls are few no frame
  was given up.  Assumed is what makes the code's values work: more tries, and as long
  between repetitions, as the window allows stalls, and a buffer that holds a window's reports.
  `KbMergeKeeps`, which no run checks: merging keeps every report whole, in its place, with
  nothing added, and joins no press to one behind a release.
- `VacuumReceiver`: `VrTypeOK`, `VrRingIsQueue`, `VrReleaseLast`.  `VrRingInv`: each event that
  waits is in its place.  `VrDrains`: the passes since the last frame and the events that wait
  are together less than the ring, so the ring is empty when a release is made up, and that is
  before the suspend (`VrPassed`); hence the assumption that the release threshold is not smaller
  than the ring nor the suspend threshold than the release's.
- `BltAtt`: `AttTypeOK` and `AttDiscovered`, for any table of a master (`IsAttTable`), however
  its answers are cut.  `AttInv`: what was told so far is, in order and complete, what the table
  has before the handle the next request begins at, each handle one whose answer the client can
  take apart (`AttReads`).  The length field of an answer is that of the declaration's type, what
  is copied that of the value's: with a 16-byte type the client gets lost, and the theorem says
  what it has by then; and a service that begins at the last handle is missing (`AttUnseen`).
  `AttAdvances`, which no run checks: every request begins behind the one before, or it is the
  last, because there is nothing more or a 16-byte type ahead.
- `MCParts`: `PartsTypeOK`, from the invariants of all parts.

Merging reports and cutting an answer run through data, and the induction theorems of the
library take an operator, which the provers here cannot instantiate.  `UpTo` and `LoopExists`
do the induction with a set instead: the numbers for which a claim fails have a least one
(`WellFoundedInduction`), and there the claim is shown from the one before.  `Merged` and
`AttAnswer` are written as recursive functions for this.

The assumptions on constants are those of the modules; the code's values (window 6, ring 16,
thresholds 50 and 1000, as the comments at the constants have them) satisfy them.

Model-checked only.  Liveness (`SearchesWhenDeaf`, `KeyIsReleased`, `KeysReleased`,
`ButtonReleased`, `DevicesRest`, `HostServed`, `BltArrives`): fairness and `ENABLED` are
beyond the prover.  `KbNoGarbage` and the other claims of the next section do not hold.

## What the runs refute

Six statements of the repository do not hold; `PROJECT.json` quotes them.

1. `usbkb_stuck`: an interrupt between load and store of `BM_CLR` (`usbkb.c:87`) loses the bit
   it set; the key stays down after the timeout.
2. `delivery_skip`: "skip same packet" (`dongle.c:380`) skips a new one when the pen has lost
   power and its sequence numbers meet the dongle's.
3. `pairing_ok`: "For binding OK" is reported though the record failed (`dongle.c:289`).
4. `pairing_ask`: the pen writes its id behind the four bytes the dongle reads
   (`mouse_rf.c:130`, `dongle.c:366`); an automatic dongle binds to 0.
5. `buttons_long`: a press after a chord counts the passes of an older one
   (`mouse_button.c:256`); a long press may take less than 1440 ms.
6. `keyboard_id`: the id overwrites the later keys of a report the dongle has not had yet
   (`kb_rf.c:415`), and is then not rejected.

Met while modelling, without a property of their own because nothing says what should hold: a
key pressed again before its release went out is swallowed (`usbkb.c:273`); a key report that
finds the endpoint busy is lost (`usbkb.c:203`); after a timeout release the mouse's
debouncing presses the button once more (`usbmouse.c:97`); the second test of `btn_prev ==
RC_ONLY_LEFT_VALUE` is unreachable, so the pen's button sequence for pairing never takes
effect (`mouse_button.c:206`); a pairing record whose id went wrong is loaded at the next
start (`dongle_custom.c:165`); `cavy_rssi_pair` is read uninitialised (`dongle.c:251`);
`resume_host_flg` outlives the sleep it was meant for (`dongle_suspend.c:45`), which
`RwNoSpuriousWake` excepts; a key the vacuum receiver has released in an outage is not pressed
again by the repetitions that follow (`vacuum_receiver.c:302`), which `Spoils` excepts; a full ring of
the vacuum receiver looks empty (`vacuum_receiver.c:204`); a switch that bounces to the end of
the scan window stays pressed (`keyboard.c:844`); a service that begins at the last handle is
not discovered (`blt_att.c:210`, `AttUnseen`); an answer about characteristics with 16-byte UUIDs is longer
than the room checked and than its length field says, because check and length take the size
of the declaration's UUID and the copy that of the value's (`blt_att.c:301`, `:311`, `:331`),
so that a client cannot take it apart (`AttLong`);
a request that comes while the last one's answer is due is
answered from its second chunk (`usb.c:735`).

## Not modelled

- **Register level** (`proj/mcu_spec`, `proj/drivers` but for `usb.c` and `keyboard.c`, the
  radio tables, GPIO, analog I/O, startup code): reads and writes of hardware registers whose
  effect is the chip's, not this code's.  The largest part of the repository is of this kind -
  register headers alone are some ten thousand lines - with the USB descriptors and the
  fixed-content tables beside it.  They have no state to check, so the map stays well below a third of the
  repository's lines.
- **EMI and test modes, sniffers, audio, customer configuration**: they replace the products'
  operation, record it, are switched off in every build, or read constants once.
- **Code that no product builds**: the confirmed and manual pairing and the factory reset of
  the vacuum products (`USE_CURRENT_VERSION_1P6` is 0), `rc_button_process`, the frame ring of
  `usbkb_report_frame`, which nothing fills.
- **Bluetooth**: advertising data, CRC and whitening, reads and writes of values.  The master
  and the client are external, as the code expects them to behave.
- **Data**: the content of frames beyond "a key, or none", smoothing, radio timing inside a
  slot, USB class requests that only store a value the host sends, the voltage of a battery.

After an access outside `btn_cnt` the button model claims nothing.

## Plan

Done: the link, delivery, reports, pairing, buttons and the wake-up of the dongle; sleep and
LED of the pen; the keyboard from its matrix to sleep; the vacuum products as built; the
Bluetooth connection and discovery; memory and ring buffer; and the proofs above.  What is
left: `DongleReports`, that is `UsbKb` and `MouseRing` on one endpoint, to replace the free
input each has from the other; abstract specification: the things down at the host, each
remembered until released.
