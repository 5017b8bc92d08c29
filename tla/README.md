# TLA+ models of the LRF serial engine and the Flipper input and dolphin services

This directory holds TLA+ models of three parts of the repository, with the
TLC configurations that check them:
- the rangefinder serial protocol engine in
  `src/applications/external/noptel_lrf_sampler/lrf_serial_comm.c`, which
  `spec.md` describes;
- the input service, `src/applications/services/input/input.c`;
- the dolphin service, `src/applications/services/dolphin/dolphin.c`.

The other sources (an NFC scene and three headers) are listed under
"Inventory" and in `PROJECT.json`.

## Inventory

### The LRF serial engine (`lrf_serial_comm.c`)

| Part | Code | State | Operations |
|---|---|---|---|
| Interrupt producer | `on_uart_irq_callback` (130-138) | `rx_stream` (bounded stream of `RX_BUF_SIZE` bytes), the worker's thread flags | A received byte is sent to the stream with timeout 0, so it is dropped when the stream is full. Then the `rx_done` flag is set. |
| Receive worker | `uart_rx_thread` (172-667) | `rx_buf`, `last_rx_tstamp_ms`, `now_ms`, endianness probe result | Wait for `stop` or `rx_done`. Receive one batch of up to `RX_BUF_SIZE` bytes. If the receive gap was at least `uart_rx_timeout`, reset the frame. Decode every byte. On `stop`, free the stream and exit. |
| Frame decoder | byte loop of `uart_rx_thread` (236-658) | `dec_buf[0..nb_dec_buf-1]`, `wait_nb_dec_buf`, `lrf_diag`, `last_update_diag_handler` | Sync byte, opcode, accumulation (clamped at `dec_buf_size-1`), diagnostic progress callbacks, diagnostic length resolution, checksum check, then decoding and dispatch of a measurement (0xcc, 22 bytes), an identification (0xc0, 73 bytes) or diagnostic data (0xdc, variable length). |
| Buffer manager | `enable_shared_storage_dec_buf` (115-127) | `dec_buf`, `dec_buf_size`, `nb_dec_buf` | Select the 128-byte default buffer or the shared storage, and reset the fill. |
| Callback registry | `set_*_handler` (96-111) | three (handler, context) pairs | Register or clear a handler. |
| Command encoder | `send_lrf_command` (674-753), tables 23-35 | UART transmit | Send the prebuilt array of one of twelve commands. |
| Lifecycle | `lrf_serial_comm_app_init` (756-814), `lrf_serial_comm_app_free` (818-840) | async rx enabled, thread running | Init sets the default buffer, starts the worker, then enables rx. Free stops rx, sets `stop`, joins, then frees. |

How the parts interact: the interrupt is the only producer of the stream. The
worker is its only consumer and the only caller of the handlers. The buffer
manager and the callback registry are called from the application's thread
with no lock, while the worker runs. Commands are sent from the application's
thread and do not touch the receive state.

What makes this code hard:
- The stream can fill up and drop bytes.
- The interrupt races the worker's wait and receive.
- The tick counter wraps.
- The receive-gap timeout is measured between batches.
- The overflow clamp interacts with the awaited length.
- The diagnostic length is computed from a header in unsigned arithmetic.
- Multi-byte fields are assembled in an order that depends on host endianness.
- Shutdown must be ordered.
- The buffer switch and handler registration race the worker.

### Other sources

- `services/input/input.c` (see "The input service" below).
- `services/dolphin/dolphin.c` (see "The dolphin service" below).
- `nfc_magic_scene_write_fail.c` has three scene handlers that build a widget
  and go back on Retry or Back.
- `clock.h`, `desktop_i.h` and `furi_hal_usb.h` contain declarations only.

## Modules

| Module | Models | State (VARIABLES) and actions |
|---|---|---|
| `LRFCodec` | The pure helpers of `lrf_serial_comm.c`. | No state. Operators: `checkbyte` (recursive 8-bit sum, XOR 0x50), `ms_tick_time_diff_ms` at a configurable tick width, the union reads `Mem16`/`Mem32` with the code's store orders `U16At`/`F32At`, `FrameWait`, `DiagWait`, the identification checks `IdentOk`, and the decoded records `SampleOf`, `IdentOf`, `DiagValsOf`. |
| `LRFDecoder` | The frame decoder and the decode buffer. | `dec_buf` (the filled prefix, so `Len(dec_buf)` is `nb_dec_buf`), `dec_buf_size`, `wait_nb_dec_buf`, `lrf_diag`, `last_update_diag_handler`, `is_little_endian`, `now_ms`, and `cb` (the argument of the latest handler call). One action per branch of the byte loop: `AwaitSync`, `AwaitOpcode`, `Accumulate`, `ResolveDiagLength`, `CompleteFrame` (checksum then `Dispatch`). Each branch includes the clamp and the callbacks the code makes in it. |
| `LRFSerialComm` | The interrupt, the stream, the worker loop, shutdown, and the rangefinder as environment. | Adds `rx_stream`, `flags`, `wpc` (worker position), `rx_buf`, `last_rx_tstamp_ms`, `now`, `irq_on`, `phase`, `wire` and `faults`. Actions: `DeviceNextFrame`, `DeviceSend` (through `RxByte`, the interrupt callback), `DeviceNoise`, `Tick`, `WorkerWait`, `WorkerReceive`, `WorkerDecode` (one byte of the batch per step), `AppRxStop`, `AppSignalStop` and `AppJoin`. |
| `MCLRFSerialComm` | The model-checking instance. | Builds the device frames from field values in the wire format, and writes the records the handlers must receive from the same values. |
| `LRFCommand` | `send_lrf_command`. | `tx` (one entry per `uart_tx` transfer) and `sent`. `cmd_array` is the literal's bytes plus the NUL that `sizeof` counts. |
| `LRFSharedState` | `enable_shared_storage_dec_buf` called from another thread while the worker decodes. | The fields `dec_buf` (which storage), `dec_buf_size` and `nb_dec_buf` as shared memory. The worker side has `wpc`, the registers `w_buf` and `w_nb`, and `wait_nb`. The caller side has `apc`, `a_enabled` and `switches`. The worker's `dec_buf[nb_dec_buf++] = b` is split into `WorkerLoad` (both fields into registers) and `WorkerSync`, `WorkerOpcode` or `WorkerStore`. `WorkerClamp` does the clamp, the diagnostic length check and the frame completion; `WorkerGap` is the receive-gap reset. The routine is split into its three stores: `AppSetBuffer`, `AppSetSize` and `AppResetFill`. Byte values are abstracted: every byte continues a well-formed frame. |
| `InputPress` | What the input service promises its subscribers. This is an abstract specification. | `phase` of each key (up, down, long), `seq_of`, `counter`, `events`. Actions: `Press`, `Long`, `Repeat`, `Release` (with the Short of a short press). |
| `InputService` | `input.c`: the input thread, the press timer callback, `input_isr`, and the timer service's handling of start and stop. | See "The input service". |
| `DolphinService` | `dolphin.c`: the service loop, the timers, the senders, and the clear-limits arithmetic. | See "The dolphin service". |

Abstractions:
- Identification strings (id, additional info, serial) are left out of the
  record, but their CR/LF terminators are checked as in the code.
- Floats are kept as their 32-bit patterns, each as its high and low 16-bit
  halves (`Mem32`), so that a pattern with the sign bit set fits in a TLC
  integer.
- Logging and LED flashes are left out.
- In `LRFSerialComm` the decode buffer is selected before reception starts,
  as a choice of the initial state. `LRFSharedState` models the switch as
  steps racing the worker, with byte values left out.
- The set of registered handlers is a constant.

## Runs

| Run | Configuration | Checks | Result |
|---|---|---|---|
| `receive` | Fault-free stream of measurement and diagnostic frames into the 128-byte buffer. The frames include a zero-count header and headers resolving below 6 and above 128. Two-byte stream. Clock wraps 255 → 0 → 1. Timeout 2 ticks. | `GenuineDispatch`, `StreamFreedAfterRxStop`, `DiagProgressOrder`, `StreamDrains` | Pass: 790k states, about 2 min. |
| `faults` | 24-byte shared buffer with one fault anywhere: a spurious 0x59 sync byte inserted, or a frame byte dropped by a stream overrun. Frames that fit, a header below 6, and a header resolving to 27 bytes. No receive gap. | `TypeOK`, `GenuineDispatch`, `FrameEventuallyClosed` | Pass: 865k states, about 1.5 min. |
| `ident` | Identification frames: new and old firmware, both date orders, and a frame with a broken terminator. Either the 128-byte default buffer or a 24-byte shared buffer. Gaps of 2 ticks. | `GenuineDispatch` | Pass: 1.6M states, 14 s. |
| `oversized` | 24-byte buffer with 73-byte frames and no gap. | `FrameEventuallyClosed` | Violation, see Findings. |
| `exactfit` | 27-byte buffer and a diagnostic frame resolving to 27 bytes. | `FrameEventuallyClosed` | Violation, see Findings. |
| `noise` | Measurement frames into the default buffer and one inserted byte of the value `MCNoiseCollide` computes from the frame: the one whose insertion after the opcode leaves a 22-byte prefix that verifies. | `GenuineDispatch` | Violation, see Findings. |
| `shared_switch` | `LRFSharedState`. 128-byte default buffer and 24-byte shared storage. Frames of 22, 73 and 6 bytes, the last resolving to 5, 27 or 207. At most two calls of `enable_shared_storage_dec_buf`. | `StoreInBounds` | Violation, see Findings. |
| `command` | Any two commands. | `CommandFramesValid`, `ChecksumDetection` | Pass: 157 states, 5 s. |
| `command_exact` | One command. | `ExactCommandBytes` | Violation, see Findings. |
| `input` | Two keys, three level changes, up to three timer expiries. Debounce 4 ticks, long press after 2 counts. Sequence counter wraps after 2. | `TypeOK`, `PressProtocol` (the refinement of `InputPress`), `DebounceSettles` | Pass: 167k states, 6 s. |
| `dolphin` | Two threads with up to eight deeds, one stats or flush call and one level up (pending once one deed is applied) in the first 40 s (`CallWindow`), then 50 hours of timers. Boot at 04:30 and 23:30. | `TypeOK`, `UnsavedChangesFlushPending`, `ClearTimerAimsAt5`, `WaitersReturn` | Pass: 710k states, 35 s. |
| `dolphin_clear5` | Boot at 12:00, then a deed every 50 minutes (state constraint `BusyDay`). | `ClearLimitsAt5` | Violation, see Findings. |

What the properties say:
- `GenuineDispatch`: every record given to a handler is the record of a frame
  the device sent intact, whatever the host byte order, and whatever the
  faults of the run (an inserted sync byte, an overrun drop, a receive gap)
  do to the stream.  It is not true of every inserted byte: see the
  `noise` run.
- `DiagProgressOrder`: diagnostic callbacks go start → progress (never
  backwards, never above the total) → final with all values.
- `StreamFreedAfterRxStop`: the worker exits only after the interrupt is
  disabled.
- `StreamDrains`: bytes in the stream are always taken by the worker.
- `FrameEventuallyClosed`: a started frame is always closed again while the
  device keeps streaming.
- `StoreInBounds`: every store of the worker lands inside the storage its
  loaded pointer designates, whatever the caller of
  `enable_shared_storage_dec_buf` does meanwhile.
- `CommandFramesValid`: each transfer opens with a well-formed frame of the
  requested command.
- `ChecksumDetection`: on every frame sent, the checkbyte test (the test
  `uart_rx_thread` applies at line 359, here `Verifies`) rejects every
  single-byte error, checkbyte included, with all 255 wrong values. It
  accepts every pair of data bytes changed by opposite amounts modulo 256.
  This is the exact reach of the spec's "checksum rejects corruption".

Each property of a passing run has a mutant in `PROJECT.json`: an operator
defined next to the original, modelling a plausible slip in that code. TLC
finds each of these violated:
- the big-endian store in wire order;
- rx stop not called;
- progress counted from byte 0;
- one byte per receive;
- no room check in the interrupt;
- no checksum check;
- the additional-info terminator not checked;
- no upper length bound;
- a copied checkbyte;
- a checkbyte loop that stops one byte short.

Bounds:
- **Stream and batch size.** Two bytes, the smallest size where a batch and an
  overrun can both fall inside a frame.
- **Tick counter.** 8 bits starting at 255, so the difference crosses the wrap.
  With at most 2 ticks, both a progress tick and a gap reset happen inside a
  frame.
- **Shared buffer.** 24 bytes, below the 73-byte identification frame and
  above the 22-byte measurement frame. The diagnostic frames cover a zero
  count, a minimum and an over-length resolution.
- **Faults.** One fault is enough to misalign any frame.
- **Buffer switch (`shared_switch`).** The code's sizes: the 128-byte default
  buffer, and 24 bytes of shared storage as in the other runs. The frame
  lengths are the three opcodes' (22, 73 and a 6-byte diagnostic header),
  with the header resolving below 6, to 27, or past 128. Two calls of the
  routine are enough to switch away and back. Each C statement on the shared
  fields is split into the loads and stores a build performs. A reload of
  `nb_dec_buf` after the increment, and a forwarded register value, are both
  allowed. The model has no fairness: it checks one safety property.

Fairness:
- The worker actions are weakly fair. Its thread blocks only on the flags, and
  the flags are set whenever a byte arrives.
- `AppSignalStop` and `AppJoin` are weakly fair. `app_free` runs to completion
  once begun.
- The device's send actions are weakly fair. This models continuous
  measurement mode.
- Ticks, noise and `AppRxStop` are not fair. The closing properties are
  therefore checked in behaviours with no receive gap, which is the case the
  spec relies on the checksum for.

`CHECK_DEADLOCK FALSE`: the system really stops, once `app_free` has joined
the worker. The device also stops sending when rx is disabled.

## The input service

`input.c` has three actors that share the pin states:
- The input thread (`input_srv`) scans every pin. It moves the debounce
  counter one step toward the level read. When the counter reaches an end and
  the level differs from the debounced state, it publishes the change:
  - A press increments `input->counter`, starts the press timer, and publishes
    Press.
  - A release stops the timer and busy-waits until `furi_timer_is_running` is
    false. It publishes Short if the press counter is below
    `INPUT_LONG_PRESS_COUNTS`, resets the counter, then publishes Release.
  - At the end of a scan the thread rescans after a tick while a pin is still
    bouncing, and otherwise waits for the ISR flag.
- The timer service runs `input_press_timer_callback`. The callback counts the
  periods, publishes Long at the threshold, and publishes Repeat past it, with
  the counter held at the threshold.
- The GPIO interrupt runs `input_isr`, which sets the flag.

`InputService` maps this as follows:
- `ScanPin` is one pin of the loop, up to the timer stop.
- `ReleaseDone` is the rest of the release, after the busy wait.
- `WaitIsr` is the flag wait.
- `PressTimerCallback` is the callback.
- `TimerCommands` is the timer service taking the queued start and stop
  commands. All of them are taken in one go and the last one wins, so
  `furi_timer_is_running` reflects a stop only once it has been processed.
- `Toggle` is the user, together with `input_isr`.
- `input->counter` and the per-pin `counter` are never initialised after
  `malloc`, so they start at any value and wrap at `CounterMax`.

`InputPress` is what subscribers may rely on, key by key:
- A Press has a fresh sequence counter.
- The press is then either short (Short, then Release) or long (one Long, any
  number of Repeats, then Release).
- Every event carries the sequence counter of its press.

`InputService` implements `InputPress` under the refinement mapping `AbsPhase`.
A key whose release is waiting for the timer stop is still down. A key is long
once its press counter has reached the threshold. Run `input` checks this as
the property `PressProtocol`.

Fairness: the input thread and the timer service's command processing are
weakly fair. The thread busy-waits or is woken by the flag, and the timer
service runs at high priority. Key changes and timer expiries are the
environment's and are not fair.

`DebounceSettles` says that once the keys stop changing, every debounced state
agrees with its key.

Mutants:
- no busy wait gives a Long after Release;
- a debounce counter saturating one short never settles;
- no hold-back of the press counter breaks `TypeOK`.

## The dolphin service

`dolphin.c` has three kinds of actor around an 8-slot event queue:
- The service thread takes one event at a time and handles it completely:
  - deed: `dolphin_state_on_deed`, publish, restart the 48 h butthurt and
    30 s flush timers;
  - stats: fill the caller's stats;
  - flush: save;
  - clear-limits: clear and save;
  - butthurt: increase and save.

  It then releases the sender's event flag. When no event comes for an hour,
  the get times out and the service re-aims the clear-limits timer at the next
  05:00, unless that timer expires within six minutes.
- The timer service runs the three timer callbacks. Each puts an event and
  blocks while the queue is full. The clear-limits callback first restarts its
  own timer for 24 h.
- Application threads send deeds asynchronously, and send stats and flush
  requests and wait on an event flag. `dolphin_upgrade_level` changes the
  level on the caller's thread and then flushes.

How `DolphinService` models this:
- **Time.** Time is in milliseconds. `Tick` moves to the next deadline, or by
  an application gap that ends before it. Time does not pass while the service
  has events, because handling takes no time.
- **Ticks.** Tick arithmetic is modulo `2^TickBits`, with 30 bits instead of 32
  because TLC's integers are 32-bit signed. No deadline of a run reaches 2^30,
  so only negative results wrap, as at 32 bits.
- **Dolphin state.** The `dolphin_state_*` functions are not in this source.
  They are kept as their effect on the counters, and a save copies the state.
  A level up is pending when `icounter` is in the constant `LevelUps` (the
  values where `dolphin_state_xp_to_levelup` is zero, line 192); a deed then
  adds nothing. `dolphin_upgrade_level` is two steps, as in the code:
  `AppUpgradeLevel` (line 220, `dolphin_state_increase_level`, taken only
  while a level up is pending, as its upstream assertion requires) and
  `AppUpgradeFlush` (line 221, `dolphin_flush`: the put, which blocks while
  the queue is full, and the wait).
- **Fairness.** The service, the timer callbacks and a woken thread's return
  are weakly fair. The service and the timer service run whenever they have
  work.

Properties:
- `WaitersReturn`: every waiting sender is woken. Mutant: a waiting send with
  no flag.
- `UnsavedChangesFlushPending`: a change not yet on storage always has a save
  on its way, counting a level-up caller between its increment and its
  flush put. Mutant: the flush timer is not restarted after a deed.
- `ClearTimerAimsAt5`: after the first hourly check the timer points at the
  next 05:00, at most a day ahead. Mutant: the 05:00 hour is counted as
  "before five", which gives a negative delay that wraps.
- `TypeOK` with a full queue. Mutant: a put that does not wait for room.

Bounds of the `dolphin` run:
- **Calls.** Application calls start only in the first 40 s (`CallWindow`). In
  that window nine puts can meet at one instant: seven deeds, one waiting send
  and the level-up flush, after the first deed (of eight) made the level up
  pending (`LevelUps = {1}`). This fills the 8-slot queue, and the flush timer of
  an earlier deed can fire into the full queue.
- **Horizon.** After the window the timers run on to 50 h. This reaches the
  hourly checks, the 24 h clear-limits expiry and the 48 h butthurt expiry.
- **Why calls stop.** Calls spread over the whole 50 h would multiply the
  states by the number of hourly instants.

## Findings

1. **Oversized frames are not rejected.** Spec §2 says the clamp corrupts an
   oversized frame "so the subsequent checksum check rejects it". In the code
   the fill stops at `dec_buf_size-1` (line 283), so the awaited length is
   never reached and the checksum check never runs. Every following byte is
   swallowed, valid frames included, until a receive gap. Run `oversized`.
2. **Off-by-one in the diagnostic length bound.** The check
   `wait_nb_dec_buf > app->dec_buf_size` (line 336) accepts a length equal to
   the buffer size. The clamp then makes that length unreachable. With an odd
   shared storage size, a diagnostic frame that fits exactly stalls the
   decoder until a gap. Run `exactfit`.
3. **Every command is followed by 0x00.** The command arrays are string
   literals and are sent with `sizeof`, which counts the terminating NUL. Spec
   §8 says "exactly the associated fixed byte sequence". Run `command_exact`.
4. **The limits are not cleared at 05:00 after boot.** At start the service
   aims the clear-limits timer at 05:00 (line 173), then restarts it for 24 h
   (line 174). The timer is re-aimed only after a full hour with no event
   (line 208), although the comment says "once per hour". A user active at
   least every hour has the limits cleared at the boot time of day. Run
   `dolphin_clear5`.
5. **The buffer switch races the worker.** Spec §5 says the worker alone
   writes the decode buffer and the frame-in-progress state. The public
   `enable_shared_storage_dec_buf` stores the pointer (line 118), the size,
   then the zero fill count, from the caller's thread, with no lock. Suppose
   it is called while the worker is 24 bytes into a 27-byte diagnostic frame
   in the default buffer. The worker's next byte then goes to
   `shared_storage[24]`, one past a 24-byte shared storage. The length check
   at line 335 passed earlier, against the old size. Only
   `lrf_serial_comm_app_init` calls the routine, before the worker starts, so
   in this repository the overflow is latent in the interface. Run
   `shared_switch`.
6. **The checksum does not reject "any" corruption.** Spec §5 accepts the
   queue's drop-newest policy because "checksum verification rejects any
   resulting corruption". The checkbyte (lines 150-159) is an 8-bit
   additive sum. `ChecksumDetection` holds: the test rejects every
   single-byte error, and it accepts every frame whose data bytes change by
   amounts that cancel modulo 256. So the spec's claim holds only for
   corruptions that change the byte sum. A spec gap, checked in run
   `command`.
7. **One inserted byte gets a corrupted sample through.** The same claim,
   and spec §1's "tolerate arbitrary byte-stream corruption", fail for an
   inserted byte. Inserted after the opcode of a measurement frame, it keeps
   22 bytes in the buffer and moves the last data byte into the checkbyte
   slot. The 8-bit sum then verifies for exactly one value of the inserted
   byte, the same value at every position, and `uart_rx_thread` hands the
   shifted frame to the sample handler with wrong distances and amplitudes.
   Run `noise`; the `faults` run, whose noise is a 0x59 sync byte, does not
   meet that value.

## Not modelled

- **Handler registration racing dispatch** (lines 96-111 against the
  check-then-call at 291, 349, 463, 616 and 647). The hazards are:
  - a new handler called with the old context, since the two are stored
    separately;
  - a handler called before its context is first stored (init never sets
    the contexts).

  No code in the repository calls `set_*_handler`, so in this repository the
  handlers are NULL throughout and `LRFSerialComm` keeps the set of handlers
  as a constant. The race has the shape of the buffer switch that
  `LRFSharedState` shows: unsynchronised stores from the caller against the
  worker's loads.
- **The receive-gap timeout measured between batches.** When the worker lags
  behind the line, it can miss a real gap or see one that did not happen.
  The model's time is per batch, and a property would need the line time of
  every byte. Spec §5 names this risk itself for blocking handlers.
- **RTC changes in the dolphin service**, which is what the hourly check is
  for. The RTC is set outside this source. An RTC step would multiply the
  `dolphin` run's state space, and a property about it would have to
  restate the six-minute rule of
  `dolphin_update_clear_limits_timer_period`.

Not worth modelling:
- the NFC scene (three UI handlers with no state of their own);
- the headers (declarations only);
- `input_get_key_name` and `input_get_type_name` (lookup tables);
- `getRandomDeed` (a random pick whose only state is the seed);
- `dolphin_get_pubsub` (a getter).
