---------------------------- MODULE LRFSerialComm ----------------------------
(***************************************************************************)
(* The receive path of lrf_serial_comm.c: the UART interrupt callback     *)
(* (on_uart_irq_callback) feeding a bounded stream buffer, the receive    *)
(* thread (uart_rx_thread) that drains it batch by batch and runs the     *)
(* decoder of LRFDecoder on every byte, the receive-gap timeout, and the  *)
(* shutdown sequence of lrf_serial_comm_app_free.                          *)
(*                                                                         *)
(* The rangefinder is the environment: it streams the frames of           *)
(* DeviceFrames back to back, and within a budget of MaxFaults it may     *)
(* inject a noise byte or overrun the stream buffer (the interrupt then   *)
(* drops the byte).  Ticks of the millisecond clock are environment       *)
(* steps too, bounded by MaxTime.                                          *)
(***************************************************************************)
EXTENDS LRFDecoder

CONSTANTS
    RxBufSize,        \* RX_BUF_SIZE: stream buffer size and batch size
    UartRxTimeout,    \* uart_rx_timeout given at init (ms)
    DeviceFrames,     \* byte sequences the rangefinder may send
    GenuineRecords,   \* records the handlers may receive for those frames
    NoiseBytes,       \* values of injected noise bytes
    MaxFaults,        \* bound on noise bytes plus dropped bytes
    StartTick,        \* tick counter value when reception starts
    MaxTime           \* bound on the ticks that elapse in a behaviour

ASSUME RxBufSize \in Nat \ {0}
ASSUME UartRxTimeout \in Nat
ASSUME DeviceFrames \subseteq Seq(Byte) /\ NoiseBytes \subseteq Byte
ASSUME MaxFaults \in Nat /\ MaxTime \in Nat /\ StartTick \in 0..TickMax

VARIABLES
    rx_stream,          \* app->rx_stream contents
    flags,              \* thread flags of the receive thread
    wpc,                \* where the receive thread is
    rx_buf,             \* bytes of the current batch not yet decoded
    last_rx_tstamp_ms,  \* tick of the previous batch
    now,                \* the millisecond tick counter (furi_get_tick)
    wire,               \* rest of the frame the device is sending
    faults,             \* noise bytes and drops so far
    irq_on,             \* async reception (the interrupt callback) enabled
    phase               \* progress of lrf_serial_comm_app_free

bridge_vars == <<rx_stream, flags, wpc, rx_buf, last_rx_tstamp_ms>>
env_vars == <<now, wire, faults>>
vars == <<decoder_vars, bridge_vars, env_vars, irq_on, phase>>

WPC == {"wait", "recv", "decode", "exited"}
PHASE == {"running", "rx_stopped", "stop_sent", "joined"}

Init ==
    /\ DecoderInit
    /\ rx_stream = <<>>
    /\ flags = {}
    /\ wpc = "wait"
    /\ rx_buf = <<>>
    /\ last_rx_tstamp_ms = 0
    /\ now = StartTick
    /\ wire = <<>>
    /\ faults = 0
    /\ irq_on = TRUE
    /\ phase = "running"

-----------------------------------------------------------------------------
(* on_uart_irq_callback for a received byte: furi_stream_buffer_send with *)
(* timeout 0 drops the byte when the stream is full; the rx_done flag is  *)
(* set either way.  The callback runs in interrupt context, so it is one  *)
(* step.  Once async reception is stopped what the device sends is lost   *)
(* on the line, so the device is not modelled past that point.            *)
\* furi_stream_buffer_receive / _send take at most this many bytes.
\* Mutation of Batch: one byte per receive call.
Batch_one(s) == SubSeq(s, 1, IF Len(s) < 1 THEN Len(s) ELSE 1)
Batch(s) == SubSeq(s, 1, IF Len(s) < RxBufSize THEN Len(s) ELSE RxBufSize)

Overrun == Len(rx_stream) = RxBufSize

\* Mutation of RxByte: the byte stored without checking for room.
RxByte_nocap(b) ==
    /\ rx_stream' = Append(rx_stream, b)
    /\ flags' = flags \cup {"rx_done"}
RxByte(b) ==
    /\ rx_stream' = IF Len(rx_stream) < RxBufSize THEN Append(rx_stream, b) ELSE rx_stream
    /\ flags' = flags \cup {"rx_done"}

\* The device starts its next frame.
DeviceNextFrame ==
    /\ irq_on
    /\ wire = <<>>
    /\ \E f \in DeviceFrames : wire' = f
    /\ UNCHANGED <<decoder_vars, bridge_vars, now, faults, irq_on, phase>>

\* The device puts the next byte of its frame on the line.
DeviceSend ==
    /\ irq_on
    /\ wire # <<>>
    /\ Overrun => faults < MaxFaults
    /\ RxByte(Head(wire))
    /\ wire' = Tail(wire)
    /\ faults' = IF Overrun THEN faults + 1 ELSE faults
    /\ UNCHANGED <<decoder_vars, wpc, rx_buf, last_rx_tstamp_ms, now, irq_on, phase>>

\* Line noise: a spurious byte between or inside frames.
DeviceNoise ==
    /\ irq_on
    /\ faults < MaxFaults
    /\ \E b \in NoiseBytes : RxByte(b)
    /\ faults' = faults + 1
    /\ UNCHANGED <<decoder_vars, wpc, rx_buf, last_rx_tstamp_ms, now, wire, irq_on, phase>>

\* The tick counter advances and wraps at its width.
Tick ==
    /\ ms_tick_time_diff_ms(now, StartTick) < MaxTime
    /\ now' = (now + 1) % (TickMax + 1)
    /\ UNCHANGED <<decoder_vars, bridge_vars, wire, faults, irq_on, phase>>

-----------------------------------------------------------------------------
(* uart_rx_thread.  furi_thread_flags_wait(stop | rx_done) returns and    *)
(* clears the pending flags; stop wins and ends the loop, after which the *)
(* thread frees the stream buffer.                                         *)
WorkerWait ==
    /\ wpc = "wait"
    /\ flags # {}
    /\ flags' = {}
    /\ wpc' = IF "stop" \in flags THEN "exited" ELSE "recv"
    /\ UNCHANGED <<decoder_vars, rx_stream, rx_buf, last_rx_tstamp_ms, env_vars, irq_on, phase>>

\* furi_stream_buffer_receive of up to RX_BUF_SIZE bytes; for a non-empty
\* batch, read the tick, drop a partial frame after a receive gap, and
\* remember the batch time.
WorkerReceive ==
    LET batch == Batch(rx_stream) IN
    /\ wpc = "recv"
    /\ rx_stream' = SubSeq(rx_stream, Len(batch) + 1, Len(rx_stream))
    /\ IF batch = <<>>
       THEN /\ wpc' = "wait"
            /\ UNCHANGED <<decoder_vars, rx_buf, last_rx_tstamp_ms>>
       ELSE /\ now_ms' = now
            /\ dec_buf' = IF Len(dec_buf) > 0 /\
                             ms_tick_time_diff_ms(now, last_rx_tstamp_ms) >= UartRxTimeout
                          THEN <<>> ELSE dec_buf
            /\ last_rx_tstamp_ms' = now
            /\ rx_buf' = batch
            /\ wpc' = "decode"
            /\ UNCHANGED <<dec_buf_size, wait_nb_dec_buf, lrf_diag,
                           last_update_diag_handler, is_little_endian, cb>>
    /\ UNCHANGED <<flags, env_vars, irq_on, phase>>

\* Decode the next byte of the batch; back to waiting after the last one.
WorkerDecode ==
    /\ wpc = "decode"
    /\ DecodeByte(Head(rx_buf))
    /\ rx_buf' = Tail(rx_buf)
    /\ wpc' = IF Len(rx_buf) = 1 THEN "wait" ELSE "decode"
    /\ UNCHANGED <<rx_stream, flags, last_rx_tstamp_ms, env_vars, irq_on, phase>>

-----------------------------------------------------------------------------
(* lrf_serial_comm_app_free: stop async reception and release the UART,   *)
(* signal stop, join the thread, then free the app.                       *)
\* Mutation of AppRxStop: furi_hal_serial_async_rx_stop not called.
AppRxStop_keepirq ==
    /\ phase = "running"
    /\ phase' = "rx_stopped"
    /\ UNCHANGED <<decoder_vars, bridge_vars, env_vars, irq_on>>
AppRxStop ==
    /\ phase = "running"
    /\ irq_on' = FALSE
    /\ phase' = "rx_stopped"
    /\ UNCHANGED <<decoder_vars, bridge_vars, env_vars>>

AppSignalStop ==
    /\ phase = "rx_stopped"
    /\ flags' = flags \cup {"stop"}
    /\ phase' = "stop_sent"
    /\ UNCHANGED <<decoder_vars, rx_stream, wpc, rx_buf, last_rx_tstamp_ms, env_vars, irq_on>>

AppJoin ==
    /\ phase = "stop_sent"
    /\ wpc = "exited"
    /\ phase' = "joined"
    /\ UNCHANGED <<decoder_vars, bridge_vars, env_vars, irq_on>>

-----------------------------------------------------------------------------
Next ==
    \/ DeviceNextFrame \/ DeviceSend \/ DeviceNoise \/ Tick
    \/ WorkerWait \/ WorkerReceive \/ WorkerDecode
    \/ AppRxStop \/ AppSignalStop \/ AppJoin

(* The receive thread is runnable whenever its flags are set, and the      *)
(* owner thread runs app_free to its end once it has begun.  The device    *)
(* is assumed to stream without end (continuous measurement mode).         *)
Fairness ==
    /\ WF_vars(WorkerWait) /\ WF_vars(WorkerReceive) /\ WF_vars(WorkerDecode)
    /\ WF_vars(AppSignalStop) /\ WF_vars(AppJoin)
    /\ WF_vars(DeviceNextFrame) /\ WF_vars(DeviceSend)

Spec == Init /\ [][Next]_vars /\ Fairness

-----------------------------------------------------------------------------
(* Properties                                                              *)

TypeOK ==
    /\ dec_buf \in Seq(Byte) /\ dec_buf_size \in {DefaultDecBufSize, SharedStorageSize}
    /\ wait_nb_dec_buf \in Nat /\ is_little_endian \in BOOLEAN
    /\ lrf_diag \in [nb_vals : Nat, total_vals : Nat]
    /\ {now_ms, last_update_diag_handler, last_rx_tstamp_ms, now} \subseteq 0..TickMax
    /\ rx_stream \in Seq(Byte) /\ Len(rx_stream) <= RxBufSize
    /\ rx_buf \in Seq(Byte) /\ flags \subseteq {"stop", "rx_done"}
    /\ wpc \in WPC /\ phase \in PHASE /\ irq_on \in BOOLEAN /\ faults \in 0..MaxFaults

\* A record handed to the sample or identification handler, or the final
\* diagnostic callback, is exactly the record of a frame the device sent
\* intact: noise, dropped bytes, resynchronisation and either host byte
\* order never produce a corrupted or misdecoded record (checkbyte
\* verification and the endianness-dependent assembly in uart_rx_thread).
GenuineDispatch ==
    (cb.kind \in {"sample", "ident"} \/ (cb.kind = "diag" /\ cb.ev = "final"))
        => cb \in GenuineRecords

\* Diagnostic callbacks of one download: after the first (start) callback
\* made at length resolution, progress callbacks never go backwards, never
\* exceed the announced total, and the final callback reports all values
\* received; no progress or final callback comes without a start.
DiagProgressOrder ==
    [][ (cb'.kind = "diag" /\ cb'.ev \in {"progress", "final"} /\ cb' # cb)
        => /\ cb.kind = "diag" /\ cb.ev \in {"start", "progress"}
           /\ cb'.total_vals = cb.total_vals
           /\ cb.nb_vals <= cb'.nb_vals /\ cb'.nb_vals <= cb'.total_vals
           /\ (cb'.ev = "final" => cb'.nb_vals = cb'.total_vals) ]_cb

\* The receive thread frees the stream buffer only after the interrupt
\* callback that writes into it has been disabled (app_free ordering).
StreamFreedAfterRxStop == wpc = "exited" => ~irq_on

\* Bytes put in the stream buffer are always drained by the receive
\* thread: no byte is left behind without a pending wake-up.
StreamDrains == rx_stream # <<>> ~> (rx_stream = <<>> \/ wpc = "exited")

\* While the device keeps streaming, a frame the decoder has started is
\* always closed again (dispatched or discarded): the decoder never stays
\* stuck inside a frame.
FrameEventuallyClosed == Len(dec_buf) > 0 ~> (Len(dec_buf) = 0 \/ wpc = "exited")
=============================================================================
