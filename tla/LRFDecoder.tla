----------------------------- MODULE LRFDecoder -----------------------------
(***************************************************************************)
(* The frame decode state machine of uart_rx_thread (lrf_serial_comm.c,   *)
(* the body of the `for(i = 0; i < rx_buf_len; i++)` loop) and the state *)
(* of the Buffer Manager it drives.                                        *)
(*                                                                         *)
(* dec_buf models dec_buf[0 .. nb_dec_buf - 1]: Len(dec_buf) is           *)
(* nb_dec_buf.  Bytes stored at or beyond nb_dec_buf are never read      *)
(* before being rewritten, so they are not kept.  The state of the frame *)
(* search is implicit in nb_dec_buf, as in the code: 0 is waiting for a  *)
(* sync byte, 1 is waiting for an opcode, 2.. is accumulating.            *)
(*                                                                         *)
(* Callbacks run synchronously on the worker; cb is the argument of the  *)
(* most recent handler invocation (NoCb before the first one).           *)
(***************************************************************************)
EXTENDS LRFCodec, SequencesExt

CONSTANTS
    Handlers,                \* kinds with a registered handler
    SharedStorageChoices,    \* enabled arguments of the buffer selection
    SharedStorageSize,       \* shared_storage_size given at init
    DiagProgressUpdateEvery  \* DIAG_PROGRESS_UPDATE_EVERY (ms)

DefaultDecBufSize == 128     \* sizeof(app->default_dec_buf)

ASSUME Handlers \subseteq {"sample", "ident", "diag"}
ASSUME SharedStorageChoices \subseteq BOOLEAN /\ SharedStorageChoices # {}
ASSUME SharedStorageSize \in 1..65535
ASSUME DiagProgressUpdateEvery \in Nat

VARIABLES
    dec_buf,                   \* dec_buf[0 .. nb_dec_buf - 1]
    dec_buf_size,              \* app->dec_buf_size
    wait_nb_dec_buf,           \* frame length awaited (thread local)
    lrf_diag,                  \* nb_vals / total_vals of the LRFDiag local
    last_update_diag_handler,  \* tick of the last progress callback
    is_little_endian,          \* result of the endianness probe
    now_ms,                    \* tick read when the current batch was received
    cb                         \* argument of the latest handler call

decoder_vars == <<dec_buf, dec_buf_size, wait_nb_dec_buf, lrf_diag,
                  last_update_diag_handler, is_little_endian, now_ms, cb>>

NoCb == [kind |-> "none"]

-----------------------------------------------------------------------------
(* enable_shared_storage_dec_buf(app, enabled), done before the worker    *)
(* consumes bytes: select a buffer and reset the fill length.             *)
DecBufSize(enabled) == IF enabled THEN SharedStorageSize ELSE DefaultDecBufSize

DecoderInit ==
    /\ \E enabled \in SharedStorageChoices : dec_buf_size = DecBufSize(enabled)
    /\ dec_buf = <<>>
    /\ wait_nb_dec_buf = 0
    /\ lrf_diag = [nb_vals |-> 0, total_vals |-> 0]
    /\ last_update_diag_handler = 0
    /\ is_little_endian \in BOOLEAN
    /\ now_ms = 0
    /\ cb = NoCb

-----------------------------------------------------------------------------
(* Store one byte past the sync/opcode stage: dec_buf[nb_dec_buf++] = b,  *)
(* then nb_dec_buf-- if it reached dec_buf_size.  At the clamp the byte   *)
(* lands in slot dec_buf_size - 1, outside the fill, and the fill stays.  *)
Stored(b) ==
    IF Len(dec_buf) + 1 >= dec_buf_size THEN dec_buf ELSE Append(dec_buf, b)

\* case 0: waiting for the sync byte.
AwaitSync(b) ==
    /\ Len(dec_buf) = 0
    /\ dec_buf' = IF b = SYNC THEN <<b>> ELSE dec_buf
    /\ UNCHANGED <<wait_nb_dec_buf, lrf_diag, last_update_diag_handler, cb>>

\* case 1: the opcode selects the awaited length, anything else resets.
AwaitOpcode(b) ==
    /\ Len(dec_buf) = 1
    /\ IF b \in {OP_MEAS, OP_IDENT, OP_DIAG}
       THEN /\ dec_buf' = Append(dec_buf, b)
            /\ wait_nb_dec_buf' = FrameWait(b)
       ELSE /\ dec_buf' = <<>>
            /\ UNCHANGED wait_nb_dec_buf
    /\ UNCHANGED <<lrf_diag, last_update_diag_handler, cb>>

\* A progress callback is due while the bulk of a resolved diagnostic frame
\* arrives, on an even fill, at most once per DIAG_PROGRESS_UPDATE_EVERY.
ProgressDue(buf) ==
    /\ "diag" \in Handlers
    /\ B(buf, 1) = OP_DIAG
    /\ wait_nb_dec_buf > 6
    /\ Len(buf) % 2 = 0
    /\ ms_tick_time_diff_ms(now_ms, last_update_diag_handler) > DiagProgressUpdateEvery

\* Mutation of ProgressVals: the sync and opcode bytes counted as values.
ProgressVals_all(buf) == Len(buf) \div 2
\* lrf_diag.nb_vals = (app->nb_dec_buf - 2) / 2
ProgressVals(buf) == (Len(buf) - 2) \div 2

\* vals is NULL (<<>>) until the final callback.
DiagCb(ev, nb, total, vals) ==
    [kind |-> "diag", ev |-> ev, nb_vals |-> nb, total_vals |-> total, vals |-> vals]

\* default case, frame still incomplete.
Accumulate(b) ==
    LET buf == Stored(b) IN
    /\ Len(dec_buf) >= 2
    /\ Len(buf) < wait_nb_dec_buf
    /\ dec_buf' = buf
    /\ IF ProgressDue(buf)
       THEN /\ lrf_diag' = [lrf_diag EXCEPT !.nb_vals = ProgressVals(buf)]
            /\ cb' = DiagCb("progress", lrf_diag'.nb_vals, lrf_diag.total_vals, <<>>)
            /\ last_update_diag_handler' = now_ms
       ELSE UNCHANGED <<lrf_diag, cb, last_update_diag_handler>>
    /\ UNCHANGED wait_nb_dec_buf

\* Mutation of DiagLengthOk: the upper bound against dec_buf_size left out.
DiagLengthOk_nobound(wait) == ~(wait <= 6)
\* The resolved length is kept unless too low or beyond the decode buffer.
DiagLengthOk(wait) == ~(wait <= 6 \/ wait > dec_buf_size)

\* The diagnostic preamble is complete: resolve the total length once.
ResolveDiagLength(b) ==
    LET buf  == Stored(b)
        wait == DiagWait(is_little_endian, buf)
    IN
    /\ Len(dec_buf) >= 2
    /\ Len(buf) >= wait_nb_dec_buf
    /\ wait_nb_dec_buf = 6
    /\ wait_nb_dec_buf' = wait
    /\ IF ~DiagLengthOk(wait)
       THEN /\ dec_buf' = <<>>
            /\ UNCHANGED <<lrf_diag, last_update_diag_handler, cb>>
       ELSE /\ dec_buf' = buf
            /\ lrf_diag' = [nb_vals |-> ProgressVals(buf),
                            total_vals |-> (wait - 2 - 1) \div 2]
            /\ IF "diag" \in Handlers
               THEN /\ cb' = DiagCb("start", lrf_diag'.nb_vals, lrf_diag'.total_vals, <<>>)
                    /\ last_update_diag_handler' = now_ms
               ELSE UNCHANGED <<cb, last_update_diag_handler>>

\* The handler call made for a complete frame whose checkbyte matched.
Dispatch(buf) ==
    LET op == B(buf, 1) IN
    CASE op = OP_MEAS ->
            /\ cb' = IF "sample" \in Handlers THEN SampleOf(is_little_endian, buf) ELSE cb
            /\ UNCHANGED lrf_diag
      [] op = OP_IDENT ->
            /\ cb' = IF IdentOk(buf) /\ "ident" \in Handlers
                     THEN IdentOf(is_little_endian, buf) ELSE cb
            /\ UNCHANGED lrf_diag
      [] op = OP_DIAG ->
            /\ lrf_diag' = [lrf_diag EXCEPT !.nb_vals = lrf_diag.total_vals]
            /\ cb' = IF "diag" \in Handlers
                     THEN DiagCb("final", lrf_diag.total_vals, lrf_diag.total_vals,
                                 DiagValsOf(is_little_endian, buf, lrf_diag.total_vals))
                     ELSE cb

\* Mutation of ChecksumOk: the checkbyte never compared.
ChecksumOk_skip(buf) == TRUE
\* The last byte of the frame is the checkbyte of the bytes before it.
ChecksumOk(buf) == Last(buf) = checkbyte(Front(buf))

\* The awaited length is reached: verify the checkbyte, decode and dispatch,
\* then clear the decode buffer either way.
CompleteFrame(b) ==
    LET buf == Stored(b) IN
    /\ Len(dec_buf) >= 2
    /\ Len(buf) >= wait_nb_dec_buf
    /\ wait_nb_dec_buf # 6
    /\ dec_buf' = <<>>
    /\ IF ~ChecksumOk(buf)
       THEN UNCHANGED <<lrf_diag, cb>>
       ELSE Dispatch(buf)
    /\ UNCHANGED <<wait_nb_dec_buf, last_update_diag_handler>>

\* One iteration of the byte loop.
DecodeByte(b) ==
    /\ \/ AwaitSync(b)
       \/ AwaitOpcode(b)
       \/ Accumulate(b)
       \/ ResolveDiagLength(b)
       \/ CompleteFrame(b)
    /\ UNCHANGED <<dec_buf_size, is_little_endian, now_ms>>
=============================================================================
