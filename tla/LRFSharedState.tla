---------------------------- MODULE LRFSharedState ----------------------------
(***************************************************************************)
(* The decode-buffer fields of LRFSerialCommApp (dec_buf, dec_buf_size,    *)
(* nb_dec_buf) as plain memory shared by two threads: the uart_rx worker,  *)
(* which appends every received byte with                                  *)
(*     app->dec_buf[app->nb_dec_buf++] = app->rx_buf[i];                   *)
(*     if(app->nb_dec_buf >= app->dec_buf_size) app->nb_dec_buf--;         *)
(* and a caller of the public routine enable_shared_storage_dec_buf, which *)
(* stores the pointer, the size and the zero fill count one after the      *)
(* other with no lock.  The fields are not atomic and not volatile: each   *)
(* C statement is split into the loads and stores an ARM build performs,   *)
(* the worker keeping what it loaded in registers.                         *)
(*                                                                         *)
(* Byte values are abstracted: every byte is the next byte of a well-formed *)
(* frame, so the worker stores at nb 0 (the sync byte), at nb 1 (the       *)
(* opcode, which sets wait_nb_dec_buf) and then through the clamp until    *)
(* the frame is complete.  What the properties tell apart is which buffer  *)
(* a store lands in and at what index.                                     *)
(***************************************************************************)
EXTENDS Naturals

CONSTANTS
    DefaultSize,    \* sizeof(app->default_dec_buf), 128 in the code
    SharedSize,     \* shared_storage_size given to lrf_serial_comm_app_init
    FrameLens,      \* wait_nb_dec_buf values the opcodes set (22, 73, 6)
    DiagLens,       \* lengths a diagnostic header resolves to
    MaxSwitches     \* bound on calls of enable_shared_storage_dec_buf

\* The size of the storage each buffer pointer designates.
Capacity(b) == IF b = "default" THEN DefaultSize ELSE SharedSize

VARIABLES
    dec_buf,        \* app->dec_buf: which storage the pointer designates
    dec_buf_size,   \* app->dec_buf_size
    nb_dec_buf,     \* app->nb_dec_buf
    wait_nb,        \* wait_nb_dec_buf, local to uart_rx_thread
    wpc,            \* worker: "load", "store" or "clamp"
    w_buf,          \* worker register: dec_buf as loaded
    w_nb,           \* worker register: nb_dec_buf as loaded
    apc,            \* caller: "idle", "size" or "reset"
    a_enabled,      \* the enabled argument of the call in progress
    switches        \* calls of enable_shared_storage_dec_buf so far

vars == <<dec_buf, dec_buf_size, nb_dec_buf, wait_nb, wpc, w_buf, w_nb,
          apc, a_enabled, switches>>
workerVars == <<wpc, w_buf, w_nb, wait_nb>>
appVars == <<apc, a_enabled, switches>>

\* lrf_serial_comm_app_init: enable_shared_storage_dec_buf(app, false)
\* before the worker starts, so the default buffer, its size and a zero
\* fill count; the worker's wait_nb_dec_buf starts at 0.
Init ==
    /\ dec_buf = "default"
    /\ dec_buf_size = DefaultSize
    /\ nb_dec_buf = 0
    /\ wait_nb = 0
    /\ wpc = "load"
    /\ w_buf = "default"
    /\ w_nb = 0
    /\ apc = "idle"
    /\ a_enabled = FALSE
    /\ switches = 0

(***************************************************************************)
(* The worker.                                                             *)
(***************************************************************************)

\* Next byte of rx_buf: `switch(app->nb_dec_buf)` and the store's address
\* computation load nb_dec_buf and dec_buf into registers.
WorkerLoad ==
    /\ wpc = "load"
    /\ wpc' = "store"
    /\ w_buf' = dec_buf
    /\ w_nb' = nb_dec_buf
    /\ UNCHANGED <<dec_buf, dec_buf_size, nb_dec_buf, wait_nb>>
    /\ UNCHANGED appVars

\* case 0: a sync byte is stored, dec_buf[nb_dec_buf++] = rx_buf[i].
WorkerSync ==
    /\ wpc = "store"
    /\ w_nb = 0
    /\ nb_dec_buf' = 1
    /\ wpc' = "load"
    /\ UNCHANGED <<dec_buf, dec_buf_size, w_buf, w_nb, wait_nb>>
    /\ UNCHANGED appVars

\* case 1: a known opcode is stored and sets wait_nb_dec_buf (22 for a
\* measurement, 73 for an identification, 6 for a diagnostic header).
WorkerOpcode(n) ==
    /\ wpc = "store"
    /\ w_nb = 1
    /\ nb_dec_buf' = 2
    /\ wait_nb' = n
    /\ wpc' = "load"
    /\ UNCHANGED <<dec_buf, dec_buf_size, w_buf, w_nb>>
    /\ UNCHANGED appVars

\* default: dec_buf[nb_dec_buf++] = rx_buf[i] through the loaded registers.
WorkerStore ==
    /\ wpc = "store"
    /\ w_nb >= 2
    /\ nb_dec_buf' = w_nb + 1
    /\ wpc' = "clamp"
    /\ UNCHANGED <<dec_buf, dec_buf_size, w_buf, w_nb, wait_nb>>
    /\ UNCHANGED appVars

\* The clamp against dec_buf_size, then: more bytes to come; a diagnostic
\* header complete, its length resolved to one of DiagLens and checked
\* against dec_buf_size (reset when out of bounds); or a frame complete,
\* decoded or discarded, and the buffer cleared.  The compiler may forward
\* the incremented register or reload nb_dec_buf: both are builds' outcomes.
WorkerClamp ==
    /\ wpc = "clamp"
    /\ \E nb0 \in {w_nb + 1, nb_dec_buf}, len \in DiagLens :
        LET nb == IF nb0 >= dec_buf_size THEN nb0 - 1 ELSE nb0 IN
        \/ /\ nb < wait_nb
           /\ nb_dec_buf' = nb /\ wait_nb' = wait_nb
        \/ /\ nb >= wait_nb /\ wait_nb = 6
           /\ wait_nb' = len
           /\ nb_dec_buf' = IF len <= 6 \/ len > dec_buf_size THEN 0 ELSE nb
        \/ /\ nb >= wait_nb /\ wait_nb # 6
           /\ nb_dec_buf' = 0 /\ wait_nb' = wait_nb
    /\ wpc' = "load"
    /\ UNCHANGED <<dec_buf, dec_buf_size, w_buf, w_nb>>
    /\ UNCHANGED appVars

\* A batch arriving after uart_rx_timeout of silence resets the buffer.
WorkerGap ==
    /\ wpc = "load"
    /\ nb_dec_buf # 0
    /\ nb_dec_buf' = 0
    /\ UNCHANGED <<dec_buf, dec_buf_size, wait_nb, wpc, w_buf, w_nb>>
    /\ UNCHANGED appVars

(***************************************************************************)
(* enable_shared_storage_dec_buf called from another thread: three stores. *)
(***************************************************************************)

AppSetBuffer(enabled) ==
    /\ apc = "idle"
    /\ switches < MaxSwitches
    /\ dec_buf' = IF enabled THEN "shared" ELSE "default"
    /\ apc' = "size"
    /\ a_enabled' = enabled
    /\ switches' = switches + 1
    /\ UNCHANGED <<dec_buf_size, nb_dec_buf>>
    /\ UNCHANGED workerVars

AppSetSize ==
    /\ apc = "size"
    /\ dec_buf_size' = Capacity(IF a_enabled THEN "shared" ELSE "default")
    /\ apc' = "reset"
    /\ UNCHANGED <<dec_buf, nb_dec_buf, a_enabled, switches>>
    /\ UNCHANGED workerVars

AppResetFill ==
    /\ apc = "reset"
    /\ nb_dec_buf' = 0
    /\ apc' = "idle"
    /\ UNCHANGED <<dec_buf, dec_buf_size, a_enabled, switches>>
    /\ UNCHANGED workerVars

Next ==
    \/ WorkerLoad \/ WorkerSync \/ WorkerStore \/ WorkerClamp \/ WorkerGap
    \/ \E n \in FrameLens : WorkerOpcode(n)
    \/ \E e \in BOOLEAN : AppSetBuffer(e)
    \/ AppSetSize \/ AppResetFill

Spec == Init /\ [][Next]_vars

(***************************************************************************)
(* Properties.                                                             *)
(***************************************************************************)

\* Every store the worker makes into the decode buffer lands inside the
\* storage the pointer it loaded designates (dec_buf[nb_dec_buf++] in
\* uart_rx_thread never writes past default_dec_buf or shared_storage),
\* whatever enable_shared_storage_dec_buf does meanwhile.
StoreInBounds == wpc = "store" => w_nb < Capacity(w_buf)
====
