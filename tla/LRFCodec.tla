------------------------------ MODULE LRFCodec ------------------------------
(***************************************************************************)
(* Byte-level helpers of the Noptel LRF serial protocol engine            *)
(* (src/applications/external/noptel_lrf_sampler/lrf_serial_comm.c).      *)
(*                                                                         *)
(* A frame is a TLA+ sequence of bytes (0..255).  The C code indexes the  *)
(* decode buffer from 0; B(buf, k) is the C byte dec_buf[k].              *)
(*                                                                         *)
(* Multi-byte fields are assembled the way the code does it: bytes are    *)
(* stored into a union in an order chosen by the endianness probe and the *)
(* union is then read back as a host integer.  Mem16/Mem32 give the value *)
(* the host reads from union bytes, so a wrong store order shows up as a  *)
(* wrong value rather than being assumed away.                            *)
(***************************************************************************)
EXTENDS Integers, Sequences, Bitwise

CONSTANT TickBits   \* width of the millisecond tick counter (32 in the code)
ASSUME TickBits \in 1..30

TickMax == 2^TickBits - 1   \* 0xffffffff at the code's width

Byte == 0..255

SYNC == 89          \* 0x59, first byte of every inbound frame
OP_MEAS  == 204     \* 0xcc, exec range measurement response
OP_IDENT == 192     \* 0xc0, identification frame
OP_DIAG  == 220     \* 0xdc, read diagnostic data response
CR == 13
LF == 10
SLASH == 47

\* C byte dec_buf[k] of a 1-indexed TLA+ sequence.
B(buf, k) == buf[k + 1]

\* uint8 checksum accumulation: checksum += data[i] wraps at 8 bits.
RECURSIVE Sum8(_)
Sum8(data) == IF data = <<>> THEN 0 ELSE (Head(data) + Sum8(Tail(data))) % 256

\* Mutation of checkbyte: the summing loop stops one byte short.
checkbyte_short(data) == Sum8(SubSeq(data, 1, Len(data) - 1)) ^^ 80
\* checkbyte(data, len): 8-bit sum of the bytes XORed with 0x50.
checkbyte(data) == Sum8(data) ^^ 80

\* ms_tick_time_diff_ms(t1, t2): elapsed ticks, the counter having wrapped
\* when t1 < t2.
ms_tick_time_diff_ms(t1, t2) ==
    IF t1 >= t2 THEN t1 - t2 ELSE (TickMax - t2) + 1 + t1

\* Host value of the bytes of a 2- or 4-byte union.
Mem16(le, bytes) ==
    IF le THEN bytes[1] + 256 * bytes[2] ELSE 256 * bytes[1] + bytes[2]
\* A 32-bit value is kept as its high and low 16-bit halves, so that every
\* bit pattern, the sign bit set included, is a value TLC can hold.
Mem32(le, bytes) ==
    IF le THEN <<Mem16(le, <<bytes[3], bytes[4]>>), Mem16(le, <<bytes[1], bytes[2]>>)>>
          ELSE <<Mem16(le, <<bytes[1], bytes[2]>>), Mem16(le, <<bytes[3], bytes[4]>>)>>

\* usiun / fun stores: wire order into a little-endian host, reversed into a
\* big-endian one, then read back as a host value.
\* Mutation of U16At: the big-endian branch stores in wire order.
U16At_wireorder(le, buf, k) == Mem16(le, <<B(buf, k), B(buf, k + 1)>>)
U16At(le, buf, k) ==
    IF le THEN Mem16(le, <<B(buf, k), B(buf, k + 1)>>)
          ELSE Mem16(le, <<B(buf, k + 1), B(buf, k)>>)
F32At(le, buf, k) ==
    IF le THEN Mem32(le, <<B(buf, k), B(buf, k + 1), B(buf, k + 2), B(buf, k + 3)>>)
          ELSE Mem32(le, <<B(buf, k + 3), B(buf, k + 2), B(buf, k + 1), B(buf, k)>>)

\* Total frame length awaited after the opcode byte (case 1 of the decoder).
FrameWait(op) ==
    CASE op = OP_MEAS  -> 22
      [] op = OP_IDENT -> 73
      [] op = OP_DIAG  -> 6

\* Diagnostic length resolution.  wait_nb_dec_buf is a uint32_t and
\* (usi - 1) * 2 is -2 for a zero count, but the sum stays within
\* 4 .. 6 + 2 * 65534 + 2 * 65535 + 1, so the unsigned result is exact.
DiagWait(le, buf) ==
    6 + (U16At(le, buf, 2) - 1) * 2 + U16At(le, buf, 4) * 2 + 1

IsDigit(c) == c >= 48 /\ c <= 57

\* The terminator and digit checks of the 0xc0 decoder; any failing check
\* breaks out without calling the handler.
\* Mutation of IdentOk: the additional-information terminator not checked.
IdentOk_noaddinfo(buf) ==
    /\ B(buf, 17) = CR /\ B(buf, 18) = LF
    /\ B(buf, 46) = CR /\ B(buf, 47) = LF
    /\ \A k \in {52, 53, 55, 56, 58, 59} : IsDigit(B(buf, k))
    /\ B(buf, 60) = CR /\ B(buf, 61) = LF
    /\ \A k \in {62, 63, 65, 66, 68, 69} : IsDigit(B(buf, k))
IdentOk(buf) ==
    /\ B(buf, 17) = CR /\ B(buf, 18) = LF
    /\ B(buf, 34) = CR /\ B(buf, 35) = LF
    /\ B(buf, 46) = CR /\ B(buf, 47) = LF
    /\ \A k \in {52, 53, 55, 56, 58, 59} : IsDigit(B(buf, k))
    /\ B(buf, 60) = CR /\ B(buf, 61) = LF
    /\ \A k \in {62, 63, 65, 66, 68, 69} : IsDigit(B(buf, k))

\* The decoded sample: distances are kept as their 32-bit patterns.
SampleOf(le, buf) ==
    [kind |-> "sample",
     dist  |-> <<F32At(le, buf, 2), F32At(le, buf, 8), F32At(le, buf, 14)>>,
     ampl  |-> <<U16At(le, buf, 6), U16At(le, buf, 12), U16At(le, buf, 18)>>]

\* The decoded identification fields that carry control decisions: the
\* firmware version split, the build / electronics repurposing and the
\* date ordering selected by the separator byte.
IdentOf(le, buf) ==
    LET usi   == U16At(le, buf, 48)
        elec  == B(buf, 50)
        major == usi \div 4096
        minor == (usi % 4096) \div 256
        micro == usi % 256
        newer == minor > 4 \/ (minor = 4 /\ micro > 0)
    IN [kind  |-> "ident",
        newer |-> newer,
        fw    |-> <<major, minor, micro, IF newer THEN elec ELSE elec % 16>>,
        electronics |-> IF newer THEN 0 ELSE elec \div 16,
        date  |-> IF B(buf, 57) = SLASH
                  THEN <<B(buf, 58), B(buf, 59), B(buf, 55), B(buf, 56), B(buf, 52), B(buf, 53)>>
                  ELSE <<B(buf, 52), B(buf, 53), B(buf, 55), B(buf, 56), B(buf, 58), B(buf, 59)>>,
        time  |-> <<B(buf, 62), B(buf, 63), B(buf, 65), B(buf, 66), B(buf, 68), B(buf, 69)>>]

\* Final diagnostic values: a uint16_t view at dec_buf + 2, byte-swapped in
\* place on a big-endian host.
Swap16(v) == (v % 256) * 256 + v \div 256
DiagValsOf(le, buf, total) ==
    [j \in 1..total |->
        LET raw == Mem16(le, <<B(buf, 2 * j), B(buf, 2 * j + 1)>>)
        IN  IF le THEN raw ELSE Swap16(raw)]
=============================================================================
