----------------------------- MODULE LRFCommand -----------------------------
(***************************************************************************)
(* The command encoder of lrf_serial_comm.c: send_lrf_command writes the   *)
(* prebuilt byte array of a command to the UART with uart_tx.             *)
(*                                                                         *)
(* Each array is declared `static uint8_t cmd_x[] = "..."` and sent with  *)
(* sizeof(cmd_x), which counts the NUL that terminates the string         *)
(* literal.  tx is the sequence of uart_tx transfers, sent the commands    *)
(* they were made for.  The red LED flash started first is a call into    *)
(* led_control, which is not part of this source and is left out.         *)
(***************************************************************************)
EXTENDS LRFCodec, SequencesExt

CONSTANT MaxSends   \* bound on the commands sent in a behaviour

ASSUME MaxSends \in Nat

LRFCommand ==
    {"smm", "cmm_1hz", "cmm_4hz", "cmm_10hz", "cmm_20hz", "cmm_100hz",
     "cmm_200hz", "cmm_break", "pointer_on", "pointer_off", "send_ident",
     "read_diag"}

\* The characters of the string literals.
CmdLiteral ==
    ("smm"         :> <<204, 0, 0, 0, 156>>) @@
    ("cmm_1hz"     :> <<204, 1, 0, 0, 157>>) @@
    ("cmm_4hz"     :> <<204, 2, 0, 0, 158>>) @@
    ("cmm_10hz"    :> <<204, 3, 0, 0, 159>>) @@
    ("cmm_20hz"    :> <<204, 4, 0, 0, 128>>) @@
    ("cmm_100hz"   :> <<204, 5, 0, 0, 129>>) @@
    ("cmm_200hz"   :> <<204, 6, 0, 0, 130>>) @@
    ("cmm_break"   :> <<198, 150>>) @@
    ("pointer_on"  :> <<197, 2, 151>>) @@
    ("pointer_off" :> <<197, 0, 149>>) @@
    ("send_ident"  :> <<192, 144>>) @@
    ("read_diag"   :> <<220, 140>>)

\* Mutation of cmd_array: the 200 Hz literal copied from the 100 Hz one
\* with only the rate byte edited.
cmd_array_copied(c) ==
    IF c = "cmm_200hz" THEN <<204, 6, 0, 0, 129, 0>> ELSE CmdLiteral[c] \o <<0>>
\* The array: the literal's characters and the terminating NUL.
cmd_array(c) == CmdLiteral[c] \o <<0>>

VARIABLES tx, sent
vars == <<tx, sent>>

Init == tx = <<>> /\ sent = <<>>

\* send_lrf_command(app, cmd): uart_tx(app, cmd_x, sizeof(cmd_x)).
send_lrf_command(cmd) ==
    /\ Len(sent) < MaxSends
    /\ tx' = Append(tx, cmd_array(cmd))
    /\ sent' = Append(sent, cmd)

Next == \E cmd \in LRFCommand : send_lrf_command(cmd)

Spec == Init /\ [][Next]_vars

-----------------------------------------------------------------------------
(* The rangefinder's command formats: the opcode of each command and the  *)
(* length of a command frame with that opcode, checkbyte included.        *)
Opcode(cmd) ==
    CASE cmd \in {"smm", "cmm_1hz", "cmm_4hz", "cmm_10hz", "cmm_20hz",
                  "cmm_100hz", "cmm_200hz"} -> 204
      [] cmd = "cmm_break" -> 198
      [] cmd \in {"pointer_on", "pointer_off"} -> 197
      [] cmd = "send_ident" -> 192
      [] cmd = "read_diag" -> 220
FrameLen(op) ==
    CASE op = 204 -> 5 [] op = 198 -> 2 [] op = 197 -> 3 [] op = 192 -> 2 [] op = 220 -> 2

\* A transfer opens with a complete command frame for the command asked
\* for, whose checkbyte verifies (the prebuilt arrays of send_lrf_command).
WellFormed(bytes, cmd) ==
    LET n == FrameLen(Opcode(cmd)) IN
    /\ Len(bytes) >= n
    /\ bytes[1] = Opcode(cmd)
    /\ bytes[n] = checkbyte(SubSeq(bytes, 1, n - 1))

\* Every transfer made by send_lrf_command starts with a well-formed frame
\* of the command it was called with.
CommandFramesValid == \A i \in 1..Len(tx) : WellFormed(tx[i], sent[i])

\* Every transfer is exactly the command's frame and nothing more: "the
\* associated fixed byte sequence, with no additional framing".
ExactCommandBytes ==
    \A i \in 1..Len(tx) : Len(tx[i]) = FrameLen(Opcode(sent[i]))

-----------------------------------------------------------------------------
(* The receiving side's test of a frame of n bytes: its last byte equals   *)
(* the checkbyte of the bytes before it (uart_rx_thread applies the same   *)
(* test to every inbound frame, and the rangefinder to every command).     *)
Verifies(f, n) == f[n] = checkbyte(SubSeq(f, 1, n - 1))

\* Byte k of a frame replaced by v, as a line error would.
Corrupt(f, k, v) == [f EXCEPT ![k] = v]

\* What the 8-bit additive checkbyte can and cannot tell: on every frame
\* sent, any single wrong byte (checkbyte included) fails the test, while
\* two data bytes changed by opposite amounts modulo 256 always pass it.
\* The spec relies on the test rejecting corrupted frames; only the first
\* half holds.
ChecksumDetection ==
    \A i \in 1..Len(tx) :
        LET n == FrameLen(Opcode(sent[i]))
            f == SubSeq(tx[i], 1, n)
        IN  /\ \A k \in 1..n : \A v \in (0..255) \ {f[k]} :
                   ~Verifies(Corrupt(f, k, v), n)
            /\ \A j, k \in 1..n - 1, d \in 1..255 :
                   j # k => Verifies(Corrupt(Corrupt(f, j, (f[j] + d) % 256),
                                             k, (f[k] + 256 - d) % 256), n)
=============================================================================
