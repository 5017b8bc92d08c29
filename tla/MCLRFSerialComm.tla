--------------------------- MODULE MCLRFSerialComm ---------------------------
(***************************************************************************)
(* Model-checking instance of LRFSerialComm.  The rangefinder's frames    *)
(* are built here from field values with the wire format of the protocol  *)
(* (little-endian fields, trailing checkbyte), and the records the        *)
(* handlers must receive are written from the same field values, so the  *)
(* decoder's byte handling is checked against the values, not against    *)
(* itself.                                                                 *)
(***************************************************************************)
EXTENDS LRFSerialComm

LE16(v) == <<v % 256, v \div 256>>
LE32(v) == LE16(v % 65536) \o LE16(v \div 65536)
Rep(v, n) == [i \in 1..n |-> v]
Framed(body) == body \o <<checkbyte(body)>>
CRLF == <<CR, LF>>
D(c) == 48 + c      \* ASCII digit

(* Measurement: three (distance bits, amplitude) pairs and one spare byte.*)
MeasDist == <<1150173184, 0, 16909060>>      \* 1234.0f, 0.0f, 0x01020304
MeasAmpl == <<258, 0, 772>>
MeasFrame ==
    Framed(<<SYNC, OP_MEAS>> \o LE32(MeasDist[1]) \o LE16(MeasAmpl[1])
           \o LE32(MeasDist[2]) \o LE16(MeasAmpl[2])
           \o LE32(MeasDist[3]) \o LE16(MeasAmpl[3]) \o <<0>>)
Halves(v) == <<v \div 65536, v % 65536>>
MeasRecord == [kind |-> "sample", dist |-> [i \in 1..3 |-> Halves(MeasDist[i])],
               ampl |-> MeasAmpl]

(* Identification: id, additional info and serial lines, firmware word,   *)
(* electronics and optics bytes, build date and time lines.  addinfo_end  *)
(* is the terminator of the second line; sep separates the date fields.   *)
IdentFrame(addinfo_end, fw, elec, d1, d2, d3, sep) ==
    Framed(<<SYNC, OP_IDENT>> \o Rep(65, 15) \o CRLF \o Rep(66, 15) \o addinfo_end
           \o Rep(67, 10) \o CRLF \o LE16(fw) \o <<elec, 3>>
           \o d1 \o <<sep>> \o d2 \o <<sep>> \o d3 \o CRLF
           \o <<D(1), D(0), 58, D(2), D(0), 58, D(3), D(0)>> \o CRLF)
BuildTime == <<D(1), D(0), D(2), D(0), D(3), D(0)>>
Yr == <<D(2), D(4)>>
Mo == <<D(0), D(5)>>
Dy == <<D(1), D(2)>>

\* Firmware 1.5.1 (newer than x.4): the electronics byte is the build number;
\* day/month/year date.
IdentNew == IdentFrame(CRLF, 5377, 35, Dy, Mo, Yr, SLASH)
IdentNewRecord ==
    [kind |-> "ident", newer |-> TRUE, fw |-> <<1, 5, 1, 35>>, electronics |-> 0,
     date |-> Yr \o Mo \o Dy, time |-> BuildTime]
\* Firmware 1.3.0: electronics type 2, build 3; year.month.day date.
IdentOld == IdentFrame(CRLF, 4864, 35, Yr, Mo, Dy, 46)
IdentOldRecord ==
    [kind |-> "ident", newer |-> FALSE, fw |-> <<1, 3, 0, 3>>, electronics |-> 2,
     date |-> Yr \o Mo \o Dy, time |-> BuildTime]
\* Firmware 1.5.2 with the additional-info line not terminated: never dispatched.
IdentBad == IdentFrame(<<CR, 66>>, 5378, 35, Dy, Mo, Yr, SLASH)

(* Diagnostics: data count, histogram length, then the 16-bit values.     *)
DiagFrame(count, hlen, words) ==
    Framed(<<SYNC, OP_DIAG>> \o LE16(count) \o LE16(hlen)
           \o FlattenSeq([i \in 1..Len(words) |-> LE16(words[i])]))
DiagRecord(count, hlen, words) ==
    [kind |-> "diag", ev |-> "final", nb_vals |-> 2 + Len(words),
     total_vals |-> 2 + Len(words), vals |-> <<count, hlen>> \o words]
\* count 2, one histogram value: 11 bytes, 4 values.
Diag2 == DiagFrame(2, 1, <<5, 9>>)
\* count 0 (the length formula wraps), one histogram value: 7 bytes.
Diag0 == DiagFrame(0, 1, <<>>)
\* Headers that resolve out of bounds: 5 bytes and 207 bytes.
DiagTooShort == <<SYNC, OP_DIAG>> \o LE16(0) \o LE16(0)
DiagTooLong == <<SYNC, OP_DIAG>> \o LE16(1) \o LE16(100)

\* count 1, ten histogram values: resolves to 27 bytes, 12 values.
Diag27 == DiagFrame(1, 10, Rep(7, 10))

MeasDiagFrames == {MeasFrame, Diag2, Diag0, DiagTooShort, DiagTooLong}
IdentFrames == {IdentNew, IdentOld, IdentBad}
\* Frames for a 24-byte shared buffer: one that fits, one that fits with
\* its length resolved, and headers below and above the bounds.
SmallBufFrames == {MeasFrame, Diag2, DiagTooShort, Diag27}
\* A frame longer than a 24-byte shared buffer, and one that fits.
OversizedFrames == {IdentNew, MeasFrame}
\* A diagnostic frame resolving to exactly a 27-byte buffer's size.
ExactFitFrames == {Diag27, MeasFrame}
MCGenuineRecords ==
    {MeasRecord, IdentNewRecord, IdentOldRecord,
     DiagRecord(2, 1, <<5, 9>>), DiagRecord(0, 1, <<>>),
     DiagRecord(1, 10, Rep(7, 10))}
MCHandlers == {"sample", "ident", "diag"}
MCNoise == {SYNC}

(* A noise byte that a measurement frame cannot reject: the values which, *)
(* inserted after the opcode, leave a 22-byte prefix whose last byte is   *)
(* the checkbyte of the 21 before it.                                      *)
MCNoiseCollide ==
    {x \in 0..255 :
        \E p \in 3..Len(MeasFrame) - 1 :
            LET g == SubSeq(InsertAt(MeasFrame, p, x), 1, Len(MeasFrame))
            IN  g[Len(g)] = checkbyte(SubSeq(g, 1, Len(g) - 1))}
MeasOnly == {MeasFrame}
=============================================================================
