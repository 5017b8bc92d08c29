\* Any two commands sent one after the other.
CONSTANTS MaxSends = 2  TickBits = 8
SPECIFICATION Spec
INVARIANT CommandFramesValid
INVARIANT ChecksumDetection
CHECK_DEADLOCK FALSE
