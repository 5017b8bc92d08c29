\* Line faults and a small shared buffer: a 24-byte shared decode buffer,
\* one line fault (a spurious 0x59 sync byte inserted anywhere in the
\* stream, or a frame byte dropped by a receive-queue overrun), frames that
\* fit, diagnostic headers resolving below and above the buffer, continuous
\* streaming with no receive gap.  Substituted bytes and inserted bytes of
\* other values are not in this run: MCLRFSerialComm_noise.cfg shows one
\* inserted value that the checkbyte does not catch.
CONSTANTS
    Handlers <- MCHandlers
    SharedStorageSize = 24
    SharedStorageChoices = {TRUE}
    DiagProgressUpdateEvery = 0
    RxBufSize = 2
    UartRxTimeout = 1
    DeviceFrames <- SmallBufFrames
    GenuineRecords <- MCGenuineRecords
    NoiseBytes <- MCNoise
    MaxFaults = 1
    TickBits = 8
    StartTick = 255
    MaxTime = 0

SPECIFICATION Spec

INVARIANT TypeOK
INVARIANT GenuineDispatch
PROPERTY FrameEventuallyClosed
CHECK_DEADLOCK FALSE
