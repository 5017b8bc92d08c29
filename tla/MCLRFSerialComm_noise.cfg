\* One noise byte inserted into a continuous stream of measurement frames:
\* a byte value that the checkbyte of a shifted frame cannot tell from the
\* genuine byte, on the default decode buffer, with no receive gap.
CONSTANTS
    Handlers <- MCHandlers
    SharedStorageSize = 24
    SharedStorageChoices = {FALSE}
    DiagProgressUpdateEvery = 0
    RxBufSize = 2
    UartRxTimeout = 1
    DeviceFrames <- MeasOnly
    GenuineRecords <- MCGenuineRecords
    NoiseBytes <- MCNoiseCollide
    MaxFaults = 1
    TickBits = 8
    StartTick = 255
    MaxTime = 0

SPECIFICATION Spec

INVARIANT GenuineDispatch
CHECK_DEADLOCK FALSE
