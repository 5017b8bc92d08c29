\* Identification frames (both firmware generations and date orders, both
\* host byte orders, and a frame with a broken line terminator) into either
\* the 128-byte default buffer, where they decode, or a 24-byte shared
\* buffer, where the clamp holds the 73-byte frames.  Receive gaps of two
\* ticks reset the frame.
CONSTANTS
    Handlers <- MCHandlers
    SharedStorageSize = 24
    SharedStorageChoices = {FALSE, TRUE}
    DiagProgressUpdateEvery = 0
    RxBufSize = 2
    UartRxTimeout = 2
    DeviceFrames <- IdentFrames
    GenuineRecords <- MCGenuineRecords
    NoiseBytes <- MCNoise
    MaxFaults = 0
    TickBits = 8
    StartTick = 255
    MaxTime = 3

SPECIFICATION Spec

INVARIANT GenuineDispatch
CHECK_DEADLOCK FALSE
