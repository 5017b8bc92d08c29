\* A 24-byte shared decode buffer receiving 73-byte identification frames
\* while the device streams without a receive gap.
CONSTANTS
    Handlers <- MCHandlers
    SharedStorageSize = 24
    SharedStorageChoices = {TRUE}
    DiagProgressUpdateEvery = 0
    RxBufSize = 2
    UartRxTimeout = 1
    DeviceFrames <- OversizedFrames
    GenuineRecords <- MCGenuineRecords
    NoiseBytes <- MCNoise
    MaxFaults = 0
    TickBits = 8
    StartTick = 255
    MaxTime = 0

SPECIFICATION Spec

PROPERTY FrameEventuallyClosed
CHECK_DEADLOCK FALSE
