\* A 27-byte shared decode buffer and a diagnostic frame whose header
\* resolves to exactly 27 bytes, streamed without a receive gap.
CONSTANTS
    Handlers <- MCHandlers
    SharedStorageSize = 27
    SharedStorageChoices = {TRUE}
    DiagProgressUpdateEvery = 0
    RxBufSize = 2
    UartRxTimeout = 1
    DeviceFrames <- ExactFitFrames
    GenuineRecords <- MCGenuineRecords
    NoiseBytes <- MCNoise
    MaxFaults = 0
    TickBits = 8
    StartTick = 255
    MaxTime = 0

SPECIFICATION Spec

PROPERTY FrameEventuallyClosed
CHECK_DEADLOCK FALSE
