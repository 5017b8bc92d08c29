\* Receive path, no line faults: measurement and diagnostic frames (including
\* headers that resolve out of bounds) streamed back to back into the default
\* 128-byte decode buffer, two-byte batches, a clock that wraps from 255 to 1
\* and a receive-gap timeout of two ticks, so that both a progress callback
\* (one tick) and a gap reset (two ticks) happen inside a frame.
CONSTANTS
    Handlers <- MCHandlers
    SharedStorageSize = 130
    SharedStorageChoices = {FALSE}
    DiagProgressUpdateEvery = 0
    RxBufSize = 2
    UartRxTimeout = 2
    DeviceFrames <- MeasDiagFrames
    GenuineRecords <- MCGenuineRecords
    NoiseBytes <- MCNoise
    MaxFaults = 0
    TickBits = 8
    StartTick = 255
    MaxTime = 2

SPECIFICATION Spec

INVARIANT GenuineDispatch
INVARIANT StreamFreedAfterRxStop
PROPERTY DiagProgressOrder
PROPERTY StreamDrains
CHECK_DEADLOCK FALSE
