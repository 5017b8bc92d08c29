\* The dolphin service with two application threads against the 8-slot
\* queue of dolphin_alloc.  In the first 40 s the threads can make eight
\* deeds, a stats or flush call and a level up (pending once the first
\* deed is applied): at one instant enough puts to fill the queue, and
\* the flush timer of a deed expires while senders are blocked.  The timers then run on for 50 h, so that the
\* hourly check, the clear-limits timer and the 48 h butthurt timer all
\* come.  The first idle hour ends before 05:00 (boot 23:30) or in the
\* 05:00 hour (boot 04:30); the later hourly checks reach every other hour
\* of the day.  Ticks are 30 bits
\* wide (every deadline of the run stays below 2^30 ms).
CONSTANTS
    Apps = {a1, a2}
    QueueSize = 8
    TickBits = 30
    BootRtc = {16200, 84600}
    AppGaps = {35000}
    MaxDeeds = 8
    MaxWaits = 1
    MaxUpgrades = 1
    LevelUps = {1}
    MaxGaps = 1
    CallWindow = 40000
    MaxTime = 180000000
SPECIFICATION Spec
INVARIANT TypeOK
INVARIANT UnsavedChangesFlushPending
INVARIANT ClearTimerAimsAt5
PROPERTY WaitersReturn
CHECK_DEADLOCK FALSE
