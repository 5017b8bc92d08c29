\* Two keys, up to three level changes and three press timer expiries: a
\* key can go long and repeat, be released while its timer is about to
\* fire, and be pressed again; both keys can be in a press at once.  The
\* debounce and long-press constants are those of input_i.h.
CONSTANTS
    NumKeys = 2
    CounterMax = 2
    INPUT_DEBOUNCE_TICKS = 4
    INPUT_LONG_PRESS_COUNTS = 2
    MaxToggles = 3
    MaxFires = 3
SPECIFICATION Spec
INVARIANT TypeOK
PROPERTY PressProtocol
PROPERTY DebounceSettles
CHECK_DEADLOCK FALSE
