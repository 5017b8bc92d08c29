---------------------------- MODULE InputService ----------------------------
(***************************************************************************)
(* The input service of src/applications/services/input/input.c.        *)
(*                                                                         *)
(* Three actors share the pin states:                                     *)
(*  - the input thread (input_srv) scans every pin, debounces it and       *)
(*    publishes Press, Short and Release, starting the pin's press timer  *)
(*    on a press and stopping it on a release;                             *)
(*  - the timer service thread runs input_press_timer_callback for an     *)
(*    active press timer (Long, Repeat) and processes the start and stop  *)
(*    commands the input thread queues for it, all pending commands in   *)
(*    one go, after any expired timer;                                     *)
(*  - the user toggles the keys, and input_isr sets the thread flag.      *)
(* furi_timer_is_running reads the timer service's view of the timer, so  *)
(* a stop is only seen once the timer service has processed it.          *)
(*                                                                         *)
(* input->counter and pin_states[i].counter are never initialised after  *)
(* malloc: they start at any value.  Time is abstracted: a timer fires at *)
(* any moment while active, bounded by MaxFires.                           *)
(***************************************************************************)
EXTENDS Naturals, Sequences

CONSTANTS
    NumKeys,                  \* input_pins_count
    CounterMax,               \* largest sequence counter before it wraps
    INPUT_DEBOUNCE_TICKS,
    INPUT_LONG_PRESS_COUNTS,
    MaxToggles,               \* bound on key level changes
    MaxFires                  \* bound on press timer expiries

ASSUME NumKeys \in Nat \ {0} /\ CounterMax \in Nat
ASSUME INPUT_DEBOUNCE_TICKS \in Nat \ {0} /\ INPUT_LONG_PRESS_COUNTS \in Nat \ {0}
ASSUME MaxToggles \in Nat /\ MaxFires \in Nat

Keys == 1..NumKeys
Counter == 0..CounterMax
INPUT_DEBOUNCE_TICKS_HALF == INPUT_DEBOUNCE_TICKS \div 2

VARIABLES
    level,          \* GPIO_Read of each pin (inversion applied)
    toggles,        \* level changes so far
    pin_state,      \* pin_states[i].state, the debounced level
    debounce,       \* pin_states[i].debounce
    press_counter,  \* pin_states[i].press_counter
    pin_counter,    \* pin_states[i].counter, sequence of the current press
    counter,        \* input->counter
    timer,          \* timer service's view of each press timer
    timer_cmds,     \* start/stop commands queued for the timer service
    fires,          \* press timer expiries so far
    isr_flag,       \* INPUT_THREAD_FLAG_ISR pending
    pc,             \* where the input thread is
    idx,            \* the pin the scan loop is at
    is_changing,    \* is_changing of the current scan
    events          \* events published to the input pubsub, in order

vars == <<level, toggles, pin_state, debounce, press_counter, pin_counter, counter,
          timer, timer_cmds, fires, isr_flag, pc, idx, is_changing, events>>

Ev(type, k, s) == [type |-> type, key |-> k, seq |-> s]

\* input_srv before its loop: the event pubsub is created with nothing
\* published (the CLI registration keeps no state of the model), then every
\* pin starts at its read level with the debounce counter half way.
Init ==
    /\ level \in [Keys -> BOOLEAN]
    /\ toggles = 0
    /\ pin_state = level
    /\ debounce = [k \in Keys |-> INPUT_DEBOUNCE_TICKS_HALF]
    /\ press_counter = [k \in Keys |-> 0]
    /\ pin_counter \in [Keys -> Counter]
    /\ counter \in Counter
    /\ timer = [k \in Keys |-> "idle"]
    /\ timer_cmds = [k \in Keys |-> <<>>]
    /\ fires = 0
    /\ isr_flag = FALSE
    /\ pc = "scan" /\ idx = 1 /\ is_changing = FALSE
    /\ events = <<>>

-----------------------------------------------------------------------------
(* The user changes a key's level; the GPIO interrupt runs input_isr.     *)
Toggle(k) ==
    /\ toggles < MaxToggles
    /\ level' = [level EXCEPT ![k] = ~@]
    /\ toggles' = toggles + 1
    /\ isr_flag' = TRUE
    /\ UNCHANGED <<pin_state, debounce, press_counter, pin_counter, counter,
                   timer, timer_cmds, fires, pc, idx, is_changing, events>>

-----------------------------------------------------------------------------
(* The input thread.                                                       *)

\* Mutation of DebounceStep: the counter saturates one short of the top.
DebounceStep_short(d, s) ==
    IF s THEN (IF d < INPUT_DEBOUNCE_TICKS - 1 THEN d + 1 ELSE d)
         ELSE (IF d > 0 THEN d - 1 ELSE d)
\* The debounce counter moves one step towards the level read.
DebounceStep(d, s) ==
    IF s THEN (IF d < INPUT_DEBOUNCE_TICKS THEN d + 1 ELSE d)
         ELSE (IF d > 0 THEN d - 1 ELSE d)

\* A pin is still bouncing while its counter is strictly between the ends.
Changing(d) == d > 0 /\ d < INPUT_DEBOUNCE_TICKS

\* End of one pin of the for loop: the next pin, or the end of the scan,
\* which delays a tick and rescans while a pin is changing and otherwise
\* blocks on the ISR flag.
NextPin(chg) ==
    IF idx < NumKeys
    THEN /\ idx' = idx + 1 /\ is_changing' = chg /\ pc' = "scan"
    ELSE /\ idx' = 1 /\ is_changing' = FALSE
         /\ pc' = IF chg THEN "scan" ELSE "wait"

\* One pin of the scan, up to the stop of the press timer on a release.
ScanPin ==
    LET k == idx
        s == level[k]
        d == DebounceStep(debounce[k], s)
    IN
    /\ pc = "scan"
    /\ debounce' = [debounce EXCEPT ![k] = d]
    /\ IF Changing(d) \/ pin_state[k] = s
       THEN /\ NextPin(is_changing \/ Changing(d))
            /\ UNCHANGED <<pin_state, pin_counter, counter, timer_cmds, events>>
       ELSE /\ pin_state' = [pin_state EXCEPT ![k] = s]
            /\ timer_cmds' = [timer_cmds EXCEPT ![k] = Append(@, IF s THEN "start" ELSE "stop")]
            /\ IF s
               THEN /\ counter' = (counter + 1) % (CounterMax + 1)
                    /\ pin_counter' = [pin_counter EXCEPT ![k] = counter']
                    /\ events' = Append(events, Ev("Press", k, counter'))
                    /\ NextPin(is_changing)
               ELSE /\ pc' = "stopwait"
                    /\ UNCHANGED <<pin_counter, counter, events, idx, is_changing>>
    /\ UNCHANGED <<level, toggles, press_counter, timer, fires, isr_flag>>

\* Mutation of TimerIsRunning: the release does not wait for the stop.
TimerIsRunning_never(k) == FALSE
\* furi_timer_is_running: the timer service's view of the timer.
TimerIsRunning(k) == timer[k] = "active"

\* After the busy wait for the stop: Short unless the press went long, the
\* press counter reset, then Release.
ReleaseDone ==
    LET k == idx IN
    /\ pc = "stopwait"
    /\ ~TimerIsRunning(k)
    /\ press_counter' = [press_counter EXCEPT ![k] = 0]
    /\ events' = events
                 \o (IF press_counter[k] < INPUT_LONG_PRESS_COUNTS
                     THEN <<Ev("Short", k, pin_counter[k])>> ELSE <<>>)
                 \o <<Ev("Release", k, pin_counter[k])>>
    /\ NextPin(is_changing)
    /\ UNCHANGED <<level, toggles, pin_state, debounce, pin_counter, counter,
                   timer, timer_cmds, fires, isr_flag>>

\* furi_thread_flags_wait(INPUT_THREAD_FLAG_ISR) returns and clears the flag.
WaitIsr ==
    /\ pc = "wait"
    /\ isr_flag
    /\ isr_flag' = FALSE
    /\ pc' = "scan"
    /\ UNCHANGED <<level, toggles, pin_state, debounce, press_counter, pin_counter,
                   counter, timer, timer_cmds, fires, idx, is_changing, events>>

-----------------------------------------------------------------------------
(* The timer service thread.                                               *)

\* Mutation of HeldCount: the count never held back.
HeldCount_none(n) == n
\* Past the threshold the callback takes the increment back.
HeldCount(n) == IF n > INPUT_LONG_PRESS_COUNTS THEN n - 1 ELSE n

\* input_press_timer_callback: count the period; Long at the threshold,
\* Repeat past it with the counter held at the threshold.
PressTimerCallback(k) ==
    LET n == press_counter[k] + 1 IN
    /\ timer[k] = "active"
    /\ fires < MaxFires
    /\ fires' = fires + 1
    /\ press_counter' = [press_counter EXCEPT ![k] = HeldCount(n)]
    /\ events' = CASE n = INPUT_LONG_PRESS_COUNTS -> Append(events, Ev("Long", k, pin_counter[k]))
                   [] n > INPUT_LONG_PRESS_COUNTS -> Append(events, Ev("Repeat", k, pin_counter[k]))
                   [] OTHER -> events
    /\ UNCHANGED <<level, toggles, pin_state, debounce, pin_counter, counter,
                   timer, timer_cmds, isr_flag, pc, idx, is_changing>>

\* The timer service takes all queued commands of a timer; the last wins.
TimerCommands(k) ==
    /\ timer_cmds[k] # <<>>
    /\ timer' = [timer EXCEPT ![k] =
                    IF timer_cmds[k][Len(timer_cmds[k])] = "start" THEN "active" ELSE "idle"]
    /\ timer_cmds' = [timer_cmds EXCEPT ![k] = <<>>]
    /\ UNCHANGED <<level, toggles, pin_state, debounce, press_counter, pin_counter,
                   counter, fires, isr_flag, pc, idx, is_changing, events>>

-----------------------------------------------------------------------------
Next ==
    \/ ScanPin \/ ReleaseDone \/ WaitIsr
    \/ \E k \in Keys : Toggle(k) \/ PressTimerCallback(k) \/ TimerCommands(k)

(* Both threads are scheduled whenever they can run: the input thread     *)
(* busy-waits with furi_delay_tick and the timer service runs at high     *)
(* priority.  Timer expiries and key changes are the environment's.       *)
Fairness ==
    /\ WF_vars(ScanPin) /\ WF_vars(ReleaseDone) /\ WF_vars(WaitIsr)
    /\ \A k \in Keys : WF_vars(TimerCommands(k))

Spec == Init /\ [][Next]_vars /\ Fairness

-----------------------------------------------------------------------------
(* Properties                                                              *)

TypeOK ==
    /\ level \in [Keys -> BOOLEAN] /\ pin_state \in [Keys -> BOOLEAN]
    /\ debounce \in [Keys -> 0..INPUT_DEBOUNCE_TICKS]
    /\ press_counter \in [Keys -> 0..INPUT_LONG_PRESS_COUNTS]
    /\ pin_counter \in [Keys -> Counter] /\ counter \in Counter
    /\ timer \in [Keys -> {"idle", "active"}]
    /\ timer_cmds \in [Keys -> Seq({"start", "stop"})]
    /\ pc \in {"scan", "stopwait", "wait"} /\ idx \in Keys

\* The press each key is in, as its subscribers see it: a key whose
\* release is waiting for the timer stop is still down.
AbsPhase ==
    [k \in Keys |->
        IF pin_state[k] \/ (pc = "stopwait" /\ idx = k)
        THEN IF press_counter[k] >= INPUT_LONG_PRESS_COUNTS THEN "long" ELSE "down"
        ELSE "up"]

Press == INSTANCE InputPress WITH phase <- AbsPhase, seq_of <- pin_counter

\* The events published by the input thread and the timer callback
\* together form, key by key, Press, then Short or Long and Repeats, then
\* Release, with the press's sequence counter: in particular no Short and
\* Long for one press, and no Long or Repeat after its Release (the stop
\* and busy wait in input_srv against input_press_timer_callback).
PressProtocol == Press!Spec

\* Once the keys stop changing, every debounced state comes to agree with
\* its key and the release in progress completes (debounce loop and ISR
\* flag of input_srv).
DebounceSettles ==
    <>[](\A k \in Keys : pin_state[k] = level[k] /\ pc # "stopwait")
=============================================================================
