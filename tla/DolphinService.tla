--------------------------- MODULE DolphinService ---------------------------
(***************************************************************************)
(* The dolphin service of src/applications/services/dolphin/dolphin.c.   *)
(*                                                                         *)
(* Actors:                                                                 *)
(*  - the service thread (dolphin_srv) takes events from the 8-slot queue *)
(*    one at a time and handles each completely, releasing a waiting      *)
(*    sender at the end; when no event comes for an hour it re-aims the   *)
(*    clear-limits timer at the next 05:00;                                *)
(*  - the timer service runs the butthurt (periodic, 48 h), flush (once,  *)
(*    30 s) and clear-limits (periodic, 24 h) callbacks, each of which     *)
(*    puts an event, blocking while the queue is full;                     *)
(*  - application threads send deeds (dolphin_deed), ask for stats or a   *)
(*    flush and wait for the answer (dolphin_event_send_wait), or level   *)
(*    up (dolphin_upgrade_level).                                          *)
(*                                                                         *)
(* Time is in milliseconds and advances from one deadline to the next or  *)
(* by a gap between application calls; handling an event takes no time.  *)
(* Ticks are kept modulo 2^TickBits (32 in the code; the deadlines and    *)
(* delays of a run stay far below 2^TickBits, so only a negative result   *)
(* wraps, as it does at 32 bits).                                          *)
(*                                                                         *)
(* The dolphin state (dolphin_state.c, not part of this source) is kept    *)
(* as what the calls made here do to it: a deed adds experience unless a *)
(* level up is pending (the experience counter is at one of LevelUps, the *)
(* values at which dolphin_state_xp_to_levelup is zero), a level up,      *)
(* made only while one is pending, adds one; clear-limits and butthurt    *)
(* change their own counters, and a save copies the state to storage.     *)
(***************************************************************************)
EXTENDS Integers, Sequences, FiniteSets

CONSTANTS
    Apps,           \* application threads
    QueueSize,      \* furi_message_queue_alloc(8, ...)
    TickBits,       \* width of the tick arithmetic
    BootRtc,        \* possible RTC times of day (s) at boot
    AppGaps,        \* possible delays (ms) between application calls
    MaxDeeds,       \* bound on dolphin_deed calls
    MaxWaits,       \* bound on dolphin_stats / dolphin_flush calls
    MaxUpgrades,    \* bound on dolphin_upgrade_level calls
    LevelUps,       \* icounter values at which a level up is pending
    MaxGaps,        \* bound on time steps that end between deadlines
    CallWindow,     \* application calls start before this tick (ms)
    MaxTime         \* time horizon (ms)

ASSUME QueueSize \in Nat \ {0} /\ TickBits \in 1..30
ASSUME BootRtc \subseteq 0..86399 /\ AppGaps \subseteq Nat \ {0}
ASSUME {MaxDeeds, MaxWaits, MaxUpgrades, MaxGaps, CallWindow, MaxTime} \subseteq Nat
ASSUME LevelUps \subseteq Nat

HOURS_IN_TICKS(x) == x * 60 * 60 * 1000
Off == -1                     \* a timer that is not running
NoFlag == "none"              \* event->flag = NULL
Timers == {"butthurt", "flush", "clear_limits"}
TickMod == 2^TickBits
U32(x) == x % TickMod          \* uint32_t result of a tick computation

VARIABLES
    now,            \* furi_get_tick
    rtc0,           \* RTC time of day at boot (s)
    queue,          \* dolphin->event_queue
    deadline,       \* expiry tick of each timer, or Off
    get_deadline,   \* when the service's furi_message_queue_get times out
    data,           \* dolphin->state->data
    saved,          \* the state last written by dolphin_state_save
    app_pc,         \* where each application thread is
    flag,           \* DOLPHIN_LOCK_EVENT_FLAG of each waiting thread
    calls,          \* deeds, waits, upgrades and gaps so far
    checked,        \* the service has re-aimed the clear-limits timer
    cleared_at      \* RTC time of day of the last clear-limits expiry

vars == <<now, rtc0, queue, deadline, get_deadline, data, saved, app_pc, flag,
          calls, checked, cleared_at>>

Event(type, fl) == [type |-> type, flag |-> fl]

\* RTC time of day (s) at a tick.
Tod(t) == (rtc0 + t \div 1000) % 86400

\* dolphin_srv up to its loop: load, start the butthurt timer, re-aim the
\* clear-limits timer, then restart it for 24 h.
Init ==
    /\ now = 0
    /\ rtc0 \in BootRtc
    /\ queue = <<>>
    /\ deadline = [t \in Timers |->
                     CASE t = "butthurt" -> HOURS_IN_TICKS(2 * 24)
                       [] t = "flush" -> Off
                       [] t = "clear_limits" -> HOURS_IN_TICKS(24)]
    /\ get_deadline = HOURS_IN_TICKS(1)
    /\ data = [icounter |-> 0, butthurt |-> 0, clears |-> 0]
    /\ saved = data
    /\ app_pc = [a \in Apps |-> "idle"]
    /\ flag = [a \in Apps |-> FALSE]
    /\ calls = [deeds |-> 0, waits |-> 0, upgrades |-> 0, gaps |-> 0]
    /\ checked = FALSE
    /\ cleared_at = Off

-----------------------------------------------------------------------------
(* The event queue.                                                        *)

\* Mutation of HasRoom: the put does not wait for a free slot.
HasRoom_always == TRUE
\* furi_message_queue_put(..., FuriWaitForever) blocks while full.
HasRoom == Len(queue) < QueueSize

\* Mutation of WaitFlag: the waiting sender clears the flag like an async one.
WaitFlag_null(a) == NoFlag
\* dolphin_event_send_wait: the event carries the caller's event flag.
WaitFlag(a) == a

-----------------------------------------------------------------------------
(* Application threads.                                                    *)

\* dolphin_deed: an async put.
AppDeed(a) ==
    /\ app_pc[a] = "idle" /\ calls.deeds < MaxDeeds /\ now < CallWindow /\ HasRoom
    /\ queue' = Append(queue, Event("deed", NoFlag))
    /\ calls' = [calls EXCEPT !.deeds = @ + 1]
    /\ UNCHANGED <<now, rtc0, deadline, get_deadline, data, saved, app_pc, flag, checked, cleared_at>>

\* dolphin_stats / dolphin_flush: put the event and wait on the flag.
AppSendWait(a) ==
    /\ app_pc[a] = "idle" /\ calls.waits < MaxWaits /\ now < CallWindow /\ HasRoom
    /\ \E type \in {"stats", "flush"} : queue' = Append(queue, Event(type, WaitFlag(a)))
    /\ app_pc' = [app_pc EXCEPT ![a] = "waiting"]
    /\ calls' = [calls EXCEPT !.waits = @ + 1]
    /\ UNCHANGED <<now, rtc0, deadline, get_deadline, data, saved, flag,
                   checked, cleared_at>>

\* dolphin_upgrade_level: dolphin_state_increase_level, called while a
\* level up is pending, adds one to the experience counter.
AppUpgradeLevel(a) ==
    /\ app_pc[a] = "idle" /\ calls.upgrades < MaxUpgrades /\ now < CallWindow
    /\ data.icounter \in LevelUps
    /\ data' = [data EXCEPT !.icounter = @ + 1]
    /\ app_pc' = [app_pc EXCEPT ![a] = "upgrading"]
    /\ calls' = [calls EXCEPT !.upgrades = @ + 1]
    /\ UNCHANGED <<now, rtc0, queue, deadline, get_deadline, saved, flag,
                   checked, cleared_at>>

\* Then dolphin_flush: the flush is put, blocking while the queue is full,
\* and the caller waits on its flag.
AppUpgradeFlush(a) ==
    /\ app_pc[a] = "upgrading" /\ HasRoom
    /\ queue' = Append(queue, Event("flush", WaitFlag(a)))
    /\ app_pc' = [app_pc EXCEPT ![a] = "waiting"]
    /\ UNCHANGED <<now, rtc0, deadline, get_deadline, data, saved, flag, calls,
                   checked, cleared_at>>

\* furi_event_flag_wait returns; the flag is freed.
AppWakeUp(a) ==
    /\ app_pc[a] = "waiting" /\ flag[a]
    /\ flag' = [flag EXCEPT ![a] = FALSE]
    /\ app_pc' = [app_pc EXCEPT ![a] = "idle"]
    /\ UNCHANGED <<now, rtc0, queue, deadline, get_deadline, data, saved,
                   calls, checked, cleared_at>>

-----------------------------------------------------------------------------
(* Timer callbacks, on the timer service thread.                           *)

\* The expiry of a timer: a periodic timer reloads, the clear-limits
\* callback restarts its timer for 24 h itself, and each callback puts
\* its event.
TimerCallback(t) ==
    /\ deadline[t] = now /\ HasRoom
    /\ deadline' = [deadline EXCEPT ![t] =
                      CASE t = "butthurt" -> now + HOURS_IN_TICKS(2 * 24)
                        [] t = "flush" -> Off
                        [] t = "clear_limits" -> now + HOURS_IN_TICKS(24)]
    /\ queue' = Append(queue, Event(CASE t = "butthurt" -> "butthurt"
                                      [] t = "flush" -> "flush"
                                      [] t = "clear_limits" -> "clear_limits", NoFlag))
    /\ cleared_at' = IF t = "clear_limits" THEN Tod(now) ELSE cleared_at
    /\ UNCHANGED <<now, rtc0, get_deadline, data, saved, app_pc, flag,
                   calls, checked>>

-----------------------------------------------------------------------------
(* The service thread.                                                     *)

\* Mutation of ClearLimitsDelay: 05:00 to 05:59 counted as before five.
ClearLimitsDelay_hour5(tod) ==
    IF tod \div 3600 <= 5 THEN HOURS_IN_TICKS(5) - tod * 1000
                          ELSE HOURS_IN_TICKS(24 + 5) - tod * 1000
\* time_to_clear_limits: from the RTC time of day to the next 05:00.
ClearLimitsDelay(tod) ==
    IF tod \div 3600 < 5 THEN HOURS_IN_TICKS(5) - tod * 1000
                         ELSE HOURS_IN_TICKS(24 + 5) - tod * 1000

\* dolphin_update_clear_limits_timer_period: re-aim the timer unless it
\* expires within six minutes (an expired timer counts as far away).
UpdateClearLimitsPeriod ==
    IF U32(deadline["clear_limits"] - now) > 360000
    THEN deadline' = [deadline EXCEPT !["clear_limits"] =
                         now + U32(ClearLimitsDelay(Tod(now)))]
    ELSE UNCHANGED deadline

\* Mutation of OnDeedTimers: the flush timer is not restarted after a deed.
OnDeedTimers_noflush ==
    [deadline EXCEPT !["butthurt"] = now + HOURS_IN_TICKS(2 * 24)]
\* After a deed: butthurt in 48 h, a flush in 30 s.
OnDeedTimers ==
    [deadline EXCEPT !["butthurt"] = now + HOURS_IN_TICKS(2 * 24),
                     !["flush"] = now + 30 * 1000]

\* dolphin_event_release: the waiting sender's flag is set, if it has one.
dolphin_event_release(e) ==
    IF e.flag # NoFlag THEN [flag EXCEPT ![e.flag] = TRUE] ELSE flag

\* Handling of one event, then dolphin_event_release and the next get.
ServiceHandle ==
    LET e == Head(queue) IN
    /\ queue # <<>>
    /\ queue' = Tail(queue)
    /\ CASE e.type = "deed" ->
              /\ data' = [data EXCEPT !.icounter =
                             IF @ \in LevelUps THEN @ ELSE @ + 1]
              /\ deadline' = OnDeedTimers
              /\ UNCHANGED saved
         [] e.type = "stats" -> UNCHANGED <<data, saved, deadline>>
         [] e.type = "flush" -> saved' = data /\ UNCHANGED <<data, deadline>>
         [] e.type = "clear_limits" ->
              /\ data' = [data EXCEPT !.clears = @ + 1]
              /\ saved' = data'
              /\ UNCHANGED deadline
         [] e.type = "butthurt" ->
              /\ data' = [data EXCEPT !.butthurt = @ + 1]
              /\ saved' = data'
              /\ UNCHANGED deadline
    /\ flag' = dolphin_event_release(e)
    /\ get_deadline' = now + HOURS_IN_TICKS(1)
    /\ UNCHANGED <<now, rtc0, app_pc, calls, checked, cleared_at>>

\* No event for an hour: the hourly RTC check, then the next get.
ServiceTimeout ==
    /\ queue = <<>> /\ now = get_deadline
    /\ UpdateClearLimitsPeriod
    /\ get_deadline' = now + HOURS_IN_TICKS(1)
    /\ checked' = TRUE
    /\ UNCHANGED <<now, rtc0, queue, data, saved, app_pc, flag, calls, cleared_at>>

-----------------------------------------------------------------------------
(* Time.  It does not pass a pending deadline or while the service has    *)
(* events to handle; it moves to the next deadline or by an application   *)
(* gap that ends before it.                                                *)
Pending == {deadline[t] : t \in {u \in Timers : deadline[u] # Off}} \cup {get_deadline}
NextDeadline == CHOOSE d \in Pending : \A d2 \in Pending : d <= d2

Tick ==
    /\ queue = <<>> /\ \A a \in Apps : app_pc[a] # "upgrading"
    /\ NextDeadline > now
    /\ \/ /\ NextDeadline <= MaxTime
          /\ now' = NextDeadline
          /\ UNCHANGED calls
       \/ /\ calls.gaps < MaxGaps
          /\ \E g \in AppGaps : now + g < NextDeadline /\ now' = now + g
          /\ calls' = [calls EXCEPT !.gaps = @ + 1]
    /\ UNCHANGED <<rtc0, queue, deadline, get_deadline, data, saved, app_pc, flag, checked, cleared_at>>

Next ==
    \/ ServiceHandle \/ ServiceTimeout \/ Tick
    \/ \E t \in Timers : TimerCallback(t)
    \/ \E a \in Apps : AppDeed(a) \/ AppSendWait(a) \/ AppUpgradeLevel(a)
                       \/ AppUpgradeFlush(a) \/ AppWakeUp(a)

(* The service and the timer service run whenever they have work, and a   *)
(* woken application thread returns.                                       *)
Fairness ==
    /\ WF_vars(ServiceHandle) /\ WF_vars(ServiceTimeout)
    /\ \A t \in Timers : WF_vars(TimerCallback(t))
    /\ \A a \in Apps : WF_vars(AppWakeUp(a)) /\ WF_vars(AppUpgradeFlush(a))

Spec == Init /\ [][Next]_vars /\ Fairness

(* A busy day: a deed after every gap, and no idle hour yet.  A state    *)
(* constraint of the runs that look for what happens then.                 *)
BusyDay == ~checked /\ calls.deeds \in {calls.gaps, calls.gaps + 1}

-----------------------------------------------------------------------------
(* Properties                                                              *)

TypeOK ==
    /\ now \in Nat /\ queue \in Seq([type : {"deed", "stats", "flush", "clear_limits",
                                              "butthurt"},
                                       flag : Apps \cup {NoFlag}])
    /\ Len(queue) <= QueueSize
    /\ deadline \in [Timers -> Nat \cup {Off}]
    /\ app_pc \in [Apps -> {"idle", "waiting", "upgrading"}]
    /\ flag \in [Apps -> BOOLEAN]

\* Every dolphin_stats, dolphin_flush and dolphin_upgrade_level caller
\* blocked in dolphin_event_send_wait is eventually woken by the service's
\* dolphin_event_release, however the queue fills with timer events.
WaitersReturn == \A a \in Apps : app_pc[a] = "waiting" ~> app_pc[a] = "idle"

\* A change to the dolphin state that is not yet on storage always has a
\* save on its way: the flush timer armed after a deed, a flush,
\* clear-limits or butthurt event queued, or a level-up caller about to
\* put its flush.  So a power loss costs at most
\* the last 30 s of deeds.
UnsavedChangesFlushPending ==
    data.icounter # saved.icounter =>
        \/ deadline["flush"] # Off
        \/ \E i \in 1..Len(queue) : queue[i].type \in {"flush", "clear_limits", "butthurt"}
        \/ \E a \in Apps : app_pc[a] = "upgrading"

\* Once the service has had an idle hour and checked the RTC
\* (dolphin_update_clear_limits_timer_period), the clear-limits timer is
\* aimed at the next 05:00, at most a day away.
ClearTimerAimsAt5 ==
    checked =>
        /\ Tod(deadline["clear_limits"]) = 5 * 3600
        /\ deadline["clear_limits"] - now \in 0..HOURS_IN_TICKS(24)

\* The daily limits are cleared at 05:00 (the hour the service computes in
\* dolphin_update_clear_limits_timer_period, checked "once per hour").
ClearLimitsAt5 == cleared_at \in {Off, 5 * 3600}
=============================================================================
