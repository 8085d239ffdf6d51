------------------------------ MODULE RetryTimer ------------------------------
(***************************************************************************)
(* The retry timers of net/retry.c: binary exponential backoff timers kept *)
(* on one list and polled by a permanent process.                          *)
(*                                                                         *)
(* A timer is a member of an object; when the object is reference counted, *)
(* the list of running timers holds one of its references.  The callback   *)
(* of an expired timer runs inside the poll, so an expiry and everything   *)
(* its callback does is one step.  Callbacks are those the stack has: do   *)
(* nothing (arp_expired after failure), restart with the backed-off        *)
(* timeout (tcp_xmit), restart with a fixed timeout, zero included         *)
(* (tftp_send_packet), stop another timer (tcp_close) and drop the owner's *)
(* reference (arp_destroy).                                                *)
(***************************************************************************)
EXTENDS Integers, Sequences, FiniteSets

CONSTANTS
  Timers,           \* the retry_timer structures
  Counted,          \* those with a non-NULL refcnt
  MIN_TIMEOUT,      \* floor of min_timeout
  DEFAULT_MIN_TIMEOUT,
  DEFAULT_MAX_TIMEOUT,
  MinTimeout,       \* min_timeout as the owner sets it, 0 for the default
  MaxTimeout,       \* max_timeout as the owner sets it, 0 for the default
  FixedTimeouts,    \* arguments callers give start_timer_fixed()
  CallbackTimeouts, \* those a callback gives it when it restarts its own timer
  TickMod,          \* currticks() is an unsigned long: it wraps modulo this
  MaxRuntime,       \* bound on the running time a stop may measure
  MaxCount,         \* bound on the retry count, which saturates here
  PollsPerTick      \* how often the event loop polls, at least, in one tick

ASSUME TimerAssumption ==
  /\ Counted \subseteq Timers
  /\ TickMod \in Nat \ {0}
  /\ MaxCount \in Nat
  /\ MaxRuntime \in Nat
  /\ MIN_TIMEOUT \in Nat
  /\ DEFAULT_MIN_TIMEOUT \in Nat
  /\ DEFAULT_MAX_TIMEOUT \in Nat
  /\ FixedTimeouts \subseteq Nat
  /\ CallbackTimeouts \subseteq Nat
  /\ MinTimeout \in [Timers -> Nat]
  /\ MaxTimeout \in [Timers -> Nat]
  /\ PollsPerTick \in Nat

VARIABLES
  now,      \* currticks()
  timers,   \* the list of running timers, head first
  timer,    \* the structures
  refcnt,   \* reference count of the containing object: -1 once freed
  owner,    \* is the creator's reference still held?
  elapsed,  \* true number of ticks a running timer has run, capped at TickMod
  polls     \* polls since the last tick, capped at PollsPerTick

vars == <<now, timers, timer, refcnt, owner, elapsed, polls>>

-----------------------------------------------------------------------------
(* Lists and wrapping arithmetic *)

list_add(l, t) == <<t>> \o l

list_del(l, t) ==
  LET i == CHOOSE j \in 1..Len(l) : l[j] = t
  IN  [j \in 1..(Len(l) - 1) |-> IF j < i THEN l[j] ELSE l[j + 1]]

(* Mutant: the difference taken without wrapping.                          *)
used_ticks_signed(at, start) == IF at < start THEN TickMod ELSE at - start

used_ticks(at, start) == (at - start + TickMod) % TickMod

Max2(a, b) == IF a > b THEN a ELSE b

Min2(a, b) == IF a < b THEN a ELSE b

-----------------------------------------------------------------------------
(* One timer structure *)

TimerRecord == [running : BOOLEAN, timeout : Nat, start : 0..(TickMod - 1),
                count : 0..MaxCount]

or_default(value, default) == IF value = 0 THEN default ELSE value

(* "0 means use default timeout", and never less than MIN_TIMEOUT.         *)
min_timeout(t) == Max2(or_default(MinTimeout[t], DEFAULT_MIN_TIMEOUT), MIN_TIMEOUT)

max_timeout(t) == or_default(MaxTimeout[t], DEFAULT_MAX_TIMEOUT)

started(t, r) == [r EXCEPT !.start = now, !.running = TRUE,
                           !.timeout = Max2(@, min_timeout(t))]

started_fixed(t, r, timeout) == [started(t, r) EXCEPT !.timeout = timeout]

(* The smoothing t := 7t/8 + r/2, skipped while retries are outstanding.   *)
stopped(r) ==
  [r EXCEPT !.running = FALSE,
            !.count   = IF @ > 0 THEN @ - 1 ELSE @,
            !.timeout = IF r.count > 0 THEN @
                        ELSE @ - (@ \div 8) + (used_ticks(now, r.start) \div 2)]

backed_off(t, r) ==
  [r EXCEPT !.running = FALSE, !.count = Min2(@ + 1, MaxCount),
            !.timeout = Min2(2 * @, max_timeout(t))]

(* The failure indicator given to the callback.                            *)
fail(t) == 2 * timer[t].timeout > max_timeout(t)

-----------------------------------------------------------------------------
(* Operations callers perform on a timer of an object they hold *)

Held(t) == IF t \in Counted THEN owner[t] ELSE TRUE

ref_change(t, d) == IF t \in Counted THEN [refcnt EXCEPT ![t] = @ + d] ELSE refcnt

StartWith(t, r) ==
  /\ Held(t)
  /\ timer' = [timer EXCEPT ![t] = r]
  /\ timers' = IF timer[t].running THEN timers ELSE list_add(timers, t)
  /\ refcnt' = IF timer[t].running THEN refcnt ELSE ref_change(t, 1)
  /\ elapsed' = [elapsed EXCEPT ![t] = 0]
  /\ UNCHANGED <<now, owner, polls>>

start_timer(t) == StartWith(t, started(t, timer[t]))

start_timer_fixed(t, timeout) == 
  StartWith(t, started_fixed(t, timer[t], timeout))

(* Mutant: a stop that forgets the reference of the list.                  *)
stop_timer_leak(t) ==
  /\ Held(t)
  /\ timer[t].running
  /\ used_ticks(now, timer[t].start) <= MaxRuntime
  /\ timers' = list_del(timers, t)
  /\ timer' = [timer EXCEPT ![t] = stopped(timer[t])]
  /\ elapsed' = [elapsed EXCEPT ![t] = 0]
  /\ UNCHANGED <<now, owner, polls, refcnt>>

stop_timer(t) ==
  /\ Held(t)
  /\ timer[t].running
  /\ used_ticks(now, timer[t].start) <= MaxRuntime
  /\ timers' = list_del(timers, t)
  /\ timer' = [timer EXCEPT ![t] = stopped(timer[t])]
  /\ refcnt' = ref_change(t, -1)
  /\ elapsed' = [elapsed EXCEPT ![t] = 0]
  /\ UNCHANGED <<now, owner, polls>>

(* The creator drops its reference ("mortalise self"): only the list may   *)
(* now keep the object alive.                                              *)
release(t) ==
  /\ t \in Counted /\ owner[t]
  /\ owner' = [owner EXCEPT ![t] = FALSE]
  /\ refcnt' = ref_change(t, -1)
  /\ UNCHANGED <<now, timers, timer, elapsed, polls>>

-----------------------------------------------------------------------------
(* Time and the poll *)

Tick ==
  /\ polls = PollsPerTick
  /\ polls' = 0
  /\ now' = (now + 1) % TickMod
  /\ elapsed' = [t \in Timers |-> IF timer[t].running THEN Min2(elapsed[t] + 1, TickMod)
                                  ELSE 0]
  /\ UNCHANGED <<timers, timer, refcnt, owner>>

due(t) == used_ticks(now, timer[t].start) >= timer[t].timeout

(* Mutant: only the head of the list is looked at.                         *)
polled_head(t) == timers # << >> /\ timers[1] = t /\ due(t)

(* retry_poll() acts on the first due timer of the list, and only on it.   *)
polled(t) ==
  \E i \in 1..Len(timers) :
    /\ timers[i] = t
    /\ due(t)
    /\ \A j \in 1..(i - 1) : ~ due(timers[j])

poll_counted == polls' = Min2(polls + 1, PollsPerTick)

(* A poll that finds no timer due.                                         *)
poll_idle ==
  /\ polls < PollsPerTick
  /\ \A i \in 1..Len(timers) : ~ due(timers[i])
  /\ poll_counted
  /\ UNCHANGED <<now, timers, timer, refcnt, owner, elapsed>>

(* timer_expired() with a callback that leaves the timer stopped.          *)
expired_quiet(t) ==
  /\ polled(t)
  /\ poll_counted
  /\ timers' = list_del(timers, t)
  /\ timer' = [timer EXCEPT ![t] = backed_off(t, timer[t])]
  /\ refcnt' = ref_change(t, -1)
  /\ elapsed' = [elapsed EXCEPT ![t] = 0]
  /\ UNCHANGED <<now, owner>>

(* A callback that restarts the timer: the restart takes a reference and   *)
(* puts the timer at the head, then timer_expired() drops the old one.     *)
ExpiredRestart(t, r) ==
  /\ polled(t)
  /\ poll_counted
  /\ timers' = list_add(list_del(timers, t), t)
  /\ timer' = [timer EXCEPT ![t] = r]
  /\ elapsed' = [elapsed EXCEPT ![t] = 0]
  /\ UNCHANGED <<now, refcnt, owner>>

expired_restart(t) ==
  /\ ~ fail(t)
  /\ ExpiredRestart(t, started(t, backed_off(t, timer[t])))

expired_restart_fixed(t, timeout) ==
  ExpiredRestart(t, started_fixed(t, backed_off(t, timer[t]), timeout))

(* A callback that also stops a second timer, as closing a connection does. *)
expired_stop_other(t, u) ==
  /\ polled(t)
  /\ poll_counted
  /\ u # t /\ Held(u) /\ timer[u].running
  /\ used_ticks(now, timer[u].start) <= MaxRuntime
  /\ timers' = list_del(list_del(timers, t), u)
  /\ timer' = [timer EXCEPT ![t] = backed_off(t, timer[t]), ![u] = stopped(timer[u])]
  /\ refcnt' = [x \in Timers |-> IF x \in {t, u} \cap Counted THEN refcnt[x] - 1
                                 ELSE refcnt[x]]
  /\ elapsed' = [elapsed EXCEPT ![t] = 0, ![u] = 0]
  /\ UNCHANGED <<now, owner>>

(* A callback that drops the creator's reference: the object is freed when *)
(* timer_expired() drops the list's own.                                   *)
expired_release(t) ==
  /\ polled(t)
  /\ poll_counted
  /\ t \in Counted /\ owner[t]
  /\ timers' = list_del(timers, t)
  /\ timer' = [timer EXCEPT ![t] = backed_off(t, timer[t])]
  /\ owner' = [owner EXCEPT ![t] = FALSE]
  /\ refcnt' = ref_change(t, -2)
  /\ elapsed' = [elapsed EXCEPT ![t] = 0]
  /\ UNCHANGED now

-----------------------------------------------------------------------------
Init ==
  /\ now \in {0, TickMod - 1}
  /\ timers = << >>
  /\ timer = [t \in Timers |-> [running |-> FALSE, timeout |-> 0, start |-> 0,
                                count |-> 0]]
  /\ refcnt = [t \in Timers |-> 0]
  /\ owner = [t \in Timers |-> TRUE]
  /\ elapsed = [t \in Timers |-> 0]
  /\ polls = 0

Expiry(t) ==
  \/ expired_quiet(t)
  \/ expired_restart(t)
  \/ \E d \in CallbackTimeouts : expired_restart_fixed(t, d)
  \/ \E u \in Timers : expired_stop_other(t, u)
  \/ expired_release(t)

retry_poll == poll_idle \/ \E t \in Timers : Expiry(t)

Call(t) ==
  \/ start_timer(t)
  \/ \E d \in FixedTimeouts : start_timer_fixed(t, d)
  \/ stop_timer(t)
  \/ release(t)

Next == Tick \/ retry_poll \/ \E t \in Timers : Call(t)

Spec == Init /\ [][Next]_vars

(* The event loop keeps polling (retry_process is a permanent process) and *)
(* the clock keeps ticking.                                                *)
FairSpec == Spec /\ WF_vars(retry_poll) /\ WF_vars(Tick)

-----------------------------------------------------------------------------
(* Properties *)

(* The tick counter, the list and every timer and counter have their type. *)
TypeOK ==
  /\ now \in 0..(TickMod - 1)
  /\ timers \in Seq(Timers)
  /\ timer \in [Timers -> TimerRecord]
  /\ refcnt \in [Timers -> Int]
  /\ owner \in [Timers -> BOOLEAN]
  /\ elapsed \in [Timers -> 0..TickMod]
  /\ polls \in 0..PollsPerTick

(* The list that retry_poll() walks holds exactly the running timers, each *)
(* once: list_add() is guarded by "running" in start_timer(), list_del()   *)
(* by it in stop_timer(), and a callback may do either to any timer.       *)
ListHoldsRunning ==
  /\ \A i, j \in 1..Len(timers) : timers[i] = timers[j] => i = j
  /\ \A t \in Timers : timer[t].running <=> \E i \in 1..Len(timers) : timers[i] = t

(* A counted object is referenced once by its creator and once by the list *)
(* while its timer runs, so the poll never meets the timer of an object    *)
(* already freed, and no reference is left behind when the timer stops.    *)
ReferencesBalanced ==
  \A t \in Counted :
    refcnt[t] = (IF owner[t] THEN 1 ELSE 0) + (IF timer[t].running THEN 1 ELSE 0) - 1

(* A timer never expires before its timeout has really passed, although    *)
(* retry_poll() only sees the wrapping difference of two tick counts.      *)
NeverEarly ==
  [][\A t \in Timers : Expiry(t) => elapsed[t] >= timer[t].timeout]_vars

(* "If stop_timer() is not called before the timer expires, the timer will *)
(* be stopped and the timer's callback function will be called."           *)
EveryTimerServed ==
  \A t \in Timers :
    timer[t].running ~> (~ timer[t].running \/ elapsed[t] = 0)

=============================================================================
