--------------------------- MODULE RetryTimerProofs ---------------------------
(* Proofs about RetryTimer for any set of timers, any timeouts and any      *)
(* width of the tick counter.                                               *)
EXTENDS RetryTimer, TLAPS

(* A list without repetition. *)
Once(l) == \A i, j \in 1..Len(l) : l[i] = l[j] => i = j

(* Membership of a timer in the list of retry_poll(). *)
On(l, t) == \E i \in 1..Len(l) : l[i] = t

(* list_add() puts a timer that is not on the list on it, once. *)
LEMMA ListAdd ==
  ASSUME NEW l \in Seq(Timers), NEW t \in Timers, Once(l), ~ On(l, t)
  PROVE  /\ list_add(l, t) \in Seq(Timers)
         /\ Once(list_add(l, t))
         /\ \A u \in Timers : On(list_add(l, t), u) <=> (u = t \/ On(l, u))
<1> DEFINE m == list_add(l, t)
<1>1. m \in Seq(Timers) /\ Len(m) = Len(l) + 1 /\ m[1] = t
  BY DEF list_add
<1>2. \A i \in 1..Len(l) : m[i + 1] = l[i]
  BY DEF list_add
<1>3. \A i \in 2..Len(m) : m[i] = l[i - 1] /\ i - 1 \in 1..Len(l)
  BY <1>1, <1>2
<1>4. Once(m)
  <2> SUFFICES ASSUME NEW i \in 1..Len(m), NEW j \in 1..Len(m), m[i] = m[j]
               PROVE  i = j
    BY DEF Once
  <2> HIDE DEF m
  <2>1. Len(m) \in Nat /\ Len(l) \in Nat
    BY <1>1
  <2>2. CASE i = 1 \/ j = 1
    <3>1. \A k \in 2..Len(m) : m[k] # t
      BY <1>3 DEF On
    <3>2. \A k \in 1..Len(m) : k # 1 => k \in 2..Len(m)
      BY <2>1
    <3> QED BY <2>2, <3>1, <3>2, <1>1
  <2>3. CASE i # 1 /\ j # 1
    <3>1. i \in 2..Len(m) /\ j \in 2..Len(m)
      BY <2>1, <2>3
    <3> QED BY <3>1, <1>3 DEF Once
  <2> QED BY <2>2, <2>3
<1>5. \A u \in Timers : On(m, u) <=> (u = t \/ On(l, u))
  <2> TAKE u \in Timers
  <2>1. On(m, u) => (u = t \/ On(l, u))
    BY <1>1, <1>3 DEF On
  <2>2. u = t => On(m, u)
    BY <1>1 DEF On
  <2>3. On(l, u) => On(m, u)
    <3>1. SUFFICES ASSUME NEW i \in 1..Len(l), l[i] = u PROVE On(m, u)
      BY DEF On
    <3>2. i + 1 \in 1..Len(m) /\ m[i + 1] = u
      BY <3>1, <1>1, <1>2
    <3> QED BY <3>2 DEF On
  <2> QED BY <2>1, <2>2, <2>3
<1> QED BY <1>1, <1>4, <1>5

(* list_del() takes a listed timer off the list and keeps the others. *)
LEMMA ListDel ==
  ASSUME NEW l \in Seq(Timers), NEW t \in Timers, Once(l), On(l, t)
  PROVE  /\ list_del(l, t) \in Seq(Timers)
         /\ Once(list_del(l, t))
         /\ \A u \in Timers : On(list_del(l, t), u) <=> (u # t /\ On(l, u))
<1> DEFINE i == CHOOSE j \in 1..Len(l) : l[j] = t
           m == [j \in 1..(Len(l) - 1) |-> IF j < i THEN l[j] ELSE l[j + 1]]
<1>1. i \in 1..Len(l) /\ l[i] = t
  BY DEF On
<1>2. m = list_del(l, t)
  BY DEF list_del
<1> HIDE DEF i
<1>3. Len(l) \in Nat /\ Len(l) - 1 \in Nat
  BY <1>1
<1>4. \A j \in 1..(Len(l) - 1) : m[j] \in Timers
  BY <1>1, <1>3
<1>5. m \in Seq(Timers) /\ Len(m) = Len(l) - 1
  BY <1>3, <1>4
<1>6. Once(m)
  BY <1>1, <1>3, <1>5 DEF Once
<1>7. \A u \in Timers : On(m, u) <=> (u # t /\ On(l, u))
  <2> TAKE u \in Timers
  <2>1. ASSUME NEW j \in 1..Len(m), m[j] = u PROVE u # t /\ On(l, u)
    <3>1. CASE j < i
      BY <2>1, <3>1, <1>1, <1>3, <1>5 DEF Once, On
    <3>2. CASE ~(j < i)
      <4>1. j + 1 \in 1..Len(l) /\ l[j + 1] = u
        BY <2>1, <3>2, <1>3, <1>5
      <4>2. j + 1 # i
        BY <3>2, <1>1, <1>5
      <4> QED BY <4>1, <4>2, <1>1 DEF Once, On
    <3> QED BY <3>1, <3>2
  <2>2. ASSUME NEW j \in 1..Len(l), l[j] = u, u # t PROVE On(m, u)
    <3>1. CASE j < i
      <4>1. j \in 1..Len(m) /\ m[j] = u
        BY <2>2, <3>1, <1>1, <1>3, <1>5
      <4> QED BY <4>1 DEF On
    <3>2. CASE ~(j < i)
      <4>1. j # i
        BY <2>2, <1>1
      <4>2. j - 1 \in 1..Len(m) /\ m[j - 1] = u
        BY <2>2, <3>2, <4>1, <1>1, <1>3, <1>5
      <4> QED BY <4>2 DEF On
    <3> QED BY <3>1, <3>2
  <2> QED BY <2>1, <2>2 DEF On
<1> QED BY <1>2, <1>5, <1>6, <1>7
-----------------------------------------------------------------------------
(* The running time retry_poll() computes never exceeds the true one: this *)
(* is the strengthening NeverEarly needs.                                  *)
UsedAtMostElapsed ==
  \A t \in Timers :
    timer[t].running => used_ticks(now, timer[t].start) <= elapsed[t]

IInv == TypeOK /\ ListHoldsRunning /\ ReferencesBalanced

(* Both ways of starting a timer leave a running record. *)
LEMMA StartedType ==
  ASSUME NEW t \in Timers, NEW r \in TimerRecord, now \in 0..(TickMod - 1)
  PROVE  /\ started(t, r) \in TimerRecord
         /\ started(t, r).running
         /\ started(t, r).start = now
         /\ \A d \in Nat : /\ started_fixed(t, r, d) \in TimerRecord
                           /\ started_fixed(t, r, d).running
                           /\ started_fixed(t, r, d).start = now
<1>1. min_timeout(t) \in Nat
  BY TimerAssumption DEF min_timeout, or_default, Max2
<1>2. Max2(r.timeout, min_timeout(t)) \in Nat
  BY <1>1 DEF Max2, TimerRecord
<1> QED BY <1>2 DEF started, started_fixed, TimerRecord

(* The running time is a tick count whatever the two times. *)
LEMMA UsedType ==
  ASSUME NEW a \in 0..(TickMod - 1), NEW b \in 0..(TickMod - 1)
  PROVE  used_ticks(a, b) \in 0..(TickMod - 1)
BY TimerAssumption DEF used_ticks

(* stop_timer() leaves a stopped record. *)
LEMMA StoppedType ==
  ASSUME NEW r \in TimerRecord, now \in 0..(TickMod - 1)
  PROVE  stopped(r) \in TimerRecord /\ ~ stopped(r).running
<1>1. used_ticks(now, r.start) \in Nat
  <2>1. r.start \in 0..(TickMod - 1)
    BY DEF TimerRecord
  <2>2. used_ticks(now, r.start) \in 0..(TickMod - 1)
    BY <2>1, UsedType
  <2> QED BY <2>2
<1>2. r.timeout - (r.timeout \div 8) + (used_ticks(now, r.start) \div 2) \in Nat
  BY <1>1 DEF TimerRecord
<1>3. (IF r.count > 0 THEN r.count - 1 ELSE r.count) \in 0..MaxCount
  BY TimerAssumption DEF TimerRecord
<1> QED BY <1>2, <1>3 DEF stopped, TimerRecord

(* timer_expired() leaves a stopped record for the callback. *)
LEMMA BackedOffType ==
  ASSUME NEW t \in Timers, NEW r \in TimerRecord
  PROVE  backed_off(t, r) \in TimerRecord /\ ~ backed_off(t, r).running
<1>1. max_timeout(t) \in Nat
  BY TimerAssumption DEF max_timeout, or_default
<1>2. Min2(2 * r.timeout, max_timeout(t)) \in Nat
  BY <1>1 DEF Min2, TimerRecord
<1>3. Min2(r.count + 1, MaxCount) \in 0..MaxCount
  BY TimerAssumption DEF Min2, TimerRecord
<1> QED BY <1>2, <1>3 DEF backed_off, TimerRecord

(* The invariant holds initially. *)
LEMMA InitIInv == Init => IInv
<1> SUFFICES ASSUME Init PROVE IInv
  OBVIOUS
<1>1. TypeOK
  BY TimerAssumption DEF Init, TypeOK, TimerRecord
<1>2. ListHoldsRunning
  BY DEF Init, ListHoldsRunning
<1>3. ReferencesBalanced
  BY TimerAssumption DEF Init, ReferencesBalanced
<1> QED BY <1>1, <1>2, <1>3 DEF IInv

(* A timer that polled() selects is running. *)
LEMMA PolledRunning ==
  ASSUME IInv, NEW t \in Timers, polled(t)
  PROVE  timer[t].running
BY DEF IInv, ListHoldsRunning, polled

(* The list l and the structures tm agree on which timers run. *)
Consistent(l, tm) ==
  /\ l \in Seq(Timers) /\ Once(l)
  /\ tm \in [Timers -> TimerRecord]
  /\ \A t \in Timers : tm[t].running <=> On(l, t)

(* Agreement is what ListHoldsRunning says of well-typed variables. *)
LEMMA ConsistentNow ==
  TypeOK => (ListHoldsRunning <=> Consistent(timers, timer))
BY DEF TypeOK, ListHoldsRunning, Consistent, Once, On

(* Taking a running timer off the list and marking it stopped. *)
LEMMA Stopping ==
  ASSUME NEW l, NEW tm, Consistent(l, tm), NEW t \in Timers, tm[t].running,
         NEW r \in TimerRecord, ~ r.running
  PROVE  Consistent(list_del(l, t), [tm EXCEPT ![t] = r])
<1>1. l \in Seq(Timers) /\ Once(l) /\ On(l, t)
  BY DEF Consistent
<1>2. /\ list_del(l, t) \in Seq(Timers) /\ Once(list_del(l, t))
      /\ \A u \in Timers : On(list_del(l, t), u) <=> (u # t /\ On(l, u))
  BY <1>1, ListDel
<1> QED BY <1>2 DEF Consistent

(* Putting a stopped timer at the head and marking it running. *)
LEMMA Starting ==
  ASSUME NEW l, NEW tm, Consistent(l, tm), NEW t \in Timers, ~ tm[t].running,
         NEW r \in TimerRecord, r.running
  PROVE  Consistent(list_add(l, t), [tm EXCEPT ![t] = r])
<1>1. l \in Seq(Timers) /\ Once(l) /\ ~ On(l, t)
  BY DEF Consistent
<1>2. /\ list_add(l, t) \in Seq(Timers) /\ Once(list_add(l, t))
      /\ \A u \in Timers : On(list_add(l, t), u) <=> (u = t \/ On(l, u))
  BY <1>1, ListAdd
<1> QED BY <1>2 DEF Consistent

(* What every step must keep, apart from the references. *)
Kept == /\ Consistent(timers', timer')
        /\ now' \in 0..(TickMod - 1) /\ polls' \in 0..PollsPerTick
        /\ elapsed' \in [Timers -> 0..TickMod]
        /\ owner' \in [Timers -> BOOLEAN] /\ refcnt' \in [Timers -> Int]

LEMMA KeptSuffices == Kept /\ ReferencesBalanced' => IInv'
<1>1. Kept => TypeOK'
  BY DEF Kept, Consistent, TypeOK
<1>2. Kept => ListHoldsRunning'
  BY DEF Kept, Consistent, ListHoldsRunning, Once, On
<1> QED BY <1>1, <1>2 DEF IInv

LEMMA ZeroElapsed == 0 \in 0..TickMod
BY TimerAssumption

(* poll_counted keeps the count of polls in its range. *)
LEMMA PollsType ==
  ASSUME polls \in 0..PollsPerTick PROVE Min2(polls + 1, PollsPerTick) \in 0..PollsPerTick
BY TimerAssumption DEF Min2

(* The reference a running timer holds, as ReferencesBalanced counts it. *)
Refs(o, run) == (IF o THEN 1 ELSE 0) + (IF run THEN 1 ELSE 0) - 1

(* A step that changes one timer keeps the balance when it moves the counter
   of that timer by the difference in the references. *)
LEMMA BalanceStep ==
  ASSUME TypeOK, ReferencesBalanced, NEW t \in Timers,
         NEW d \in Int, refcnt' = ref_change(t, d),
         \A u \in Timers : u # t => owner'[u] = owner[u] /\ timer'[u] = timer[u],
         Refs(owner'[t], timer'[t].running) = Refs(owner[t], timer[t].running) + d
  PROVE  ReferencesBalanced'
<1>1. \A u \in Counted : refcnt[u] = Refs(owner[u], timer[u].running)
  BY DEF ReferencesBalanced, Refs
<1>2. SUFFICES ASSUME NEW u \in Counted
               PROVE  refcnt'[u] = Refs(owner'[u], timer'[u].running)
  BY DEF ReferencesBalanced, Refs
<1>3. u \in Timers
  BY TimerAssumption
<1>4. CASE u = t
  <2>1. refcnt'[t] = refcnt[t] + d
    BY <1>3, <1>4 DEF ref_change, TypeOK
  <2> QED BY <2>1, <1>1, <1>4
<1>5. CASE u # t
  <2>1. refcnt'[u] = refcnt[u]
    BY <1>3, <1>5 DEF ref_change, TypeOK
  <2> QED BY <2>1, <1>1, <1>3, <1>5
<1> QED BY <1>4, <1>5

(* start_timer() and start_timer_fixed() preserve the invariant. *)
LEMMA StartStep ==
  ASSUME IInv, NEW t \in Timers, NEW r \in TimerRecord, r.running, StartWith(t, r)
  PROVE  IInv'
<1>1. Consistent(timers, timer) /\ TypeOK /\ ReferencesBalanced
  BY ConsistentNow DEF IInv
<1>2. Consistent(timers', timer')
  <2>1. CASE timer[t].running
    BY <1>1, <2>1 DEF StartWith, Consistent
  <2>2. CASE ~ timer[t].running
    BY <1>1, <2>2, Starting DEF StartWith
  <2> QED BY <2>1, <2>2
<1>3. Kept
  BY <1>1, <1>2, TimerAssumption DEF Kept, TypeOK, StartWith, ref_change
<1>4. timer' = [timer EXCEPT ![t] = r] /\ timer'[t].running /\ owner' = owner
  BY <1>1 DEF StartWith, TypeOK
<1>5. \A u \in Timers : u # t => owner'[u] = owner[u] /\ timer'[u] = timer[u]
  BY <1>1, <1>4 DEF TypeOK
<1>6. ReferencesBalanced'
  <2>1. CASE timer[t].running
    <3>1. refcnt' = ref_change(t, 0)
      BY <1>1, <2>1 DEF StartWith, ref_change, TypeOK
    <3>2. Refs(owner'[t], timer'[t].running) = Refs(owner[t], timer[t].running) + 0
      BY <1>4, <2>1 DEF Refs
    <3> QED BY <1>1, <1>5, <3>1, <3>2, BalanceStep
  <2>2. CASE ~ timer[t].running
    <3>1. refcnt' = ref_change(t, 1)
      BY <2>2 DEF StartWith
    <3>2. Refs(owner'[t], timer'[t].running) = Refs(owner[t], timer[t].running) + 1
      BY <1>4, <2>2 DEF Refs
    <3> QED BY <1>1, <1>5, <3>1, <3>2, BalanceStep
  <2> QED BY <2>1, <2>2
<1> QED BY <1>3, <1>6, KeptSuffices

(* stop_timer() preserves the invariant. *)
LEMMA StopStep ==
  ASSUME IInv, NEW t \in Timers, stop_timer(t)
  PROVE  IInv'
<1>1. Consistent(timers, timer) /\ TypeOK /\ ReferencesBalanced
  BY ConsistentNow DEF IInv
<1>2. stopped(timer[t]) \in TimerRecord /\ ~ stopped(timer[t]).running
  BY <1>1, StoppedType DEF TypeOK
<1>3. Consistent(timers', timer')
  BY <1>1, <1>2, Stopping DEF stop_timer
<1>4. Kept
  BY <1>1, <1>3, TimerAssumption DEF Kept, TypeOK, stop_timer, ref_change
<1>5. ReferencesBalanced'
  <2>1. timer' = [timer EXCEPT ![t] = stopped(timer[t])] /\ owner' = owner
    BY DEF stop_timer
  <2>2. timer[t].running /\ ~ timer'[t].running
    BY <1>1, <1>2, <2>1 DEF stop_timer, TypeOK
  <2>3. Refs(owner'[t], timer'[t].running) = Refs(owner[t], timer[t].running) + (-1)
    BY <2>1, <2>2 DEF Refs
  <2>4. refcnt' = ref_change(t, -1)
    BY DEF stop_timer
  <2> QED BY <1>1, <2>1, <2>3, <2>4, BalanceStep DEF TypeOK
<1> QED BY <1>4, <1>5, KeptSuffices

(* A callback that does nothing, or drops the creator's reference. *)
LEMMA ExpiredStopStep ==
  ASSUME IInv, NEW t \in Timers, expired_quiet(t) \/ expired_release(t)
  PROVE  IInv'
<1>1. Consistent(timers, timer) /\ TypeOK /\ ReferencesBalanced
  BY ConsistentNow DEF IInv
<1>2. polled(t) /\ timer[t].running
  BY PolledRunning DEF expired_quiet, expired_release
<1>3. backed_off(t, timer[t]) \in TimerRecord /\ ~ backed_off(t, timer[t]).running
  BY <1>1, BackedOffType DEF TypeOK
<1>4. /\ timer' = [timer EXCEPT ![t] = backed_off(t, timer[t])]
      /\ timers' = list_del(timers, t)
      /\ poll_counted
  BY DEF expired_quiet, expired_release
<1>5. Consistent(timers', timer')
  BY <1>1, <1>2, <1>3, <1>4, Stopping
<1>6. polls' \in 0..PollsPerTick
  BY <1>1, <1>4, PollsType DEF poll_counted, TypeOK
<1>7. Kept
  <2>1. refcnt' \in [Timers -> Int]
    BY <1>1 DEF TypeOK, expired_quiet, expired_release, ref_change
  <2>2. owner' \in [Timers -> BOOLEAN]
    BY <1>1 DEF TypeOK, expired_quiet, expired_release
  <2>3. now' = now /\ elapsed' = [elapsed EXCEPT ![t] = 0]
    BY DEF expired_quiet, expired_release
  <2>4. elapsed' \in [Timers -> 0..TickMod]
    BY <1>1, <2>3, ZeroElapsed DEF TypeOK
  <2> QED BY <1>1, <1>5, <1>6, <2>1, <2>2, <2>3, <2>4 DEF Kept, TypeOK
<1>8. timer[t].running /\ ~ timer'[t].running
  BY <1>1, <1>2, <1>3, <1>4 DEF TypeOK
<1>9. \A u \in Timers : u # t => owner'[u] = owner[u] /\ timer'[u] = timer[u]
  BY <1>1, <1>4 DEF TypeOK, expired_quiet, expired_release
<1>10. ReferencesBalanced'
  <2>1. CASE expired_quiet(t)
    <3>1. owner' = owner /\ refcnt' = ref_change(t, -1)
      BY <2>1 DEF expired_quiet
    <3>2. Refs(owner'[t], timer'[t].running) = Refs(owner[t], timer[t].running) + (-1)
      BY <3>1, <1>8 DEF Refs
    <3> QED BY <1>1, <1>9, <3>1, <3>2, BalanceStep
  <2>2. CASE expired_release(t)
    <3>1. refcnt' = ref_change(t, -2)
      BY <2>2 DEF expired_release
    <3>2. owner[t] /\ ~ owner'[t]
      BY <1>1, <2>2 DEF expired_release, TypeOK
    <3>3. Refs(owner'[t], timer'[t].running) = Refs(owner[t], timer[t].running) + (-2)
      BY <3>2, <1>8 DEF Refs
    <3> QED BY <1>1, <1>9, <3>1, <3>3, BalanceStep
  <2> QED BY <2>1, <2>2
<1> QED BY <1>7, <1>10, KeptSuffices

(* A callback that restarts its own timer: off the list, then on again. *)
LEMMA ExpiredRestartStep ==
  ASSUME IInv, NEW t \in Timers, NEW r \in TimerRecord, r.running,
         ExpiredRestart(t, r)
  PROVE  IInv'
<1> DEFINE b  == backed_off(t, timer[t])
           tm == [timer EXCEPT ![t] = b]
<1>1. Consistent(timers, timer) /\ TypeOK /\ ReferencesBalanced
  BY ConsistentNow DEF IInv
<1>2. timer[t].running
  BY PolledRunning DEF ExpiredRestart
<1>3. b \in TimerRecord /\ ~ b.running
  BY <1>1, BackedOffType DEF TypeOK
<1> HIDE DEF b
<1>4. Consistent(list_del(timers, t), tm)
  BY <1>1, <1>2, <1>3, Stopping
<1>5. ~ tm[t].running /\ [tm EXCEPT ![t] = r] = [timer EXCEPT ![t] = r]
  BY <1>1, <1>3 DEF TypeOK
<1> HIDE DEF tm
<1>6. Consistent(list_add(list_del(timers, t), t), [tm EXCEPT ![t] = r])
  BY <1>4, <1>5, Starting
<1>7. Consistent(timers', timer')
  BY <1>5, <1>6 DEF ExpiredRestart
<1>8. polls' \in 0..PollsPerTick
  BY <1>1, PollsType DEF ExpiredRestart, poll_counted, TypeOK
<1>9. Kept
  BY <1>1, <1>7, <1>8, TimerAssumption DEF Kept, TypeOK, ExpiredRestart
<1>10. /\ owner' = owner /\ timer' = [timer EXCEPT ![t] = r] /\ timer'[t].running
       /\ refcnt' = ref_change(t, 0)
  BY <1>1 DEF ExpiredRestart, TypeOK, ref_change
<1>11. Refs(owner'[t], timer'[t].running) = Refs(owner[t], timer[t].running) + 0
  BY <1>2, <1>10 DEF Refs
<1>12. \A u \in Timers : u # t => owner'[u] = owner[u] /\ timer'[u] = timer[u]
  BY <1>1, <1>10 DEF TypeOK
<1>13. refcnt' = ref_change(t, 0)
  BY <1>10
<1>14. ReferencesBalanced'
  BY <1>1, <1>11, <1>12, <1>13, BalanceStep
<1> QED BY <1>9, <1>14, KeptSuffices

(* A callback that stops another timer: two timers come off the list. *)
LEMMA ExpiredStopOtherStep ==
  ASSUME IInv, NEW t \in Timers, NEW u \in Timers, expired_stop_other(t, u)
  PROVE  IInv'
<1> DEFINE b  == backed_off(t, timer[t])
           s  == stopped(timer[u])
           tm == [timer EXCEPT ![t] = b]
<1>1. Consistent(timers, timer) /\ TypeOK /\ ReferencesBalanced
  BY ConsistentNow DEF IInv
<1>2. timer[t].running /\ timer[u].running /\ u # t
  BY PolledRunning DEF expired_stop_other
<1>3. b \in TimerRecord /\ ~ b.running
  BY <1>1, BackedOffType DEF TypeOK
<1>4. s \in TimerRecord /\ ~ s.running
  BY <1>1, StoppedType DEF TypeOK
<1>5. timer' = [timer EXCEPT ![t] = b, ![u] = s]
  BY DEF expired_stop_other
<1> HIDE DEF b, s
<1>6. Consistent(list_del(timers, t), tm)
  BY <1>1, <1>2, <1>3, Stopping
<1>7. tm[u].running /\ [tm EXCEPT ![u] = s] = timer'
  BY <1>1, <1>2, <1>5 DEF TypeOK
<1> HIDE DEF tm
<1>8. Consistent(list_del(list_del(timers, t), u), [tm EXCEPT ![u] = s])
  BY <1>4, <1>6, <1>7, Stopping
<1>9. Consistent(timers', timer')
  BY <1>7, <1>8 DEF expired_stop_other
<1>10. polls' \in 0..PollsPerTick
  BY <1>1, PollsType DEF expired_stop_other, poll_counted, TypeOK
<1>11. refcnt' \in [Timers -> Int]
  BY <1>1 DEF expired_stop_other, TypeOK
<1>12. Kept
  <2>1. now' = now /\ owner' = owner /\ elapsed' = [elapsed EXCEPT ![t] = 0, ![u] = 0]
    BY DEF expired_stop_other
  <2>2. elapsed' \in [Timers -> 0..TickMod]
    BY <1>1, <2>1, ZeroElapsed DEF TypeOK
  <2> QED BY <1>1, <1>9, <1>10, <1>11, <2>1, <2>2 DEF Kept, TypeOK
<1>13. ReferencesBalanced'
  <2>1. \A x \in Counted : refcnt[x] = Refs(owner[x], timer[x].running)
    BY <1>1 DEF ReferencesBalanced, Refs
  <2>2. SUFFICES ASSUME NEW x \in Counted
                 PROVE  refcnt'[x] = Refs(owner'[x], timer'[x].running)
    BY DEF ReferencesBalanced, Refs
  <2>3. x \in Timers /\ owner' = owner
    BY TimerAssumption DEF expired_stop_other
  <2>4. CASE x \in {t, u}
    <3>1. refcnt'[x] = refcnt[x] - 1 /\ refcnt[x] \in Int
      BY <1>1, <2>3, <2>4 DEF expired_stop_other, TypeOK
    <3>2. timer[x].running /\ ~ timer'[x].running
      BY <1>1, <1>2, <1>3, <1>4, <1>5, <2>4 DEF TypeOK
    <3>3. Refs(owner'[x], timer'[x].running) = Refs(owner[x], timer[x].running) - 1
      BY <2>3, <3>2 DEF Refs
    <3> QED BY <2>1, <3>1, <3>3
  <2>5. CASE x \notin {t, u}
    <3>1. refcnt'[x] = refcnt[x]
      BY <1>1, <2>3, <2>5 DEF expired_stop_other, TypeOK
    <3>2. timer'[x] = timer[x]
      BY <1>1, <1>5, <2>3, <2>5 DEF TypeOK
    <3> QED BY <2>1, <2>3, <3>1, <3>2
  <2> QED BY <2>4, <2>5
<1> QED BY <1>12, <1>13, KeptSuffices

(* The creator letting go of an object whose timer may be running. *)
LEMMA ReleaseStep ==
  ASSUME IInv, NEW t \in Timers, release(t)
  PROVE  IInv'
<1>1. Consistent(timers, timer) /\ TypeOK /\ ReferencesBalanced
  BY ConsistentNow DEF IInv
<1>2. timer' = timer /\ timers' = timers /\ refcnt' = ref_change(t, -1)
  BY DEF release
<1>3. owner[t] /\ ~ owner'[t] /\ owner' \in [Timers -> BOOLEAN]
  BY <1>1 DEF release, TypeOK
<1>4. Kept
  BY <1>1, <1>2, <1>3 DEF Kept, release, TypeOK, ref_change
<1>5. Refs(owner'[t], timer'[t].running) = Refs(owner[t], timer[t].running) + (-1)
  BY <1>2, <1>3 DEF Refs
<1>6. \A u \in Timers : u # t => owner'[u] = owner[u] /\ timer'[u] = timer[u]
  BY <1>1, <1>2 DEF release, TypeOK
<1>7. refcnt' = ref_change(t, -1)
  BY <1>2
<1>8. ReferencesBalanced'
  BY <1>1, <1>5, <1>6, <1>7, BalanceStep
<1> QED BY <1>4, <1>8, KeptSuffices

(* Every step of the timer code and its callers preserves the invariant. *)
LEMMA NextIInv == IInv /\ [Next]_vars => IInv'
<1> SUFFICES ASSUME IInv, [Next]_vars PROVE IInv'
  OBVIOUS
<1>0. now \in 0..(TickMod - 1) /\ timer \in [Timers -> TimerRecord]
  BY DEF IInv, TypeOK
<1>1. CASE Tick
  <2>1. now' \in 0..(TickMod - 1)
    BY <1>0, <1>1, TimerAssumption DEF Tick
  <2>2. \A t \in Timers : Min2(elapsed[t] + 1, TickMod) \in 0..TickMod
    BY TimerAssumption DEF IInv, TypeOK, Min2
  <2>3. elapsed' \in [Timers -> 0..TickMod]
    BY <1>1, <2>2, ZeroElapsed DEF Tick
  <2>4. polls' \in 0..PollsPerTick
    BY <1>1, TimerAssumption DEF Tick
  <2>5. timers' = timers /\ timer' = timer /\ refcnt' = refcnt /\ owner' = owner
    BY <1>1 DEF Tick
  <2> QED BY <2>1, <2>3, <2>4, <2>5
          DEF IInv, TypeOK, ListHoldsRunning, ReferencesBalanced
<1>2. CASE poll_idle
  <2>1. polls' \in 0..PollsPerTick
    BY <1>2, PollsType DEF poll_idle, poll_counted, IInv, TypeOK
  <2> QED BY <1>2, <2>1
          DEF poll_idle, IInv, TypeOK, ListHoldsRunning, ReferencesBalanced
<1>3. ASSUME NEW t \in Timers, Expiry(t) PROVE IInv'
  <2>0. backed_off(t, timer[t]) \in TimerRecord
    BY <1>0, BackedOffType
  <2>1. CASE expired_quiet(t) \/ expired_release(t)
    BY <2>1, ExpiredStopStep
  <2>2. CASE expired_restart(t)
    BY <2>0, <2>2, <1>0, StartedType, ExpiredRestartStep DEF expired_restart
  <2>3. ASSUME NEW d \in CallbackTimeouts, expired_restart_fixed(t, d) PROVE IInv'
    BY <2>0, <2>3, <1>0, StartedType, ExpiredRestartStep, TimerAssumption
       DEF expired_restart_fixed
  <2>4. ASSUME NEW u \in Timers, expired_stop_other(t, u) PROVE IInv'
    BY <2>4, ExpiredStopOtherStep
  <2> QED BY <1>3, <2>1, <2>2, <2>3, <2>4 DEF Expiry
<1>4. ASSUME NEW t \in Timers, Call(t) PROVE IInv'
  <2>1. CASE start_timer(t)
    BY <2>1, <1>0, StartedType, StartStep DEF start_timer
  <2>2. ASSUME NEW d \in FixedTimeouts, start_timer_fixed(t, d) PROVE IInv'
    BY <2>2, <1>0, StartedType, StartStep, TimerAssumption DEF start_timer_fixed
  <2>3. CASE stop_timer(t)
    BY <2>3, StopStep
  <2>4. CASE release(t)
    BY <2>4, ReleaseStep
  <2> QED BY <1>4, <2>1, <2>2, <2>3, <2>4 DEF Call
<1>5. CASE UNCHANGED vars
  BY <1>5 DEF vars, IInv, TypeOK, ListHoldsRunning, ReferencesBalanced
<1> QED BY <1>1, <1>2, <1>3, <1>4, <1>5 DEF Next, retry_poll

-----------------------------------------------------------------------------
(* The invariant of the timer code, for any set of timers and timeouts. *)
THEOREM TimerInvariant == Spec => []IInv
BY InitIInv, NextIInv, PTL DEF Spec

(* start_timer(), stop_timer() and timer_expired() keep every timer structure *)
(* well formed: the timeout never goes negative, the count keeps its range.   *)
THEOREM TimerTypes == Spec => []TypeOK
<1>1. IInv => TypeOK
  BY DEF IInv
<1> QED BY <1>1, TimerInvariant, PTL

(* The list retry_poll() walks holds exactly the running timers, each once,   *)
(* whatever callers and expiry callbacks do to any of them.                   *)
THEOREM TimerListExact == Spec => []ListHoldsRunning
<1>1. IInv => ListHoldsRunning
  BY DEF IInv
<1> QED BY <1>1, TimerInvariant, PTL

(* A running timer holds exactly one reference to its object: none is freed   *)
(* while listed and none leaks.                                               *)
THEOREM TimerReferences == Spec => []ReferencesBalanced
<1>1. IInv => ReferencesBalanced
  BY DEF IInv
<1> QED BY <1>1, TimerInvariant, PTL

-----------------------------------------------------------------------------
(* No early expiry: the wrapping difference of two tick counts never exceeds *)
(* the time that has really passed.                                          *)

LEMMA ModOnce ==
  ASSUME NEW x \in Int, NEW M \in Nat \ {0}, NEW q \in Int, NEW r \in 0..(M - 1),
         x = q * M + r
  PROVE  x % M = r
OBVIOUS

LEMMA UsedValue ==
  ASSUME NEW a \in 0..(TickMod - 1), NEW b \in 0..(TickMod - 1)
  PROVE  used_ticks(a, b) = IF a >= b THEN a - b ELSE a - b + TickMod
<1>1. TickMod \in Nat \ {0}
  BY TimerAssumption
<1>2. CASE a >= b
  <2>1. a - b \in 0..(TickMod - 1) /\ a - b + TickMod = 1 * TickMod + (a - b)
    BY <1>1, <1>2
  <2> QED BY <1>1, <1>2, <2>1, ModOnce DEF used_ticks
<1>3. CASE a < b
  <2>1. a - b + TickMod \in 0..(TickMod - 1)
    BY <1>1, <1>3
  <2>2. a - b + TickMod = 0 * TickMod + (a - b + TickMod)
    BY <1>1
  <2> QED BY <1>1, <1>3, <2>1, <2>2, ModOnce DEF used_ticks
<1> QED BY <1>2, <1>3

(* A timer just started has used no time. *)
LEMMA UsedAtStart ==
  ASSUME NEW a \in 0..(TickMod - 1) PROVE used_ticks(a, a) = 0
BY UsedValue

(* One tick adds at most one to the time used, and may wrap it to nothing. *)
LEMMA UsedTick ==
  ASSUME NEW a \in 0..(TickMod - 1), NEW b \in 0..(TickMod - 1)
  PROVE  used_ticks((a + 1) % TickMod, b) <= used_ticks(a, b) + 1
<1>1. TickMod \in Nat \ {0}
  BY TimerAssumption
<1>2. CASE a + 1 < TickMod
  <2>1. (a + 1) % TickMod = a + 1 /\ a + 1 \in 0..(TickMod - 1)
    BY <1>1, <1>2
  <2>2. used_ticks(a + 1, b) = IF a + 1 >= b THEN a + 1 - b ELSE a + 1 - b + TickMod
    BY <2>1, UsedValue
  <2>3. used_ticks(a, b) = IF a >= b THEN a - b ELSE a - b + TickMod
    BY UsedValue
  <2> QED BY <1>1, <2>1, <2>2, <2>3
<1>3. CASE a + 1 = TickMod
  <2>1. (a + 1) % TickMod = 0 /\ 0 \in 0..(TickMod - 1)
    BY <1>1, <1>3
  <2> QED BY <1>1, <1>3, <2>1, UsedValue
<1> QED BY <1>1, <1>2, <1>3

(* What a step at a fixed time may do to one timer: leave it alone, leave it  *)
(* stopped, or start it now.                                                  *)
Touched(t) ==
  \/ timer'[t] = timer[t] /\ elapsed'[t] = elapsed[t]
  \/ ~ timer'[t].running
  \/ timer'[t].start = now /\ elapsed'[t] = 0

LEMMA TouchedSuffices ==
  ASSUME TypeOK, UsedAtMostElapsed, now' = now, \A t \in Timers : Touched(t)
  PROVE  UsedAtMostElapsed'
<1>1. now \in 0..(TickMod - 1)
  BY DEF TypeOK
<1>2. used_ticks(now, now) = 0
  BY <1>1, UsedAtStart
<1> SUFFICES ASSUME NEW t \in Timers, timer'[t].running
             PROVE  used_ticks(now, timer'[t].start) <= elapsed'[t]
  BY DEF UsedAtMostElapsed
<1>3. Touched(t)
  OBVIOUS
<1>4. CASE timer'[t] = timer[t] /\ elapsed'[t] = elapsed[t]
  BY <1>4 DEF UsedAtMostElapsed
<1>5. CASE timer'[t].start = now /\ elapsed'[t] = 0
  BY <1>2, <1>5
<1> QED BY <1>3, <1>4, <1>5 DEF Touched

(* Every call and every expiry touches timers in one of these ways. *)
LEMMA AllTouched ==
  ASSUME IInv, \/ poll_idle
               \/ \E t \in Timers : Expiry(t) \/ Call(t)
               \/ UNCHANGED vars
  PROVE  now' = now /\ \A t \in Timers : Touched(t)
<1>0. /\ now \in 0..(TickMod - 1) /\ timer \in [Timers -> TimerRecord]
      /\ elapsed \in [Timers -> 0..TickMod]
  BY DEF IInv, TypeOK
<1>1. CASE poll_idle \/ UNCHANGED vars
  BY <1>1 DEF poll_idle, vars, Touched
<1>2. ASSUME NEW t \in Timers, NEW r \in TimerRecord, ~ r.running \/ r.start = now,
             now' = now, timer' = [timer EXCEPT ![t] = r],
             elapsed' = [elapsed EXCEPT ![t] = 0]
      PROVE  now' = now /\ \A u \in Timers : Touched(u)
  BY <1>0, <1>2 DEF Touched
<1>3. ASSUME NEW t \in Timers, Expiry(t) PROVE now' = now /\ \A u \in Timers : Touched(u)
  <2>0. backed_off(t, timer[t]) \in TimerRecord /\ ~ backed_off(t, timer[t]).running
    BY <1>0, BackedOffType
  <2>1. CASE expired_quiet(t) \/ expired_release(t)
    BY <2>0, <2>1, <1>2 DEF expired_quiet, expired_release
  <2>2. CASE expired_restart(t)
    <3>1. /\ started(t, backed_off(t, timer[t])) \in TimerRecord
          /\ started(t, backed_off(t, timer[t])).start = now
      BY <2>0, <1>0, StartedType
    <3> QED BY <3>1, <2>2, <1>2 DEF expired_restart, ExpiredRestart
  <2>3. ASSUME NEW d \in CallbackTimeouts, expired_restart_fixed(t, d)
        PROVE  now' = now /\ \A u \in Timers : Touched(u)
    <3>1. d \in Nat
      BY TimerAssumption
    <3>2. /\ started_fixed(t, backed_off(t, timer[t]), d) \in TimerRecord
          /\ started_fixed(t, backed_off(t, timer[t]), d).start = now
      BY <2>0, <1>0, <3>1, StartedType
    <3> QED BY <3>2, <2>3, <1>2 DEF expired_restart_fixed, ExpiredRestart
  <2>4. ASSUME NEW u \in Timers, expired_stop_other(t, u)
        PROVE  now' = now /\ \A x \in Timers : Touched(x)
    <3>1. stopped(timer[u]) \in TimerRecord /\ ~ stopped(timer[u]).running
      BY <1>0, StoppedType
    <3>2. \A x \in Timers : \/ x \notin {t, u} /\ timer'[x] = timer[x] /\ elapsed'[x] = elapsed[x]
                            \/ ~ timer'[x].running
      BY <1>0, <2>0, <2>4, <3>1 DEF expired_stop_other
    <3> QED BY <2>4, <3>2 DEF expired_stop_other, Touched
  <2> QED BY <1>3, <2>1, <2>2, <2>3, <2>4 DEF Expiry
<1>4. ASSUME NEW t \in Timers, Call(t) PROVE now' = now /\ \A u \in Timers : Touched(u)
  <2>1. CASE start_timer(t)
    <3>1. started(t, timer[t]) \in TimerRecord /\ started(t, timer[t]).start = now
      BY <1>0, StartedType
    <3> QED BY <3>1, <2>1, <1>2 DEF start_timer, StartWith
  <2>2. ASSUME NEW d \in FixedTimeouts, start_timer_fixed(t, d)
        PROVE  now' = now /\ \A u \in Timers : Touched(u)
    <3>1. d \in Nat
      BY TimerAssumption
    <3>2. /\ started_fixed(t, timer[t], d) \in TimerRecord
          /\ started_fixed(t, timer[t], d).start = now
      BY <1>0, <3>1, StartedType
    <3> QED BY <3>2, <2>2, <1>2 DEF start_timer_fixed, StartWith
  <2>3. CASE stop_timer(t)
    <3>1. stopped(timer[t]) \in TimerRecord /\ ~ stopped(timer[t]).running
      BY <1>0, StoppedType
    <3> QED BY <3>1, <2>3, <1>2 DEF stop_timer
  <2>4. CASE release(t)
    BY <2>4 DEF release, Touched
  <2> QED BY <1>4, <2>1, <2>2, <2>3, <2>4 DEF Call
<1> QED BY <1>1, <1>3, <1>4

(* A tick adds one to the true time and at most one to the computed time. *)
LEMMA TickKeepsUsed ==
  ASSUME TypeOK, UsedAtMostElapsed, Tick
  PROVE  UsedAtMostElapsed'
<1> SUFFICES ASSUME NEW t \in Timers, timer[t].running
             PROVE  used_ticks((now + 1) % TickMod, timer[t].start) <= elapsed'[t]
  BY DEF UsedAtMostElapsed, Tick
<1>1. now \in 0..(TickMod - 1) /\ timer[t].start \in 0..(TickMod - 1)
  BY DEF TypeOK, TimerRecord
<1>2. elapsed[t] \in 0..TickMod /\ TickMod \in Nat \ {0}
  BY TimerAssumption DEF TypeOK
<1>3. elapsed'[t] = Min2(elapsed[t] + 1, TickMod)
  BY DEF Tick
<1>4. used_ticks(now, timer[t].start) <= elapsed[t]
  BY DEF UsedAtMostElapsed
<1>5. used_ticks((now + 1) % TickMod, timer[t].start)
        <= used_ticks(now, timer[t].start) + 1
  BY <1>1, UsedTick
<1>6. (now + 1) % TickMod \in 0..(TickMod - 1)
  BY <1>1, <1>2
<1>7. /\ used_ticks((now + 1) % TickMod, timer[t].start) \in 0..(TickMod - 1)
      /\ used_ticks(now, timer[t].start) \in 0..(TickMod - 1)
  BY <1>1, <1>6, UsedType
<1> HIDE DEF used_ticks
<1> QED BY <1>2, <1>3, <1>4, <1>5, <1>7 DEF Min2

(* A timer never expires before its timeout has really passed, although       *)
(* retry_poll() compares only a difference of tick counts that may wrap.      *)
THEOREM TimerNeverEarly == Spec => NeverEarly
<1>1. Init => UsedAtMostElapsed
  BY DEF Init, UsedAtMostElapsed
<1>2. IInv /\ UsedAtMostElapsed /\ [Next]_vars => UsedAtMostElapsed'
  <2> SUFFICES ASSUME IInv, UsedAtMostElapsed, [Next]_vars PROVE UsedAtMostElapsed'
    OBVIOUS
  <2>0. TypeOK
    BY DEF IInv
  <2>1. CASE Tick
    BY <2>0, <2>1, TickKeepsUsed
  <2>2. CASE ~ Tick
    <3>1. now' = now /\ \A t \in Timers : Touched(t)
      BY <2>2, AllTouched DEF Next, retry_poll
    <3> QED BY <2>0, <3>1, TouchedSuffices
  <2> QED BY <2>1, <2>2
<1>3. IInv /\ UsedAtMostElapsed
        => \A t \in Timers : Expiry(t) => elapsed[t] >= timer[t].timeout
  <2> SUFFICES ASSUME IInv, UsedAtMostElapsed, NEW t \in Timers, Expiry(t)
               PROVE  elapsed[t] >= timer[t].timeout
    OBVIOUS
  <2>1. polled(t)
    BY DEF Expiry, expired_quiet, expired_restart, expired_restart_fixed,
           ExpiredRestart, expired_stop_other, expired_release
  <2>2. timer[t].running
    BY <2>1, PolledRunning
  <2>3. used_ticks(now, timer[t].start) >= timer[t].timeout
    BY <2>1 DEF polled, due
  <2>4. used_ticks(now, timer[t].start) <= elapsed[t]
    BY <2>2 DEF UsedAtMostElapsed
  <2>5. /\ now \in 0..(TickMod - 1) /\ timer[t].start \in 0..(TickMod - 1)
        /\ timer[t].timeout \in Nat /\ elapsed[t] \in 0..TickMod
    BY DEF IInv, TypeOK, TimerRecord
  <2>6. used_ticks(now, timer[t].start) \in 0..(TickMod - 1)
    BY <2>5, UsedType
  <2> QED BY <2>3, <2>4, <2>5, <2>6, TimerAssumption
<1> QED BY <1>1, <1>2, <1>3, TimerInvariant, PTL DEF Spec, NeverEarly

=============================================================================
