---------------------------- MODULE DcqcnProofs -----------------------------
(* The rates stay in their bounds and every timer runs in one copy, whatever *)
(* the parameters are.                                                       *)
EXTENDS Dcqcn, SumTheorems, SequenceTheorems, TLAPS

\* Until the first CNP no timer runs, so the rate still has its first value
\* and the fraction of it that the first CNP leaves is known.
RateInv ==
    /\ {m_rate, m_targetRate} \subseteq Nat
    /\ m_first_cnp \in BOOLEAN
    /\ m_first_cnp => m_rate = m_max_rate /\ agenda = <<>>
    /\ RatesBounded

\* Truncating division, with the bounds that its uses need.
LEMMA DivBelow == ASSUME NEW a \in Nat, NEW b \in Nat, NEW c \in Nat \ {0}, a <= b * c
                  PROVE  a \div c \in Nat /\ a \div c <= b
<1>1. a \div c \in Nat /\ c * (a \div c) <= a
  BY SMT
<1>2. ASSUME a \div c >= b + 1 PROVE FALSE
  <2>1. c * (a \div c) >= c * (b + 1)
    BY <1>1, <1>2, SMT
  <2>2. QED
    BY <1>1, <2>1, SMT
<1>3. QED
  BY <1>1, <1>2, SMT

\* Cutting a rate at the minimum gives a rate between the minimum and the old.
LEMMA CutRateBounded == ASSUME RateInv
                        PROVE  /\ CutRate(m_rate) \in Nat
                               /\ m_minRate <= CutRate(m_rate)
                               /\ CutRate(m_rate) <= m_rate
<1> USE RatesAssumption, AlphaAssumption
<1>1. m_rate \in Nat /\ m_minRate \in Nat /\ m_minRate <= m_rate /\ m_alpha \in 0 .. One
  BY DEF RateInv, RatesBounded
<1> DEFINE rest == 2 * One - m_alpha
<1>2. rest \in Nat /\ rest <= 2 * One /\ 2 * One \in Nat \ {0}
  BY <1>1
<1> HIDE DEF rest
<1>3. m_rate * rest \in Nat /\ m_rate * rest <= m_rate * (2 * One)
  BY <1>1, <1>2
<1>4. Decreased(m_rate) \in Nat /\ Decreased(m_rate) <= m_rate
  <2>1. (m_rate * rest) \div (2 * One) \in Nat /\ (m_rate * rest) \div (2 * One) <= m_rate
    BY <1>1, <1>2, <1>3, DivBelow
  <2>2. QED
    BY <2>1 DEF Decreased, rest
<1>5. QED
  BY <1>1, <1>4 DEF CutRate

\* An increase moves the rate half of the way to a target that is no smaller;
\* the minimum is even, so truncation does not take the rate under it.
LEMMA HalfWay == ASSUME NEW rate \in Nat, NEW target \in Nat,
                        m_minRate <= rate, rate <= target
                 PROVE  /\ (rate \div 2) + (target \div 2) \in Nat
                        /\ m_minRate <= (rate \div 2) + (target \div 2)
                        /\ (rate \div 2) + (target \div 2) <= target
BY RatesAssumption

LEMMA AlphaBounded == ASSUME RateInv, NEW weight \in {0, One}
                      PROVE  (m_alpha * (Gain - 1) + weight) \div Gain \in 0 .. One
<1> USE AlphaAssumption
<1>1. m_alpha \in Nat /\ m_alpha <= One /\ weight \in Nat /\ weight <= One
  BY DEF RateInv, RatesBounded
<1>2. PICK less \in Nat : less = Gain - 1
  BY SMT
<1>3. m_alpha * less \in Nat /\ m_alpha * less <= One * less
  BY <1>1, <1>2
<1>4. One * less + One = One * Gain
  BY <1>2
<1>5. m_alpha * less + weight \in Nat /\ m_alpha * less + weight <= One * Gain
  BY <1>1, <1>3, <1>4, <1>2
<1>6. (m_alpha * less + weight) \div Gain \in Nat /\ (m_alpha * less + weight) \div Gain <= One
  BY <1>5, DivBelow
<1>7. QED
  BY <1>6, <1>2

-----------------------------------------------------------------------------

LEMMA RateInvInit == Init => RateInv
BY RatesAssumption, AlphaAssumption DEF Init, RateInv, RatesBounded

LEMMA NoTimerBeforeFirstCnp ==
    ASSUME RateInv, NEW handler, Due(handler)
    PROVE  ~m_first_cnp
<1> SUFFICES ASSUME agenda = <<>> PROVE NextEvent = 0
  BY DEF RateInv, Due
<1> QED
  BY DEF NextEvent, SelectInSeq

LEMMA RateInvNext == RateInv /\ [Next]_vars => RateInv'
<1> SUFFICES ASSUME RateInv, [Next]_vars PROVE RateInv'
  OBVIOUS
<1> USE RatesAssumption, AlphaAssumption
<1>1. CASE cnp_received_mlx
  <2>1. CASE m_first_cnp
    <3>1. m_max_rate * m_rateOnFirstCNP \in Nat
          /\ m_max_rate * m_rateOnFirstCNP <= m_max_rate * One
      BY SMT
    <3>2. (m_max_rate * m_rateOnFirstCNP) \div One \in Nat
          /\ (m_max_rate * m_rateOnFirstCNP) \div One <= m_max_rate
      BY <3>1, DivBelow
    <3>3. m_rate' = (m_max_rate * m_rateOnFirstCNP) \div One /\ m_targetRate' = m_rate'
          /\ m_alpha' = One /\ m_first_cnp' = FALSE
      BY <1>1, <2>1 DEF cnp_received_mlx, RateInv
    <3> DEFINE first == (m_max_rate * m_rateOnFirstCNP) \div One
    <3>4. first \in Nat /\ m_minRate <= first /\ first <= LineRate
      BY <3>2
    <3>5. m_rate' = first /\ m_targetRate' = first
      BY <3>3
    <3>6. m_alpha' \in 0 .. One
      BY <3>3
    <3> HIDE DEF first
    <3>7. RatesBounded' /\ {m_rate, m_targetRate}' \subseteq Nat
      BY <3>4, <3>5, <3>6 DEF RatesBounded
    <3>8. m_first_cnp' \in BOOLEAN /\ ~m_first_cnp'
      BY <3>3
    <3>9. QED
      BY <3>7, <3>8 DEF RateInv
  <2>2. CASE ~m_first_cnp
    BY <1>1, <2>2 DEF cnp_received_mlx, RateInv, RatesBounded, rates
  <2>3. QED
    BY <2>1, <2>2
<1>2. CASE UpdateAlphaMlx
  <2>1. m_alpha' \in 0 .. One
    <3>1. CASE m_alpha_cnp_arrived
      BY <1>2, <3>1, AlphaBounded DEF UpdateAlphaMlx
    <3>2. CASE ~m_alpha_cnp_arrived
      BY <1>2, <3>2, AlphaBounded DEF UpdateAlphaMlx
    <3>3. QED
      BY <3>1, <3>2
  <2>2. UNCHANGED <<m_rate, m_targetRate, m_first_cnp>> /\ ~m_first_cnp
    BY <1>2, NoTimerBeforeFirstCnp DEF UpdateAlphaMlx, rates
  <2>3. QED
    BY <2>1, <2>2 DEF RateInv, RatesBounded
<1>3. CASE CheckRateDecreaseMlx
  <2>1. UNCHANGED <<m_alpha, m_first_cnp>> /\ ~m_first_cnp
    BY <1>3, NoTimerBeforeFirstCnp DEF CheckRateDecreaseMlx
  <2>2. CASE m_decrease_cnp_arrived
    <3>1. m_targetRate' \in {m_rate, m_targetRate} /\ m_rate' = CutRate(m_rate)
      BY <1>3, <2>2 DEF CheckRateDecreaseMlx
    <3>2. QED
      BY <2>1, <3>1, CutRateBounded DEF RateInv, RatesBounded
  <2>3. CASE ~m_decrease_cnp_arrived
    BY <1>3, <2>1, <2>3 DEF CheckRateDecreaseMlx, RateInv, RatesBounded, rates
  <2>4. QED
    BY <2>2, <2>3
<1>4. CASE RateIncEventTimerMlx
  <2>1. UNCHANGED <<m_alpha, m_first_cnp>> /\ ~m_first_cnp
    BY <1>4, NoTimerBeforeFirstCnp DEF RateIncEventTimerMlx, flags
  <2>2. m_targetRate' = IncreasedTarget /\ m_rate' = (m_rate \div 2) + (m_targetRate' \div 2)
    BY <1>4 DEF RateIncEventTimerMlx
  <2>3. IncreasedTarget \in Nat /\ m_targetRate <= IncreasedTarget /\ IncreasedTarget <= LineRate
    <3>1. m_targetRate \in Nat /\ m_targetRate <= LineRate
      BY DEF RateInv, RatesBounded
    <3>2. ASSUME NEW more \in Nat
          PROVE  /\ Capped(m_targetRate + more) \in Nat
                 /\ m_targetRate <= Capped(m_targetRate + more)
                 /\ Capped(m_targetRate + more) <= LineRate
      <4>1. LineRate \in Nat
        BY RatesAssumption
      <4>2. QED
        BY <3>1, <4>1 DEF Capped
    <3>3. IncreasedTarget \in {m_targetRate, Capped(m_targetRate + m_rai), Capped(m_targetRate + m_rhai)}
      BY DEF IncreasedTarget
    <3>4. m_rai \in Nat /\ m_rhai \in Nat
      OBVIOUS
    <3>5. CASE IncreasedTarget = m_targetRate
      BY <3>1, <3>5
    <3>6. CASE IncreasedTarget = Capped(m_targetRate + m_rai)
      BY <3>2, <3>4, <3>6
    <3>7. CASE IncreasedTarget = Capped(m_targetRate + m_rhai)
      BY <3>2, <3>4, <3>7
    <3>8. QED
      BY <3>3, <3>5, <3>6, <3>7
  <2>4. m_rate \in Nat /\ m_minRate <= m_rate /\ m_rate <= IncreasedTarget
    BY <2>3 DEF RateInv, RatesBounded
  <2>5. QED
    BY <2>1, <2>2, <2>3, <2>4, HalfWay DEF RateInv, RatesBounded
<1>5. CASE Elapse
  <2>1. ~m_first_cnp
    BY <1>5 DEF Elapse, RateInv
  <2>2. QED
    BY <1>5, <2>1 DEF Elapse, RateInv, RatesBounded, rates, flags
<1>6. CASE UNCHANGED vars
  BY <1>6 DEF vars, RateInv, RatesBounded, rates, flags
<1>7. QED
  BY <1>1, <1>2, <1>3, <1>4, <1>5, <1>6 DEF Next, Simulator

\* Whatever CNPs arrive and whenever the timers fire between them, a queue pair
\* keeps at least the minimum rate and never passes its target or the line.
THEOREM RatesStayBounded == Spec => []RatesBounded
<1>1. RateInv => RatesBounded
  BY DEF RateInv
<1>2. QED
  BY <1>1, RateInvInit, RateInvNext, PTL DEF Spec

-----------------------------------------------------------------------------
(* The timers.  The agenda is seen through the set of the handlers it will *)
(* run: as no handler is in it twice, each operation on the agenda adds    *)
(* one handler to the set or takes one from it.                            *)

Handlers == {"UpdateAlphaMlx", "CheckRateDecreaseMlx", "RateIncEventTimerMlx"}
Events == [runs : Handlers, after : Int]

\* No handler is in the agenda twice.
OnceEach(events) ==
    \A i, j \in DOMAIN events : events[i].runs = events[j].runs => i = j

\* The handlers of an agenda, each of them once.
IsAgenda(events, handlers) ==
    /\ events \in Seq(Events)
    /\ OnceEach(events)
    /\ handlers = {events[i].runs : i \in DOMAIN events}

LEMMA ScheduleAdds ==
    ASSUME NEW events, NEW handlers, NEW handler \in Handlers \ handlers, NEW delay \in Int,
           IsAgenda(events, handlers)
    PROVE  IsAgenda(Schedule(events, handler, delay), handlers \union {handler})
<1> DEFINE event == [runs |-> handler, after |-> delay]
           after == Append(events, event)
<1>1. events \in Seq(Events) /\ event \in Events /\ event.runs = handler
  BY DEF IsAgenda, Events
<1> HIDE DEF event
<1>2. /\ after \in Seq(Events) /\ Len(after) = Len(events) + 1
      /\ \A i \in 1 .. Len(events) : after[i] = events[i]
      /\ after[Len(events) + 1] = event
  BY <1>1, AppendProperties
<1> HIDE DEF after
<1>3. /\ Len(events) \in Nat
      /\ DOMAIN events = 1 .. Len(events) /\ DOMAIN after = 1 .. Len(events) + 1
  BY <1>1, <1>2
<1>4. \A i \in 1 .. Len(events) : events[i].runs # handler
  BY <1>3 DEF IsAgenda
<1>5. OnceEach(after)
  BY <1>1, <1>2, <1>3, <1>4 DEF IsAgenda, OnceEach
<1>6. handlers \union {handler} = {after[i].runs : i \in DOMAIN after}
  BY <1>1, <1>2, <1>3 DEF IsAgenda
<1>7. QED
  BY <1>2, <1>5, <1>6 DEF IsAgenda, Schedule, event, after

\* The part of an agenda that is left when its i-th event is taken out.
LEMMA RemoveAtTakes ==
    ASSUME NEW events, NEW handlers, IsAgenda(events, handlers), NEW i \in DOMAIN events
    PROVE  IsAgenda(RemoveAt(events, i), handlers \ {events[i].runs})
<1> DEFINE n == Len(events)
           before == SubSeq(events, 1, i - 1)
           behind == SubSeq(events, i + 1, n)
           left == before \o behind
<1>1. events \in Seq(Events) /\ n \in Nat /\ DOMAIN events = 1 .. n /\ i \in 1 .. n
  BY DEF IsAgenda
<1>2. \A k \in 1 .. n : events[k] \in Events
  BY <1>1
<1>3. /\ before \in Seq(Events) /\ Len(before) = i - 1
      /\ \A k \in 1 .. i - 1 : before[k] = events[k]
  <2>1. \A k \in 1 .. i - 1 : events[k] \in Events
    BY <1>1, <1>2
  <2>2. 1 \in Int /\ i - 1 \in Int
    BY <1>1
  <2>3. /\ before \in Seq(Events)
        /\ Len(before) = IF 1 <= i - 1 THEN i - 1 - 1 + 1 ELSE 0
        /\ \A k \in 1 .. i - 1 - 1 + 1 : before[k] = events[1 + k - 1]
    BY <2>1, <2>2, SubSeqProperties
  <2> HIDE DEF before
  <2>4. QED
    BY <1>1, <2>3
<1>4. /\ behind \in Seq(Events) /\ Len(behind) = n - i
      /\ \A k \in 1 .. n - i : behind[k] = events[k + i]
  <2> HIDE DEF n
  <2>1. \A k \in i + 1 .. n : events[k] \in Events
    BY <1>1, <1>2
  <2>2. i + 1 \in Int /\ n \in Int
    BY <1>1
  <2>3. /\ behind \in Seq(Events)
        /\ Len(behind) = IF i + 1 <= n THEN n - (i + 1) + 1 ELSE 0
        /\ \A k \in 1 .. n - (i + 1) + 1 : behind[k] = events[i + 1 + k - 1]
    BY <2>1, <2>2, SubSeqProperties
  <2> HIDE DEF behind
  <2>4. Len(behind) = n - i
    BY <1>1, <2>3
  <2>5. ASSUME NEW k \in 1 .. n - i PROVE behind[k] = events[k + i]
    <3>1. k \in 1 .. n - (i + 1) + 1 /\ i + 1 + k - 1 = k + i
      BY <1>1
    <3>2. QED
      BY <2>3, <3>1
  <2>6. QED
    BY <2>3, <2>4, <2>5
<1> HIDE DEF before, behind
<1>5. /\ left \in Seq(Events) /\ Len(left) = n - 1
      /\ \A k \in 1 .. n - 1 : left[k] = IF k < i THEN events[k] ELSE events[k + 1]
  <2>1. /\ left \in Seq(Events) /\ Len(left) = Len(before) + Len(behind)
        /\ \A k \in 1 .. Len(before) + Len(behind) :
              left[k] = IF k <= Len(before) THEN before[k] ELSE behind[k - Len(before)]
    BY <1>3, <1>4, ConcatProperties
  <2> HIDE DEF left, n
  <2>2. Len(left) = n - 1
    BY <1>1, <1>3, <1>4, <2>1
  <2>3. ASSUME NEW k \in 1 .. n - 1, k < i PROVE left[k] = events[k]
    BY <1>1, <1>3, <1>4, <2>1, <2>3
  <2>4. ASSUME NEW k \in 1 .. n - 1, ~(k < i) PROVE left[k] = events[k + 1]
    <3>1. left[k] = behind[k - (i - 1)]
      BY <1>1, <1>3, <1>4, <2>1, <2>4
    <3>2. k - (i - 1) \in 1 .. n - i /\ k - (i - 1) + i = k + 1
      BY <1>1, <2>4
    <3>3. QED
      BY <1>4, <3>1, <3>2
  <2>5. QED
    BY <2>1, <2>2, <2>3, <2>4
<1> HIDE DEF left, n
<1>6. DOMAIN left = 1 .. n - 1
  BY <1>1, <1>5
<1>7. OnceEach(left)
  <2> SUFFICES ASSUME NEW k \in 1 .. n - 1, NEW l \in 1 .. n - 1, left[k].runs = left[l].runs
               PROVE  k = l
    BY <1>6 DEF OnceEach
  <2>1. \A j \in 1 .. n - 1 :
            /\ j < i => left[j] = events[j] /\ j \in 1 .. n
            /\ ~(j < i) => left[j] = events[j + 1] /\ j + 1 \in 1 .. n
    BY <1>1, <1>5
  <2>2. \A a, b \in 1 .. n : events[a].runs = events[b].runs => a = b
    BY <1>1 DEF IsAgenda, OnceEach
  <2>3. CASE k < i /\ l < i
    BY <2>1, <2>2, <2>3
  <2>4. CASE k < i /\ ~(l < i)
    <3>1. k = l + 1
      BY <2>1, <2>2, <2>4
    <3>2. QED
      BY <1>1, <2>4, <3>1
  <2>5. CASE ~(k < i) /\ l < i
    <3>1. l = k + 1
      BY <2>1, <2>2, <2>5
    <3>2. QED
      BY <1>1, <2>5, <3>1
  <2>6. CASE ~(k < i) /\ ~(l < i)
    <3>1. k + 1 = l + 1
      BY <2>1, <2>2, <2>6
    <3>2. QED
      BY <3>1
  <2>7. QED
    BY <2>3, <2>4, <2>5, <2>6
<1>8. handlers \ {events[i].runs} = {left[k].runs : k \in DOMAIN left}
  <2>1. ASSUME NEW handler \in handlers \ {events[i].runs}
        PROVE  \E k \in DOMAIN left : left[k].runs = handler
    <3>1. PICK k \in 1 .. n : events[k].runs = handler /\ k # i
      BY <1>1 DEF IsAgenda
    <3>2. CASE k < i
      BY <1>1, <1>5, <1>6, <3>1, <3>2
    <3>3. CASE k > i
      <4>1. k - 1 \in 1 .. n - 1 /\ left[k - 1] = events[k]
        BY <1>1, <1>5, <3>3
      <4>2. QED
        BY <1>6, <3>1, <4>1
    <3>4. QED
      BY <1>1, <3>1, <3>2, <3>3
  <2>2. ASSUME NEW k \in DOMAIN left
        PROVE  left[k].runs \in handlers \ {events[i].runs}
    <3>1. PICK l \in 1 .. n : left[k] = events[l] /\ l # i
      BY <1>1, <1>5, <1>6
    <3>2. QED
      BY <1>1, <3>1 DEF IsAgenda, OnceEach
  <2>3. QED
    BY <2>1, <2>2
<1>9. QED
  BY <1>5, <1>7, <1>8 DEF IsAgenda, RemoveAt, left, before, behind, n

\* The event that the simulator runs next is one of the agenda.
LEMMA DueIsNext ==
    ASSUME NEW handlers, IsAgenda(agenda, handlers), NEW handler, Due(handler)
    PROVE  /\ NextEvent \in DOMAIN agenda
           /\ agenda[NextEvent].runs = handler
           /\ handler \in handlers
<1> DEFINE due == {i \in 1 .. Len(agenda) : agenda[i].after = 0}
<1>1. agenda \in Seq(Events) /\ Len(agenda) \in Nat /\ DOMAIN agenda = 1 .. Len(agenda)
  BY DEF IsAgenda
<1>2. due # {} /\ NextEvent = Min(due)
  BY DEF Due, NextEvent, SelectInSeq
<1>3. due \subseteq Nat
  BY <1>1
<1>4. PICK first \in due : \A i \in due : first <= i
  BY <1>2, <1>3, LeastNatural
<1> HIDE DEF due
<1>5. Min(due) \in due
  BY <1>4 DEF Min
<1>6. NextEvent \in DOMAIN agenda
  BY <1>1, <1>2, <1>5 DEF due
<1>7. QED
  BY <1>6 DEF Due, IsAgenda

\* A timer that reschedules itself stays the only one of its kind.
LEMMA RescheduledSame ==
    ASSUME NEW handlers, IsAgenda(agenda, handlers), NEW handler, Due(handler),
           NEW delay \in Int
    PROVE  IsAgenda(Rescheduled(delay), handlers)
<1>1. /\ NextEvent \in DOMAIN agenda /\ agenda[NextEvent].runs = handler
      /\ handler \in handlers
  BY DueIsNext
<1>2. IsAgenda(RemoveAt(agenda, NextEvent), handlers \ {handler})
  BY <1>1, RemoveAtTakes
<1>3. handler \in Handlers \ (handlers \ {handler})
  <2>1. agenda[NextEvent] \in Events
    BY <1>1 DEF IsAgenda
  <2>2. QED
    BY <1>1, <2>1 DEF Events
<1>4. IsAgenda(Schedule(RemoveAt(agenda, NextEvent), handler, delay),
               (handlers \ {handler}) \union {handler})
  BY <1>2, <1>3, ScheduleAdds
<1>5. (handlers \ {handler}) \union {handler} = handlers
  BY <1>1
<1>6. QED
  BY <1>1, <1>4, <1>5 DEF Rescheduled

\* Cancelling a timer takes its only copy, if there is one.
LEMMA CancelTakes ==
    ASSUME NEW events, NEW handlers, IsAgenda(events, handlers), NEW handler
    PROVE  IsAgenda(Cancel(events, handler), handlers \ {handler})
<1> DEFINE its == {i \in 1 .. Len(events) : events[i].runs = handler}
<1>1. events \in Seq(Events) /\ Len(events) \in Nat /\ DOMAIN events = 1 .. Len(events)
  BY DEF IsAgenda
<1>2. CASE its = {}
  <2>1. Cancel(events, handler) = events
    BY <1>2 DEF Cancel, RemoveFirstMatch
  <2>2. handlers \ {handler} = handlers
    BY <1>1, <1>2 DEF IsAgenda
  <2>3. QED
    BY <2>1, <2>2
<1>3. CASE its # {}
  <2>1. Cancel(events, handler) = RemoveAt(events, Min(its))
    BY <1>3 DEF Cancel, RemoveFirstMatch, SelectInSeq
  <2>2. its \subseteq Nat
    BY <1>1
  <2>3. PICK first \in its : \A i \in its : first <= i
    BY <1>3, <2>2, LeastNatural
  <2> HIDE DEF its
  <2>4. Min(its) \in its
    BY <2>3 DEF Min
  <2>5. Min(its) \in DOMAIN events /\ events[Min(its)].runs = handler
    BY <1>1, <2>4 DEF its
  <2>6. QED
    BY <2>1, <2>5, RemoveAtTakes
<1>4. QED
  BY <1>2, <1>3

-----------------------------------------------------------------------------

\* The handlers that will run: none before the first CNP, then alpha's update
\* and the decrease check, and the increase once a check cut the rate.
TimersInv ==
    /\ RateInv
    /\ m_decrease_cnp_arrived => ~m_first_cnp
    /\ \E handlers \in SUBSET Handlers :
          /\ IsAgenda(agenda, handlers)
          /\ m_first_cnp => handlers = {}
          /\ ~m_first_cnp => {"UpdateAlphaMlx", "CheckRateDecreaseMlx"} \subseteq handlers
          /\ m_rate < m_targetRate => "RateIncEventTimerMlx" \in handlers

LEMMA TimersInvInit == Init => TimersInv
<1> SUFFICES ASSUME Init PROVE TimersInv
  OBVIOUS
<1>1. RateInv /\ ~m_decrease_cnp_arrived
  BY RateInvInit DEF Init
<1>2. IsAgenda(agenda, {})
  BY DEF Init, IsAgenda, OnceEach
<1>3. ~(m_rate < m_targetRate) /\ m_first_cnp
  BY RatesAssumption DEF Init
<1>4. QED
  BY <1>1, <1>2, <1>3 DEF TimersInv

LEMMA TimersInvNext == TimersInv /\ [Next]_vars => TimersInv'
<1> SUFFICES ASSUME TimersInv, [Next]_vars PROVE TimersInv'
  OBVIOUS
<1> USE TimersAssumption
<1>1. RateInv /\ RateInv' /\ m_first_cnp \in BOOLEAN
  BY RateInvNext DEF TimersInv, RateInv
<1>2. PICK handlers \in SUBSET Handlers :
          /\ IsAgenda(agenda, handlers)
          /\ m_first_cnp => handlers = {}
          /\ ~m_first_cnp => {"UpdateAlphaMlx", "CheckRateDecreaseMlx"} \subseteq handlers
          /\ m_rate < m_targetRate => "RateIncEventTimerMlx" \in handlers
  BY DEF TimersInv
<1>3. m_alpha_resume_interval \in Int /\ m_rateDecreaseInterval \in Int
      /\ m_rateDecreaseInterval + 1 \in Int /\ m_rpgTimeReset \in Int
  OBVIOUS
<1>4. CASE cnp_received_mlx
  <2>1. CASE m_first_cnp
    <3>1. IsAgenda(Schedule(agenda, "UpdateAlphaMlx", m_alpha_resume_interval),
                   {"UpdateAlphaMlx"})
      <4>1. "UpdateAlphaMlx" \in Handlers \ handlers /\ handlers \union {"UpdateAlphaMlx"} = {"UpdateAlphaMlx"}
        BY <1>2, <2>1 DEF Handlers
      <4>2. QED
        BY <1>2, <1>3, <4>1, ScheduleAdds
    <3>2. "CheckRateDecreaseMlx" \in Handlers \ {"UpdateAlphaMlx"}
      BY DEF Handlers
    <3>3. IsAgenda(agenda', {"UpdateAlphaMlx"} \union {"CheckRateDecreaseMlx"})
      <4>1. IsAgenda(Schedule(Schedule(agenda, "UpdateAlphaMlx", m_alpha_resume_interval),
                              "CheckRateDecreaseMlx", m_rateDecreaseInterval + 1),
                     {"UpdateAlphaMlx"} \union {"CheckRateDecreaseMlx"})
        BY <1>3, <3>1, <3>2, ScheduleAdds
      <4>2. QED
        BY <1>4, <2>1, <4>1 DEF cnp_received_mlx
    <3>4. ~(m_rate' < m_targetRate') /\ m_first_cnp' = FALSE
      <4>1. m_rate' = m_targetRate' /\ m_rate' \in Nat /\ m_first_cnp' = FALSE
        BY <1>1, <1>4, <2>1 DEF cnp_received_mlx, RateInv
      <4>2. QED
        BY <4>1
    <3>5. {"UpdateAlphaMlx"} \union {"CheckRateDecreaseMlx"} \in SUBSET Handlers
      BY DEF Handlers
    <3>6. QED
      BY <1>1, <3>3, <3>4, <3>5 DEF TimersInv, IsAgenda
  <2>2. CASE ~m_first_cnp
    <3>1. UNCHANGED <<m_rate, m_targetRate, agenda>> /\ m_first_cnp' = FALSE
      BY <1>4, <2>2 DEF cnp_received_mlx, rates
    <3>2. IsAgenda(agenda', handlers)
      BY <1>2, <3>1
    <3>3. QED
      BY <1>1, <1>2, <2>2, <3>1, <3>2 DEF TimersInv
  <2>3. QED
    BY <2>1, <2>2
<1>5. CASE UpdateAlphaMlx
  <2>1. IsAgenda(agenda', handlers)
    BY <1>2, <1>3, <1>5, RescheduledSame DEF UpdateAlphaMlx
  <2>2. UNCHANGED <<m_rate, m_targetRate, m_first_cnp, m_decrease_cnp_arrived>>
    BY <1>5 DEF UpdateAlphaMlx, rates
  <2>3. QED
    BY <1>1, <1>2, <2>1, <2>2 DEF TimersInv, IsAgenda
<1>6. CASE CheckRateDecreaseMlx
  <2>1. IsAgenda(Rescheduled(m_rateDecreaseInterval), handlers)
    BY <1>2, <1>3, <1>6, RescheduledSame DEF CheckRateDecreaseMlx
  <2>2. UNCHANGED m_first_cnp /\ m_decrease_cnp_arrived' = FALSE
    BY <1>6 DEF CheckRateDecreaseMlx
  <2>3. ~m_first_cnp
    BY <1>1, <1>6, NoTimerBeforeFirstCnp DEF CheckRateDecreaseMlx
  <2>4. CASE m_decrease_cnp_arrived
    <3> DEFINE inc == "RateIncEventTimerMlx"
    <3>1. IsAgenda(Cancel(Rescheduled(m_rateDecreaseInterval), inc), handlers \ {inc})
      BY <2>1, CancelTakes
    <3>2. inc \in Handlers \ (handlers \ {inc})
      BY DEF Handlers
    <3>3. IsAgenda(agenda', (handlers \ {inc}) \union {inc})
      <4>1. IsAgenda(Schedule(Cancel(Rescheduled(m_rateDecreaseInterval), inc), inc, m_rpgTimeReset),
                     (handlers \ {inc}) \union {inc})
        BY <1>3, <3>1, <3>2, ScheduleAdds
      <4>2. QED
        BY <1>6, <2>4, <4>1 DEF CheckRateDecreaseMlx
    <3>4. (handlers \ {inc}) \union {inc} \in SUBSET Handlers
      BY <1>2, <3>2
    <3>5. {"UpdateAlphaMlx", "CheckRateDecreaseMlx"} \subseteq (handlers \ {inc}) \union {inc}
      BY <1>2, <2>3
    <3>6. QED
      BY <1>1, <2>2, <2>3, <3>3, <3>4, <3>5 DEF TimersInv, IsAgenda
  <2>5. CASE ~m_decrease_cnp_arrived
    <3>1. agenda' = Rescheduled(m_rateDecreaseInterval) /\ UNCHANGED <<m_rate, m_targetRate>>
      BY <1>6, <2>5 DEF CheckRateDecreaseMlx, rates
    <3>2. IsAgenda(agenda', handlers)
      BY <2>1, <3>1
    <3>3. m_rate' < m_targetRate' => "RateIncEventTimerMlx" \in handlers
      BY <1>2, <3>1
    <3>4. QED
      BY <1>1, <1>2, <2>2, <2>3, <3>2, <3>3 DEF TimersInv, IsAgenda
  <2>6. QED
    BY <2>4, <2>5
<1>7. CASE RateIncEventTimerMlx
  <2>1. IsAgenda(agenda', handlers) /\ "RateIncEventTimerMlx" \in handlers
    BY <1>2, <1>3, <1>7, RescheduledSame, DueIsNext DEF RateIncEventTimerMlx
  <2>2. UNCHANGED <<m_first_cnp, m_decrease_cnp_arrived>>
    BY <1>7 DEF RateIncEventTimerMlx, flags
  <2>3. QED
    BY <1>1, <1>2, <2>1, <2>2 DEF TimersInv, IsAgenda
<1>8. CASE Elapse
  <2>1. agenda \in Seq(Events)
    BY <1>2 DEF IsAgenda
  <2>2. \A i \in DOMAIN agenda : agenda[i] \in Events
    BY <2>1
  <2>3. agenda' \in Seq(Events) /\ DOMAIN agenda' = DOMAIN agenda
        /\ \A i \in DOMAIN agenda : agenda'[i].runs = agenda[i].runs
    <3>1. agenda' = [i \in DOMAIN agenda |-> [agenda[i] EXCEPT !.after = @ - 1]]
      BY <1>8 DEF Elapse
    <3>2. ASSUME NEW i \in DOMAIN agenda
          PROVE  /\ [agenda[i] EXCEPT !.after = @ - 1] \in Events
                 /\ [agenda[i] EXCEPT !.after = @ - 1].runs = agenda[i].runs
      BY <2>2 DEF Events
    <3>3. DOMAIN agenda = 1 .. Len(agenda) /\ Len(agenda) \in Nat
      BY <2>1
    <3>4. agenda' \in [1 .. Len(agenda) -> Events]
      BY <3>1, <3>2, <3>3
    <3>5. agenda' \in Seq(Events)
      BY <3>3, <3>4, IsASeq
    <3>6. QED
      BY <3>1, <3>2, <3>5
  <2>4. IsAgenda(agenda', handlers)
    BY <1>2, <2>3 DEF IsAgenda, OnceEach
  <2>5. UNCHANGED <<m_rate, m_targetRate, m_first_cnp, m_decrease_cnp_arrived>>
    BY <1>8 DEF Elapse, rates, flags
  <2>6. QED
    BY <1>1, <1>2, <2>4, <2>5 DEF TimersInv, IsAgenda
<1>9. CASE UNCHANGED vars
  <2>1. UNCHANGED <<m_rate, m_targetRate, agenda, m_first_cnp, m_decrease_cnp_arrived>>
    BY <1>9 DEF vars, rates, flags
  <2>2. IsAgenda(agenda', handlers)
    BY <1>2, <2>1
  <2>3. QED
    BY <1>1, <1>2, <2>1, <2>2 DEF TimersInv
<1>10. QED
  BY <1>4, <1>5, <1>6, <1>7, <1>8, <1>9 DEF Next, Simulator

\* Each timer lives in one copy from the first CNP on, although a cut restarts
\* the increase timer, and no rate under its target is left without the timer
\* that raises it.
THEOREM TimersDoRunOnce == Spec => []TimersRunOnce
<1>1. TimersInv => TimersRunOnce
  <2> SUFFICES ASSUME TimersInv PROVE TimersRunOnce
    OBVIOUS
  <2>1. PICK handlers \in SUBSET Handlers :
          /\ IsAgenda(agenda, handlers)
          /\ m_first_cnp => handlers = {}
          /\ ~m_first_cnp => {"UpdateAlphaMlx", "CheckRateDecreaseMlx"} \subseteq handlers
          /\ m_rate < m_targetRate => "RateIncEventTimerMlx" \in handlers
    BY DEF TimersInv
  <2>2. \A handler : handler \in handlers <=> \E i \in DOMAIN agenda : agenda[i].runs = handler
    BY <2>1 DEF IsAgenda
  <2>3. OnceEach(agenda)
    BY <2>1 DEF IsAgenda
  <2>4. m_decrease_cnp_arrived => ~m_first_cnp
    BY DEF TimersInv
  <2>5. m_first_cnp \in BOOLEAN
    BY DEF TimersInv, RateInv
  <2>6. QED
    BY <2>1, <2>2, <2>3, <2>4, <2>5 DEF TimersRunOnce, OnceEach
<1>2. QED
  BY <1>1, TimersInvInit, TimersInvNext, PTL DEF Spec

=============================================================================
