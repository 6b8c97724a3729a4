------------------------------- MODULE Dcqcn --------------------------------
(***************************************************************************)
(* The rate of one queue pair under the congestion control of RdmaHw       *)
(* (Mellanox's version of DCQCN).  Congestion notifications (CNPs) come    *)
(* with the ACKs at any moment; three self-rescheduling timers update      *)
(* alpha, cut the rate and raise it again.  Queue pairs share no state     *)
(* here, so one is enough.                                                 *)
(*                                                                         *)
(* Rates are integers and truncate as DataRate does.  alpha, a double in   *)
(* 0..1, counts units of 1/One and truncates.  A unit of time stands for   *)
(* the nanosecond that the first decrease check is delayed by.             *)
(***************************************************************************)
EXTENDS Integers, SequencesExt

CONSTANTS
    LineRate,                          \* GetDataRate of the device
    m_max_rate,
    m_minRate, m_rai, m_rhai,
    One,
    Gain,                              \* m_g is 1/Gain
    m_rateOnFirstCNP,                  \* in units of 1/One
    EcnClampTgtRates,                  \* the settings of m_EcnClampTgtRate
    m_rpgThreshold,
    m_alpha_resume_interval, m_rateDecreaseInterval, m_rpgTimeReset,
    StageBits                          \* the width of m_rpTimeStage

ASSUME RatesAssumption ==
    /\ {LineRate, m_max_rate, m_minRate, m_rai, m_rhai} \subseteq Nat \ {0}
    /\ m_minRate % 2 = 0
    /\ m_minRate <= m_max_rate
    /\ m_max_rate <= LineRate

ASSUME AlphaAssumption ==
    /\ One \in Nat \ {0}
    /\ Gain \in Nat \ {0}
    /\ m_rateOnFirstCNP \in 0 .. One
    /\ (m_max_rate * m_rateOnFirstCNP) \div One >= m_minRate

ASSUME TimersAssumption ==
    /\ EcnClampTgtRates \in SUBSET BOOLEAN
    /\ {m_rpgThreshold, StageBits} \subseteq Nat
    /\ {m_alpha_resume_interval, m_rateDecreaseInterval, m_rpgTimeReset} \subseteq Nat \ {0}

VARIABLES
    m_rate, m_targetRate,
    m_alpha,
    m_first_cnp, m_alpha_cnp_arrived, m_decrease_cnp_arrived,
    m_rpTimeStage,
    m_EcnClampTgtRate,
    agenda                             \* the simulator's events, oldest Schedule first

rates == <<m_rate, m_targetRate>>
flags == <<m_first_cnp, m_alpha_cnp_arrived, m_decrease_cnp_arrived>>
vars  == <<rates, m_alpha, flags, m_rpTimeStage, m_EcnClampTgtRate, agenda>>

-----------------------------------------------------------------------------
(* The simulator runs the event with the earliest time, and of several     *)
(* events of that time the one scheduled first.                            *)

Schedule(events, handler, delay) == Append(events, [runs |-> handler, after |-> delay])

CancelNothing(events, handler) == events
Cancel(events, handler) == RemoveFirstMatch(events, LAMBDA e : e.runs = handler)

NextEvent == SelectInSeq(agenda, LAMBDA e : e.after = 0)

\* The simulator's next event is one of this handler.
Due(handler) == NextEvent # 0 /\ agenda[NextEvent].runs = handler

\* Its handler schedules the next one of its kind.
Rescheduled(delay) ==
    Schedule(RemoveAt(agenda, NextEvent), agenda[NextEvent].runs, delay)

\* Time passes only when no event is due.
Elapse ==
    /\ agenda # <<>>
    /\ NextEvent = 0
    /\ agenda' = [i \in DOMAIN agenda |-> [agenda[i] EXCEPT !.after = @ - 1]]
    /\ UNCHANGED <<rates, m_alpha, flags, m_rpTimeStage, m_EcnClampTgtRate>>

-----------------------------------------------------------------------------
(* A queue pair registered with RdmaHw.                                    *)

Init ==
    /\ m_rate = m_max_rate
    /\ m_targetRate = m_max_rate
    /\ m_alpha = One
    /\ m_first_cnp = TRUE
    /\ m_alpha_cnp_arrived = FALSE
    /\ m_decrease_cnp_arrived = FALSE
    /\ m_rpTimeStage = 0
    /\ m_EcnClampTgtRate \in EcnClampTgtRates
    /\ agenda = <<>>

cnp_received_mlx ==
    /\ m_decrease_cnp_arrived' = TRUE
    /\ m_alpha_cnp_arrived' = ~m_first_cnp
    /\ m_first_cnp' = FALSE
    /\ IF m_first_cnp
       THEN /\ m_alpha' = One
            /\ agenda' = Schedule(
                   Schedule(agenda, "UpdateAlphaMlx", m_alpha_resume_interval),
                   "CheckRateDecreaseMlx", m_rateDecreaseInterval + 1)
            /\ m_rate' = (m_rate * m_rateOnFirstCNP) \div One
            /\ m_targetRate' = m_rate'
       ELSE UNCHANGED <<rates, m_alpha, agenda>>
    /\ UNCHANGED <<m_rpTimeStage, m_EcnClampTgtRate>>

UpdateAlphaMlx ==
    /\ Due("UpdateAlphaMlx")
    /\ m_alpha' = (m_alpha * (Gain - 1) + (IF m_alpha_cnp_arrived THEN One ELSE 0)) \div Gain
    /\ m_alpha_cnp_arrived' = FALSE
    /\ agenda' = Rescheduled(m_alpha_resume_interval)
    /\ UNCHANGED <<rates, m_first_cnp, m_decrease_cnp_arrived, m_rpTimeStage, m_EcnClampTgtRate>>

\* A rate times 1 - alpha / 2.
Decreased(rate) == (rate * (2 * One - m_alpha)) \div (2 * One)

\* What a cut leaves of a rate.
CutRateNoFloor(rate) == Decreased(rate)
CutRate(rate) == IF Decreased(rate) < m_minRate THEN m_minRate ELSE Decreased(rate)

CheckRateDecreaseMlx ==
    /\ Due("CheckRateDecreaseMlx")
    /\ IF m_decrease_cnp_arrived
       THEN /\ m_targetRate' = IF m_EcnClampTgtRate \/ m_rpTimeStage # 0
                               THEN m_rate ELSE m_targetRate
            /\ m_rate' = CutRate(m_rate)
            /\ m_rpTimeStage' = 0
            /\ agenda' = Schedule(
                   Cancel(Rescheduled(m_rateDecreaseInterval), "RateIncEventTimerMlx"),
                   "RateIncEventTimerMlx", m_rpgTimeReset)
       ELSE /\ agenda' = Rescheduled(m_rateDecreaseInterval)
            /\ UNCHANGED <<rates, m_rpTimeStage>>
    /\ m_decrease_cnp_arrived' = FALSE
    /\ UNCHANGED <<m_alpha, m_first_cnp, m_alpha_cnp_arrived, m_EcnClampTgtRate>>

\* The target after FastRecoveryMlx, ActiveIncreaseMlx or HyperIncreaseMlx.
Capped(rate) == IF rate > LineRate THEN LineRate ELSE rate
IncreasedTargetFastOnly == m_targetRate
IncreasedTarget ==
    CASE m_rpTimeStage < m_rpgThreshold -> m_targetRate
      [] m_rpTimeStage = m_rpgThreshold -> Capped(m_targetRate + m_rai)
      [] OTHER                          -> Capped(m_targetRate + m_rhai)

RateIncEventTimerMlx ==
    /\ Due("RateIncEventTimerMlx")
    /\ agenda' = Rescheduled(m_rpgTimeReset)
    /\ m_targetRate' = IncreasedTarget
    /\ m_rate' = (m_rate \div 2) + (m_targetRate' \div 2)
    /\ m_rpTimeStage' = (m_rpTimeStage + 1) % 2 ^ StageBits
    /\ UNCHANGED <<m_alpha, flags, m_EcnClampTgtRate>>

Simulator == UpdateAlphaMlx \/ CheckRateDecreaseMlx \/ RateIncEventTimerMlx \/ Elapse

Next == cnp_received_mlx \/ Simulator

Spec == Init /\ [][Next]_vars

\* Simulator::Run keeps running the events that are due.
LiveSpec == Spec /\ WF_vars(Simulator)

-----------------------------------------------------------------------------
(* Properties.                                                             *)

\* Whatever the CNPs and the timers do in between, a throttled flow keeps its
\* minimum rate, and never passes the target it heads for nor the line.
RatesBounded ==
    /\ m_minRate <= m_rate
    /\ m_rate <= m_targetRate
    /\ m_targetRate <= LineRate
    /\ m_alpha \in 0 .. One

\* The timers live from the first CNP on, each in one copy although a cut
\* restarts the increase timer; no rate stays under its target without a timer
\* to raise it, and a CNP is answered by the next check.
TimersRunOnce ==
    LET Scheduled(handler) == \E i \in DOMAIN agenda : agenda[i].runs = handler IN
    /\ \A i, j \in DOMAIN agenda : agenda[i].runs = agenda[j].runs => i = j
    /\ Scheduled("UpdateAlphaMlx") <=> ~m_first_cnp
    /\ Scheduled("CheckRateDecreaseMlx") <=> ~m_first_cnp
    /\ m_rate < m_targetRate => Scheduled("RateIncEventTimerMlx")
    /\ m_decrease_cnp_arrived => ~m_first_cnp

\* Once the congestion is over the queue pair finds its way back to its rate;
\* halving truncates, so the last two units may be missing.
Recovers ==
    <>[][~cnp_received_mlx]_vars => <>[](m_rate + 2 >= m_max_rate)

=============================================================================
