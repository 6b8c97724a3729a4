\* One queue pair; decrease checks fall together with increases, and alpha updates come between them.
CONSTANTS
    LineRate = 32
    m_max_rate = 32
    m_minRate = 2
    m_rai = 1
    m_rhai = 3
    One = 4
    Gain = 2
    m_rateOnFirstCNP = 4
    EcnClampTgtRates = {TRUE, FALSE}
    m_rpgThreshold = 2
    m_alpha_resume_interval = 6
    m_rateDecreaseInterval = 4
    m_rpgTimeReset = 12
    StageBits = 3
SPECIFICATION LiveSpec
INVARIANTS
    RatesBounded
    TimersRunOnce
PROPERTY Recovers
