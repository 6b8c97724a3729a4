\* A reliable and an unreliable queue pair of different priorities, ACKs.
CONSTANTS
    rc = rc
    ud = ud
    new = new
    Qps = {rc, ud}
    Unreliable = {ud}
    Prio <- TwoPrios
    ack_q_idx = 3
    Gaps <- TwoGaps
    MaxGap = 2
    Lengths = {1, 2}
    AckCap = 1
SPECIFICATION LiveSpec
INVARIANTS TypeOK TransmitsWhenReady NoLostWakeup
PROPERTY EveryQpIsServed
CHECK_DEADLOCK FALSE
