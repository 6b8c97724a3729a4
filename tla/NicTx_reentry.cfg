\* An on_send callback registers a queue pair at the same server.
CONSTANTS
    rc = rc
    ud = ud
    new = new
    Qps = {rc, ud, new}
    Unreliable = {ud}
    Prio <- OnePrio
    ack_q_idx = 3
    Gaps <- LineRate
    MaxGap = 1
    Lengths = {1}
    AckCap = 0
SPECIFICATION DependentSpec
INVARIANT TransmitsWhenReady
CHECK_DEADLOCK FALSE
