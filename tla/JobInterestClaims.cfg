CONSTANTS
    Timers = {t1, t2}
    Channels = {c1, c2}
    Cap = 1
    Job = job
    Others = {other}
    None = None
SPECIFICATION Spec
INVARIANTS TopicsAreLocked RoutesAreCovered DeployedIsCovered
