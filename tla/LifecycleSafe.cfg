SPECIFICATION LifecycleSpec
CONSTANTS
    Tabs = {t1, t2}
    Grace = 4
INVARIANTS
    CheckPending
PROPERTY AbandonedServerExits
CHECK_DEADLOCK FALSE
