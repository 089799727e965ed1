SPECIFICATION SThreadSpec
CONSTANTS
    Thread = {t1, t2}
    NoThread = NoThread
    UseTimer = TRUE
    Calls = {}
PROPERTY SchedulesPeriodically
CHECK_DEADLOCK FALSE
