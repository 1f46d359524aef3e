\* One program with a health check and one without, one signal, one request.
CONSTANTS
    Programs = {a, b}
    Checked = {a}
    MaxSignals = 1
SPECIFICATION FairSpec
INVARIANTS TypeOK ExitExplained SignalKept AnswersOwed
PROPERTIES Conforms HealthCurrent SignalEndsMain DoneEndsMain
CHECK_DEADLOCK FALSE
