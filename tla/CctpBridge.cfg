SPECIFICATION FairSpec
CONSTANTS
    Depositors = {me, stranger}
    Me = me
    Recipients = {r1}
    Amounts = {2}
    Source = "CCTP_BASE"
    Statuses = {0, 200, 400, 404, 429, 500}
    MaxMessages = 2
INVARIANTS ArrivalsAreTrue
PROPERTIES EveryBurnArrives
CHECK_DEADLOCK FALSE
