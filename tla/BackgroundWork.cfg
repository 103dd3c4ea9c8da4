SPECIFICATION BackgroundSpec
CONSTANTS
    AlarmWorkers = {r1, r2}
    MaxRequests = 4
    MaxFailures = 1
    InsightWorkers = {w1, w2}
    MaxInsights = 2
    FreshFor = 1
    Scorers = {s1, s2}
    Explainers = {e1, e2}
    Narrators = {n1, n2}
    LLMTexts = {t1, t2, t3}
    Faithful = {t1, t2}
    MaxCrashes = 2
    ReportWorkers = {w1, w2}
    MaxReports = 2
    MaxMinute = 3
    Cron = {1, 3}
    CatchUp = 2
    MaxKills = 1
INVARIANTS
    BackgroundTypeOK
    OneActiveAlarm
    PagesSound
    MarkedWasRequested
PROPERTIES
    ViolationAlarmed
    AnsweredForGood
    ShelvedStays
    JobsSettle
    TakenOver
CHECK_DEADLOCK FALSE
