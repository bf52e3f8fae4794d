CONSTANTS
    MaxRuns = 3
    MaxTests = 1
    MaxSleep = 2
    Timeout = 1
    StaleAge = 2
    Deadline = 1
    Platforms = {"linux", "darwin"}
SPECIFICATION FairSpec
PROPERTY TestReportsNewRun
PROPERTY StaleIsDead
PROPERTY TestEnds
PROPERTY ReportSettles
CHECK_DEADLOCK FALSE
