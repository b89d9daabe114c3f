SPECIFICATION FairSpec
CONSTANTS
    r1 = r1
    r2 = r2
    s1 = s1
    e1 = e1
    e2 = e2
    Schedules = {s1}
    Replicas = {r1, r2}
    Editors = {e1, e2}
    Nobody = Nobody
    Never = Never
    Crons = {1, 2}
    FirstCron <- Often
    Edited = {s1}
    Given = {{"cron"}, {"enabled"}}
    MaxBatch = 1
    MaxTime = 2
    MaxEdits = 2
    MaxFaults = 1
INVARIANTS
    ExtraRunsNeedFaults
    EditStands
PROPERTIES
    DueIsHandled
CHECK_DEADLOCK FALSE
