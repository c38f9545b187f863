SPECIFICATION Spec
CONSTANTS
    TaskIds = {"undock", "t1"}
    MaxSummaries = 2
    OutcomesUsed = {"OC_NA", "OC_SUCCESS", "OC_FAILURE", "OC_ANOMALY"}
INVARIANTS
    TypeOK
    TaskAndMissionAgree
    OrderIrrelevant
