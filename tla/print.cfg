SPECIFICATION Spec
CONSTANTS
    Jobs <- MCJobs
    Sizes <- MCSizes
    DefaultSize = 4
    MaxInt = 40
    NestingLimit = 2
INVARIANTS WritesInside BuffersFreedOnce OverreadsOnlyNothing TextIsComplete FiveBytesMoreAreEnough
CHECK_DEADLOCK FALSE
