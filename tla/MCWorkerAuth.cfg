CONSTANTS
    Key = {k1, k2, k3}
    Rotator = {r1, r2}
    MaxVersion = 3
    MaxMissed = 1
    MaxLinks = 2
    Null = Null
SPECIFICATION Spec
CONSTRAINT OneRotatorOnceLinked
INVARIANTS RecordsValid OneLossIsSurvived
PROPERTIES RootsMoveForward DeletedWorkerCut
CHECK_DEADLOCK FALSE
