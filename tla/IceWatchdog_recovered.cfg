SPECIFICATION Spec
CONSTANTS
    MaxCalls = 1
    MaxQueue = 2
PROPERTIES
    RecoveredCallSurvives
