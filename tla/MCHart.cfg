SPECIFICATION Spec
CONSTANTS
    Address <- MCAddress
    Value <- MCValue
    Inst <- MCInst
INVARIANTS
    TypeOK
    ArmedStepRunsProgram
    DebugRunsInMachineMode
PROPERTIES
    DebugContextSavedOnce
    PendingSurvivesSession
