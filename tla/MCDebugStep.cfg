SPECIFICATION SystemSpec
CONSTANTS
    Address <- MCAddress
    Value <- MCValue
    Inst <- MCInst
    ProgBufSize = 1
    AbstractRti = 1
    Command <- StepCommand
    NoCommand = NoCommand
    ProgramInst <- MCProgramInst
    ProgBufWord <- StepProgBufWord
    Data <- StepData
    AutoMask <- StepAuto
    ResetLines <- StepLines
    Liberties <- NoLiberties
INVARIANTS
    SingleStepRunsOne
    RegistersTell
PROPERTIES
    ResumesOncePerRequest
    ImplementsTarget
