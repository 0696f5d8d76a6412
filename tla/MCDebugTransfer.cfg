SPECIFICATION SystemSpec
CONSTANTS
    Address <- MCAddress
    Value <- MCValue
    Inst <- MCInst
    ProgBufSize = 1
    AbstractRti = 1
    Command <- TransferCommand
    NoCommand = NoCommand
    ProgramInst <- MCProgramInst
    ProgBufWord <- TransferProgBufWord
    Data <- TransferData
    AutoMask <- TransferAuto
    ResetLines <- TransferLines
    Liberties <- NoLiberties
INVARIANTS
    SystemTypeOK
    ProgramS0Preserved
    BusyWhileExecuting
    HaltedIsTruthful
PROPERTIES
    CommandRunsOnce
    TransferAgrees
    ExceptionIsReported
