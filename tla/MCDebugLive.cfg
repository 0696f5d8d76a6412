SPECIFICATION FairSystemSpec
CONSTANTS
    Address <- MCAddress
    Value <- MCValue
    Inst <- MCInst
    ProgBufSize = 1
    AbstractRti = 1
    Command <- LiveCommand
    NoCommand = NoCommand
    ProgramInst <- MCProgramInst
    ProgBufWord <- TransferProgBufWord
    Data <- LiveData
    AutoMask <- TransferAuto
    ResetLines <- TransferLines
    Liberties <- NoLiberties
PROPERTIES
    CommandCompletes
    HaltRequestHonoured
    ResumeHonoured
