SPECIFICATION SystemSpec
CONSTANTS
    Address <- MCAddress
    Value <- MCValue
    Inst <- MCInst
    Program <- Firmware
    FifoSize = 2
    MaxArr = 17
    MaxBytes = 5
PROPERTIES
    ClaimsHighestPriority
