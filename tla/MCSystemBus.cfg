SPECIFICATION SystemSpec
CONSTANTS
    Devices <- MCDevices
    AddressSize = 24
    MAIN_BANK_SIZE = 4
    INFO_BANK_SIZE = 16
    PAGE_SIZE = 8
    Contents <- MCContents
    MaxWidth = 32
    ProgramStores <- MCProgramStores
    SbModes <- MCSbModes
    SbAddresses <- MCSbAddresses
    SbWords <- MCSbWords
    MaxStores = 2
PROPERTIES
    BlockReadDelivers
    BackingMemoryKept
CHECK_DEADLOCK FALSE
