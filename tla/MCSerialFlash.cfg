SPECIFICATION SpiSpec
CONSTANTS
    Size = 2
    Elem = {0, 1, 2, 3, 4, 5, 6, 7}
    ByteBase = 8
    MemSize = 4
    SectorSize = 2
    Code <- MCCode
    Pin = {cs, led}
    CsPin = cs
    Stored <- MCStored
    Garbage = {0, 4}
    Stream <- MCStream
PROPERTIES
    IsLossyQueue
    ReadsAreAnswers
    ChangesAreCommanded
