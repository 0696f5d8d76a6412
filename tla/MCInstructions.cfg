SPECIFICATION InstrSpec
CONSTANTS
    XLEN = 4
    RegOf <- MCRegOf
    Program <- MCProgram
    FirstWords <- MCFirstWords
INVARIANTS
    ImmediatesAgree
    CodeIsDecoded
PROPERTIES
    DivisionsAreExact
    TransfersLand
