SPECIFICATION Spec
CONSTANTS
    IrCode <- MCIrCode
    DataBits = 1
    AddressBits = 0
    RequiredRti = 2
INVARIANTS
    FiveOnesReset
    AccessIsAsShifted
    OneAccessPerTick
PROPERTIES
    AccessesAreSpaced
    BusyIsObeyed
    ImplementsPort
