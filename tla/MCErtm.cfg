CONSTANTS
    Workloads <- MCWorkloads
    Modulo = 4
    TxWin = 2
    MaxTransmit = 2
    HeldAcks = 2
SPECIFICATION Spec
INVARIANTS
    ErtmTypeOK
    DeliveredInOrder
    ClosesOnlyOnTries
PROPERTIES
    TransferResolves
CHECK_DEADLOCK FALSE
