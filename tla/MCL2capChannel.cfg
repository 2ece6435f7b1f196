CONSTANTS
    Cids = {1, 2}
    Workloads <- MCWorkloads
SPECIFICATION Spec
INVARIANTS
    ChannelTypeOK
    CallbackProtocol
    NoChannelStranded
    OpenEndsAgree
CHECK_DEADLOCK FALSE
