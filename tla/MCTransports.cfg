CONSTANTS
    Timeouts = {0, 2}
    MaxPackets = 2
    Users = {"multipath", "clustat", "mail"}
    Outputs <- const_Outputs
    Messages <- const_Messages
    Chatter <- const_Chatter
    Capacity = 2
    Plugins = {"notify_sms", "check_gsm_signal"}
    Tries = 3
    MaxTimeouts = 2
    Addresses <- const_Addresses
    Streams <- const_Streams
    RLB_LEN = 3
    Wanted <- const_Wanted
    Versions = {1, 2}
    MaxChanges = 2
SPECIFICATION Spec
INVARIANTS
    SilenceIsCritical
    OkHasNoFailedPath
    SentIsComplete
    SentIsAccepted
    PinIsAskedFor
    LinesAreLines
    SuccessHasValues
    DefaultsAreKept
PROPERTY PluginEnds
