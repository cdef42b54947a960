CONSTANTS
    Servers = {"ns1", "ns2", "ns3"}
    Master = "ns1"
    MaxSerial = 3
    Nodes = {"a", "b", "c"}
    Groups = {"web"}
    Priorities = {1, 2}
    RpcVersions <- const_RpcVersions
    RpcTransports <- const_RpcTransports
    Packets <- const_Packets
    Latencies = {10, 95, 250}
    RtaWarning = 90
    RtaCritical = 100
    LostWarning = 40
    LostCritical = 60
    MaxRows = 3
    Instances = {"VI_1", "VI_2", "ext"}
    Wildcards = {"VI_*"}
    Matches <- const_Matches
    MaxVrrpRows = 2
    MaxInstances = 2
    Outlets = {"web", "db"}
    Ports = {"web", "1", "2"}
    Number <- const_Number
    MaxOutlets = 2
    MaxPorts = 2
    Positions = 2
    MaxSensors = 2
    Kinds <- const_Kinds
    MaxLost = 1
    Charges = {10, 15, 25, 26}
    Runtimes = {0, 5, 10, 11}
    WarningCharge = 25
    CriticalCharge = 15
    WarningRuntime = 10
    CriticalRuntime = 5
    RangeStrings <- const_RangeStrings
    RangeReadings <- const_RangeReadings
    RangeMaxes = {0, 10}
    TraceWorlds <- const_TraceWorlds
    ZoneWorlds <- const_ZoneWorlds
    OwnerOf <- const_OwnerOf
    Width = 64
    Now = 20
    SignedWarn = 4
    SignedCrit = 2
    CertWorlds <- const_CertWorlds
    MaxLines = 3
    Questions <- const_Questions
    Databases = {"dc=a", "dc=b"}
    MaxTime = 3
    LagWarn = 0
    LagCrit = 1
    FcgiAnswers <- const_FcgiAnswers
    FcgiLengths = {0, 1, 127, 128, 255, 256, 65535, 65536, 16777216}
    ListWorlds <- const_ListWorlds
SPECIFICATION AllSpec
INVARIANT ExpiringIsCritical
