CONSTANTS
    Plugins = {"mem"}
    MaxSensors = 2
    Kinds <- const_Kinds
    MaxNamed = 2
SPECIFICATION Spec
INVARIANT EveryDimmIsChecked
