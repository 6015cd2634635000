SPECIFICATION FairSpec
CONSTANTS
    Control = {"normal", "kill_switch", "protection_mode"}
    Grace = 2
    Cooldown = 3
    Window = 2
    MaxRefusals = 5
    MaxTime = 5
INVARIANTS
    OutageTold
    ProtectionTold
    RefusalsTold
PROPERTIES
    OutageHeard
