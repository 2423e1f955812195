SPECIFICATION FairSpec
CONSTANTS
    Calls = {"set_charge_enabled", "set_watchdog", "set_tft", "all_off"}
    Duties = {0, 2}
    DutyMax = 1
    Windows = {"OFF", "100S"}
    FailDisconnect = 1
    LpsPeriod = 2
    MaxFaults = 1
    MaxUpsets = 1
    ExpiresMidCall = FALSE
INVARIANTS
    PeripheralsInv
    OnlineIsConfigured
    SettingsSurviveExpiry
PROPERTIES
    DriversRecover
