SPECIFICATION Spec
CONSTANTS
    WifiNames <- MCWifiNames
    LteNames <- MCLteNames
    Ethernet = {"eth0"}
    WifiConfigs = {"auto"}
    LteConfigs = {"auto", "eth0"}
    Settings <- MCSettings
INVARIANTS TypeOK EthernetUntouched CommandHeals
