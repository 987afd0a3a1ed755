\* UpgradeConfigs by version or by image that follow each other, an administrator's updates, and calls that fail.
SPECIFICATION Spec
CONSTANTS
    MaxVersion = 4
    Installed = 1
    Minor <- MCMinor
    Channels <- MCChannels
    FirstChannel = "stable-1"
    Graph <- MCGraph
    Risky = {4}
    UpgradeConfigs <- AnyWay
    Cincinnati = TRUE
    Window = TRUE
    MaxFaults = 1
    MaxAdmin = 1
    MaxUCs = 2
INVARIANT ReportsAnUpgrade
PROPERTIES AskedIsOffered ValidIsCarriedOut
