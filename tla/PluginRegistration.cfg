SPECIFICATION PluginSpec
CONSTANTS
    Settings <- AllSettings
    Hosts <- AllHosts
INVARIANTS
    PluginTypeOK
    NeverUninvited
    OnlyQualifiedHosts
    RegisteredMeansComplete
