CONSTANTS
    AdapterList <- MCAdapterList
    PortList <- MCPortList
    Quads <- MCQuads
    IpAddresses <- MCIpAddresses
    ListMax = 2
    Windows = FALSE
    Minimum <- MCMinimum
    Maximum <- MCMaximum
    InternalMin = 0
    InternalMax = 2
    PriorityMin = 99
    PriorityMax = 100
    UnicastMax = 1
    SymbolInputs <- MCSymbolInputs
    UniverseInputs <- MCUniverseInputs
    InternalInputs <- MCInternalInputs
    PriorityInputs <- MCPriorityInputs
    UnicastInputs <- MCUnicastInputs
    Counts <- MCCounts
    UniverseBound = 5
SPECIFICATION Spec
INVARIANTS OfferedByMenus UniverseInRange InterfaceMatchesHandle CloneIsFaithful ReloadKeepsVisible
PROPERTIES DriftNeedsGlobalChange PortIsSticky RangeLeftOnlyByNumber
