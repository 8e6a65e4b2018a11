CONSTANTS
    AdapterList <- MCAdapterList
    PortList <- MCPortList
    Quads <- MCQuads
    IpAddresses <- MCIpAddresses
    ListMax = 2
    Windows = FALSE
    Minimum <- MCMinimum
    Maximum <- MCMaximum
    InternalMin = 0
    InternalMax = 2
    PriorityMin = 99
    PriorityMax = 100
    UnicastMax = 1
    AskedSymbols <- MCAskedSymbols
    Starts = {0, 2}
    PatchMax = 2
    TableMax = 2
SPECIFICATION PatchSpec
INVARIANTS ReportedIsMade NumbersRunOn
