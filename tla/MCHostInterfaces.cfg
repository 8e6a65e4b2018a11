CONSTANTS
    Machines <- MCMachines
    DeviceLists <- MCDeviceLists
    IpAddresses <- MCIpAddresses
    Bytes <- MCBytes
    Mask <- MCMask
    Convertible = {"en", "wl"}
    ListMax = 2
    UnicastInputs <- MCUnicastInputs
    InitialLength = 0
SPECIFICATION Spec
INVARIANTS EverythingListed SendsToItsNetworks ChoiceIsHonoured
PROPERTY NoStrangerFound
