SPECIFICATION Spec
CONSTANTS
    pcd = pcd
    disk = disk
    filter = filter
    tool = tool
    early = early
    image1 = image1
    gop = gop
    splash = splash
    boot = boot
    inner = inner
    copy = copy
    bus = bus
    extract = extract
    arch = arch
    none = none
    Drivers = {pcd, disk, filter, tool, early, image1, gop, splash}
    Volumes = {boot, inner, copy}
    Protocols = {bus, extract, arch}
    Name <- MCName
    VolumeName <- MCVolumeName
    Files <- MCFiles
    Apriori <- MCApriori
    Inner <- MCInner
    Depex <- MCDepex
    Wants <- MCWants
    Extractor = extract
    Wrapped = {splash, image1}
    Arch = {arch}
    Loads <- MCLoads
    Does <- MCDoes
    None = none
INVARIANTS
    DispatcherInv
    NoneReady
PROPERTIES
    DepexHeld
    Returns
