SPECIFICATION Spec
CONSTANTS
    Levels = 3
    ENTRIES_PER_TABLE = 6
    PAGE_SIZE = 2
    MAX_PAGES = 40
    TOTAL_PAGES = 28
    Conventional <- MCConventional
    Ram <- MCRam
    Mmio <- MCMmio
    Framebuffer <- MCFramebuffer
    BootStack <- MCBootStack
    MirrorPages = 3
    HeapPages = 1
    Threads = {t1, t2}
    VirtAddrs <- MCVirtAddrs
    RemapAddrs <- MCRemapAddrs
    SharedAddrs <- MCSharedAddrs
    PhysAddrs <- MCPhysAddrs
    Sizes <- MCSizes
    Images <- MCImages
    MAX_REGION_SIZE = 16
    USER_EXEC_LOAD_BASE = 50
    USER_STACK_TOP = 144
    USER_STACK_PAGES = 1
    KERNEL_STACK_PAGES = 1
    MaxSpaces = 2
    MaxRegions = 1
SYMMETRY Symmetry
CHECK_DEADLOCK FALSE
INVARIANTS
    FramesConserved  TlbCoherent  
PROPERTIES
     SpacesIsolated
