SPECIFICATION Spec
CONSTANTS
    Word = 65536
    Sector = 2
    GiB = 8
    Label = {"boot", "extra", "rootfs", "userdata", "unused"}
    Call = {c1, c2}
    Board = {"q16", "q32", "v"}
    Sizable = {"q16", "q32"}
    Disk <- Storage
    OnBoard <- InUse
    Dir = {"new", "old"}
    Image <- Images
    Variants <- Variants2
    RootSizes = {72, 96}
    R0 <- CountsR0
    SharedDirs = TRUE
SYMMETRY Symmetry
INVARIANTS
    AskedToKeep
CHECK_DEADLOCK FALSE
