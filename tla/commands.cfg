SPECIFICATION Spec
CONSTANTS
    Boards = {"unoq", "ventunoq"}
    UnoQ = "unoq"
    Sizable = {"unoq"}
    Versions = {"v1", "v2"}
    Rank <- Ranks
    OnDisk <- Files
    None = ""
    MaxSerial = 99
    CommandLines <- EveryUse
    Published <- Catalogs
    Capacity <- Capacities
    GiB = 8
    Percentages = {50, 62, 80, 96}
    Connected = {16, 22}
    Rooms <- Spaces
    ArchiveSize = 2
    ImageSize = 10
INVARIANTS
    FlashedIsMeant
    ErasedWithConsent
    WizardIsHonoured
    NothingTemporaryStays
    RoomIsEnough
    InterruptSparesBoard
    NothingIsLost
PROPERTIES
    InterruptEnds
CHECK_DEADLOCK FALSE
