SPECIFICATION ComposedSpec
CONSTANTS
    Downloads <- SmallDownloads
    Order <- SmallOrder
    OutOfTree = {"gcc"}
    Mrproper = {"linux"}
    Host = "gcc"
    Bundled = {"mpfr"}
    Settings <- SmallSettings
    MaxFaults = 1
PROPERTIES
    Resumable
