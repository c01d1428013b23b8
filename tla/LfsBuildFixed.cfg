SPECIFICATION FixedOperatedSpec
CONSTANTS
    Downloads <- MCDownloads
    Order <- MCOrder
    OutOfTree = {"gcc", "glibc"}
    Mrproper = {"linux"}
    Host = "gcc"
    Bundled = {"mpfr"}
    Checked = {"glibc", "bash"}
    Cleaned = {"glibc"}
    Settings <- OneSetting
    MaxFaults = 2
INVARIANTS
    CheckedPartsInstalled
    CleanedIsSound
    FixedFailsForACause
PROPERTIES
    FixedRecovers
