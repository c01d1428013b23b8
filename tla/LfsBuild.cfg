SPECIFICATION OperatedSpec
CONSTANTS
    Downloads <- MCDownloads
    Order <- MCOrder
    OutOfTree = {"gcc", "glibc"}
    Mrproper = {"linux"}
    Host = "gcc"
    Bundled = {"mpfr"}
    Settings <- MCSettings
    MaxFaults = 2
INVARIANTS
    PrerequisitesInstalled
    SuccessIsWhole
    WholeImageIsComplete
    CleanBuildsAreSound
    FailsForACause
PROPERTIES
    WedgedUntilCleaned
    ImplementsContract
    FailedBuildRecovers
