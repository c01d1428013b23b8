SPECIFICATION RetrySpec
CONSTANTS
    Packages = {"gcc", "bash", "flex"}
    Checked = {"gcc", "bash"}
    Modes <- MCModes
    MaxFaults = 4
INVARIANTS
    SuccessIsComplete
    FailsOnlyByFault
PROPERTIES
    VerifiedFilesKept
    RetrySucceeds
