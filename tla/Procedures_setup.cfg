SPECIFICATION Spec

CONSTANTS
    InitialBufferSize = 1
    MaxContinuations = 1
    Executors = {0, 1}
    Failures = {"frame"}
    MaxCount = 1

INVARIANTS SetupKept
