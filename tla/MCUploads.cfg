SPECIFICATION PartSpec
CONSTANTS
    t1 = t1
    t2 = t2
    a = a
    b1 = b1
    b2 = b2
    d1 = d1
    d2 = d2
    Transfer <- Transfers
    Path <- Paths
    Dir <- Dirs
    Block <- Blocks
    Content <- Contents
    MaxUploads = 2
    MaxBytes = 2
    MaxTries = 2
    None = None
    Other = Other
SYMMETRY Symmetric
INVARIANTS PublishedOnce CompleteStood StagingKnown Reserved FilesKept
