SPECIFICATION FilesSpec
CONSTANTS
    t1 = t1
    a = a
    d1 = d1
    r1 = r1
    r2 = r2
    b1 = b1
    b2 = b2
    Transfer <- Transfers
    Path <- Paths
    Dir <- Dirs
    Block <- Blocks
    Content <- Contents
    Runner <- Runners
    Save = t1
    Target = a
    MaxUploads = 8
    MaxBytes = 2
    MaxTries = 1
    None = None
    Other = Other
    LibraryOps = {1, 2}
    LibraryPaths = {"x"}
    LibraryBytes = {"old", "new"}
    LibraryCalls <- Runners
    Batches <- OneOrBoth
    NoBytes = "no"
SYMMETRY Symmetric
INVARIANTS TransferredOnce
