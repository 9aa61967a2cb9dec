\* Three calls at once on one blob, two multipart uploads of two parts.
SPECIFICATION Spec
CONSTANTS
    Procs = {p1, p2, p3}
    Blobs = {b1}
    PartCount = 2
    MaxUploads = 2
SYMMETRY Symmetry
INVARIANTS
    AssembledHasObject
    CommittedOnce
    DownloadsAreCommitted
PROPERTIES
    StateOnlyAdvances
