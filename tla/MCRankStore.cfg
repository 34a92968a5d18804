CONSTANTS
    Members = {1, 2, 3}
    Deltas = {10}
    InitBoard <- MCInitBoard
    Writers = {w1}
    Readers = {r1}
    Failures = TRUE
    MaxOps = 4
    MaxReads = 2
    PageSizes = {1, 2}
    None = None
SPECIFICATION Spec
INVARIANTS TypeOK CopyMirrorsWhenQuiet SerialReadCorrect PagesListBoard
PROPERTIES ViewRefinesUntilFailure
