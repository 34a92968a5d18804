CONSTANTS
    Members = {1, 2, 3}
    Deltas = {10}
    InitBoard <- MCInitBoard
    Writers = {w1}
    Readers = {r1}
    Failures = TRUE
    MaxOps = 4
    MaxReads = 3
    PageSizes = {1, 2}
    None = None
SPECIFICATION Spec
PROPERTY ViewRefines
