\* Overlapping calls for the variants of two blobs and for uploads of the blobs, one call fails.
SPECIFICATION Spec
CONSTANTS
    p1 = p1
    p2 = p2
    image = image
    other = other
    thumb = thumb
    Procs = {p1, p2}
    Blobs = {1, 2}
    Contents = {image, other}
    Torn = Torn
    Variations = {thumb}
    Original = Original
    Keys <- ObjectKeys
    Streams <- Images
    Length <- Lengths
    NoSum = NoSum
    Hole = Hole
    ReaderFails = FALSE
    MaxOps = 3
    MaxCalls = 6
    MaxFaults = 1
SYMMETRY Symmetry
CHECK_DEADLOCK FALSE
INVARIANTS
    TypeOK
    VariantWhole
    ProcessStores
