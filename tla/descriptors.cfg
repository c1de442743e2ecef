\* Names of up to four bytes, and values of two levels around a scalar.
SPECIFICATION Spec
CONSTANTS
    Alphabet <- NameBytes
    Leaves <- Scalars
    Companions <- Few
    Fields <- Keywords
    Variations <- Formats
    MaxName = 4
    MaxDepth = 2
CHECK_DEADLOCK FALSE
INVARIANTS
    NamePartition
    SanitizedIsStable
    VariantKeepsFormat
    NameOnlyNarrows
    MarshalReadsBack
    KeyTellsApart
    KeysUnbiased
