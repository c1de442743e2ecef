------------------------------- MODULE Filenames -------------------------------
(***************************************************************************)
(* The filenames a host may give, typed byte by byte, and what Names takes  *)
(* them apart into, for the variants of a blob of that name.                *)
(***************************************************************************)
EXTENDS Names, Values

CONSTANTS
    Alphabet,    \* bytes of names
    Variations,  \* transformations for the variants of a named blob
    MaxName      \* bound: bytes in a name

ASSUME AlphabetAssumption == Alphabet \subseteq Nat
ASSUME VariationsAssumption == \A es \in Variations :
    /\ Len(es) \in Nat
    /\ \A i \in 1 .. Len(es) : es[i].val.t \in {"sym", "str"} => es[i].val.s \in Seq(Nat)
ASSUME MaxNameAssumption == MaxName \in Nat

VARIABLE name

NameInit == name = <<>>

Type == Len(name) < MaxName /\ \E c \in Alphabet : name' = Append(name, c)

NameSpec == NameInit /\ [][Type]_name

-----------------------------------------------------------------------------

\* Base and ExtensionWithDelimiter take the basename apart, where Ruby does: at its
\* last dot, but never so that nothing or nothing but dots is left of it.
NamePartition ==
    LET ext == RubyExtname(name)
        leading(i) == \A j \in 1 .. i : Base(name)[j] = Dot
    IN  /\ Basename(name) = Base(name) \o ext
        /\ Slash \notin ToSet(Basename(name))
        /\ ext = <<>> => \A i \in 1 .. Len(Base(name)) : Base(name)[i] = Dot => leading(i)
        /\ ext # <<>> => /\ ext[1] = Dot /\ Dot \notin ToSet(Tail(ext))
                         /\ ~ leading(Len(Base(name)))

\* A sanitized name has nothing hostile in it and is sanitized for good, and names
\* that differ in the whitespace around them are sanitized alike.
SanitizedIsStable ==
    /\ ToSet(Sanitized(name)) \intersect Hostile = {}
    /\ Sanitized(Sanitized(name)) = Sanitized(name)
    /\ \A w \in White : Sanitized(<<w>> \o name) = Sanitized(name \o <<w>>)

\* A variant's filename has the type the variant says it has, whatever the blob's
\* filename and the format; and the format is its extension, but for the case of its
\* letters, if the blob's filename has a basename of more than dots and the format is
\* an extension at all.
VariantKeepsFormat ==
    \A es \in Variations :
        LET format == Format(es)
            new == VariantFilename(name, format)
        IN  /\ ContentTypeForFilename(new) = VariantContentType(format)
            /\ /\ ToSet(Basename(name)) \ {Dot} # {}
               /\ ToSet(format) \intersect {Dot, Slash} = {}
               => Lower(Extension(new)) = Lower(format)

\* Bytes of a known kind are never taken for another kind, whatever their name or, if
\* the type is to be identified, whatever the caller says; and no blob is without a
\* type.
NameOnlyNarrows ==
    \A data \in Contents, given \in {"", "image/png"}, identify \in BOOLEAN :
        LET magic == DetectMagic(data)
            type == UnfurledType(given, identify, data, name)
        IN  /\ (given = "" \/ identify) /\ magic # "" => type \in {magic} \union MagicParents(magic)
            /\ BuiltType(type, name) = type /\ type # ""
=============================================================================
