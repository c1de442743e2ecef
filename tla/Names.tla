--------------------------------- MODULE Names ---------------------------------
(***************************************************************************)
(* What is derived from a filename and from leading bytes: filename.go,     *)
(* content_type.go and the descriptors of variant.go.  A name is a sequence *)
(* of ASCII bytes.  The tables keep one row of each kind: an extension is   *)
(* one letter, and the leading bytes of a content are named by the          *)
(* signature they match.                                                    *)
(***************************************************************************)
EXTENDS Integers, SequencesExt

Dot == 46
Slash == 47
Dash == 45
White == {32, 10}                \* a space and a newline
Hostile == {Slash, 10, 42}       \* '/', a newline and '*'

\* Position of the last byte c of s, 0 where there is none.
LastByte(c, s) == SelectLastInSeq(s, LAMBDA x : x = c)
From(s, i) == SubSeq(s, i, Len(s))
TrimSuffix(s, t) == IF IsSuffix(t, s) THEN SubSeq(s, 1, Len(s) - Len(t)) ELSE s

-----------------------------------------------------------------------------
(* filename.go                                                              *)

Basename(f) == From(f, LastByte(Slash, f) + 1)

\* filepath.Ext of the Go library: from the last dot after the last slash.
FilepathExt(f) ==
    IF LastByte(Dot, f) > LastByte(Slash, f) THEN From(f, LastByte(Dot, f)) ELSE <<>>

\* The same, unless nothing but dots comes before it.
RubyExtname(f) ==
    LET base == Basename(f)
    IN  IF \E i \in 1 .. LastByte(Dot, base) - 1 : base[i] # Dot
        THEN From(base, LastByte(Dot, base)) ELSE <<>>

Base(f) == TrimSuffix(Basename(f), RubyExtname(f))
Extension(f) == IF IsPrefix(<<Dot>>, RubyExtname(f)) THEN Tail(RubyExtname(f)) ELSE RubyExtname(f)

\* strings.TrimSpace.
TrimSpace(s) ==
    LET first == SelectInSeq(s, LAMBDA x : x \notin White)
        last == SelectLastInSeq(s, LAMBDA x : x \notin White)
    IN  IF first = 0 THEN <<>> ELSE SubSeq(s, first, last)

Replaced(s) == [i \in 1 .. Len(s) |-> IF s[i] \in Hostile THEN Dash ELSE s[i]]

\* Faulty variant: the whitespace is trimmed when the newline at the end has
\* already become a dash.
SanitizedLate(f) == TrimSpace(Replaced(f))

Sanitized(f) == Replaced(TrimSpace(f))

-----------------------------------------------------------------------------
(* content_type.go                                                          *)

OctetStream == "application/octet-stream"

Lower(s) == [i \in 1 .. Len(s) |-> IF s[i] \in 65 .. 90 THEN s[i] + 32 ELSE s[i]]

\* The extension table: p stands for png, s for svg, z for zip.
ExtensionType(e) ==
    CASE e = <<112>> -> "image/png"
      [] e = <<115>> -> "image/svg+xml"
      [] e = <<122>> -> "application/zip"
      [] OTHER -> ""

\* mime.TypeByExtension without its parameters: x and d (docx) stand for what the
\* host's table adds.
HostType(ext) ==
    CASE ext = <<Dot, 120>> -> "text/x"
      [] ext = <<Dot, 100>> -> "application/docx"
      [] OTHER -> ""

ContentTypeForFilename(f) ==
    LET ext == FilepathExt(f)
        known == ExtensionType(Lower(Tail(ext)))
    IN  CASE ext = <<>> -> OctetStream
          [] ext # <<>> /\ known # "" -> known
          [] OTHER -> IF HostType(ext) = "" THEN OctetStream ELSE HostType(ext)

\* Rules of magicTable, in its order: a signature at an offset and, for a container,
\* a second one at offset 8.
Magic(offset, sig, container, mime) ==
    [offset |-> offset, sig |-> sig, container |-> container, mime |-> mime]
MagicTable == <<
    Magic(0, "\\x89PNG", "", "image/png"), Magic(0, "PK", "", "application/zip"),
    Magic(4, "ftyp", "", "video/mp4"), Magic(0, "RIFF", "WEBP", "image/webp"),
    Magic(0, "RIFF", "WAVE", "audio/x-wav"), Magic(0, "<?xml", "", "application/xml")>>

\* Contents, by what they have at the offsets the rules look at ("" for anything else,
\* or too short); the signature of a png and that of xml reach beyond offset 4.
Contents ==
    {c \in [at0 : {"", "\\x89PNG", "PK", "RIFF", "<?xml"}, at4 : {"", "ftyp"},
             at8 : {"", "WEBP", "WAVE"}] :
       c.at0 \in {"\\x89PNG", "<?xml"} => c.at4 = ""}

Matches(data, r) ==
    /\ r.sig = IF r.offset = 0 THEN data.at0 ELSE data.at4
    /\ r.container \in {"", data.at8}

\* The first rule that matches.
DetectMagic(data) ==
    LET i == SelectInSeq(MagicTable, LAMBDA r : Matches(data, r))
    IN  IF i = 0 THEN "" ELSE MagicTable[i].mime

MagicParents(mime) ==
    CASE mime = "application/xml" -> {"image/svg+xml"}
      [] mime = "application/zip" -> {"application/docx"}
      [] OTHER -> {}

\* Faulty variant: a name that has a type decides.
DetectByName(data, f) ==
    IF DetectMagic(data) = "" \/ ContentTypeForFilename(f) # OctetStream
    THEN ContentTypeForFilename(f) ELSE DetectMagic(data)

\* The bytes decide, unless the name says which kind of it they are.
DetectContentType(data, f) ==
    IF DetectMagic(data) = "" \/ ContentTypeForFilename(f) \in MagicParents(DetectMagic(data))
    THEN ContentTypeForFilename(f) ELSE DetectMagic(data)

\* unfurl and buildBlob: the type a blob gets from what its creator gave, "" for
\* nothing, and, for an upload, from its bytes.
UnfurledType(given, identify, data, f) ==
    IF given = "" \/ identify THEN DetectContentType(data, f) ELSE given
BuiltType(given, f) == IF given = "" THEN ContentTypeForFilename(f) ELSE given

-----------------------------------------------------------------------------
(* variant.go                                                               *)

\* Faulty variant: the extension is whatever follows the last dot.
VariantFilenameExt(f, format) ==
    TrimSuffix(Basename(f), FilepathExt(f)) \o <<Dot>> \o format

VariantFilename(f, format) == Base(f) \o <<Dot>> \o format
VariantContentType(format) == ContentTypeForFilename(<<120, Dot>> \o format)
=============================================================================
