------------------------------- MODULE Descriptors -------------------------------
(***************************************************************************)
(* The names of Filenames, and the transformations a host may give, nested  *)
(* value by value, with what Encodings makes of them.                       *)
(***************************************************************************)
EXTENDS Filenames, Encodings

CONSTANTS
    Leaves,      \* values that contain no others
    Companions,  \* leaves put beside a nested value
    Fields,      \* keys of hashes
    MaxDepth     \* bound: lists and hashes around a value

VARIABLES value, depth

Init == NameInit /\ value \in Leaves /\ depth = 0

\* The lists and hashes with v and at most one companion in them.
Around(v) ==
    {List(<<v>>)}
    \union UNION {{List(<<w, v>>), List(<<v, w>>)} : w \in Companions}
    \union UNION {{Hash(<<Entry(k, w), Entry(l, v)>>) : w \in Companions, l \in Fields \ {k}} : k \in Fields}

Nest ==
    /\ depth < MaxDepth
    /\ depth' = depth + 1
    /\ value' \in Around(value)

\* Names and values are built in behaviours of their own.
Next ==
    \/ value = Nil /\ depth = 0 /\ Type /\ UNCHANGED <<value, depth>>
    \/ name = <<>> /\ Nest /\ UNCHANGED name

Spec == Init /\ [][Next]_<<name, value, depth>>

-----------------------------------------------------------------------------

\* Ruby reads a dump back as the value it was made from, to the last byte, so that
\* different transformations have different digests; and an integer is as short as
\* Ruby writes it.
MarshalReadsBack ==
    LET dump == RubyMarshal(value)
        r == MarshalLoad(dump)
        size == Len(Long(value.n)) - 1
    IN  /\ dump \in Seq(0 .. 255)
        /\ r.val = value /\ r.at = Len(dump) + 1
        /\ value.t = "int" =>
             /\ (size = 0) = (value.n \in -123 .. 122)
             /\ size > 1 => value.n \notin -(256 ^ (size - 1)) .. 256 ^ (size - 1) - 1

\* The value with its symbols made strings: all that JSON keeps.
RECURSIVE Plain(_)
Plain(v) ==
    CASE v.t = "sym" -> Str(v.s)
      [] v.t = "list" -> List([i \in 1 .. Len(v.vs) |-> Plain(v.vs[i])])
      [] v.t = "hash" -> Hash([i \in 1 .. Len(v.es) |-> Entry(v.es[i].key, Plain(v.es[i].val))])
      [] OTHER -> v

\* What a variation is known by: its key, what the key stands for, and its format.
Descriptor(v) ==
    [key |-> RubyJSON(v), plain |-> Plain(v),
     format |-> IF v.t = "hash" THEN Format(v.es) ELSE <<>>]

\* The descriptors a value's is compared with: those of the leaves, of the variations,
\* and of everything up to MaxDepth lists and hashes around a companion.
Others ==
    LET nested[d \in 0 .. MaxDepth] ==
            IF d = 0 THEN Companions ELSE nested[d - 1] \union UNION {Around(v) : v \in nested[d - 1]}
    IN  {Descriptor(v) : v \in Leaves \union {Hash(es) : es \in Variations} \union nested[MaxDepth]}

\* Two transformations, however nested, have one variant key just if they are equal up
\* to strings for symbols, and then they have one format: what is written in them
\* cannot imitate a comma, a bracket, a colon or the end of a string.
KeyTellsApart ==
    LET this == Descriptor(value)
    IN  \A other \in Others : other.key = this.key \/ other.plain = this.plain => other = this

\* Every symbol of the alphabet, whichever number one asks for, is as likely at every
\* place of a key as any other: it has its share of the draws.
KeysUnbiased == value.t = "int" /\ value.n \in 0 .. 35 => Weight(value.n) = 256
=============================================================================
