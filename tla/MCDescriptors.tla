----------------------------- MODULE MCDescriptors -----------------------------
(* An instance of Descriptors for TLC.                                      *)
EXTENDS Descriptors

a == <<97>>
E == <<69>>
f == <<102>>

\* A dot, a slash, p, P, s, x, a space, a newline and '*'.
NameBytes == {46, 47, 112, 80, 115, 120, 32, 10, 42}

\* Both sides of every change of form, and symbols of the alphabet of keys.
Integers == {0, 1, 3, 4, 35, -1, 122, 123, 124, -122, -123, -124, 255, 256, -255, -256, -257,
             65535, 65536, -65536, -65537, 16777216, 1073741823, -1073741824}

\* Among the strings, pairs that a missing escape would make one, and one that is
\* too long for a length of one byte.
Strings == {<<>>, a, E, <<10>>, <<92, 110>>, <<34>>, <<92, 34>>, [i \in 1 .. 123 |-> 97]}

Scalars == {Nil, Bool(TRUE), Bool(FALSE)} \union {Num(n) : n \in Integers}
             \union {Str(s) : s \in Strings} \union {Sym(s) : s \in {a, E, f}}

\* 12 and 4 written side by side are 124.
Few == {Num(4), Num(12), Str(E), Sym(E), Sym(a)}
Keywords == {E, f}

\* No format, and formats as a symbol, as a string, empty, with a dot, and of a type
\* that is none.
Formats == {<<>>, <<Entry(a, Num(1))>>}
    \union {<<Entry(a, Nil), Entry(f, v)>> :
              v \in {Sym(<<115>>), Str(<<115>>), Str(<<80>>), Str(<<>>), Str(<<120, 46, 112>>), Num(1)}}
=============================================================================
