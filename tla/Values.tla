--------------------------------- MODULE Values ---------------------------------
(***************************************************************************)
(* The values a transformation is made of (value.go), and the format it     *)
(* asks for (variant.go).  Strings are sequences of ASCII bytes.            *)
(***************************************************************************)
EXTENDS SequencesExt

Nil == [t |-> "nil"]
Bool(x) == [t |-> "bool", x |-> x]
Num(n) == [t |-> "int", n |-> n]
Sym(s) == [t |-> "sym", s |-> s]
Str(s) == [t |-> "str", s |-> s]
List(vs) == [t |-> "list", vs |-> vs]
\* A Hash is its entries, in order.
Hash(es) == [t |-> "hash", es |-> es]
Entry(k, v) == [key |-> k, val |-> v]

\* Hash.Get, as the set of at most one value.
Get(es, k) ==
    LET i == SelectInSeq(es, LAMBDA e : e.key = k)
    IN  IF i = 0 THEN {} ELSE {es[i].val}

\* Faulty variant: a format given as a string is overlooked.
FormatOfSymbol(es) ==
    LET given == {v.s : v \in {w \in Get(es, <<102>>) : w.t = "sym"}}
    IN  IF given = {} THEN <<112>> ELSE CHOOSE s \in given : TRUE

\* Variation.Format: f stands for the key format, p for the default png.
Format(es) ==
    LET given == {v.s : v \in {w \in Get(es, <<102>>) : w.t \in {"sym", "str"}}}
    IN  IF given = {} THEN <<112>> ELSE CHOOSE s \in given : TRUE
=============================================================================
