-------------------------------- MODULE Encodings --------------------------------
(***************************************************************************)
(* The encoders of marshal.go and rjson.go, byte by byte, for the values of *)
(* Values, with Ruby's Marshal.load to read the dumps back; the residues of *)
(* random.go.  Strings are sequences of ASCII bytes.                        *)
(***************************************************************************)
EXTENDS Values, Integers, FiniteSetsExt

-----------------------------------------------------------------------------
(* marshal.go                                                               *)

\* The bytes of n, least first, without those that its sign says.
RECURSIVE Bytes(_)
Bytes(n) == IF n \in {0, -1} THEN <<>> ELSE <<n % 256>> \o Bytes(n \div 256)

Long(n) ==
    CASE n = 0 -> <<0>>
      [] n \in 1 .. 122 -> <<n + 5>>
      [] n \in -123 .. -1 -> <<(n - 5) % 256>>
      [] n > 122 -> <<Len(Bytes(n))>> \o Bytes(n)
      [] OTHER -> <<256 - Len(Bytes(n))>> \o Bytes(n)

\* A marshaler: what it has written, and its symbol table.
Put(m, bytes) == [m EXCEPT !.buf = @ \o bytes]

\* A symbol is written once, and then by its place in the table.
DumpSymbol(m, s) ==
    LET i == SelectInSeq(m.syms, LAMBDA x : x = s)
    IN  IF i # 0 THEN Put(m, <<59>> \o Long(i - 1))
        ELSE [buf |-> m.buf \o <<58>> \o Long(Len(s)) \o s, syms |-> Append(m.syms, s)]

\* Faulty variant: the encoding flag of a string bypasses the table.
DumpStringAside(m, s) ==
    Put(m, <<73, 34>> \o Long(Len(s)) \o s \o Long(1) \o <<58, 6, 69, 84>>)

\* A string carries its encoding flag, the symbol E.
DumpString(m, s) ==
    Put(DumpSymbol(Put(m, <<73, 34>> \o Long(Len(s)) \o s \o Long(1)), <<69>>), <<84>>)

RECURSIVE Dump(_, _)
Dump(m, v) ==
    CASE v.t = "nil" -> Put(m, <<48>>)
      [] v.t = "bool" -> Put(m, IF v.x THEN <<84>> ELSE <<70>>)
      [] v.t = "int" -> Put(m, <<105>> \o Long(v.n))
      [] v.t = "sym" -> DumpSymbol(m, v.s)
      [] v.t = "str" -> DumpString(m, v.s)
      [] v.t = "list" -> FoldLeft(Dump, Put(m, <<91>> \o Long(Len(v.vs))), v.vs)
      [] v.t = "hash" -> FoldLeft(LAMBDA x, e : Dump(DumpSymbol(x, e.key), e.val),
                                  Put(m, <<123>> \o Long(Len(v.es))), v.es)

\* rubyMarshal, and with it Variation.Digest, SHA-1 being taken for collision-free.
RubyMarshal(v) == Dump([buf |-> <<4, 8>>, syms |-> <<>>], v).buf

-----------------------------------------------------------------------------
(* Marshal.load of Ruby.  A reader has a place in the bytes, the symbols it *)
(* has read, and the value read last.                                       *)

Skip(r, n) == [r EXCEPT !.at = @ + n]
Byte(r) == r.bytes[r.at]
Read(r, v) == [r EXCEPT !.val = v]

\* r_long: what n bytes from place i on, least first, add up to.
RECURSIVE Unsigned(_, _, _)
Unsigned(bytes, i, n) == IF n = 0 THEN 0 ELSE bytes[i] + 256 * Unsigned(bytes, i + 1, n - 1)

\* Negative numbers are read by their complement, which four bytes hold.
Complement(bytes, i, n) == Unsigned([j \in DOMAIN bytes |-> 255 - bytes[j]], i, n)

LoadLong(r) ==
    LET c == IF Byte(r) < 128 THEN Byte(r) ELSE Byte(r) - 256
        i == r.at + 1
    IN  CASE c = 0 -> Read(Skip(r, 1), 0)
          [] c > 4 -> Read(Skip(r, 1), c - 5)
          [] c < -4 -> Read(Skip(r, 1), c + 5)
          [] c \in 1 .. 4 -> Read(Skip(r, 1 + c), Unsigned(r.bytes, i, c))
          [] OTHER -> Read(Skip(r, 1 - c), -1 - Complement(r.bytes, i, -c))

\* A byte string with its length before it.
LoadBytes(r) == LET n == LoadLong(r) IN
    Read(Skip(n, n.val), SubSeq(r.bytes, n.at, n.at + n.val - 1))

LoadSymbol(r) ==
    IF Byte(r) = 59 THEN LET i == LoadLong(Skip(r, 1)) IN Read(i, i.syms[i.val + 1])
    ELSE LET s == LoadBytes(Skip(r, 1)) IN [s EXCEPT !.syms = Append(@, s.val)]

RECURSIVE Load(_), LoadValues(_, _), LoadEntries(_, _)
Load(r) ==
    LET c == Byte(r)
        body == Skip(r, 1)
        n == LoadLong(body)
    IN  CASE c = 48 -> Read(body, Nil)
          [] c \in {84, 70} -> Read(body, Bool(c = 84))
          [] c = 105 -> Read(n, Num(n.val))
          [] c \in {58, 59} -> LET s == LoadSymbol(r) IN Read(s, Sym(s.val))
          [] c = 73 -> LET s == LoadBytes(Skip(r, 2)) \* one flag, a symbol, and its value
                       IN  Read(Skip(LoadSymbol(LoadLong(s)), 1), Str(s.val))
          [] c = 91 -> LET x == LoadValues(Read(n, <<>>), n.val) IN Read(x, List(x.val))
          [] c = 123 -> LET x == LoadEntries(Read(n, <<>>), n.val) IN Read(x, Hash(x.val))

LoadValues(r, n) ==
    IF n = 0 THEN r
    ELSE LET x == Load(r) IN LoadValues(Read(x, Append(r.val, x.val)), n - 1)

LoadEntries(r, n) ==
    IF n = 0 THEN r
    ELSE LET k == LoadSymbol(r)
             x == Load(k)
         IN  LoadEntries(Read(x, Append(r.val, Entry(k.val, x.val))), n - 1)

MarshalLoad(bytes) == Load([bytes |-> bytes, at |-> 3, syms |-> <<>>, val |-> Nil])

-----------------------------------------------------------------------------
(* rjson.go                                                                 *)

\* Faulty variant: a backslash is written as it is.
EscapeQuoteOnly(c) == IF c = 34 THEN <<92, 34>> ELSE IF c = 10 THEN <<92, 110>> ELSE <<c>>

\* A quote, a backslash, a newline; other control characters have forms like it.
Escape(c) ==
    CASE c = 10 -> <<92, 110>>
      [] c \in {34, 92} -> <<92, c>>
      [] OTHER -> <<c>>

Quoted(s) == <<34>> \o FlattenSeq([i \in 1 .. Len(s) |-> Escape(s[i])]) \o <<34>>

RECURSIVE Digits(_)
Digits(n) == IF n < 10 THEN <<48 + n>> ELSE Digits(n \div 10) \o <<48 + (n % 10)>>
Decimal(n) == IF n < 0 THEN <<45>> \o Digits(-n) ELSE Digits(n)

\* Faulty variant: the elements follow each other without a comma.
CommasNone(parts) == FlattenSeq(parts)

\* The elements with commas between them.
Commas(parts) == IF parts = <<>> THEN <<>>
    ELSE FlattenSeq([i \in 1 .. Len(parts) |-> IF i = 1 THEN parts[i] ELSE <<44>> \o parts[i]])

\* rubyJSON, and with it Variation.Key, signatures being taken for ideal.
RECURSIVE RubyJSON(_)
RubyJSON(v) ==
    CASE v.t = "nil" -> <<110, 117, 108, 108>>
      [] v.t = "bool" -> IF v.x THEN <<116, 114, 117, 101>> ELSE <<102, 97, 108, 115, 101>>
      [] v.t = "int" -> Decimal(v.n)
      [] v.t \in {"sym", "str"} -> Quoted(v.s)
      [] v.t = "list" -> <<91>> \o Commas([i \in 1 .. Len(v.vs) |-> RubyJSON(v.vs[i])]) \o <<93>>
      [] v.t = "hash" -> <<123>> \o Commas([i \in 1 .. Len(v.es) |->
              Quoted(v.es[i].key) \o <<58>> \o RubyJSON(v.es[i].val)]) \o <<125>>

-----------------------------------------------------------------------------
(* random.go                                                                *)

\* Faulty variant: the byte is reduced to the alphabet at once.
ResidueOf36(byte) == byte % 36

\* base36 takes a random byte modulo 64 and draws anew, uniformly, what is not
\* below 36.
Residue(byte) == byte % 64

\* How often symbol i comes out, of 36 * 256 equally likely draws.
Weight(i) == 36 * Cardinality({b \in 0 .. 255 : Residue(b) = i})
               + Cardinality({b \in 0 .. 255 : Residue(b) >= 36})
=============================================================================
