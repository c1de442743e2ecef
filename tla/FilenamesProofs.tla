---------------------------- MODULE FilenamesProofs ----------------------------
(***************************************************************************)
(* What filename.go, content_type.go and variant.go make of names of any    *)
(* length, over any bytes.                                                  *)
(***************************************************************************)
EXTENDS Filenames, SequenceTheorems, WellFoundedInduction, TLAPS

ByteStrings == Seq(Nat)

-----------------------------------------------------------------------------
(* Positions in a string.                                                   *)

LEMMA LeastOf ==
  ASSUME NEW T, T \subseteq Nat, T # {}
  PROVE  \E m \in T : \A y \in T : m <= y
  <1> DEFINE R == {ss \in Nat \X Nat : ss[1] < ss[2]}
  <1>1. IsWellFoundedOn(R, Nat)
    BY NatLessThanWellFounded DEF OpToRel
  <1>2. \A m, y \in Nat : y < m => <<y, m>> \in R
    OBVIOUS
  <1> HIDE DEF R
  <1>3. PICK m \in T : \A y \in T : ~ (<<y, m>> \in R)
    BY <1>1, WFMin
  <1>4. ASSUME NEW y \in T PROVE m <= y
    <2>1. m \in Nat /\ y \in Nat
      OBVIOUS
    <2>2. ~ (y < m)
      BY <1>2, <1>3, <2>1, Zenon
    <2> QED BY <2>1, <2>2
  <1> QED BY <1>4

LEMMA MaxIsThere ==
  ASSUME NEW n \in Nat, NEW I, I \subseteq 1 .. n, I # {}
  PROVE  Max(I) \in I /\ \A i \in I : i <= Max(I)
  <1> DEFINE T == {n - i : i \in I}
  <1>1. T \subseteq Nat
    OBVIOUS
  <1>2. \A i \in I : n - i \in T
    OBVIOUS
  <1>3. \A m \in T : \E i \in I : m = n - i
    OBVIOUS
  <1> HIDE DEF T
  <1>4. PICK m \in T : \A y \in T : m <= y
    BY <1>1, <1>2, LeastOf
  <1>5. PICK k \in I : m = n - k
    BY <1>3
  <1>6. \A i \in I : k >= i
    BY <1>2, <1>4, <1>5
  <1>7. \E x \in I : \A y \in I : x >= y
    BY <1>6
  <1>8. Max(I) \in I /\ \A y \in I : Max(I) >= y
    BY <1>7 DEF Max
  <1> QED BY <1>8

LEMMA MinIsThere ==
  ASSUME NEW n \in Nat, NEW I, I \subseteq 1 .. n, I # {}
  PROVE  Min(I) \in I /\ \A i \in I : Min(I) <= i
  <1>1. I \subseteq Nat
    OBVIOUS
  <1>2. \E m \in I : \A i \in I : m <= i
    BY <1>1, LeastOf
  <1> QED BY <1>2 DEF Min

LEMMA LastByteIsLast ==
  ASSUME NEW s \in ByteStrings, NEW c
  PROVE  /\ LastByte(c, s) \in 0 .. Len(s)
         /\ LastByte(c, s) # 0 => s[LastByte(c, s)] = c
         /\ \A i \in 1 .. Len(s) : s[i] = c => i <= LastByte(c, s)
  <1> DEFINE I == {i \in 1 .. Len(s) : s[i] = c}
  <1>1. LastByte(c, s) = IF I # {} THEN Max(I) ELSE 0
    BY DEF LastByte, SelectLastInSeq
  <1>2. Len(s) \in Nat
    BY DEF ByteStrings
  <1>3. I # {} => Max(I) \in I /\ \A i \in I : i <= Max(I)
    BY <1>2, MaxIsThere
  <1> QED BY <1>1, <1>2, <1>3

\* There is only one such place.
LEMMA LastByteAt ==
  ASSUME NEW s \in ByteStrings, NEW c, NEW n \in 0 .. Len(s), n # 0 => s[n] = c,
         \A i \in 1 .. Len(s) : s[i] = c => i <= n
  PROVE  LastByte(c, s) = n
  BY LastByteIsLast DEF ByteStrings

\* The last byte c of two strings in a row.
LEMMA LastByteOfBoth ==
  ASSUME NEW s \in ByteStrings, NEW t \in ByteStrings, NEW c
  PROVE  LastByte(c, s \o t) = IF LastByte(c, t) # 0 THEN Len(s) + LastByte(c, t) ELSE LastByte(c, s)
  <1> DEFINE n == IF LastByte(c, t) # 0 THEN Len(s) + LastByte(c, t) ELSE LastByte(c, s)
  <1>1. /\ s \o t \in ByteStrings /\ Len(s \o t) = Len(s) + Len(t)
        /\ \A i \in 1 .. Len(s) + Len(t) : (s \o t)[i] = IF i <= Len(s) THEN s[i] ELSE t[i - Len(s)]
        /\ Len(s) \in Nat /\ Len(t) \in Nat
    BY ConcatProperties DEF ByteStrings
  <1>2. /\ LastByte(c, s) \in 0 .. Len(s) /\ LastByte(c, t) \in 0 .. Len(t)
        /\ LastByte(c, s) # 0 => s[LastByte(c, s)] = c
        /\ LastByte(c, t) # 0 => t[LastByte(c, t)] = c
    BY LastByteIsLast
  <1>3. n \in 0 .. Len(s \o t) /\ (n # 0 => (s \o t)[n] = c)
    BY <1>1, <1>2
  <1>4. ASSUME NEW i \in 1 .. Len(s \o t), (s \o t)[i] = c PROVE i <= n
    <2>1. CASE i <= Len(s)
      <3>1. i <= LastByte(c, s)
        BY <1>1, <1>4, <2>1, LastByteIsLast
      <3> QED BY <1>1, <1>2, <2>1, <3>1
    <2>2. CASE i > Len(s)
      <3>1. i - Len(s) \in 1 .. Len(t) /\ t[i - Len(s)] = c
        BY <1>1, <1>4, <2>2
      <3>2. i - Len(s) <= LastByte(c, t)
        BY <3>1, LastByteIsLast
      <3> QED BY <1>1, <1>2, <3>1, <3>2
    <2> QED BY <1>1, <2>1, <2>2
  <1> HIDE DEF n
  <1>5. LastByte(c, s \o t) = n
    BY <1>1, <1>3, <1>4, LastByteAt
  <1> QED BY <1>5 DEF n

\* A part of a string.
LEMMA PartOf ==
  ASSUME NEW s \in ByteStrings, NEW m \in 1 .. Len(s) + 1, NEW n \in m - 1 .. Len(s)
  PROVE  /\ SubSeq(s, m, n) \in ByteStrings /\ Len(SubSeq(s, m, n)) = n - m + 1
         /\ \A i \in 1 .. n - m + 1 : SubSeq(s, m, n)[i] = s[m + i - 1]
  <1>1. m \in Int /\ n \in Int /\ \A i \in m .. n : s[i] \in Nat
    BY DEF ByteStrings
  <1> QED BY <1>1, SubSeqProperties DEF ByteStrings

LEMMA FirstPart ==
  ASSUME NEW s \in ByteStrings, NEW n \in 0 .. Len(s)
  PROVE  /\ SubSeq(s, 1, n) \in ByteStrings /\ Len(SubSeq(s, 1, n)) = n
         /\ \A i \in 1 .. n : SubSeq(s, 1, n)[i] = s[i]
  <1> DEFINE r == SubSeq(s, 1, n)
  <1>1. 1 \in 1 .. Len(s) + 1 /\ n \in 1 - 1 .. Len(s)
    BY DEF ByteStrings
  <1>2. r \in ByteStrings /\ Len(r) = n - 1 + 1 /\ \A i \in 1 .. n - 1 + 1 : r[i] = s[1 + i - 1]
    BY <1>1, PartOf
  <1> HIDE DEF r
  <1>3. r \in ByteStrings /\ Len(r) = n /\ \A i \in 1 .. n : r[i] = s[i]
    BY <1>2
  <1> QED BY <1>3 DEF r

LEMMA LastPart ==
  ASSUME NEW s \in ByteStrings, NEW n \in 0 .. Len(s)
  PROVE  /\ From(s, n + 1) \in ByteStrings /\ Len(From(s, n + 1)) = Len(s) - n
         /\ \A i \in 1 .. Len(s) - n : From(s, n + 1)[i] = s[n + i]
  <1> DEFINE r == From(s, n + 1)
  <1>1. Len(s) \in Nat /\ n + 1 \in 1 .. Len(s) + 1 /\ Len(s) \in (n + 1) - 1 .. Len(s)
    BY DEF ByteStrings
  <1>2. /\ r \in ByteStrings /\ Len(r) = Len(s) - (n + 1) + 1
        /\ \A i \in 1 .. Len(s) - (n + 1) + 1 : r[i] = s[n + 1 + i - 1]
    BY <1>1, PartOf DEF From
  <1> HIDE DEF r
  <1>3. r \in ByteStrings /\ Len(r) = Len(s) - n /\ \A i \in 1 .. Len(s) - n : r[i] = s[n + i]
    BY <1>1, <1>2
  <1> QED BY <1>3 DEF r

LEMMA Reversed ==
  ASSUME NEW s \in ByteStrings
  PROVE  /\ Reverse(s) \in ByteStrings /\ Len(Reverse(s)) = Len(s)
         /\ \A i \in 1 .. Len(s) : Reverse(s)[i] = s[Len(s) - i + 1]
  BY DEF Reverse, ByteStrings

\* Two strings in a row.
LEMMA Joined ==
  ASSUME NEW s \in ByteStrings, NEW t \in ByteStrings
  PROVE  /\ s \o t \in ByteStrings /\ Len(s \o t) = Len(s) + Len(t)
         /\ \A i \in 1 .. Len(s) + Len(t) : (s \o t)[i] = IF i <= Len(s) THEN s[i] ELSE t[i - Len(s)]
  BY ConcatProperties DEF ByteStrings

\* Both parts of a string put together.
LEMMA PartsTogether ==
  ASSUME NEW s \in ByteStrings, NEW n \in 0 .. Len(s)
  PROVE  s = SubSeq(s, 1, n) \o From(s, n + 1)
  <1> DEFINE a == SubSeq(s, 1, n)
             b == From(s, n + 1)
  <1>1. /\ a \in ByteStrings /\ Len(a) = n /\ \A i \in 1 .. n : a[i] = s[i]
        /\ b \in ByteStrings /\ Len(b) = Len(s) - n /\ \A i \in 1 .. Len(s) - n : b[i] = s[n + i]
        /\ Len(s) \in Nat
    BY FirstPart, LastPart DEF ByteStrings
  <1> HIDE DEF a, b
  <1>2. /\ a \o b \in ByteStrings /\ Len(a \o b) = Len(s)
        /\ \A i \in 1 .. Len(s) : (a \o b)[i] = IF i <= n THEN a[i] ELSE b[i - n]
    <2>1. /\ a \o b \in ByteStrings /\ Len(a \o b) = Len(a) + Len(b)
          /\ \A i \in 1 .. Len(a) + Len(b) : (a \o b)[i] = IF i <= Len(a) THEN a[i] ELSE b[i - Len(a)]
      BY <1>1, Joined
    <2> QED BY <1>1, <2>1
  <1>3. \A i \in 1 .. Len(s) : (a \o b)[i] = s[i]
    BY <1>1, <1>2
  <1>4. a \o b = s
    BY <1>2, <1>3, SeqEqual DEF ByteStrings
  <1> QED BY <1>4 DEF a, b

-----------------------------------------------------------------------------
(* Basename and extension.                                                  *)

\* strings.TrimSuffix of what follows place n.
LEMMA TrimSuffixAt ==
  ASSUME NEW s \in ByteStrings, NEW n \in 0 .. Len(s)
  PROVE  TrimSuffix(s, From(s, n + 1)) = SubSeq(s, 1, n)
  <1> DEFINE t == From(s, n + 1)
  <1>1. Len(s) \in Nat
    BY DEF ByteStrings
  <1>2. t \in ByteStrings /\ Len(t) = Len(s) - n /\ \A i \in 1 .. Len(s) - n : t[i] = s[n + i]
    BY LastPart
  <1> HIDE DEF t
  <1>3. /\ Reverse(t) \in ByteStrings /\ Len(Reverse(t)) = Len(t)
        /\ \A i \in 1 .. Len(t) : Reverse(t)[i] = t[Len(t) - i + 1]
    BY <1>2, Reversed
  <1>4. /\ Reverse(s) \in ByteStrings /\ Len(Reverse(s)) = Len(s)
        /\ \A i \in 1 .. Len(s) : Reverse(s)[i] = s[Len(s) - i + 1]
    BY Reversed
  <1> DEFINE r == SubSeq(Reverse(s), 1, Len(t))
             u == SubSeq(Reverse(t), 1, Len(t))
  <1>5. Len(t) \in 0 .. Len(Reverse(s)) /\ Len(t) \in 0 .. Len(Reverse(t))
    BY <1>1, <1>2, <1>3, <1>4
  <1>6. r \in ByteStrings /\ Len(r) = Len(t) /\ \A i \in 1 .. Len(t) : r[i] = Reverse(s)[i]
    BY <1>4, <1>5, FirstPart
  <1>7. u \in ByteStrings /\ Len(u) = Len(t) /\ \A i \in 1 .. Len(t) : u[i] = Reverse(t)[i]
    BY <1>3, <1>5, FirstPart
  <1> HIDE DEF r, u
  <1>8. ASSUME NEW i \in 1 .. Len(t) PROVE u[i] = r[i]
    <2>1. Len(t) - i + 1 \in 1 .. Len(s) - n /\ n + (Len(t) - i + 1) = Len(s) - i + 1 /\ i \in 1 .. Len(s)
      BY <1>1, <1>2
    <2>2. u[i] = t[Len(t) - i + 1] /\ r[i] = s[Len(s) - i + 1]
      BY <1>3, <1>4, <1>6, <1>7, <2>1
    <2> QED BY <1>2, <2>1, <2>2
  <1>9. u = r
    BY <1>6, <1>7, <1>8, SeqEqual DEF ByteStrings
  <1>10. IsSuffix(t, s)
    BY <1>1, <1>2, <1>3, <1>4, <1>9 DEF IsSuffix, IsPrefix, u, r
  <1>11. Len(s) - Len(t) = n
    BY <1>1, <1>2
  <1> QED BY <1>10, <1>11 DEF TrimSuffix, t

LEMMA TrimNothing ==
  ASSUME NEW s \in ByteStrings
  PROVE  TrimSuffix(s, <<>>) = s /\ s \o <<>> = s
  <1>1. Len(s) \in 0 .. Len(s)
    BY DEF ByteStrings
  <1>2. From(s, Len(s) + 1) = <<>>
    BY <1>1, LastPart, EmptySeq DEF ByteStrings
  <1>3. SubSeq(s, 1, Len(s)) = s
    BY <1>1, FirstPart, SeqEqual DEF ByteStrings
  <1>4. TrimSuffix(s, <<>>) = s
    BY <1>1, <1>2, <1>3, TrimSuffixAt
  <1> QED BY <1>4, ConcatEmptySeq DEF ByteStrings

LEMMA BasenameIs ==
  ASSUME NEW f \in ByteStrings
  PROVE  /\ Basename(f) \in ByteStrings /\ Len(Basename(f)) \in Nat
         /\ \A i \in 1 .. Len(Basename(f)) : Basename(f)[i] # Slash
  <1> DEFINE n == LastByte(Slash, f)
  <1>1. n \in 0 .. Len(f) /\ \A i \in 1 .. Len(f) : f[i] = Slash => i <= n
    BY LastByteIsLast
  <1> HIDE DEF n
  <1> DEFINE b == From(f, n + 1)
  <1>2. b \in ByteStrings /\ Len(b) = Len(f) - n /\ \A i \in 1 .. Len(f) - n : b[i] = f[n + i]
    BY <1>1, LastPart
  <1> HIDE DEF b
  <1>3. ASSUME NEW i \in 1 .. Len(b) PROVE b[i] # Slash
    <2>1. i \in 1 .. Len(f) - n /\ n + i \in 1 .. Len(f) /\ ~ (n + i <= n)
      BY <1>1, <1>2 DEF ByteStrings
    <2>2. f[n + i] # Slash
      BY <1>1, <2>1
    <2> QED BY <1>2, <2>1, <2>2
  <1>4. Len(b) \in Nat
    BY <1>2 DEF ByteStrings
  <1>5. Basename(f) = b
    BY DEF Basename, b, n
  <1> QED BY <1>2, <1>3, <1>4, <1>5

\* Where the extension begins, if there is one, and what is left without it.
LEMMA ExtnameAt ==
  ASSUME NEW f \in ByteStrings, NEW b, b = Basename(f), NEW d, d = LastByte(Dot, b)
  PROVE  /\ b \in ByteStrings /\ Len(b) \in Nat /\ d \in 0 .. Len(b)
         /\ d # 0 => b[d] = Dot
         /\ \A i \in 1 .. Len(b) : b[i] = Dot => i <= d
         /\ \/ /\ \A i \in 1 .. d - 1 : b[i] = Dot
               /\ RubyExtname(f) = <<>> /\ Base(f) = b
            \/ /\ \E i \in 1 .. d - 1 : b[i] # Dot
               /\ RubyExtname(f) = From(b, d) /\ Base(f) = SubSeq(b, 1, d - 1)
  <1>1. /\ b \in ByteStrings /\ Len(b) \in Nat /\ d \in 0 .. Len(b) /\ (d # 0 => b[d] = Dot)
        /\ \A i \in 1 .. Len(b) : b[i] = Dot => i <= d
    BY BasenameIs, LastByteIsLast
  <1>2. CASE \A i \in 1 .. d - 1 : b[i] = Dot
    <2>1. RubyExtname(f) = <<>>
      BY <1>2 DEF RubyExtname
    <2>2. Base(f) = b
      BY <1>1, <2>1, TrimNothing DEF Base
    <2> QED BY <1>1, <1>2, <2>1, <2>2
  <1>3. CASE \E i \in 1 .. d - 1 : b[i] # Dot
    <2>1. RubyExtname(f) = From(b, d)
      BY <1>3 DEF RubyExtname
    <2>2. d - 1 \in 0 .. Len(b) /\ (d - 1) + 1 = d
      BY <1>1, <1>3
    <2>3. TrimSuffix(b, From(b, d)) = SubSeq(b, 1, d - 1)
      BY <1>1, <2>2, TrimSuffixAt
    <2> QED BY <1>1, <1>3, <2>1, <2>3 DEF Base
  <1> QED BY <1>2, <1>3

\* What the parts of a name are, where it has an extension.
LEMMA ExtnameIs ==
  ASSUME NEW b \in ByteStrings, NEW d \in 1 .. Len(b), b[d] = Dot,
         \A i \in 1 .. Len(b) : b[i] = Dot => i <= d
  PROVE  /\ b = SubSeq(b, 1, d - 1) \o From(b, d)
         /\ Len(SubSeq(b, 1, d - 1)) = d - 1 /\ \A i \in 1 .. d - 1 : SubSeq(b, 1, d - 1)[i] = b[i]
         /\ From(b, d) # <<>> /\ From(b, d)[1] = Dot /\ Dot \notin ToSet(Tail(From(b, d)))
  <1>1. Len(b) \in Nat /\ d - 1 \in 0 .. Len(b) /\ (d - 1) + 1 = d
    BY DEF ByteStrings
  <1>2. b = SubSeq(b, 1, d - 1) \o From(b, d)
    BY <1>1, PartsTogether
  <1>3. Len(SubSeq(b, 1, d - 1)) = d - 1 /\ \A i \in 1 .. d - 1 : SubSeq(b, 1, d - 1)[i] = b[i]
    BY <1>1, FirstPart
  <1> DEFINE ext == From(b, d)
  <1>4. /\ ext \in ByteStrings /\ Len(ext) = Len(b) - (d - 1)
        /\ \A i \in 1 .. Len(b) - (d - 1) : ext[i] = b[(d - 1) + i]
    BY <1>1, LastPart
  <1> HIDE DEF ext
  <1>5. ext # <<>> /\ ext[1] = Dot
    BY <1>1, <1>4, EmptySeq
  <1>6. /\ Tail(ext) \in ByteStrings /\ Len(Tail(ext)) = Len(ext) - 1
        /\ \A i \in 1 .. Len(Tail(ext)) : Tail(ext)[i] = ext[i + 1]
    BY <1>4, <1>5, HeadTailProperties DEF ByteStrings
  <1>7. ASSUME NEW i \in 1 .. Len(Tail(ext)) PROVE Tail(ext)[i] # Dot
    <2>1. i + 1 \in 1 .. Len(b) - (d - 1) /\ (d - 1) + (i + 1) = d + i /\ d + i \in 1 .. Len(b) /\ ~ (d + i <= d)
      BY <1>1, <1>4, <1>6
    <2> QED BY <1>4, <1>6, <2>1
  <1>8. Dot \notin ToSet(Tail(ext))
    BY <1>6, <1>7 DEF ToSet, ByteStrings
  <1> QED BY <1>2, <1>3, <1>5, <1>8 DEF ext

LEMMA Partition == ASSUME name \in ByteStrings PROVE NamePartition
  <1> DEFINE b == Basename(name)
             d == LastByte(Dot, b)
             ext == RubyExtname(name)
             leading(i) == \A j \in 1 .. i : Base(name)[j] = Dot
  <1>1. /\ b \in ByteStrings /\ Len(b) \in Nat /\ d \in 0 .. Len(b) /\ (d # 0 => b[d] = Dot)
        /\ \A i \in 1 .. Len(b) : b[i] = Dot => i <= d
        /\ \/ (\A i \in 1 .. d - 1 : b[i] = Dot) /\ ext = <<>> /\ Base(name) = b
           \/ /\ \E i \in 1 .. d - 1 : b[i] # Dot
              /\ ext = From(b, d) /\ Base(name) = SubSeq(b, 1, d - 1)
    BY ExtnameAt
  <1>2. Slash \notin ToSet(b)
    BY <1>1, BasenameIs DEF ToSet, ByteStrings
  <1> HIDE DEF b, d, ext
  <1>3. CASE (\A i \in 1 .. d - 1 : b[i] = Dot) /\ ext = <<>> /\ Base(name) = b
    <2>1. b = Base(name) \o ext
      BY <1>1, <1>3, TrimNothing
    <2>2. ASSUME NEW i \in 1 .. Len(Base(name)), Base(name)[i] = Dot PROVE leading(i)
      <3> SUFFICES ASSUME NEW j \in 1 .. i PROVE b[j] = Dot
        BY <1>3
      <3>1. i <= d
        BY <1>1, <1>3, <2>2
      <3>2. j \in 1 .. d - 1 \/ j = d
        BY <1>1, <1>3, <3>1
      <3> QED BY <1>1, <1>3, <3>2
    <2> QED BY <1>2, <1>3, <2>1, <2>2 DEF NamePartition, b, ext
  <1>4. CASE (\E i \in 1 .. d - 1 : b[i] # Dot) /\ ext = From(b, d) /\ Base(name) = SubSeq(b, 1, d - 1)
    <2>1. d \in 1 .. Len(b) /\ b[d] = Dot
      BY <1>1, <1>4
    <2>2. /\ b = Base(name) \o ext /\ Len(Base(name)) = d - 1
          /\ \A i \in 1 .. d - 1 : Base(name)[i] = b[i]
          /\ ext # <<>> /\ ext[1] = Dot /\ Dot \notin ToSet(Tail(ext))
      <3>1. /\ b = SubSeq(b, 1, d - 1) \o From(b, d)
            /\ Len(SubSeq(b, 1, d - 1)) = d - 1 /\ \A i \in 1 .. d - 1 : SubSeq(b, 1, d - 1)[i] = b[i]
            /\ From(b, d) # <<>> /\ From(b, d)[1] = Dot /\ Dot \notin ToSet(Tail(From(b, d)))
        BY <1>1, <2>1, ExtnameIs
      <3> QED BY <1>4, <3>1
    <2>3. ~ leading(Len(Base(name)))
      BY <1>4, <2>2
    <2> QED BY <1>2, <2>2, <2>3 DEF NamePartition, b, ext
  <1> QED BY <1>1, <1>3, <1>4

-----------------------------------------------------------------------------
(* Sanitized names.                                                         *)

\* Nothing but whitespace.
Blank(s) == \A i \in 1 .. Len(s) : s[i] \in White

\* The first and the last byte of s that are not whitespace are at m and n.
Spans(s, m, n) ==
    /\ m \in 1 .. Len(s) /\ n \in m .. Len(s)
    /\ s[m] \notin White /\ s[n] \notin White
    /\ \A i \in 1 .. Len(s) : s[i] \notin White => i \in m .. n

LEMMA TrimmedIs ==
  ASSUME NEW s \in ByteStrings
  PROVE  \/ Blank(s) /\ TrimSpace(s) = <<>>
         \/ \E m, n \in Nat : Spans(s, m, n) /\ TrimSpace(s) = SubSeq(s, m, n)
  <1> DEFINE I == {i \in 1 .. Len(s) : s[i] \notin White}
             first == SelectInSeq(s, LAMBDA x : x \notin White)
             last == SelectLastInSeq(s, LAMBDA x : x \notin White)
  <1>1. first = (IF I # {} THEN Min(I) ELSE 0) /\ last = (IF I # {} THEN Max(I) ELSE 0)
    BY DEF SelectInSeq, SelectLastInSeq
  <1>2. TrimSpace(s) = IF first = 0 THEN <<>> ELSE SubSeq(s, first, last)
    BY DEF TrimSpace
  <1> HIDE DEF first, last
  <1>3. Len(s) \in Nat
    BY DEF ByteStrings
  <1>4. CASE I = {}
    BY <1>1, <1>2, <1>4 DEF Blank
  <1>5. CASE I # {}
    <2>1. /\ first \in I /\ \A i \in I : first <= i
          /\ last \in I /\ \A i \in I : i <= last
      BY <1>1, <1>3, <1>5, MinIsThere, MaxIsThere
    <2>2. Spans(s, first, last)
      BY <1>3, <2>1 DEF Spans
    <2>3. first # 0 /\ first \in Nat /\ last \in Nat
      BY <1>3, <2>1
    <2> QED BY <1>2, <2>2, <2>3
  <1> QED BY <1>4, <1>5

\* There is only one such span.
LEMMA TrimmedAt ==
  ASSUME NEW s \in ByteStrings, NEW m \in Nat, NEW n \in Nat, Spans(s, m, n)
  PROVE  TrimSpace(s) = SubSeq(s, m, n)
  <1>1. m \in 1 .. Len(s) /\ n \in 1 .. Len(s) /\ s[m] \notin White /\ s[n] \notin White /\ Len(s) \in Nat
    BY DEF Spans, ByteStrings
  <1>2. ~ Blank(s)
    BY <1>1 DEF Blank
  <1>3. PICK k, l \in Nat : Spans(s, k, l) /\ TrimSpace(s) = SubSeq(s, k, l)
    BY <1>2, TrimmedIs
  <1>4. k \in 1 .. Len(s) /\ l \in 1 .. Len(s) /\ s[k] \notin White /\ s[l] \notin White
    BY <1>1, <1>3 DEF Spans
  <1>5. m \in k .. l /\ n \in k .. l /\ k \in m .. n /\ l \in m .. n
    BY <1>1, <1>3, <1>4 DEF Spans
  <1>6. m = k /\ n = l
    BY <1>5
  <1> QED BY <1>3, <1>6

LEMMA BlankTrims ==
  ASSUME NEW s \in ByteStrings, Blank(s)
  PROVE  TrimSpace(s) = <<>>
  <1> SUFFICES ASSUME NEW m \in Nat, NEW n \in Nat, Spans(s, m, n) PROVE FALSE
    BY TrimmedIs
  <1> QED BY DEF Spans, Blank

LEMMA ReplacedIs ==
  ASSUME NEW s \in ByteStrings
  PROVE  /\ Replaced(s) \in ByteStrings /\ Len(Replaced(s)) = Len(s)
         /\ \A i \in 1 .. Len(s) : /\ Replaced(s)[i] = IF s[i] \in Hostile THEN Dash ELSE s[i]
                                   /\ Replaced(s)[i] \notin Hostile
                                   /\ s[i] \notin White => Replaced(s)[i] \notin White
  <1>1. Dash \in Nat /\ Dash \notin Hostile /\ Dash \notin White
    BY DEF Dash, Hostile, White, Slash
  <1>2. /\ Replaced(s) \in ByteStrings /\ Len(Replaced(s)) = Len(s)
        /\ \A i \in 1 .. Len(s) : Replaced(s)[i] = IF s[i] \in Hostile THEN Dash ELSE s[i]
    <2>1. Len(s) \in Nat /\ \A i \in 1 .. Len(s) : s[i] \in Nat
      BY DEF ByteStrings
    <2>2. Replaced(s) \in [1 .. Len(s) -> Nat]
      BY <1>1, <2>1 DEF Replaced
    <2>3. Replaced(s) \in ByteStrings /\ Len(Replaced(s)) = Len(s)
      BY <2>1, <2>2 DEF ByteStrings
    <2> QED BY <2>3 DEF Replaced
  <1> QED BY <1>1, <1>2

\* What is replaced once is replaced for good.
LEMMA ReplacedTwice ==
  ASSUME NEW s \in ByteStrings
  PROVE  Replaced(Replaced(s)) = Replaced(s)
  <1> DEFINE r == Replaced(s)
  <1>1. r \in ByteStrings /\ Len(r) = Len(s) /\ \A i \in 1 .. Len(r) : r[i] \notin Hostile
    BY ReplacedIs
  <1> HIDE DEF r
  <1>2. /\ Replaced(r) \in ByteStrings /\ Len(Replaced(r)) = Len(r)
        /\ \A i \in 1 .. Len(r) : Replaced(r)[i] = r[i]
    BY <1>1, ReplacedIs
  <1>3. Replaced(r) = r
    BY <1>1, <1>2, SeqEqual DEF ByteStrings
  <1> QED BY <1>3 DEF r

\* A trimmed name begins and ends with what is not whitespace, and so it does when
\* its hostile bytes are replaced.
LEMMA SanitizedTrims ==
  ASSUME NEW s \in ByteStrings
  PROVE  /\ TrimSpace(s) \in ByteStrings
         /\ TrimSpace(Replaced(TrimSpace(s))) = Replaced(TrimSpace(s))
  <1> DEFINE t == TrimSpace(s)
             r == Replaced(t)
  <1>1. CASE Blank(s) /\ t = <<>>
    <2>1. t \in ByteStrings /\ Len(t) = 0
      BY <1>1, EmptySeq DEF ByteStrings
    <2> HIDE DEF t
    <2>2. r \in ByteStrings /\ Len(r) = 0
      BY <2>1, ReplacedIs
    <2> HIDE DEF r
    <2>3. r = <<>> /\ Blank(r)
      BY <2>2, EmptySeq DEF ByteStrings, Blank
    <2>4. TrimSpace(r) = r
      BY <2>2, <2>3, BlankTrims
    <2> QED BY <2>1, <2>4 DEF r, t
  <1>2. CASE \E m, n \in Nat : Spans(s, m, n) /\ t = SubSeq(s, m, n)
    <2>1. PICK m, n \in Nat : Spans(s, m, n) /\ t = SubSeq(s, m, n)
      BY <1>2
    <2> HIDE DEF t
    <2>2. Len(s) \in Nat /\ m \in 1 .. Len(s) /\ n \in m .. Len(s) /\ s[m] \notin White /\ s[n] \notin White
      BY <2>1 DEF Spans, ByteStrings
    <2>3. m \in 1 .. Len(s) + 1 /\ n \in m - 1 .. Len(s)
      BY <2>2
    <2>4. t \in ByteStrings /\ Len(t) = n - m + 1 /\ \A i \in 1 .. n - m + 1 : t[i] = s[m + i - 1]
      BY <2>1, <2>3, PartOf
    <2>5. 1 \in 1 .. Len(t) /\ Len(t) \in 1 .. Len(t) /\ t[1] = s[m] /\ t[Len(t)] = s[n] /\ Len(t) \in Nat
      <3>1. 1 \in 1 .. n - m + 1 /\ n - m + 1 \in 1 .. n - m + 1 /\ m + 1 - 1 = m /\ m + (n - m + 1) - 1 = n
        BY <2>2
      <3>2. t[1] = s[m + 1 - 1] /\ t[n - m + 1] = s[m + (n - m + 1) - 1]
        BY <2>4, <3>1
      <3> QED BY <2>4, <3>1, <3>2
    <2>6. /\ r \in ByteStrings /\ Len(r) = Len(t) /\ r[1] \notin White /\ r[Len(t)] \notin White
      BY <2>2, <2>4, <2>5, ReplacedIs
    <2> HIDE DEF r
    <2>7. Spans(r, 1, Len(r))
      BY <2>5, <2>6 DEF Spans
    <2>8. TrimSpace(r) = SubSeq(r, 1, Len(r))
      BY <2>5, <2>6, <2>7, TrimmedAt
    <2>9. SubSeq(r, 1, Len(r)) = r
      BY <2>5, <2>6, FirstPart, SeqEqual DEF ByteStrings
    <2> QED BY <2>4, <2>8, <2>9 DEF r, t
  <1> HIDE DEF t, r
  <1>3. \/ Blank(s) /\ t = <<>>
        \/ \E m, n \in Nat : Spans(s, m, n) /\ t = SubSeq(s, m, n)
    BY TrimmedIs DEF t
  <1> QED BY <1>1, <1>2, <1>3

\* Strings that differ in where they have it trim to the same span.
LEMMA SameTrimmed ==
  ASSUME NEW s \in ByteStrings, NEW u \in ByteStrings, NEW m \in Nat, NEW n \in Nat, NEW k \in Nat,
         Spans(s, m, n), Spans(u, m + k, n + k), \A i \in m .. n : u[i + k] = s[i]
  PROVE  TrimSpace(u) = TrimSpace(s)
  <1> DEFINE a == SubSeq(s, m, n)
             b == SubSeq(u, m + k, n + k)
  <1>1. TrimSpace(s) = a /\ TrimSpace(u) = b
    BY TrimmedAt
  <1>2. m \in 1 .. Len(s) /\ n \in m .. Len(s) /\ Len(s) \in Nat /\ Len(u) \in Nat
        /\ m + k \in 1 .. Len(u) /\ n + k \in m + k .. Len(u)
    BY DEF Spans, ByteStrings
  <1>3. a \in ByteStrings /\ Len(a) = n - m + 1 /\ \A i \in 1 .. n - m + 1 : a[i] = s[m + i - 1]
    <2>1. m \in 1 .. Len(s) + 1 /\ n \in m - 1 .. Len(s)
      BY <1>2
    <2> QED BY <2>1, PartOf
  <1>4. /\ b \in ByteStrings /\ Len(b) = (n + k) - (m + k) + 1
        /\ \A i \in 1 .. (n + k) - (m + k) + 1 : b[i] = u[(m + k) + i - 1]
    <2>1. m + k \in 1 .. Len(u) + 1 /\ n + k \in (m + k) - 1 .. Len(u)
      BY <1>2
    <2> QED BY <2>1, PartOf
  <1> HIDE DEF a, b
  <1>5. Len(b) = Len(a)
    BY <1>3, <1>4
  <1>6. ASSUME NEW i \in 1 .. Len(a) PROVE b[i] = a[i]
    <2>1. i \in 1 .. n - m + 1 /\ i \in 1 .. (n + k) - (m + k) + 1 /\ m + i - 1 \in m .. n
          /\ (m + k) + i - 1 = (m + i - 1) + k
      BY <1>2, <1>3
    <2>2. a[i] = s[m + i - 1] /\ b[i] = u[(m + i - 1) + k]
      BY <1>3, <1>4, <2>1
    <2> QED BY <2>1, <2>2
  <1>7. b = a
    BY <1>3, <1>4, <1>5, <1>6, SeqEqual DEF ByteStrings
  <1> QED BY <1>1, <1>7

LEMMA WhiteAround ==
  ASSUME NEW s \in ByteStrings, NEW w \in White
  PROVE  /\ <<w>> \o s \in ByteStrings /\ s \o <<w>> \in ByteStrings
         /\ TrimSpace(<<w>> \o s) = TrimSpace(s) /\ TrimSpace(s \o <<w>>) = TrimSpace(s)
  <1> DEFINE u == <<w>> \o s
             v == s \o <<w>>
  <1>1. <<w>> \in ByteStrings /\ Len(<<w>>) = 1 /\ <<w>>[1] = w /\ Len(s) \in Nat
    BY DEF White, ByteStrings
  <1>2. /\ u \in ByteStrings /\ Len(u) = Len(s) + 1
        /\ \A i \in 1 .. Len(s) + 1 : u[i] = IF i = 1 THEN w ELSE s[i - 1]
    <2>1. /\ u \in ByteStrings /\ Len(u) = Len(<<w>>) + Len(s)
          /\ \A i \in 1 .. Len(<<w>>) + Len(s) : u[i] = IF i <= Len(<<w>>) THEN <<w>>[i] ELSE s[i - Len(<<w>>)]
      BY <1>1, Joined
    <2> HIDE DEF u
    <2> QED BY <1>1, <2>1
  <1>3. /\ v \in ByteStrings /\ Len(v) = Len(s) + 1
        /\ \A i \in 1 .. Len(s) + 1 : v[i] = IF i <= Len(s) THEN s[i] ELSE w
    <2>1. /\ v \in ByteStrings /\ Len(v) = Len(s) + Len(<<w>>)
          /\ \A i \in 1 .. Len(s) + Len(<<w>>) : v[i] = IF i <= Len(s) THEN s[i] ELSE <<w>>[i - Len(s)]
      BY <1>1, Joined
    <2> HIDE DEF v
    <2> QED BY <1>1, <2>1
  <1> HIDE DEF u, v
  <1>4. CASE Blank(s) /\ TrimSpace(s) = <<>>
    <2>1. Blank(u)
      BY <1>1, <1>2, <1>4 DEF Blank
    <2>2. Blank(v)
      BY <1>1, <1>3, <1>4 DEF Blank
    <2> QED BY <1>2, <1>3, <1>4, <2>1, <2>2, BlankTrims DEF u, v
  <1>5. ASSUME NEW m \in Nat, NEW n \in Nat, Spans(s, m, n)
        PROVE  TrimSpace(u) = TrimSpace(s) /\ TrimSpace(v) = TrimSpace(s)
    <2>1. m \in 1 .. Len(s) /\ n \in m .. Len(s) /\ s[m] \notin White /\ s[n] \notin White
      BY <1>5 DEF Spans
    <2>2. \A i \in m .. n : u[i + 1] = s[i] /\ v[i + 0] = s[i]
      BY <1>1, <1>2, <1>3, <2>1
    <2>3. u[m + 1] = s[m] /\ u[n + 1] = s[n] /\ v[m] = s[m] /\ v[n] = s[n]
      BY <2>1, <2>2
    <2>4. Spans(u, m + 1, n + 1)
      <3>1. m + 1 \in 1 .. Len(u) /\ n + 1 \in m + 1 .. Len(u)
        BY <1>1, <1>2, <2>1
      <3>2. ASSUME NEW i \in 1 .. Len(u), u[i] \notin White PROVE i \in m + 1 .. n + 1
        <4>1. i # 1 /\ u[i] = s[i - 1] /\ i - 1 \in 1 .. Len(s)
          BY <1>1, <1>2, <3>2
        <4>2. i - 1 \in m .. n
          BY <1>5, <3>2, <4>1 DEF Spans
        <4> QED BY <1>2, <4>2
      <3> QED BY <2>1, <2>3, <3>1, <3>2 DEF Spans
    <2>5. Spans(v, m + 0, n + 0)
      <3>1. m \in 1 .. Len(v) /\ n \in m .. Len(v)
        BY <1>1, <1>3, <2>1
      <3>2. ASSUME NEW i \in 1 .. Len(v), v[i] \notin White PROVE i \in m .. n
        <4>1. i \in 1 .. Len(s) /\ v[i] = s[i]
          BY <1>1, <1>3, <3>2
        <4> QED BY <1>5, <3>2, <4>1 DEF Spans
      <3>3. Spans(v, m, n)
        BY <2>1, <2>3, <3>1, <3>2 DEF Spans
      <3> QED BY <3>3
    <2>6. TrimSpace(u) = TrimSpace(s)
      BY <1>2, <1>5, <2>2, <2>4, SameTrimmed
    <2>7. TrimSpace(v) = TrimSpace(s)
      BY <1>3, <1>5, <2>2, <2>5, SameTrimmed
    <2> QED BY <2>6, <2>7
  <1>6. TrimSpace(u) = TrimSpace(s) /\ TrimSpace(v) = TrimSpace(s)
    BY <1>4, <1>5, TrimmedIs DEF u, v
  <1> QED BY <1>2, <1>3, <1>6 DEF u, v

LEMMA Stable == ASSUME name \in ByteStrings PROVE SanitizedIsStable
  <1>1. TrimSpace(name) \in ByteStrings
    BY SanitizedTrims
  <1>2. ToSet(Sanitized(name)) \intersect Hostile = {}
    <2>1. /\ Sanitized(name) \in ByteStrings /\ Len(Sanitized(name)) = Len(TrimSpace(name))
          /\ \A i \in 1 .. Len(Sanitized(name)) : Sanitized(name)[i] \notin Hostile
      BY <1>1, ReplacedIs DEF Sanitized
    <2> QED BY <2>1 DEF ToSet, ByteStrings
  <1>3. Sanitized(Sanitized(name)) = Sanitized(name)
    BY <1>1, SanitizedTrims, ReplacedTwice DEF Sanitized
  <1>4. \A w \in White : Sanitized(<<w>> \o name) = Sanitized(name \o <<w>>)
    BY WhiteAround DEF Sanitized
  <1> QED BY <1>2, <1>3, <1>4 DEF SanitizedIsStable

-----------------------------------------------------------------------------
(* The types and the names of variants.                                     *)

\* The format of a variation is a string.
LEMMA FormatIsString ==
  ASSUME NEW es \in Variations
  PROVE  Format(es) \in ByteStrings
  <1> DEFINE I == {i \in 1 .. Len(es) : es[i].key = <<102>>}
             k == SelectInSeq(es, LAMBDA e : e.key = <<102>>)
             given == {v.s : v \in {w \in Get(es, <<102>>) : w.t \in {"sym", "str"}}}
  <1>1. k = IF I # {} THEN Min(I) ELSE 0
    BY DEF SelectInSeq
  <1>2. Get(es, <<102>>) = IF k = 0 THEN {} ELSE {es[k].val}
    BY DEF Get
  <1> HIDE DEF k
  <1>3. I # {} => Min(I) \in I
    BY VariationsAssumption, MinIsThere
  <1>4. k # 0 => k \in 1 .. Len(es)
    BY <1>1, <1>3
  <1>5. \A v \in Get(es, <<102>>) : v.t \in {"sym", "str"} => v.s \in Seq(Nat)
    BY <1>2, <1>4, VariationsAssumption
  <1>6. given \subseteq Seq(Nat)
    BY <1>5
  <1>7. Format(es) = IF given = {} THEN <<112>> ELSE CHOOSE s \in given : TRUE
    BY DEF Format
  <1> HIDE DEF given
  <1>8. CASE given = {}
    BY <1>7, <1>8 DEF ByteStrings
  <1>9. CASE given # {}
    <2>1. (CHOOSE s \in given : TRUE) \in given
      BY <1>9
    <2> QED BY <1>6, <1>7, <1>9, <2>1 DEF ByteStrings
  <1> QED BY <1>8, <1>9

\* What follows place n of the second of two strings.
LEMMA LastPartOfBoth ==
  ASSUME NEW s \in ByteStrings, NEW t \in ByteStrings, NEW n \in 0 .. Len(t)
  PROVE  From(s \o t, Len(s) + n + 1) = From(t, n + 1)
  <1> DEFINE u == s \o t
             a == From(u, (Len(s) + n) + 1)
             b == From(t, n + 1)
  <1>1. /\ u \in ByteStrings /\ Len(u) = Len(s) + Len(t) /\ Len(s) \in Nat /\ Len(t) \in Nat
        /\ \A i \in 1 .. Len(s) + Len(t) : u[i] = IF i <= Len(s) THEN s[i] ELSE t[i - Len(s)]
    BY Joined DEF ByteStrings
  <1> HIDE DEF u
  <1>2. b \in ByteStrings /\ Len(b) = Len(t) - n /\ \A i \in 1 .. Len(t) - n : b[i] = t[n + i]
    BY LastPart
  <1>3. Len(s) + n \in 0 .. Len(u)
    BY <1>1
  <1>4. /\ a \in ByteStrings /\ Len(a) = Len(u) - (Len(s) + n)
        /\ \A i \in 1 .. Len(u) - (Len(s) + n) : a[i] = u[(Len(s) + n) + i]
    BY <1>1, <1>3, LastPart
  <1> HIDE DEF a, b
  <1>5. Len(a) = Len(b)
    BY <1>1, <1>2, <1>4
  <1>6. ASSUME NEW i \in 1 .. Len(a) PROVE a[i] = b[i]
    <2>1. /\ i \in 1 .. Len(u) - (Len(s) + n) /\ i \in 1 .. Len(t) - n
          /\ (Len(s) + n) + i \in 1 .. Len(s) + Len(t) /\ ~ ((Len(s) + n) + i <= Len(s))
          /\ (Len(s) + n) + i - Len(s) = n + i
      BY <1>1, <1>2, <1>4
    <2>2. u[(Len(s) + n) + i] = t[n + i]
      BY <1>1, <2>1
    <2> QED BY <1>2, <1>4, <2>1, <2>2
  <1>7. a = b
    BY <1>2, <1>4, <1>5, <1>6, SeqEqual DEF ByteStrings
  <1> QED BY <1>7 DEF a, b, u

LEMMA NotIn ==
  ASSUME NEW s \in ByteStrings, NEW S, ToSet(s) \intersect S = {}
  PROVE  \A i \in 1 .. Len(s) : s[i] \notin S
  <1>1. \A i \in 1 .. Len(s) : s[i] \in ToSet(s)
    BY DEF ToSet, ByteStrings
  <1> QED BY <1>1

LEMMA DotFirst ==
  ASSUME NEW t \in ByteStrings
  PROVE  /\ <<Dot>> \in ByteStrings /\ Len(<<Dot>>) = 1
         /\ <<Dot>> \o t \in ByteStrings /\ Len(<<Dot>> \o t) = Len(t) + 1 /\ Len(t) \in Nat
         /\ (<<Dot>> \o t)[1] = Dot
         /\ \A i \in 1 .. Len(t) : (<<Dot>> \o t)[i + 1] = t[i]
  <1>1. <<Dot>> \in ByteStrings /\ Len(<<Dot>>) = 1 /\ <<Dot>>[1] = Dot /\ Len(t) \in Nat
    BY DEF Dot, ByteStrings
  <1> DEFINE u == <<Dot>> \o t
  <1>2. /\ u \in ByteStrings /\ Len(u) = Len(<<Dot>>) + Len(t)
        /\ \A i \in 1 .. Len(<<Dot>>) + Len(t) : u[i] = IF i <= Len(<<Dot>>) THEN <<Dot>>[i] ELSE t[i - Len(<<Dot>>)]
    BY <1>1, Joined
  <1> HIDE DEF u
  <1>3. u[1] = Dot /\ \A i \in 1 .. Len(t) : u[i + 1] = t[i]
    BY <1>1, <1>2
  <1> QED BY <1>1, <1>2, <1>3 DEF u

\* The extension of a name that ends with a dot and a format, whatever is before.
LEMMA ExtOfFormat ==
  ASSUME NEW s \in ByteStrings, NEW t \in ByteStrings
  PROVE  FilepathExt(s \o (<<Dot>> \o t)) = FilepathExt(<<Dot>> \o t)
  <1> DEFINE u == <<Dot>> \o t
             x == s \o u
             nd == LastByte(Dot, u)
             ns == LastByte(Slash, u)
  <1>1. u \in ByteStrings /\ Len(u) \in Nat /\ 1 \in 1 .. Len(u) /\ u[1] = Dot /\ Len(s) \in Nat
    BY DotFirst DEF ByteStrings
  <1> HIDE DEF u
  <1>2. nd \in 0 .. Len(u) /\ ns \in 0 .. Len(u) /\ 1 <= nd /\ LastByte(Slash, s) \in 0 .. Len(s)
    BY <1>1, LastByteIsLast
  <1>3. /\ LastByte(Dot, x) = IF nd # 0 THEN Len(s) + nd ELSE LastByte(Dot, s)
        /\ LastByte(Slash, x) = IF ns # 0 THEN Len(s) + ns ELSE LastByte(Slash, s)
    BY <1>1, LastByteOfBoth
  <1> HIDE DEF nd, ns, x
  <1>4. LastByte(Dot, x) = Len(s) + nd /\ (LastByte(Dot, x) > LastByte(Slash, x) <=> nd > ns)
    BY <1>1, <1>2, <1>3
  <1>5. From(x, Len(s) + nd) = From(u, nd)
    <2>1. nd - 1 \in 0 .. Len(u) /\ Len(s) + (nd - 1) + 1 = Len(s) + nd /\ (nd - 1) + 1 = nd
      BY <1>1, <1>2
    <2>2. From(s \o u, Len(s) + (nd - 1) + 1) = From(u, (nd - 1) + 1)
      BY <1>1, <2>1, LastPartOfBoth
    <2> QED BY <2>1, <2>2 DEF x
  <1>6. FilepathExt(x) = FilepathExt(u)
    BY <1>4, <1>5 DEF FilepathExt, nd, ns
  <1> QED BY <1>6 DEF x, u

LEMMA TypeByExt ==
  ASSUME NEW f, NEW g, FilepathExt(f) = FilepathExt(g)
  PROVE  ContentTypeForFilename(f) = ContentTypeForFilename(g)
  BY DEF ContentTypeForFilename

LEMMA NewName ==
  ASSUME NEW s \in ByteStrings, NEW t \in ByteStrings
  PROVE  s \o <<Dot>> \o t = s \o (<<Dot>> \o t)
  BY DotFirst, ConcatAssociative DEF ByteStrings

LEMMA BaseIsString ==
  ASSUME NEW f \in ByteStrings
  PROVE  /\ Base(f) \in ByteStrings /\ Len(Base(f)) \in Nat
         /\ \A i \in 1 .. Len(Base(f)) : Base(f)[i] # Slash
         /\ ToSet(Basename(f)) \ {Dot} # {} => \E i \in 1 .. Len(Base(f)) : Base(f)[i] # Dot
  <1> DEFINE b == Basename(f)
             d == LastByte(Dot, b)
  <1>1. /\ b \in ByteStrings /\ Len(b) \in Nat /\ d \in 0 .. Len(b)
        /\ \A i \in 1 .. Len(b) : b[i] # Slash
        /\ \/ Base(f) = b
           \/ (\E i \in 1 .. d - 1 : b[i] # Dot) /\ Base(f) = SubSeq(b, 1, d - 1)
    BY ExtnameAt, BasenameIs
  <1> HIDE DEF b, d
  <1>2. CASE Base(f) = b
    <2>1. ToSet(b) \ {Dot} # {} => \E i \in 1 .. Len(b) : b[i] # Dot
      BY <1>1 DEF ToSet, ByteStrings
    <2> QED BY <1>1, <1>2, <2>1 DEF b
  <1>3. CASE (\E i \in 1 .. d - 1 : b[i] # Dot) /\ Base(f) = SubSeq(b, 1, d - 1)
    <2>1. d - 1 \in 0 .. Len(b)
      BY <1>1, <1>3
    <2>2. Base(f) \in ByteStrings /\ Len(Base(f)) = d - 1 /\ \A i \in 1 .. d - 1 : Base(f)[i] = b[i]
      BY <1>1, <1>3, <2>1, FirstPart
    <2> QED BY <1>1, <1>3, <2>1, <2>2
  <1> QED BY <1>1, <1>2, <1>3

\* The format is the extension of a name that is more than dots before it.
LEMMA ExtensionIsFormat ==
  ASSUME NEW s \in ByteStrings, NEW t \in ByteStrings,
         \A i \in 1 .. Len(s) : s[i] # Slash, \E i \in 1 .. Len(s) : s[i] # Dot,
         ToSet(t) \intersect {Dot, Slash} = {}
  PROVE  Extension(s \o (<<Dot>> \o t)) = t
  <1> DEFINE u == <<Dot>> \o t
             x == s \o u
  <1>1. /\ u \in ByteStrings /\ Len(u) = Len(t) + 1 /\ Len(t) \in Nat /\ Len(s) \in Nat /\ u[1] = Dot
        /\ \A i \in 1 .. Len(t) : u[i + 1] = t[i]
    BY DotFirst DEF ByteStrings
  <1> HIDE DEF u
  <1>2. /\ x \in ByteStrings /\ Len(x) = Len(s) + Len(u)
        /\ \A i \in 1 .. Len(s) + Len(u) : x[i] = IF i <= Len(s) THEN s[i] ELSE u[i - Len(s)]
    BY <1>1, Joined
  <1> HIDE DEF x
  <1>3. \A i \in 1 .. Len(t) : t[i] # Dot /\ t[i] # Slash
    BY NotIn
  <1>4. \A i \in 2 .. Len(u) : u[i] # Dot /\ u[i] # Slash
    <2> TAKE i \in 2 .. Len(u)
    <2>1. i - 1 \in 1 .. Len(t) /\ (i - 1) + 1 = i
      BY <1>1
    <2>2. u[i] = t[i - 1]
      BY <1>1, <2>1
    <2> QED BY <1>3, <2>1, <2>2
  <1>5. LastByte(Dot, u) = 1
    <2>1. 1 \in 0 .. Len(u) /\ \A i \in 1 .. Len(u) : u[i] = Dot => i <= 1
      BY <1>1, <1>4
    <2> QED BY <1>1, <2>1, LastByteAt
  <1>6. LastByte(Slash, u) = 0 /\ LastByte(Slash, s) = 0
    <2>1. 0 \in 0 .. Len(u) /\ 0 \in 0 .. Len(s) /\ Dot # Slash
      BY <1>1 DEF Dot, Slash
    <2>2. \A i \in 1 .. Len(u) : u[i] = Slash => i <= 0
      BY <1>1, <1>4, <2>1
    <2>3. LastByte(Slash, u) = 0
      BY <1>1, <2>1, <2>2, LastByteAt
    <2>4. LastByte(Slash, s) = 0
      BY <2>1, LastByteAt
    <2> QED BY <2>3, <2>4
  <1>7. LastByte(Dot, x) = Len(s) + 1 /\ LastByte(Slash, x) = 0
    <2>1. /\ LastByte(Dot, x) = IF LastByte(Dot, u) # 0 THEN Len(s) + LastByte(Dot, u) ELSE LastByte(Dot, s)
          /\ LastByte(Slash, x) = IF LastByte(Slash, u) # 0 THEN Len(s) + LastByte(Slash, u)
                                                           ELSE LastByte(Slash, s)
      BY <1>1, LastByteOfBoth DEF x
    <2> QED BY <1>5, <1>6, <2>1
  <1>8. Basename(x) = x
    <2>1. 0 \in 0 .. Len(x) /\ Len(x) \in 0 .. Len(x)
      BY <1>1, <1>2
    <2>2. From(x, 1) = SubSeq(x, 1, Len(x))
      BY DEF From
    <2>3. SubSeq(x, 1, Len(x)) = x
      BY <1>2, <2>1, FirstPart, SeqEqual DEF ByteStrings
    <2> QED BY <1>7, <2>2, <2>3 DEF Basename
  <1>9. From(x, Len(s) + 1) = u
    <2>1. 0 \in 0 .. Len(u) /\ Len(s) + 0 + 1 = Len(s) + 1 /\ 0 + 1 = 1 /\ Len(u) \in 0 .. Len(u)
      BY <1>1
    <2>2. From(s \o u, Len(s) + 0 + 1) = From(u, 0 + 1)
      BY <1>1, <2>1, LastPartOfBoth
    <2>3. SubSeq(u, 1, Len(u)) = u
      BY <1>1, <2>1, FirstPart, SeqEqual DEF ByteStrings
    <2> QED BY <2>1, <2>2, <2>3 DEF From, x
  <1>10. RubyExtname(x) = u
    <2>1. \E i \in 1 .. Len(s) + 1 - 1 : x[i] # Dot
      BY <1>1, <1>2
    <2> QED BY <1>7, <1>8, <1>9, <2>1 DEF RubyExtname
  <1>11. IsPrefix(<<Dot>>, u)
    <2>1. <<Dot>> \in ByteStrings /\ Len(<<Dot>>) = 1 /\ <<Dot>>[1] = Dot /\ 1 \in 0 .. Len(<<Dot>>) /\ 1 \in 0 .. Len(u)
      BY <1>1, DotFirst
    <2> DEFINE a == SubSeq(<<Dot>>, 1, 1)
               b == SubSeq(u, 1, 1)
    <2>2. a \in ByteStrings /\ Len(a) = 1 /\ a[1] = Dot
      <3>1. a \in ByteStrings /\ Len(a) = 1 /\ \A i \in 1 .. 1 : a[i] = <<Dot>>[i]
        BY <2>1, FirstPart
      <3> QED BY <2>1, <3>1
    <2>3. b \in ByteStrings /\ Len(b) = 1 /\ b[1] = Dot
      <3>1. b \in ByteStrings /\ Len(b) = 1 /\ \A i \in 1 .. 1 : b[i] = u[i]
        BY <1>1, <2>1, FirstPart
      <3> QED BY <1>1, <3>1
    <2> HIDE DEF a, b
    <2>4. \A i \in 1 .. Len(a) : a[i] = b[i]
      BY <2>2, <2>3
    <2>5. a = b
      BY <2>2, <2>3, <2>4, SeqEqual DEF ByteStrings
    <2> QED BY <1>1, <2>1, <2>5 DEF IsPrefix, a, b
  <1>12. Tail(u) = t
    <2>1. u # <<>>
      BY <1>1, EmptySeq
    <2>2. /\ Tail(u) \in ByteStrings /\ Len(Tail(u)) = Len(t)
          /\ \A i \in 1 .. Len(t) : Tail(u)[i] = u[i + 1]
      BY <1>1, <2>1, HeadTailProperties DEF ByteStrings
    <2>3. \A i \in 1 .. Len(Tail(u)) : Tail(u)[i] = t[i]
      BY <1>1, <2>2
    <2> QED BY <2>2, <2>3, SeqEqual DEF ByteStrings
  <1>13. Extension(x) = t
    BY <1>10, <1>11, <1>12 DEF Extension
  <1> QED BY <1>13 DEF x, u

LEMMA KeepsFormat == ASSUME name \in ByteStrings PROVE VariantKeepsFormat
  <1> SUFFICES ASSUME NEW es \in Variations, NEW t, t = Format(es)
               PROVE  /\ ContentTypeForFilename(VariantFilename(name, t)) = VariantContentType(t)
                      /\ /\ ToSet(Basename(name)) \ {Dot} # {}
                         /\ ToSet(t) \intersect {Dot, Slash} = {}
                         => Lower(Extension(VariantFilename(name, t))) = Lower(t)
    BY DEF VariantKeepsFormat
  <1>1. t \in ByteStrings /\ Base(name) \in ByteStrings
    BY FormatIsString, BaseIsString
  <1>2. VariantFilename(name, t) = Base(name) \o (<<Dot>> \o t)
    BY <1>1, NewName DEF VariantFilename
  <1>3. <<120, Dot>> \o t = <<120>> \o (<<Dot>> \o t) /\ <<120>> \in ByteStrings
    <2>1. /\ <<120>> \in ByteStrings /\ Len(<<120>>) = 1 /\ <<120>>[1] = 120
          /\ <<Dot>> \in ByteStrings /\ Len(<<Dot>>) = 1 /\ <<Dot>>[1] = Dot
          /\ <<120, Dot>> \in ByteStrings /\ Len(<<120, Dot>>) = 2
          /\ <<120, Dot>>[1] = 120 /\ <<120, Dot>>[2] = Dot
      BY DEF ByteStrings, Dot
    <2> DEFINE x == <<120>> \o <<Dot>>
    <2>2. /\ x \in ByteStrings /\ Len(x) = 1 + 1
          /\ \A i \in 1 .. 1 + 1 : x[i] = IF i <= 1 THEN <<120>>[i] ELSE <<Dot>>[i - 1]
      BY <2>1, Joined
    <2> HIDE DEF x
    <2>3. Len(x) = 2 /\ x[1] = 120 /\ x[2] = Dot
      BY <2>1, <2>2
    <2>4. \A i \in 1 .. Len(x) : x[i] = <<120, Dot>>[i]
      BY <2>1, <2>3
    <2>5. x = <<120, Dot>>
      BY <2>1, <2>2, <2>3, <2>4, SeqEqual DEF ByteStrings
    <2>6. x \o t = <<120>> \o (<<Dot>> \o t)
      BY <1>1, <2>1, NewName DEF x
    <2> QED BY <2>1, <2>5, <2>6
  <1>4. ContentTypeForFilename(VariantFilename(name, t)) = VariantContentType(t)
    <2>1. FilepathExt(VariantFilename(name, t)) = FilepathExt(<<Dot>> \o t)
      BY <1>1, <1>2, ExtOfFormat
    <2>2. FilepathExt(<<120, Dot>> \o t) = FilepathExt(<<Dot>> \o t)
      BY <1>1, <1>3, ExtOfFormat
    <2>3. FilepathExt(VariantFilename(name, t)) = FilepathExt(<<120, Dot>> \o t)
      BY <2>1, <2>2
    <2> QED BY <2>3, TypeByExt DEF VariantContentType
  <1>5. ASSUME ToSet(Basename(name)) \ {Dot} # {}, ToSet(t) \intersect {Dot, Slash} = {}
        PROVE  Lower(Extension(VariantFilename(name, t))) = Lower(t)
    <2>1. Extension(VariantFilename(name, t)) = t
      BY <1>1, <1>2, <1>5, BaseIsString, ExtensionIsFormat
    <2> QED BY <2>1
  <1> QED BY <1>4, <1>5

\* Whatever its name, a blob has a type.
LEMMA NamesHaveTypes == ASSUME NEW f PROVE ContentTypeForFilename(f) # ""
  <1>1. OctetStream # ""
    BY DEF OctetStream
  <1> DEFINE ext == FilepathExt(f)
             known == ExtensionType(Lower(Tail(ext)))
             host == HostType(ext)
  <1>2. ContentTypeForFilename(f) =
          CASE ext = <<>> -> OctetStream
            [] ext # <<>> /\ known # "" -> known
            [] OTHER -> IF host = "" THEN OctetStream ELSE host
    BY DEF ContentTypeForFilename
  <1> HIDE DEF ext, known, host
  <1> QED BY <1>1, <1>2

LEMMA OnlyNarrows == NameOnlyNarrows
  <1> SUFFICES ASSUME NEW data \in Contents, NEW given \in {"", "image/png"}, NEW identify \in BOOLEAN,
                      NEW magic, magic = DetectMagic(data),
                      NEW type, type = UnfurledType(given, identify, data, name)
               PROVE  /\ (given = "" \/ identify) /\ magic # "" => type \in {magic} \union MagicParents(magic)
                      /\ BuiltType(type, name) = type /\ type # ""
    BY DEF NameOnlyNarrows
  <1>1. ContentTypeForFilename(name) # ""
    BY NamesHaveTypes
  <1>2. CASE given = "" \/ identify
    <2>1. type = IF magic = "" \/ ContentTypeForFilename(name) \in MagicParents(magic)
                 THEN ContentTypeForFilename(name) ELSE magic
      BY <1>2 DEF UnfurledType, DetectContentType
    <2>2. type # ""
      BY <1>1, <2>1
    <2> QED BY <2>1, <2>2 DEF BuiltType
  <1>3. CASE ~ (given = "" \/ identify)
    <2>1. type = given /\ type # ""
      BY <1>3 DEF UnfurledType
    <2> QED BY <1>3, <2>1 DEF BuiltType
  <1> QED BY <1>2, <1>3

-----------------------------------------------------------------------------
(* Of any name that can be typed.                                           *)

LEMMA NamesAreStrings == NameSpec => [](name \in ByteStrings)
  <1>1. NameInit => name \in ByteStrings
    BY DEF NameInit, ByteStrings
  <1>2. name \in ByteStrings /\ [Type]_name => (name \in ByteStrings)'
    BY AlphabetAssumption DEF Type, ByteStrings
  <1> QED BY <1>1, <1>2, PTL DEF NameSpec

\* A name of any length is taken apart where Ruby takes it apart, without losing a
\* byte of its basename (filename.go:39-85).
THEOREM NamesArePartitioned == NameSpec => []NamePartition
  BY NamesAreStrings, Partition, PTL

\* A sanitized name of any length has nothing hostile in it and stays as it is when it
\* is sanitized again, and the whitespace around a name leaves no trace (filename.go:87).
THEOREM SanitizingIsStable == NameSpec => []SanitizedIsStable
  BY NamesAreStrings, Stable, PTL

\* A variant's filename has the content type the variant says it has, and its format,
\* in whatever case, as extension if that can be one (variant.go:50-68, :130-135).
THEOREM VariantNamesKeepFormat == NameSpec => []VariantKeepsFormat
  BY NamesAreStrings, KeepsFormat, PTL

\* A name, or the type a caller gives, never makes bytes of a known kind another kind,
\* and every blob has a type (content_type.go:120-140, blob.go:113-148).
THEOREM TypesFollowBytes == NameSpec => []NameOnlyNarrows
  BY NamesAreStrings, OnlyNarrows, PTL
=============================================================================
