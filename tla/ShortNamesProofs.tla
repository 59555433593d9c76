-------------------------- MODULE ShortNamesProofs --------------------------
(***************************************************************************)
(* Short names of any length, whatever paths are written: the name that    *)
(* DirEntry::parse gives an entry determines the entry, so no two files of *)
(* a directory answer to one name; and reading and writing a path lead to  *)
(* the same entry, but for the names in which something is lost.           *)
(***************************************************************************)
EXTENDS ShortNames, FiniteSetTheorems, WellFoundedInduction, TLAPS

(* A set of numbers has a least one, a bounded one a greatest.             *)
LEMMA Least ==
    ASSUME NEW T \in SUBSET Nat, T # {}
    PROVE  \E x \in T : \A y \in T : x <= y
<1>1. PICK x \in T : \A y \in T : ~ (<<y, x>> \in OpToRel(<, Nat))
      BY WFMin, NatLessThanWellFounded
<1>2. \A y \in T : ~ (y < x)
      BY <1>1 DEF OpToRel
<1> QED BY <1>2

(* What SelectLastInSeq finds: the last of a set of places, or 0.          *)
LEMMA LastPlace ==
    ASSUME NEW n \in Nat, NEW T \in SUBSET (1 .. n), NEW k,
           k = IF T # {} THEN Max(T) ELSE 0
    PROVE  /\ k \in 0 .. n /\ \A i \in 1 .. n : i > k => i \notin T
           /\ k # 0 => k \in T
<1>1. CASE T = {}
      BY <1>1
<1>2. CASE T # {}
  <2> DEFINE D == {n - x : x \in T}
  <2>1. PICK x \in T : TRUE
        BY <1>2
  <2>2. n - x \in D
        OBVIOUS
  <2>3. D \in SUBSET Nat /\ D # {}
        BY <2>2
  <2>4. PICK d \in D : \A e \in D : d <= e
        BY <2>3, Least
  <2>5. PICK m \in T : d = n - m
        BY <2>4
  <2>6. \A y \in T : n - m <= n - y
        BY <2>4, <2>5
  <2>7. \A y \in T : m >= y
        BY <2>6
  <2>8. Max(T) \in T /\ \A y \in T : Max(T) >= y
        BY <2>7 DEF Max
  <2>9. k \in T /\ \A y \in T : k >= y
        BY <1>2, <2>8
  <2> QED BY <2>9
<1> QED BY <1>1, <1>2

(* Characters: strings, with those that the code names.                    *)
Char == STRING \cup {Slash, Dot, Space, "A"}

LEMMA Characters ==
    /\ Slash \in Char /\ Dot \in Char /\ Space \in Char /\ Space # Dot
    /\ \A ch \in Char : to_ascii_uppercase(ch) \in Char
    /\ \A ch : /\ to_ascii_uppercase(to_ascii_uppercase(ch)) = to_ascii_uppercase(ch)
               /\ to_ascii_uppercase(ch) = Dot <=> ch = Dot
               /\ to_ascii_uppercase(ch) = Space <=> ch = Space
               /\ to_ascii_uppercase(ch) = NUL <=> ch = NUL
               /\ is_ascii(to_ascii_uppercase(ch)) <=> is_ascii(ch)
    /\ to_ascii_uppercase(Dot) = Dot /\ is_ascii(Space) /\ is_ascii(Dot)
    /\ Paths \subseteq Seq(Char)
<1>1. \A ch \in Char : to_ascii_uppercase(ch) \in Char
      BY DEF Char, to_ascii_uppercase
<1>2. \A s \in Seq(STRING) : s \in Seq(Char)
      BY DEF Char
<1>3. /\ \A ch : /\ to_ascii_uppercase(to_ascii_uppercase(ch)) = to_ascii_uppercase(ch)
                 /\ to_ascii_uppercase(ch) = Dot <=> ch = Dot
                 /\ to_ascii_uppercase(ch) = Space <=> ch = Space
                 /\ to_ascii_uppercase(ch) = NUL <=> ch = NUL
                 /\ is_ascii(to_ascii_uppercase(ch)) <=> is_ascii(ch)
      /\ to_ascii_uppercase(Dot) = Dot /\ Space # Dot /\ is_ascii(Space) /\ is_ascii(Dot)
      BY DEF to_ascii_uppercase, Dot, Space, NUL, is_ascii
<1>4. Slash \in Char /\ Dot \in Char /\ Space \in Char
      BY DEF Char
<1> QED BY <1>1, <1>2, <1>3, <1>4, NamesAssumption

LEMMA LastOf ==
    ASSUME NEW s \in Seq(Char), NEW ch
    PROVE  /\ rfind(s, ch) \in 0 .. Len(s)
           /\ \A i \in 1 .. Len(s) : i > rfind(s, ch) => s[i] # ch
           /\ rfind(s, ch) # 0 => s[rfind(s, ch)] = ch
<1> DEFINE T == {i \in 1 .. Len(s) : s[i] = ch}
<1>1. rfind(s, ch) = IF T # {} THEN Max(T) ELSE 0
      BY DEF rfind, SelectLastInSeq
<1>2. T \in SUBSET (1 .. Len(s)) /\ Len(s) \in Nat
      OBVIOUS
<1>3. /\ rfind(s, ch) \in 0 .. Len(s)
      /\ \A i \in 1 .. Len(s) : i > rfind(s, ch) => i \notin T
      /\ rfind(s, ch) # 0 => rfind(s, ch) \in T
  <2> HIDE DEF T
  <2>1. PICK k : k = rfind(s, ch)
        OBVIOUS
  <2>2. k = IF T # {} THEN Max(T) ELSE 0
        BY <1>1, <2>1
  <2>3. PICK n \in Nat : n = Len(s)
        BY <1>2
  <2>4. k \in 0 .. n /\ (\A i \in 1 .. n : i > k => i \notin T) /\ (k # 0 => k \in T)
        BY <1>2, <2>2, <2>3, LastPlace
  <2> QED BY <2>1, <2>3, <2>4
<1> QED BY <1>3

LEMMA TrimmedIs ==
    ASSUME NEW path \in Seq(Char)
    PROVE  \E k \in 0 .. Len(path) : /\ Trimmed(path) = SubSeq(path, 1, k)
                                     /\ k # 0 => path[k] # Slash
                                     /\ \A i \in 1 .. Len(path) : i > k => path[i] = Slash
<1> DEFINE T == {i \in 1 .. Len(path) : path[i] # Slash}
<1>1. PICK k : k = SelectLastInSeq(path, LAMBDA x : x # Slash)
      OBVIOUS
<1>2. k = IF T # {} THEN Max(T) ELSE 0
      BY <1>1 DEF SelectLastInSeq
<1>3. T \in SUBSET (1 .. Len(path)) /\ Len(path) \in Nat
      OBVIOUS
<1>4. /\ k \in 0 .. Len(path) /\ \A i \in 1 .. Len(path) : i > k => i \notin T
      /\ k # 0 => k \in T
  <2> HIDE DEF T
  <2> QED BY <1>2, <1>3, LastPlace
<1>5. Trimmed(path) = SubSeq(path, 1, k)
      BY <1>1 DEF Trimmed
<1> QED BY <1>4, <1>5

LEMMA TrimmedPath ==
    ASSUME NEW path \in Seq(Char)
    PROVE  Trimmed(path) \in Seq(Char)
    BY TrimmedIs
-----------------------------------------------------------------------------
(* An entry as encode_short_name_8_3 makes it: of the right length, in     *)
(* upper case and in ASCII, without dots.                                  *)
Part(s, n) ==
    /\ s \in Seq(Char) /\ Len(s) = n
    /\ \A i \in 1 .. n : /\ s[i] # Dot /\ to_ascii_uppercase(s[i]) = s[i]
                         /\ is_ascii(s[i])
Encoded(e) ==
    /\ e = [base |-> e.base, ext |-> e.ext]
    /\ Part(e.base, BASE) /\ Part(e.ext, EXT)

(* decode_ascii_trim drops only the padding, so it drops nothing that is   *)
(* not known.                                                              *)
LEMMA TrimIs ==
    ASSUME NEW s \in Seq(Char)
    PROVE  \E k \in 0 .. Len(s) : /\ decode_ascii_trim(s) = SubSeq(s, 1, k)
                                  /\ k # 0 => s[k] # Space
                                  /\ \A i \in 1 .. Len(s) : i > k => s[i] = Space
<1> DEFINE T == {i \in 1 .. Len(s) : s[i] # Space}
<1>1. PICK k : k = SelectLastInSeq(s, LAMBDA ch : ch # Space)
      OBVIOUS
<1>2. k = IF T # {} THEN Max(T) ELSE 0
      BY <1>1 DEF SelectLastInSeq
<1>3. T \in SUBSET (1 .. Len(s)) /\ Len(s) \in Nat
      OBVIOUS
<1>4. k \in 0 .. Len(s) /\ (\A i \in 1 .. Len(s) : i > k => i \notin T) /\ (k # 0 => k \in T)
  <2> HIDE DEF T
  <2> QED BY <1>2, <1>3, LastPlace
<1>5. decode_ascii_trim(s) = SubSeq(s, 1, k)
      BY <1>1 DEF decode_ascii_trim
<1> QED BY <1>4, <1>5

LEMMA TrimShape ==
    ASSUME NEW s \in Seq(Char)
    PROVE  /\ decode_ascii_trim(s) \in Seq(Char)
           /\ Len(decode_ascii_trim(s)) <= Len(s)
           /\ \A i \in 1 .. Len(decode_ascii_trim(s)) : decode_ascii_trim(s)[i] = s[i]
           /\ \A i \in 1 .. Len(s) : i > Len(decode_ascii_trim(s)) => s[i] = Space
<1>1. PICK k \in 0 .. Len(s) : /\ decode_ascii_trim(s) = SubSeq(s, 1, k)
                               /\ \A i \in 1 .. Len(s) : i > k => s[i] = Space
      BY TrimIs
<1> QED BY <1>1

LEMMA TrimInjective ==
    ASSUME NEW n \in Nat, NEW s, NEW t, Part(s, n), Part(t, n),
           decode_ascii_trim(s) = decode_ascii_trim(t)
    PROVE  s = t
<1> DEFINE k == Len(decode_ascii_trim(s))
<1>1. s \in Seq(Char) /\ t \in Seq(Char) /\ Len(s) = n /\ Len(t) = n
      BY DEF Part
<1>2. k \in Nat
      BY <1>1, TrimShape
<1>3. /\ \A i \in 1 .. k : s[i] = t[i]
      /\ \A i \in 1 .. n : i > k => s[i] = t[i]
      BY <1>1, TrimShape
<1> HIDE DEF k
<1>4. \A i \in 1 .. n : s[i] = t[i]
      BY <1>2, <1>3
<1> QED BY <1>1, <1>4

(* The characters of the name of an entry.                                 *)
LEMMA NameShape ==
    ASSUME NEW e, Encoded(e)
    PROVE  LET b == decode_ascii_trim(e.base)
               x == decode_ascii_trim(e.ext)
               p == parse(e)
           IN  /\ b \in Seq(Char) /\ x \in Seq(Char) /\ p \in Seq(Char)
               /\ Len(p) = Len(b) + (IF x = <<>> THEN 0 ELSE 1 + Len(x))
               /\ \A i \in 1 .. Len(b) : p[i] = b[i] /\ b[i] # Dot
               /\ x # <<>> => p[Len(b) + 1] = Dot
               /\ x # <<>> => \A i \in 1 .. Len(x) : p[Len(b) + 1 + i] = x[i]
               /\ normalize_name(p) = p
<1> DEFINE b == decode_ascii_trim(e.base)
           x == decode_ascii_trim(e.ext)
           p == parse(e)
<1>1. /\ e.base \in Seq(Char) /\ e.ext \in Seq(Char)
      /\ Len(e.base) = BASE /\ Len(e.ext) = EXT
      BY DEF Encoded, Part
<1>2. /\ b \in Seq(Char) /\ Len(b) <= BASE /\ \A i \in 1 .. Len(b) : b[i] = e.base[i]
      /\ x \in Seq(Char) /\ Len(x) <= EXT /\ \A i \in 1 .. Len(x) : x[i] = e.ext[i]
      BY <1>1, TrimShape
<1>3. /\ \A i \in 1 .. Len(b) : b[i] # Dot /\ to_ascii_uppercase(b[i]) = b[i]
      /\ \A i \in 1 .. Len(x) : to_ascii_uppercase(x[i]) = x[i]
      BY <1>1, <1>2, NamesAssumption DEF Encoded, Part
<1>4. p = b \o (IF x = <<>> THEN <<>> ELSE <<Dot>> \o x)
      BY DEF parse
<1> HIDE DEF b, x, p
<1>5. Dot \in Char /\ to_ascii_uppercase(Dot) = Dot
      BY Characters
<1>6. CASE x = <<>>
  <2>1. p = b
        BY <1>2, <1>4, <1>6
  <2>2. normalize_name(p) = p
        BY <1>2, <1>3, <2>1 DEF normalize_name
  <2> QED BY <1>2, <1>3, <1>6, <2>1, <2>2 DEF b, x, p
<1>7. CASE x # <<>>
  <2>1. p = b \o (<<Dot>> \o x)
        BY <1>4, <1>7
  <2>2. <<Dot>> \in Seq(Char) /\ Len(<<Dot>>) = 1 /\ <<Dot>>[1] = Dot
        BY <1>5
  <2> DEFINE t == <<Dot>> \o x
  <2>3. /\ t \in Seq(Char) /\ Len(t) = 1 + Len(x) /\ t[1] = Dot
        /\ \A i \in 1 .. Len(x) : t[1 + i] = x[i]
        BY <1>2, <2>2
  <2>4. p = b \o t
        BY <2>1
  <2> HIDE DEF t
  <2>5. /\ p \in Seq(Char) /\ Len(p) = Len(b) + Len(t)
        /\ \A i \in 1 .. Len(b) : p[i] = b[i]
        /\ \A i \in 1 .. Len(t) : p[Len(b) + i] = t[i]
    <3>1. b \in Seq(Char) /\ t \in Seq(Char)
          BY <1>2, <2>3
    <3> QED BY <2>4, <3>1
  <2>6. p[Len(b) + 1] = Dot
        BY <1>2, <2>3, <2>5
  <2>7. \A i \in 1 .. Len(x) : p[Len(b) + 1 + i] = x[i]
    <3> SUFFICES ASSUME NEW i \in 1 .. Len(x) PROVE p[Len(b) + 1 + i] = x[i]
        OBVIOUS
    <3>1. 1 + i \in 1 .. Len(t) /\ Len(b) + (1 + i) = Len(b) + 1 + i
          BY <1>2, <2>3
    <3> QED BY <2>3, <2>5, <3>1
  <2>8. \A i \in 1 .. Len(p) : to_ascii_uppercase(p[i]) = p[i]
    <3> SUFFICES ASSUME NEW i \in 1 .. Len(p) PROVE to_ascii_uppercase(p[i]) = p[i]
        OBVIOUS
    <3>1. CASE i <= Len(b)
          BY <1>2, <1>3, <2>5, <3>1
    <3>2. CASE i = Len(b) + 1
          BY <1>5, <2>6, <3>2
    <3>3. CASE i > Len(b) + 1
      <4>1. PICK j \in 1 .. Len(x) : i = Len(b) + 1 + j
        <5>1. i - (Len(b) + 1) \in 1 .. Len(x)
              BY <1>2, <2>3, <2>5, <3>3
        <5>2. i = Len(b) + 1 + (i - (Len(b) + 1))
              BY <1>2, <2>5
        <5> QED BY <5>1, <5>2
      <4> QED BY <1>3, <2>7, <4>1
    <3> QED BY <1>2, <2>5, <3>1, <3>2, <3>3
  <2>9. normalize_name(p) = p
        BY <2>5, <2>8 DEF normalize_name
  <2>10. Len(p) = Len(b) + (1 + Len(x))
        BY <2>3, <2>5
  <2> QED BY <1>2, <1>3, <1>7, <2>5, <2>6, <2>7, <2>9, <2>10 DEF b, x, p
<1> QED BY <1>6, <1>7

(* Two entries whose names are equal but for the case are equal.  The dot  *)
(* that parse inserts is the first one, so it tells base and extension     *)
(* apart; the padding is known.                                            *)
LEMMA NamesTell ==
    ASSUME NEW e, NEW f, Encoded(e), Encoded(f),
           normalize_name(parse(e)) = normalize_name(parse(f))
    PROVE  e = f
<1> DEFINE b == decode_ascii_trim(e.base)
           x == decode_ascii_trim(e.ext)
           p == parse(e)
           c == decode_ascii_trim(f.base)
           y == decode_ascii_trim(f.ext)
<1>1. p = parse(f)
      BY NameShape
<1>2. /\ b \in Seq(Char) /\ x \in Seq(Char)
      /\ Len(p) = Len(b) + (IF x = <<>> THEN 0 ELSE 1 + Len(x))
      /\ \A i \in 1 .. Len(b) : p[i] = b[i] /\ b[i] # Dot
      /\ x # <<>> => p[Len(b) + 1] = Dot
      /\ x # <<>> => \A i \in 1 .. Len(x) : p[Len(b) + 1 + i] = x[i]
      BY NameShape
<1>3. /\ c \in Seq(Char) /\ y \in Seq(Char)
      /\ Len(p) = Len(c) + (IF y = <<>> THEN 0 ELSE 1 + Len(y))
      /\ \A i \in 1 .. Len(c) : p[i] = c[i] /\ c[i] # Dot
      /\ y # <<>> => p[Len(c) + 1] = Dot
      /\ y # <<>> => \A i \in 1 .. Len(y) : p[Len(c) + 1 + i] = y[i]
  <2>1. PICK q : q = parse(f)
        OBVIOUS
  <2>2. /\ c \in Seq(Char) /\ y \in Seq(Char)
        /\ Len(q) = Len(c) + (IF y = <<>> THEN 0 ELSE 1 + Len(y))
        /\ \A i \in 1 .. Len(c) : q[i] = c[i] /\ c[i] # Dot
        /\ y # <<>> => q[Len(c) + 1] = Dot
        /\ y # <<>> => \A i \in 1 .. Len(y) : q[Len(c) + 1 + i] = y[i]
        BY <2>1, NameShape
  <2>3. p = q
        BY <1>1, <2>1
  <2> HIDE DEF c, y, p
  <2> QED BY <2>2, <2>3
<1> HIDE DEF b, x, p, c, y
<1>4. Len(b) = Len(c)
  <2>1. CASE Len(b) < Len(c)
    <3>1. Len(b) + 1 \in 1 .. Len(c)
          BY <1>2, <1>3, <2>1
    <3>2. p[Len(b) + 1] # Dot
          BY <1>3, <3>1
    <3>3. x = <<>> /\ Len(p) = Len(b)
          BY <1>2, <3>2
    <3>4. Len(p) >= Len(c)
          BY <1>3
    <3> QED BY <1>2, <1>3, <2>1, <3>3, <3>4
  <2>2. CASE Len(c) < Len(b)
    <3>1. Len(c) + 1 \in 1 .. Len(b)
          BY <1>2, <1>3, <2>2
    <3>2. p[Len(c) + 1] # Dot
          BY <1>2, <3>1
    <3>3. y = <<>> /\ Len(p) = Len(c)
          BY <1>3, <3>2
    <3>4. Len(p) >= Len(b)
          BY <1>2
    <3> QED BY <1>2, <1>3, <2>2, <3>3, <3>4
  <2> QED BY <1>2, <1>3, <2>1, <2>2
<1>5. b = c
  <2>1. \A i \in 1 .. Len(b) : b[i] = c[i]
        BY <1>2, <1>3, <1>4
  <2> QED BY <1>2, <1>3, <1>4, <2>1
<1>6. x = y
  <2>1. x = <<>> <=> y = <<>>
        BY <1>2, <1>3, <1>4
  <2>2. CASE x = <<>>
        BY <2>1, <2>2
  <2>3. CASE x # <<>>
    <3>1. Len(x) = Len(y)
          BY <1>2, <1>3, <1>4, <2>1, <2>3
    <3>2. \A i \in 1 .. Len(x) : x[i] = y[i]
          BY <1>2, <1>3, <1>4, <2>1, <2>3, <3>1
    <3>3. x \in Seq(Char) /\ y \in Seq(Char)
          BY <1>2, <1>3
    <3> QED BY <3>1, <3>2, <3>3
  <2> QED BY <2>2, <2>3
<1>7. BASE \in Nat /\ EXT \in Nat
      BY NamesAssumption
<1>8. e.base = f.base
      BY <1>5, <1>7, TrimInjective DEF b, c, Encoded
<1>9. e.ext = f.ext
      BY <1>6, <1>7, TrimInjective DEF x, y, Encoded
<1> QED BY <1>8, <1>9 DEF Encoded
-----------------------------------------------------------------------------
(* A field of an entry: the text in upper case, then spaces.               *)
LEMMA PaddedIs ==
    ASSUME NEW s \in Seq(Char), NEW n \in Nat, Len(s) <= n, NEW u, u = normalize_name(Padded(s, n))
    PROVE  /\ u \in Seq(Char) /\ Len(u) = n
           /\ \A i \in 1 .. n : u[i] = IF i <= Len(s) THEN to_ascii_uppercase(s[i]) ELSE Space
<1> DEFINE t == [i \in 1 .. n - Len(s) |-> Space]
           v == Padded(s, n)
<1>1. t \in Seq(Char) /\ Len(t) = n - Len(s) /\ \A i \in 1 .. Len(t) : t[i] = Space
  <2>1. n - Len(s) \in Nat
        OBVIOUS
  <2> QED BY <2>1, Characters
<1>2. v = s \o t
      BY DEF Padded
<1> HIDE DEF t, v
<1>3. /\ v \in Seq(Char) /\ Len(v) = Len(s) + Len(t)
      /\ \A i \in 1 .. Len(v) : v[i] = IF i <= Len(s) THEN s[i] ELSE t[i - Len(s)]
      BY <1>1, <1>2
<1>4. Len(v) = n
      BY <1>1, <1>3
<1>5. \A i \in 1 .. n : v[i] = IF i <= Len(s) THEN s[i] ELSE Space
  <2> SUFFICES ASSUME NEW i \in 1 .. n PROVE v[i] = IF i <= Len(s) THEN s[i] ELSE Space
      OBVIOUS
  <2>1. CASE i <= Len(s)
        BY <1>3, <1>4, <2>1
  <2>2. CASE i > Len(s)
    <3>1. i - Len(s) \in 1 .. Len(t)
          BY <1>1, <2>2
    <3> QED BY <1>1, <1>3, <1>4, <2>2, <3>1
  <2> QED BY <2>1, <2>2
<1>6. u = [i \in 1 .. n |-> to_ascii_uppercase(v[i])]
      BY <1>4 DEF normalize_name, v
<1>7. \A i \in 1 .. n : to_ascii_uppercase(v[i]) \in Char
      BY <1>3, <1>4, Characters
<1>8. u \in Seq(Char) /\ Len(u) = n
      BY <1>6, <1>7
<1>9. to_ascii_uppercase(Space) = Space
      BY Characters
<1> QED BY <1>5, <1>6, <1>8, <1>9

(* Without trailing spaces in the text, the text is what is left of it.    *)
LEMMA PaddedTrims ==
    ASSUME NEW s \in Seq(Char), NEW n \in Nat, Len(s) <= n
    PROVE  decode_ascii_trim(normalize_name(Padded(s, n))) = normalize_name(s)
               <=> ~ EndsIn(s, Space)
<1>1. PICK u : u = normalize_name(Padded(s, n))
      OBVIOUS
<1>2. /\ u \in Seq(Char) /\ Len(u) = n /\ Len(s) \in Nat
      /\ \A i \in 1 .. n : u[i] = IF i <= Len(s) THEN to_ascii_uppercase(s[i]) ELSE Space
      BY <1>1, PaddedIs
<1>3. PICK k \in 0 .. n : /\ decode_ascii_trim(u) = SubSeq(u, 1, k) /\ (k # 0 => u[k] # Space)
                          /\ \A i \in 1 .. n : i > k => u[i] = Space
      BY <1>2, TrimIs
<1>4. Len(SubSeq(u, 1, k)) = k /\ \A i \in 1 .. k : SubSeq(u, 1, k)[i] = u[i]
      BY <1>2
<1>5. /\ normalize_name(s) = [i \in 1 .. Len(s) |-> to_ascii_uppercase(s[i])]
      /\ Len(normalize_name(s)) = Len(s)
      BY <1>2 DEF normalize_name
<1>6. k <= Len(s)
  <2> SUFFICES ASSUME k > Len(s) PROVE FALSE
      BY <1>2
  <2>1. k \in 1 .. n /\ u[k] = Space
        BY <1>2
  <2> QED BY <1>3, <2>1
<1>7. CASE k = Len(s)
  <2>1. SubSeq(u, 1, k) = normalize_name(s)
    <3>1. SubSeq(u, 1, k) = [i \in 1 .. k |-> u[i]]
          BY <1>2, <1>3
    <3>2. \A i \in 1 .. k : u[i] = to_ascii_uppercase(s[i])
          BY <1>2, <1>7
    <3> QED BY <1>5, <1>7, <3>1, <3>2
  <2>2. ~ EndsIn(s, Space)
    <3>1. s # <<>> => k # 0 /\ u[k] = to_ascii_uppercase(s[k]) /\ Last(s) = s[k]
          BY <1>2, <1>7 DEF Last
    <3> QED BY <1>3, <3>1, Characters DEF EndsIn
  <2> QED BY <1>1, <1>3, <2>1, <2>2
<1>8. CASE k < Len(s)
  <2>1. SubSeq(u, 1, k) # normalize_name(s)
        BY <1>4, <1>5, <1>8
  <2>2. u[Len(s)] = Space /\ u[Len(s)] = to_ascii_uppercase(s[Len(s)]) /\ s # <<>>
        BY <1>2, <1>3, <1>8
  <2>3. EndsIn(s, Space)
        BY <2>2, Characters DEF EndsIn, Last
  <2> QED BY <1>1, <1>3, <2>1, <2>3
<1> QED BY <1>2, <1>6, <1>7, <1>8

(* encode_short_name_8_3 makes such an entry of a name that it accepts.    *)
LEMMA PartEncoded ==
    ASSUME NEW s \in Seq(Char), NEW n \in Nat, Len(s) <= n,
           \A i \in 1 .. Len(s) : s[i] # Dot /\ is_ascii(s[i])
    PROVE  Part(normalize_name(Padded(s, n)), n)
<1>1. PICK u : u = normalize_name(Padded(s, n))
      OBVIOUS
<1>2. /\ u \in Seq(Char) /\ Len(u) = n
      /\ \A i \in 1 .. n : u[i] = IF i <= Len(s) THEN to_ascii_uppercase(s[i]) ELSE Space
      BY <1>1, PaddedIs
<1>3. ASSUME NEW i \in 1 .. n
      PROVE  u[i] # Dot /\ to_ascii_uppercase(u[i]) = u[i] /\ is_ascii(u[i])
  <2>1. CASE i <= Len(s)
    <3>1. i \in 1 .. Len(s) /\ u[i] = to_ascii_uppercase(s[i])
          BY <1>2, <2>1
    <3> QED BY <3>1, Characters
  <2>2. CASE i > Len(s)
        BY <1>2, <2>2, Characters
  <2> QED BY <2>1, <2>2
<1> QED BY <1>1, <1>2, <1>3 DEF Part

(* What a name is cut into, at its last dot.                               *)
LEMMA NameParts ==
    ASSUME NEW name \in Seq(Char), NEW r, r = rfind(name, Dot)
    PROVE  /\ r \in 0 .. Len(name) /\ Base(name) \in Seq(Char) /\ Ext(name) \in Seq(Char)
           /\ \A i \in 1 .. Len(Ext(name)) : Ext(name)[i] # Dot
           /\ r = 0 => /\ Base(name) = name /\ Ext(name) = <<>>
                       /\ \A i \in 1 .. Len(name) : name[i] # Dot
           /\ r # 0 => /\ Len(Base(name)) = r - 1 /\ Len(Ext(name)) = Len(name) - r
                       /\ name[r] = Dot
                       /\ \A i \in 1 .. r - 1 : Base(name)[i] = name[i]
                       /\ \A i \in 1 .. Len(name) - r : Ext(name)[i] = name[r + i]
<1>1. /\ r \in 0 .. Len(name) /\ Len(name) \in Nat
      /\ \A i \in 1 .. Len(name) : i > r => name[i] # Dot
      /\ r # 0 => name[r] = Dot
      BY LastOf
<1>2. CASE r = 0
  <2>1. Base(name) = name /\ Ext(name) = <<>>
        BY <1>2 DEF Base, Ext
  <2> QED BY <1>1, <1>2, <2>1
<1>3. CASE r # 0
  <2>1. r \in 1 .. Len(name)
        BY <1>1, <1>3
  <2>2. Ext(name) = SubSeq(name, r + 1, Len(name)) /\ Base(name) = SubSeq(name, 1, r - 1)
        BY <1>3 DEF Base, Ext, From
  <2>3. /\ Ext(name) \in Seq(Char) /\ Len(Ext(name)) = Len(name) - r
        /\ \A i \in 1 .. Len(name) - r : Ext(name)[i] = name[r + i]
        BY <2>1, <2>2
  <2>4. /\ Base(name) \in Seq(Char) /\ Len(Base(name)) = r - 1
        /\ \A i \in 1 .. r - 1 : Base(name)[i] = name[i]
        BY <2>1, <2>2
  <2>5. \A i \in 1 .. Len(name) - r : r + i \in 1 .. Len(name) /\ r + i > r
        BY <2>1
  <2>6. \A i \in 1 .. Len(name) - r : Ext(name)[i] # Dot
        BY <1>1, <2>3, <2>5
  <2> QED BY <1>1, <1>3, <2>3, <2>4, <2>6
<1> QED BY <1>2, <1>3

LEMMA NameEncoded ==
    ASSUME NEW name \in Seq(Char), Encodable(name)
    PROVE  Encoded(encode_short_name_8_3(name))
<1>1. PICK r : r = rfind(name, Dot)
      OBVIOUS
<1>2. /\ Base(name) \in Seq(Char) /\ Ext(name) \in Seq(Char)
      /\ \A i \in 1 .. Len(Ext(name)) : Ext(name)[i] # Dot
      BY <1>1, NameParts
<1>3. \A i \in 1 .. Len(Base(name)) : Base(name)[i] # Dot
      BY <1>2 DEF Encodable, Contains
<1>4. \A i \in 1 .. Len(name) : is_ascii(name[i])
      BY DEF Encodable, ToSet
<1>5. /\ \A i \in 1 .. Len(Base(name)) : is_ascii(Base(name)[i])
      /\ \A i \in 1 .. Len(Ext(name)) : is_ascii(Ext(name)[i])
  <2>1. CASE r = 0
    <3>1. Base(name) = name /\ Ext(name) = <<>>
          BY <1>1, <2>1, NameParts
    <3> QED BY <1>4, <3>1
  <2>2. CASE r # 0
    <3>1. /\ r \in 1 .. Len(name)
          /\ Len(Base(name)) = r - 1 /\ Len(Ext(name)) = Len(name) - r
          /\ \A i \in 1 .. r - 1 : Base(name)[i] = name[i]
          /\ \A i \in 1 .. Len(name) - r : Ext(name)[i] = name[r + i]
          BY <1>1, <2>2, NameParts
    <3>2. \A i \in 1 .. Len(name) - r : r + i \in 1 .. Len(name)
          BY <3>1
    <3>3. \A i \in 1 .. r - 1 : is_ascii(Base(name)[i])
          BY <1>4, <3>1
    <3>4. \A i \in 1 .. Len(name) - r : is_ascii(Ext(name)[i])
          BY <1>4, <3>1, <3>2
    <3> QED BY <3>1, <3>3, <3>4
  <2> QED BY <2>1, <2>2
<1>6. Len(Base(name)) <= BASE /\ Len(Ext(name)) <= EXT /\ BASE \in Nat /\ EXT \in Nat
      BY NamesAssumption DEF Encodable
<1>7. /\ Part(normalize_name(Padded(Base(name), BASE)), BASE)
      /\ Part(normalize_name(Padded(Ext(name), EXT)), EXT)
      BY <1>2, <1>3, <1>5, <1>6, PartEncoded
<1> QED BY <1>7 DEF Encoded, encode_short_name_8_3

LEMMA FileNameSeq ==
    ASSUME NEW path \in Paths
    PROVE  FileName(path) \in Seq(Char)
<1>1. Trimmed(path) \in Seq(Char)
      BY TrimmedPath, Characters
<1>2. rfind(Trimmed(path), Slash) \in 0 .. Len(Trimmed(path))
      BY <1>1, LastOf
<1> QED BY <1>1, <1>2 DEF FileName, From
-----------------------------------------------------------------------------
(* The entries before the end mark are the first ones of the directory.    *)
LEMMA ListedPrefix ==
    ASSUME NEW S, NEW d \in Seq(S)
    PROVE  /\ Listed(d) \in Seq(S) /\ Len(Listed(d)) <= Len(d)
           /\ \A i \in 1 .. Len(Listed(d)) : Listed(d)[i] = d[i] /\ d[i].base[1] # NUL
           /\ \A k \in 1 .. Len(d) :
                 (\A i \in 1 .. k : d[i].base[1] # NUL) => k <= Len(Listed(d))
<1> DEFINE end == [base |-> <<NUL>>]
           a == Append(d, end)
           I == {i \in 1 .. Len(a) : a[i].base[1] = NUL}
<1>1. PICK n : n = SelectInSeq(a, LAMBDA e : e.base[1] = NUL)
      OBVIOUS
<1>2. n = IF I # {} THEN Min(I) ELSE 0
      BY <1>1 DEF SelectInSeq
<1>3. /\ Len(a) = Len(d) + 1 /\ a[Len(d) + 1] = end /\ Len(d) \in Nat
      /\ \A i \in 1 .. Len(d) : a[i] = d[i]
  <2> DEFINE T == S \cup {end}
  <2>1. d \in Seq(T) /\ end \in T
        OBVIOUS
  <2> HIDE DEF T, end
  <2> QED BY <2>1
<1>4. Len(d) + 1 \in I
  <2>1. a[Len(d) + 1].base = <<NUL>>
        BY <1>3
  <2>2. <<NUL>>[1] = NUL
        OBVIOUS
  <2> QED BY <1>3, <2>1, <2>2
<1>5. I \in SUBSET Nat
      BY <1>3
<1> HIDE DEF I
<1>6. \E x \in I : \A y \in I : x <= y
      BY <1>4, <1>5, Least
<1>7. Min(I) \in I /\ \A y \in I : Min(I) <= y
      BY <1>6 DEF Min
<1>8. n \in 1 .. Len(d) + 1 /\ n \in I /\ \A y \in I : n <= y
      BY <1>2, <1>3, <1>4, <1>7 DEF I
<1>9. Listed(d) = SubSeq(d, 1, n - 1)
      BY <1>1 DEF Listed
<1>10. /\ Listed(d) \in Seq(S) /\ Len(Listed(d)) = n - 1
       /\ \A i \in 1 .. n - 1 : Listed(d)[i] = d[i]
       BY <1>3, <1>8, <1>9
<1>11. ASSUME NEW i \in 1 .. n - 1 PROVE d[i].base[1] # NUL
  <2>1. i \notin I /\ i \in 1 .. Len(d)
        BY <1>3, <1>5, <1>8
  <2> QED BY <1>3, <2>1 DEF I
<1>12. ASSUME NEW k \in 1 .. Len(d), \A i \in 1 .. k : d[i].base[1] # NUL
       PROVE  k <= n - 1
  <2> SUFFICES ASSUME n <= k PROVE FALSE
      BY <1>3, <1>8
  <2>1. n \in 1 .. k /\ a[n] = d[n]
        BY <1>3, <1>8
  <2>2. a[n].base[1] = NUL
        BY <1>8 DEF I
  <2> HIDE DEF a
  <2>3. d[n].base[1] # NUL
        BY <1>12, <2>1
  <2>4. d[n].base[1] = NUL
        BY <2>1, <2>2
  <2> QED BY <2>3, <2>4
<1>13. PICK l : l = Listed(d)
       OBVIOUS
<1>14. l \in Seq(S) /\ Len(l) = n - 1 /\ Len(l) <= Len(d)
       BY <1>3, <1>8, <1>10, <1>13
<1>15. \A i \in 1 .. Len(l) : l[i] = d[i] /\ d[i].base[1] # NUL
       BY <1>10, <1>11, <1>13, <1>14
<1>16. \A k \in 1 .. Len(d) : (\A i \in 1 .. k : d[i].base[1] # NUL) => k <= Len(l)
       BY <1>12, <1>14
<1> QED BY <1>13, <1>14, <1>15, <1>16

(* An entry that find_dir_entry_offset_by_short_name does not find is not  *)
(* among them.                                                             *)
LEMMA NotFound ==
    ASSUME NEW S, NEW d \in Seq(S), NEW raw, find_dir_entry(d, raw) = 0
    PROVE  \A i \in 1 .. Len(Listed(d)) : Listed(d)[i] # raw
<1> DEFINE I == {i \in 1 .. Len(Listed(d)) : Listed(d)[i] = raw}
<1>1. find_dir_entry(d, raw) = IF I # {} THEN Min(I) ELSE 0
      BY DEF find_dir_entry, SelectInSeq
<1>2. I \in SUBSET Nat /\ 0 \notin I
      OBVIOUS
<1>3. I = {}
  <2> SUFFICES ASSUME I # {} PROVE FALSE
      OBVIOUS
  <2> HIDE DEF I
  <2>1. \E x \in I : \A y \in I : x <= y
        BY <1>2, Least
  <2>2. Min(I) \in I
        BY <2>1 DEF Min
  <2> QED BY <1>1, <1>2, <2>2
<1> QED BY <1>3

(* The invariant: the entries are encoded names, all different, in the     *)
(* slots that there are, and none but the last is an end mark.             *)
Entries ==
    {e \in {[base |-> s, ext |-> t] : s \in Seq(Char), t \in Seq(Char)} : Encoded(e)}
NamesInv ==
    /\ dir \in Seq(Entries)
    /\ Len(dir) <= Slots
    /\ \A i, j \in 1 .. Len(dir) : dir[i] = dir[j] => i = j
    /\ \A i \in 1 .. Len(dir) : i < Len(dir) => dir[i].base[1] # NUL

LEMMA NamesInvHolds == Spec => []NamesInv
<1>1. Init => NamesInv
  <2> SUFFICES ASSUME Init PROVE NamesInv
      OBVIOUS
  <2>1. dir = <<>> /\ Len(dir) = 0 /\ dir \in Seq(Entries)
        BY DEF Init
  <2>2. Slots \in Nat
        BY NamesAssumption
  <2> QED BY <2>1, <2>2 DEF NamesInv
<1>2. NamesInv /\ [Next]_vars => NamesInv'
  <2> SUFFICES ASSUME NamesInv, [Next]_vars PROVE NamesInv'
      OBVIOUS
  <2>1. CASE UNCHANGED dir
        BY <2>1 DEF NamesInv
  <2>2. ASSUME NEW path \in Paths, Encodable(FileName(path)),
               Create(encode_short_name_8_3(FileName(path))), ~ UNCHANGED dir
        PROVE  NamesInv'
    <3> DEFINE raw == encode_short_name_8_3(FileName(path))
               l == Listed(dir)
    <3>1. Encoded(raw)
          BY <2>2, FileNameSeq, NameEncoded
    <3>2. raw \in Entries
          BY <3>1 DEF Entries, Encoded, Part
    <3>3. dir \in Seq(Entries)
          BY DEF NamesInv
    <3>4. find_dir_entry(dir, raw) = 0 /\ Len(l) < Slots /\ dir' = Append(l, raw)
          BY <2>2 DEF Create
    <3> HIDE DEF raw
    <3>5. /\ l \in Seq(Entries) /\ Len(l) <= Len(dir)
          /\ \A i \in 1 .. Len(l) : l[i] = dir[i] /\ dir[i].base[1] # NUL
          BY <3>3, ListedPrefix
    <3>6. \A i \in 1 .. Len(l) : l[i] # raw
          BY <3>3, <3>4, NotFound
    <3> HIDE DEF l
    <3>7. /\ dir' \in Seq(Entries) /\ Len(dir') = Len(l) + 1
          /\ \A i \in 1 .. Len(l) : dir'[i] = l[i]
          /\ dir'[Len(l) + 1] = raw
          BY <3>2, <3>4, <3>5
    <3>8. Len(dir') <= Slots
          BY <3>4, <3>5, <3>7, NamesAssumption
    <3>9. Len(l) \in Nat /\ Len(dir) \in Nat
          BY <3>3, <3>5
    <3>10. ASSUME NEW i \in 1 .. Len(dir'), NEW j \in 1 .. Len(dir'), dir'[i] = dir'[j]
           PROVE  i = j
      <4>1. CASE i <= Len(l) /\ j <= Len(l)
        <5>1. dir[i] = dir[j] /\ i \in 1 .. Len(dir) /\ j \in 1 .. Len(dir)
              BY <3>5, <3>7, <3>9, <3>10, <4>1
        <5> QED BY <5>1 DEF NamesInv
      <4>2. CASE i <= Len(l) /\ j > Len(l)
            BY <3>6, <3>7, <3>9, <3>10, <4>2
      <4>3. CASE i > Len(l) /\ j <= Len(l)
            BY <3>6, <3>7, <3>9, <3>10, <4>3
      <4>4. CASE i > Len(l) /\ j > Len(l)
            BY <3>7, <3>9, <4>4
      <4> QED BY <3>7, <3>9, <4>1, <4>2, <4>3, <4>4
    <3>11. ASSUME NEW i \in 1 .. Len(dir'), i < Len(dir') PROVE dir'[i].base[1] # NUL
      <4>1. i \in 1 .. Len(l)
            BY <3>7, <3>9, <3>11
      <4> QED BY <3>5, <3>7, <4>1
    <3> QED BY <3>7, <3>8, <3>10, <3>11 DEF NamesInv
  <2>3. CASE UNCHANGED vars
        BY <2>1, <2>3 DEF vars
  <2>4. ASSUME NEW path \in Paths, write_file_by_path(path, Refusal(path)), ~ UNCHANGED dir
        PROVE  NamesInv'
    <3> DEFINE raw == encode_short_name_8_3(FileName(path))
    <3>1. Refusal(path) = "none"
          BY <2>4 DEF write_file_by_path, Refused
    <3>2. Overwrite(raw) \/ Create(raw)
          BY <2>4, <3>1 DEF write_file_by_path, Refused
    <3>3. Create(raw)
          BY <2>4, <3>2 DEF Overwrite
    <3>4. Encodable(FileName(path))
          BY <3>1 DEF Refusal
    <3> QED BY <2>2, <2>4, <3>3, <3>4
  <2> QED BY <2>1, <2>3, <2>4 DEF Next
<1> QED BY <1>1, <1>2, PTL DEF Spec

(* encode_short_name_8_3 (lib.rs:1000) pads names to the fields of an      *)
(* entry, and the directory never outgrows its slots.                      *)
THEOREM NamesTyped == Spec => []TypeOK
<1>1. ASSUME NamesInv
      PROVE  TypeOK
  <2>1. \A i \in 1 .. Len(dir) : Encoded(dir[i])
        BY <1>1 DEF NamesInv, Entries
  <2> QED BY <1>1, <2>1 DEF NamesInv, TypeOK, Encoded, Part
<1> QED BY <1>1, NamesInvHolds, PTL

(* What write_file_by_path takes for two names are two names to open_path  *)
(* too: whatever is written, in names of any length with blanks, dots and  *)
(* lower case anywhere, no two files answer to one name (lib.rs:246,       *)
(* :1000, dir_entry.rs:80).                                                *)
THEOREM NamesUnique == Spec => []OneNamePerFile
<1>1. ASSUME NamesInv
      PROVE  OneNamePerFile
  <2> SUFFICES ASSUME NEW i \in 1 .. Len(Listed(dir)), NEW j \in 1 .. Len(Listed(dir)),
                      normalize_name(parse(dir[i])) = normalize_name(parse(dir[j]))
               PROVE  i = j
      BY DEF OneNamePerFile
  <2>1. i \in 1 .. Len(dir) /\ j \in 1 .. Len(dir)
    <3>1. Len(Listed(dir)) \in Nat /\ Len(dir) \in Nat /\ Len(Listed(dir)) <= Len(dir)
          BY <1>1, ListedPrefix DEF NamesInv
    <3> QED BY <3>1
  <2>2. Encoded(dir[i]) /\ Encoded(dir[j])
        BY <1>1, <2>1 DEF NamesInv, Entries
  <2>3. dir[i] = dir[j]
        BY <2>2, NamesTell
  <2> QED BY <1>1, <2>1, <2>3 DEF NamesInv
<1> QED BY <1>1, NamesInvHolds, PTL
-----------------------------------------------------------------------------
(* Which names an entry answers to: those that are cut into its parts.     *)
LEMMA Answers ==
    ASSUME NEW e, Encoded(e), NEW name \in Seq(Char)
    PROVE  normalize_name(parse(e)) = normalize_name(name) <=>
               /\ decode_ascii_trim(e.base) = normalize_name(Base(name))
               /\ decode_ascii_trim(e.ext) = normalize_name(Ext(name))
               /\ ~ EndsIn(name, Dot)
<1> DEFINE b == decode_ascii_trim(e.base)
           x == decode_ascii_trim(e.ext)
           p == parse(e)
           r == rfind(name, Dot)
           m == normalize_name(name)
<1>1. /\ b \in Seq(Char) /\ x \in Seq(Char) /\ p \in Seq(Char)
      /\ Len(p) = Len(b) + (IF x = <<>> THEN 0 ELSE 1 + Len(x))
      /\ \A i \in 1 .. Len(b) : p[i] = b[i] /\ b[i] # Dot
      /\ x # <<>> => p[Len(b) + 1] = Dot
      /\ x # <<>> => \A i \in 1 .. Len(x) : p[Len(b) + 1 + i] = x[i]
      /\ normalize_name(p) = p
      BY NameShape
<1>2. \A i \in 1 .. Len(x) : x[i] # Dot
  <2>1. e.ext \in Seq(Char) /\ Len(e.ext) = EXT /\ \A i \in 1 .. EXT : e.ext[i] # Dot
        BY DEF Encoded, Part
  <2>2. Len(x) <= EXT /\ \A i \in 1 .. Len(x) : x[i] = e.ext[i]
        BY <2>1, TrimShape
  <2> HIDE DEF x
  <2>3. \A i \in 1 .. Len(x) : i \in 1 .. EXT
        BY <1>1, <2>2, NamesAssumption
  <2> QED BY <2>1, <2>2, <2>3
<1>3. m = [i \in 1 .. Len(name) |-> to_ascii_uppercase(name[i])] /\ Len(m) = Len(name)
      /\ \A i \in 1 .. Len(name) : /\ m[i] = to_ascii_uppercase(name[i])
                                   /\ m[i] = Dot <=> name[i] = Dot
      BY Characters DEF normalize_name
<1>4. /\ r \in 0 .. Len(name) /\ Base(name) \in Seq(Char) /\ Ext(name) \in Seq(Char)
      /\ \A i \in 1 .. Len(Ext(name)) : Ext(name)[i] # Dot
      /\ r = 0 => /\ Base(name) = name /\ Ext(name) = <<>>
                  /\ \A i \in 1 .. Len(name) : name[i] # Dot
      /\ r # 0 => /\ Len(Base(name)) = r - 1 /\ Len(Ext(name)) = Len(name) - r
                  /\ name[r] = Dot
                  /\ \A i \in 1 .. r - 1 : Base(name)[i] = name[i]
                  /\ \A i \in 1 .. Len(name) - r : Ext(name)[i] = name[r + i]
      BY NameParts
<1>5. \A s \in Seq(Char) : /\ normalize_name(s) = [i \in 1 .. Len(s) |-> to_ascii_uppercase(s[i])]
                           /\ Len(normalize_name(s)) = Len(s)
                           /\ \A i \in 1 .. Len(s) : normalize_name(s)[i] = to_ascii_uppercase(s[i])
      BY DEF normalize_name
<1>6. Len(name) \in Nat /\ Len(b) \in Nat /\ Len(x) \in Nat
      BY <1>1
<1>7. EndsIn(name, Dot) <=> (Len(name) # 0 /\ name[Len(name)] = Dot)
      BY <1>6 DEF EndsIn, Last
<1>8. /\ b = [i \in 1 .. Len(b) |-> b[i]] /\ x = [i \in 1 .. Len(x) |-> x[i]]
      /\ p = [i \in 1 .. Len(p) |-> p[i]]
  <2>1. \A s \in Seq(Char) : s = [i \in 1 .. Len(s) |-> s[i]]
        OBVIOUS
  <2> QED BY <1>1, <2>1
<1>9. normalize_name(<<>>) = <<>>
  <2>1. <<>> \in Seq(Char) /\ Len(<<>>) = 0
        OBVIOUS
  <2>2. normalize_name(<<>>) \in Seq(Char) /\ Len(normalize_name(<<>>)) = 0
        BY <2>1 DEF normalize_name
  <2> QED BY <2>2
<1> HIDE DEF b, x, p, r, m
<1>10. CASE r = 0
  <2>1. Base(name) = name /\ Ext(name) = <<>> /\ normalize_name(Ext(name)) = <<>>
        BY <1>4, <1>9, <1>10
  <2>2. ~ EndsIn(name, Dot)
        BY <1>4, <1>6, <1>7, <1>10
  <2>3. ASSUME p = m PROVE b = m /\ x = <<>>
    <3>1. x = <<>>
      <4> SUFFICES ASSUME x # <<>> PROVE FALSE
          OBVIOUS
      <4>1. Len(b) + 1 \in 1 .. Len(name) /\ m[Len(b) + 1] = Dot
            BY <1>1, <1>3, <1>6, <2>3
      <4> QED BY <1>3, <1>4, <1>10, <4>1
    <3>2. b = p
          BY <1>1, <1>6, <1>8, <3>1
    <3> QED BY <2>3, <3>1, <3>2
  <2>4. ASSUME b = m, x = <<>> PROVE p = m
        BY <1>1, <1>6, <1>8, <2>4
  <2>5. p = m <=> (b = m /\ x = <<>>)
        BY <2>3, <2>4
  <2> QED BY <1>1, <2>1, <2>2, <2>5 DEF b, x, p, m
<1>11. CASE r # 0
  <2> DEFINE nb == normalize_name(Base(name))
             nx == normalize_name(Ext(name))
  <2>1. /\ r \in 1 .. Len(name) /\ Len(nb) = r - 1 /\ Len(nx) = Len(name) - r
        /\ m[r] = Dot /\ name[r] = Dot
        BY <1>3, <1>4, <1>5, <1>11
  <2>2. \A i \in 1 .. r - 1 : nb[i] = m[i]
    <3> SUFFICES ASSUME NEW i \in 1 .. r - 1 PROVE nb[i] = m[i]
        OBVIOUS
    <3>1. i \in 1 .. Len(Base(name)) /\ i \in 1 .. Len(name) /\ Base(name)[i] = name[i]
          BY <1>4, <1>11
    <3> QED BY <1>3, <1>4, <1>5, <3>1
  <2>3. \A i \in 1 .. Len(name) - r : nx[i] = m[r + i]
    <3> SUFFICES ASSUME NEW i \in 1 .. Len(name) - r PROVE nx[i] = m[r + i]
        OBVIOUS
    <3>1. i \in 1 .. Len(Ext(name)) /\ r + i \in 1 .. Len(name) /\ Ext(name)[i] = name[r + i]
          BY <1>4, <1>11
    <3> QED BY <1>3, <1>4, <1>5, <3>1
  <2>4. nb = [i \in 1 .. Len(nb) |-> nb[i]] /\ nx = [i \in 1 .. Len(nx) |-> nx[i]]
        BY <1>4, <1>5
  <2>5. \A i \in 1 .. Len(name) - r : m[r + i] # Dot
    <3> SUFFICES ASSUME NEW i \in 1 .. Len(name) - r PROVE m[r + i] # Dot
        OBVIOUS
    <3>1. i \in 1 .. Len(Ext(name)) /\ r + i \in 1 .. Len(name) /\ Ext(name)[i] = name[r + i]
          BY <1>4, <1>11
    <3> QED BY <1>3, <1>4, <3>1
  <2>6. EndsIn(name, Dot) <=> r = Len(name)
    <3>1. CASE r = Len(name)
          BY <1>7, <2>1, <3>1
    <3>2. CASE r < Len(name)
      <4>1. Len(name) - r \in 1 .. Len(name) - r /\ r + (Len(name) - r) = Len(name)
            BY <1>6, <2>1, <3>2
      <4>2. m[Len(name)] # Dot
            BY <2>5, <4>1
      <4>3. name[Len(name)] # Dot
            BY <1>3, <1>6, <2>1, <4>2
      <4> QED BY <1>7, <3>2, <4>3
    <3> QED BY <1>6, <2>1, <3>1, <3>2
  <2> HIDE DEF nb, nx
  <2>7. ASSUME p = m PROVE b = nb /\ x = nx /\ r # Len(name)
    <3>1. x # <<>>
      <4> SUFFICES ASSUME x = <<>> PROVE FALSE
          OBVIOUS
      <4>1. r \in 1 .. Len(b) /\ p[r] = Dot
            BY <1>1, <1>3, <1>6, <2>1, <2>7
      <4> QED BY <1>1, <4>1
    <3>2. Len(name) = Len(b) + 1 + Len(x) /\ Len(x) >= 1
          BY <1>1, <1>3, <1>6, <2>7, <3>1
    <3>3. r > Len(b)
          BY <1>1, <1>6, <2>1, <2>7
    <3>4. ~ r > Len(b) + 1
      <4> SUFFICES ASSUME r > Len(b) + 1 PROVE FALSE
          OBVIOUS
      <4>1. PICK i : i = r - (Len(b) + 1)
            OBVIOUS
      <4>2. i \in 1 .. Len(x) /\ Len(b) + 1 + i = r
            BY <1>6, <2>1, <3>2, <4>1
      <4>3. p[Len(b) + 1 + i] = x[i] /\ x[i] # Dot
            BY <1>1, <1>2, <3>1, <4>2
      <4> QED BY <2>1, <2>7, <4>2, <4>3
    <3>5. r = Len(b) + 1
          BY <1>6, <2>1, <3>3, <3>4
    <3>6. b = nb
      <4>1. Len(b) = Len(nb) /\ \A i \in 1 .. Len(b) : b[i] = nb[i]
            BY <1>1, <1>6, <2>1, <2>2, <2>7, <3>5
      <4> QED BY <1>8, <2>4, <4>1
    <3>7. x = nx
      <4>1. Len(x) = Len(nx)
            BY <1>6, <2>1, <3>2, <3>5
      <4>2. \A i \in 1 .. Len(x) : x[i] = nx[i]
            BY <1>1, <1>6, <2>1, <2>3, <2>7, <3>1, <3>2, <3>5
      <4> QED BY <1>8, <2>4, <4>1, <4>2
    <3> QED BY <1>6, <3>2, <3>5, <3>6, <3>7
  <2>8. ASSUME b = nb, x = nx, r # Len(name) PROVE p = m
    <3>1. Len(b) = r - 1 /\ Len(x) = Len(name) - r /\ Len(x) >= 1
          BY <1>6, <2>1, <2>8
    <3>2. x # <<>>
          BY <3>1
    <3>3. Len(p) = Len(name)
          BY <1>1, <1>6, <2>1, <3>1, <3>2
    <3>4. ASSUME NEW i \in 1 .. Len(name) PROVE p[i] = m[i]
      <4>1. CASE i < r
        <5>1. i \in 1 .. r - 1 /\ i \in 1 .. Len(b)
              BY <2>1, <3>1, <4>1
        <5>2. p[i] = b[i] /\ nb[i] = m[i]
              BY <1>1, <2>2, <5>1
        <5> QED BY <2>8, <5>2
      <4>2. CASE i = r
        <5>1. i = Len(b) + 1
              BY <2>1, <3>1, <4>2
        <5> QED BY <1>1, <2>1, <3>2, <4>2, <5>1
      <4>3. CASE i > r
        <5>1. PICK j : j = i - r
              OBVIOUS
        <5>2. j \in 1 .. Len(x) /\ j \in 1 .. Len(name) - r /\ r + j = i /\ Len(b) + 1 + j = i
              BY <1>6, <2>1, <3>1, <4>3, <5>1
        <5>3. p[Len(b) + 1 + j] = x[j] /\ nx[j] = m[r + j]
              BY <1>1, <2>3, <3>2, <5>2
        <5> QED BY <2>8, <5>2, <5>3
      <4> QED BY <2>1, <4>1, <4>2, <4>3
    <3>5. p = [i \in 1 .. Len(name) |-> p[i]] /\ m = [i \in 1 .. Len(name) |-> m[i]]
          BY <1>3, <1>8, <3>3
    <3> QED BY <3>4, <3>5
  <2>9. p = m <=> (b = nb /\ x = nx /\ r # Len(name))
        BY <2>7, <2>8
  <2> QED BY <1>1, <2>6, <2>9 DEF b, x, p, m, nb, nx
<1> QED BY <1>10, <1>11

(* What was written is found, if nothing is lost of it.                    *)
LEMMA WrittenAnswers ==
    ASSUME NEW name \in Seq(Char), Encodable(name), NEW e, e = encode_short_name_8_3(name)
    PROVE  normalize_name(parse(e)) = normalize_name(name) <=>
               ~ EndsIn(name, Dot) /\ ~ EndsIn(Base(name), Space) /\ ~ EndsIn(Ext(name), Space)
<1>1. Encoded(e)
      BY NameEncoded
<1>2. /\ Base(name) \in Seq(Char) /\ Ext(name) \in Seq(Char)
      /\ Len(Base(name)) <= BASE /\ Len(Ext(name)) <= EXT /\ BASE \in Nat /\ EXT \in Nat
      BY NameParts, NamesAssumption DEF Encodable
<1>3. /\ e.base = normalize_name(Padded(Base(name), BASE))
      /\ e.ext = normalize_name(Padded(Ext(name), EXT))
      BY DEF encode_short_name_8_3
<1>4. decode_ascii_trim(e.base) = normalize_name(Base(name)) <=> ~ EndsIn(Base(name), Space)
      BY <1>2, <1>3, PaddedTrims
<1>5. decode_ascii_trim(e.ext) = normalize_name(Ext(name)) <=> ~ EndsIn(Ext(name), Space)
      BY <1>2, <1>3, PaddedTrims
<1> QED BY <1>1, <1>4, <1>5, Answers
-----------------------------------------------------------------------------
(* Paths with one part.                                                    *)
OnePart(path, s, n) ==
    /\ s \in 1 .. Len(path) /\ n \in s .. Len(path)
    /\ \A i \in 1 .. Len(path) : path[i] # Slash <=> i \in s .. n

LEMMA NameOfPart ==
    ASSUME NEW path \in Seq(Char), NEW s, NEW n, OnePart(path, s, n)
    PROVE  LET name == SubSeq(path, s, n)
           IN  /\ FileName(path) = name /\ rfind(Trimmed(path), Slash) = s - 1
               /\ name \in Seq(Char) /\ Len(name) = n - s + 1
               /\ split(path) = [i \in 1 .. 1 |-> name]
<1>1. /\ s \in 1 .. Len(path) /\ n \in s .. Len(path) /\ Len(path) \in Nat
      /\ \A i \in 1 .. Len(path) : path[i] # Slash <=> i \in s .. n
      BY DEF OnePart
<1>2. PICK k \in 0 .. Len(path) : /\ Trimmed(path) = SubSeq(path, 1, k)
                                  /\ k # 0 => path[k] # Slash
                                  /\ \A i \in 1 .. Len(path) : i > k => path[i] = Slash
      BY TrimmedIs
<1>3. k = n
  <2>1. n <= k
        BY <1>1, <1>2
  <2>2. k <= n
        BY <1>1, <1>2, <2>1
  <2> QED BY <1>1, <2>1, <2>2
<1>4. PICK t : t = Trimmed(path)
      OBVIOUS
<1>5. t \in Seq(Char) /\ Len(t) = n /\ \A i \in 1 .. n : t[i] = path[i]
      BY <1>1, <1>2, <1>3, <1>4
<1>6. PICK r : r = rfind(t, Slash)
      OBVIOUS
<1>7. r \in 0 .. n /\ (\A i \in 1 .. n : i > r => t[i] # Slash) /\ (r # 0 => t[r] = Slash)
      BY <1>5, <1>6, LastOf
<1>8. r = s - 1
  <2>1. r < s
    <3> SUFFICES ASSUME r >= s PROVE FALSE
        BY <1>1, <1>7
    <3>1. r \in s .. n /\ r \in 1 .. Len(path) /\ r \in 1 .. n /\ r # 0
          BY <1>1, <1>7
    <3> QED BY <1>1, <1>5, <1>7, <3>1
  <2>2. ~ r < s - 1
    <3> SUFFICES ASSUME r < s - 1 PROVE FALSE
        OBVIOUS
    <3>1. s - 1 \in 1 .. n /\ s - 1 > r /\ s - 1 \in 1 .. Len(path) /\ s - 1 \notin s .. n
          BY <1>1, <1>7
    <3> QED BY <1>1, <1>5, <1>7, <3>1
  <2> QED BY <1>1, <1>7, <2>1, <2>2
<1>9. FileName(path) = SubSeq(t, s, n)
  <2>1. FileName(path) = SubSeq(t, r + 1, Len(t))
        BY <1>4, <1>6 DEF FileName, From
  <2>2. r + 1 = s /\ Len(t) = n
        BY <1>1, <1>5, <1>8
  <2> QED BY <2>1, <2>2
<1>10. PICK name : name = SubSeq(path, s, n)
      OBVIOUS
<1>11. /\ name \in Seq(Char) /\ Len(name) = n - s + 1
       /\ name = [i \in 1 .. n - s + 1 |-> path[s + i - 1]]
       BY <1>1, <1>10
<1>12. SubSeq(t, s, n) = [i \in 1 .. n - s + 1 |-> t[s + i - 1]]
       BY <1>1, <1>5
<1>13. \A i \in 1 .. n - s + 1 : t[s + i - 1] = path[s + i - 1]
  <2> SUFFICES ASSUME NEW i \in 1 .. n - s + 1 PROVE t[s + i - 1] = path[s + i - 1]
      OBVIOUS
  <2>1. s + i - 1 \in 1 .. n
        BY <1>1
  <2> QED BY <1>5, <2>1
<1>14. FileName(path) = name
       BY <1>9, <1>11, <1>12, <1>13
<1>15. Starts(path) = {s}
  <2>1. ASSUME NEW i \in Starts(path) PROVE i = s
    <3>1. i \in 1 .. Len(path) /\ path[i] # Slash /\ (i > 1 => path[i - 1] = Slash)
          BY <2>1 DEF Starts
    <3>2. i \in s .. n
          BY <1>1, <3>1
    <3>3. ~ i > s
      <4> SUFFICES ASSUME i > s PROVE FALSE
          OBVIOUS
      <4>1. i - 1 \in s .. n /\ i - 1 \in 1 .. Len(path) /\ i > 1
            BY <1>1, <3>1, <3>2
      <4> QED BY <1>1, <3>1, <4>1
    <3> QED BY <1>1, <3>2, <3>3
  <2>2. s \in Starts(path)
    <3>1. path[s] # Slash
          BY <1>1
    <3>2. ASSUME s > 1 PROVE path[s - 1] = Slash
      <4>1. s - 1 \in 1 .. Len(path) /\ s - 1 \notin s .. n
            BY <1>1, <3>2
      <4> QED BY <1>1, <4>1
    <3> QED BY <1>1, <3>1, <3>2 DEF Starts
  <2> QED BY <2>1, <2>2
<1>16. PartFrom(path, s) = name
  <2> DEFINE T == {j \in 1 .. Len(path) : \A k_1 \in s .. j : path[k_1] # Slash}
  <2>1. n \in T
        BY <1>1
  <2>2. \A j \in T : j <= n
    <3> SUFFICES ASSUME NEW j \in T, j > n PROVE FALSE
        BY <1>1
    <3>1. n + 1 \in s .. j /\ n + 1 \in 1 .. Len(path) /\ n + 1 \notin s .. n
          BY <1>1
    <3> QED BY <1>1, <3>1
  <2>3. T \in SUBSET Nat
        OBVIOUS
  <2>4. PartFrom(path, s) = SubSeq(path, s, Max(T))
        BY DEF PartFrom
  <2> HIDE DEF T
  <2>5. Max(T) \in T /\ \A j \in T : Max(T) >= j
        BY <1>1, <2>1, <2>2, <2>3 DEF Max
  <2>6. Max(T) = n
    <3>1. PICK m : m = Max(T)
          OBVIOUS
    <3>2. m \in Nat /\ n \in Nat /\ m <= n /\ n <= m
          BY <1>1, <2>1, <2>2, <2>3, <2>5, <3>1
    <3>3. m = n
          BY <3>2
    <3> QED BY <3>1, <3>3
  <2> QED BY <1>10, <2>4, <2>6
<1>17. Cardinality({s}) = 1
       BY FS_Singleton
<1>18. Nth({s}, 1) = s
  <2>1. {j \in {s} : j <= s} = {s}
        BY <1>1
  <2> QED BY <1>17, <2>1 DEF Nth
<1>19. split(path) = [i \in 1 .. 1 |-> name]
  <2>1. split(path) = [i \in 1 .. 1 |-> PartFrom(path, Nth({s}, i))]
        BY <1>15, <1>17 DEF split
  <2>2. \A i \in 1 .. 1 : i = 1
        OBVIOUS
  <2> QED BY <1>16, <1>18, <2>1, <2>2
<1> QED BY <1>4, <1>6, <1>8, <1>10, <1>11, <1>14, <1>19

(* The path that a name is written under has one.                          *)
LEMMA WrittenPath ==
    ASSUME NEW path \in Seq(Char), Refusal(path) = "none"
    PROVE  \E s, n : OnePart(path, s, n) /\ Encodable(FileName(path))
<1>1. Absolute(path) /\ HasParent(path) /\ Parent(path) = <<Slash>> /\ Encodable(FileName(path))
  <2>1. Absolute(path) /\ HasParent(path) /\ Encodable(FileName(path))
        BY DEF Refusal
  <2>2. Parent(path) = <<Slash>>
        BY <2>1 DEF Refusal
  <2> QED BY <2>1, <2>2
<1>2. PICK k \in 0 .. Len(path) : /\ Trimmed(path) = SubSeq(path, 1, k)
                                  /\ k # 0 => path[k] # Slash
                                  /\ \A i \in 1 .. Len(path) : i > k => path[i] = Slash
      BY TrimmedIs
<1>3. PICK t : t = Trimmed(path)
      OBVIOUS
<1>4. t \in Seq(Char) /\ Len(t) = k /\ \A i \in 1 .. k : t[i] = path[i]
      BY <1>2, <1>3
<1>5. PICK r : r = rfind(t, Slash)
      OBVIOUS
<1>6. r \in 1 .. k /\ (\A i \in 1 .. k : i > r => t[i] # Slash) /\ t[r] = Slash
  <2>1. r # 0
        BY <1>1, <1>3, <1>5 DEF HasParent
  <2> QED BY <1>2, <1>4, <1>5, <2>1, LastOf
<1>7. r = 1 \/ (r = 2 /\ path[1] = Slash)
  <2>1. CASE r # 1
    <3>1. SubSeq(path, 1, r - 1) = <<Slash>>
          BY <1>1, <1>3, <1>5, <2>1 DEF Parent
    <3>2. Len(SubSeq(path, 1, r - 1)) = r - 1
          BY <1>2, <1>6
    <3>3. r - 1 = 1
          BY <3>1, <3>2
    <3> QED BY <1>1, <1>6, <3>3 DEF Absolute
  <2> QED BY <2>1
<1>8. \A i \in 1 .. r : path[i] = Slash
      BY <1>4, <1>6, <1>7
<1>9. \A i \in r + 1 .. k : path[i] # Slash
  <2> SUFFICES ASSUME NEW i \in r + 1 .. k PROVE path[i] # Slash
      OBVIOUS
  <2>1. i \in 1 .. k /\ i > r
        BY <1>6
  <2> QED BY <1>4, <1>6, <2>1
<1>10. r < k
  <2>1. path[k] # Slash
        BY <1>2, <1>6
  <2> QED BY <1>2, <1>6, <1>8, <2>1
<1>11. \A i \in 1 .. Len(path) : path[i] # Slash <=> i \in r + 1 .. k
  <2> SUFFICES ASSUME NEW i \in 1 .. Len(path) PROVE path[i] # Slash <=> i \in r + 1 .. k
      OBVIOUS
  <2>1. CASE i <= r
        BY <1>6, <1>8, <2>1
  <2>2. CASE i > r /\ i <= k
        BY <1>6, <1>9, <2>2
  <2>3. CASE i > k
        BY <1>2, <2>3
  <2> QED BY <1>6, <2>1, <2>2, <2>3
<1>12. OnePart(path, r + 1, k)
       BY <1>2, <1>6, <1>10, <1>11 DEF OnePart
<1> QED BY <1>1, <1>12

(* A path in which one part starts has one.                                *)
LEMMA OneStart ==
    ASSUME NEW path \in Seq(Char), NEW s, Starts(path) = {s}
    PROVE  \E n : OnePart(path, s, n)
<1>1. s \in 1 .. Len(path) /\ path[s] # Slash /\ Len(path) \in Nat
  <2>1. s \in Starts(path)
        OBVIOUS
  <2> QED BY <2>1 DEF Starts
<1>2. PICK k \in 0 .. Len(path) : /\ k # 0 => path[k] # Slash
                                  /\ \A i \in 1 .. Len(path) : i > k => path[i] = Slash
      BY TrimmedIs
<1>3. s <= k
      BY <1>1, <1>2
<1>4. ASSUME NEW a \in 1 .. Len(path), NEW b \in 1 .. Len(path), a <= b, path[b] # Slash,
             a > 1 => path[a - 1] = Slash
      PROVE  \E j \in a .. b : j = s
  <2> DEFINE T == {j \in a .. b : path[j] # Slash}
  <2>1. b \in T /\ T \in SUBSET Nat
        BY <1>4
  <2>2. PICK j \in T : \A i \in T : j <= i
        BY <2>1, Least
  <2>3. ASSUME j > 1 PROVE path[j - 1] = Slash
    <3>1. CASE j = a
          BY <1>4, <2>3, <3>1
    <3>2. CASE j # a
      <4>1. j - 1 \in a .. b /\ j - 1 \notin T
            BY <1>1, <2>2, <3>2
      <4> QED BY <4>1
    <3> QED BY <3>1, <3>2
  <2>4. j \in 1 .. Len(path) /\ path[j] # Slash
        BY <1>1
  <2>5. j \in Starts(path)
        BY <2>3, <2>4 DEF Starts
  <2> QED BY <2>5
<1>5. ASSUME NEW i \in 1 .. Len(path), i < s PROVE path[i] = Slash
  <2> SUFFICES ASSUME path[i] # Slash PROVE FALSE
      OBVIOUS
  <2>1. \E j \in 1 .. i : j = s
        BY <1>1, <1>4
  <2> QED BY <1>1, <1>5, <2>1
<1>6. ASSUME NEW i \in s .. k PROVE path[i] # Slash
  <2> SUFFICES ASSUME path[i] = Slash PROVE FALSE
      OBVIOUS
  <2>1. i < k /\ path[k] # Slash /\ i + 1 \in 1 .. Len(path) /\ k \in 1 .. Len(path)
        BY <1>1, <1>2, <1>3
  <2>2. i + 1 - 1 = i
        BY <1>1
  <2>3. \E j \in i + 1 .. k : j = s
        BY <1>1, <1>4, <2>1, <2>2
  <2> QED BY <1>1, <2>3
<1>7. OnePart(path, s, k)
  <2>1. \A i \in 1 .. Len(path) : path[i] # Slash <=> i \in s .. k
        BY <1>1, <1>2, <1>3, <1>5, <1>6
  <2> QED BY <1>1, <1>3, <2>1 DEF OnePart
<1> QED BY <1>7

LEMMA NoPart ==
    ASSUME NEW path \in Seq(Char), \A i \in 1 .. Len(path) : path[i] = Slash, NEW d
    PROVE  open_path(d, path) = 0
<1>1. Starts(path) = {}
      BY DEF Starts
<1>2. Cardinality(Starts(path)) = 0
      BY <1>1, FS_EmptySet
<1>3. split(path) = <<>>
      BY <1>2 DEF split
<1> QED BY <1>3 DEF open_path, open_parts

LEMMA OpensPart ==
    ASSUME NEW path \in Seq(Char), NEW s, NEW n, OnePart(path, s, n), NEW d
    PROVE  open_path(d, path) = Lookup(d, FileName(path))
<1>1. PICK name : name = FileName(path)
      OBVIOUS
<1>2. PICK p : p = [i \in 1 .. 1 |-> name]
      OBVIOUS
<1>3. split(path) = p
      BY <1>1, <1>2, NameOfPart
<1>4. p # <<>> /\ p[1] = name /\ Len(p) = 1
      BY <1>2
<1> QED BY <1>1, <1>3, <1>4 DEF open_path, open_parts

(* A path that finds an entry has one part.                                *)
LEMMA FoundPath ==
    ASSUME NEW path \in Seq(Char), NEW d, open_path(d, path) > 0
    PROVE  \E s, n : OnePart(path, s, n)
<1>1. PICK c : c = Cardinality(Starts(path))
      OBVIOUS
<1>2. Starts(path) \subseteq 1 .. Len(path) /\ IsFiniteSet(1 .. Len(path))
      BY FS_Interval DEF Starts
<1>3. IsFiniteSet(Starts(path)) /\ c \in Nat
      BY <1>1, <1>2, FS_Subset, FS_CardinalityType
<1>4. split(path) = [i \in 1 .. c |-> PartFrom(path, Nth(Starts(path), i))]
      BY <1>1 DEF split
<1>5. c # 0
  <2> SUFFICES ASSUME c = 0 PROVE FALSE
      OBVIOUS
  <2>1. split(path) = <<>>
        BY <1>4
  <2> QED BY <2>1 DEF open_path, open_parts
<1>6. ~ c > 1
  <2> SUFFICES ASSUME c > 1 PROVE FALSE
      OBVIOUS
  <2>1. Len(split(path)) = c
        BY <1>3, <1>4
  <2>2. open_path(d, path) \in {0, -1}
        BY <2>1 DEF open_path, open_parts
  <2> QED BY <2>2
<1>7. c = 1
      BY <1>3, <1>5, <1>6
<1>8. PICK s : Starts(path) = {s}
      BY <1>1, <1>3, <1>7, FS_Singleton
<1> QED BY <1>8, OneStart
-----------------------------------------------------------------------------
(* Searches in the directory find the one entry there is.                  *)
LEMMA FirstPlace ==
    ASSUME NEW I, I \in SUBSET (Nat \ {0}), NEW k, k = IF I # {} THEN Min(I) ELSE 0,
           \A i, j \in I : i = j
    PROVE  \A i : i # 0 => (k = i <=> i \in I)
<1>1. CASE I = {}
      BY <1>1
<1>2. CASE I # {}
  <2>1. \E x \in I : \A y \in I : x <= y
        BY <1>2, Least
  <2>2. k \in I
        BY <1>2, <2>1 DEF Min
  <2> QED BY <2>2
<1> QED BY <1>1, <1>2

LEMMA EntriesApart ==
    ASSUME NamesInv
    PROVE  /\ Len(Listed(dir)) \in Nat /\ Len(dir) \in Nat /\ Len(Listed(dir)) <= Len(dir)
           /\ \A i \in 1 .. Len(Listed(dir)) :
                 /\ i \in 1 .. Len(dir) /\ Listed(dir)[i] = dir[i] /\ Encoded(dir[i])
                 /\ dir[i].base[1] # NUL
           /\ \A i, j \in 1 .. Len(Listed(dir)) :
                 normalize_name(parse(dir[i])) = normalize_name(parse(dir[j])) => i = j
<1>1. dir \in Seq(Entries) /\ \A i, j \in 1 .. Len(dir) : dir[i] = dir[j] => i = j
      BY DEF NamesInv
<1>2. /\ Len(Listed(dir)) \in Nat /\ Len(dir) \in Nat /\ Len(Listed(dir)) <= Len(dir)
      /\ \A i \in 1 .. Len(Listed(dir)) : Listed(dir)[i] = dir[i] /\ dir[i].base[1] # NUL
      BY <1>1, ListedPrefix
<1>3. \A i \in 1 .. Len(Listed(dir)) : i \in 1 .. Len(dir)
      BY <1>2
<1>4. \A i \in 1 .. Len(dir) : Encoded(dir[i])
      BY <1>1 DEF Entries
<1>5. ASSUME NEW i \in 1 .. Len(Listed(dir)), NEW j \in 1 .. Len(Listed(dir)),
             normalize_name(parse(dir[i])) = normalize_name(parse(dir[j]))
      PROVE  i = j
  <2>1. dir[i] = dir[j]
        BY <1>3, <1>4, <1>5, NamesTell
  <2> QED BY <1>1, <1>3, <2>1
<1> QED BY <1>2, <1>3, <1>4, <1>5

LEMMA LookupFinds ==
    ASSUME NamesInv, NEW name
    PROVE  \A k : k # 0 => (Lookup(dir, name) = k <=>
               /\ k \in 1 .. Len(Listed(dir))
               /\ normalize_name(parse(dir[k])) = normalize_name(name))
<1> DEFINE I == {i \in 1 .. Len(Listed(dir)) :
                    normalize_name(parse(Listed(dir)[i])) = normalize_name(name)}
<1>1. Lookup(dir, name) = IF I # {} THEN Min(I) ELSE 0
      BY DEF Lookup, SelectInSeq
<1>2. I \in SUBSET (Nat \ {0})
      BY EntriesApart
<1>3. \A i : i \in I <=> /\ i \in 1 .. Len(Listed(dir))
                         /\ normalize_name(parse(dir[i])) = normalize_name(name)
      BY EntriesApart
<1>4. \A i, j \in I : i = j
      BY <1>3, EntriesApart
<1> HIDE DEF I
<1>5. \A k : k # 0 => (Lookup(dir, name) = k <=> k \in I)
  <2>1. PICK k : k = Lookup(dir, name)
        OBVIOUS
  <2>2. k = IF I # {} THEN Min(I) ELSE 0
        BY <1>1, <2>1
  <2>3. \A i : i # 0 => (k = i <=> i \in I)
        BY <1>2, <1>4, <2>2, FirstPlace
  <2> QED BY <2>1, <2>3
<1> SUFFICES ASSUME NEW k, k # 0
             PROVE  Lookup(dir, name) = k <=>
                        /\ k \in 1 .. Len(Listed(dir))
                        /\ normalize_name(parse(dir[k])) = normalize_name(name)
    OBVIOUS
<1>6. Lookup(dir, name) = k <=> k \in I
      BY <1>5
<1>7. k \in I <=> /\ k \in 1 .. Len(Listed(dir))
                  /\ normalize_name(parse(dir[k])) = normalize_name(name)
      BY <1>3
<1> QED BY <1>6, <1>7

LEMMA EntryFinds ==
    ASSUME NamesInv, NEW raw
    PROVE  \A k : k # 0 => (find_dir_entry(dir, raw) = k <=>
               k \in 1 .. Len(Listed(dir)) /\ dir[k] = raw)
<1> DEFINE I == {i \in 1 .. Len(Listed(dir)) : Listed(dir)[i] = raw}
<1>1. find_dir_entry(dir, raw) = IF I # {} THEN Min(I) ELSE 0
      BY DEF find_dir_entry, SelectInSeq
<1>2. I \in SUBSET (Nat \ {0})
      BY EntriesApart
<1>3. \A i : i \in I <=> i \in 1 .. Len(Listed(dir)) /\ dir[i] = raw
      BY EntriesApart
<1>4. \A i, j \in I : i = j
      BY <1>3, EntriesApart
<1> HIDE DEF I
<1>5. \A k : k # 0 => (find_dir_entry(dir, raw) = k <=> k \in I)
  <2>1. PICK k : k = find_dir_entry(dir, raw)
        OBVIOUS
  <2>2. k = IF I # {} THEN Min(I) ELSE 0
        BY <1>1, <2>1
  <2>3. \A i : i # 0 => (k = i <=> i \in I)
        BY <1>2, <1>4, <2>2, FirstPlace
  <2> QED BY <2>1, <2>3
<1> SUFFICES ASSUME NEW k, k # 0
             PROVE  find_dir_entry(dir, raw) = k <=> k \in 1 .. Len(Listed(dir)) /\ dir[k] = raw
    OBVIOUS
<1>6. find_dir_entry(dir, raw) = k <=> k \in I
      BY <1>5
<1>7. k \in I <=> k \in 1 .. Len(Listed(dir)) /\ dir[k] = raw
      BY <1>3
<1> QED BY <1>6, <1>7
-----------------------------------------------------------------------------
(* What is created under a path is found under it again, if nothing of the *)
(* name is lost in the fields of the entry (encode_short_name_8_3,         *)
(* lib.rs:1000, and open_path, :243): no space before the dot or at the    *)
(* end, no dot at the end, no NUL at the start; and only then.             *)
THEOREM WrittenIsFoundAgain == Spec => []WrittenIsFound
<1>1. ASSUME NamesInv, NEW path \in Paths, Refusal(path) = "none",
             NEW k \in 1 .. Len(dir), dir[k] = encode_short_name_8_3(FileName(path))
      PROVE  open_path(dir, path) = k <=> Plain(FileName(path))
  <2>1. path \in Seq(Char)
        BY Characters
  <2>2. PICK s, n : OnePart(path, s, n) /\ Encodable(FileName(path))
        BY <1>1, <2>1, WrittenPath
  <2>3. PICK name : name = FileName(path)
        OBVIOUS
  <2>4. name \in Seq(Char) /\ Encodable(name) /\ dir[k] = encode_short_name_8_3(name)
        BY <1>1, <2>1, <2>2, <2>3, NameOfPart
  <2>5. open_path(dir, path) = Lookup(dir, name)
        BY <2>1, <2>2, <2>3, OpensPart
  <2>6. k # 0 /\ Len(dir) \in Nat /\ Len(Listed(dir)) \in Nat
        BY <1>1, EntriesApart
  <2>7. open_path(dir, path) = k <=>
            /\ k \in 1 .. Len(Listed(dir))
            /\ normalize_name(parse(dir[k])) = normalize_name(name)
        BY <1>1, <2>5, <2>6, LookupFinds
  <2>8. normalize_name(parse(dir[k])) = normalize_name(name) <=>
            ~ EndsIn(name, Dot) /\ ~ EndsIn(Base(name), Space) /\ ~ EndsIn(Ext(name), Space)
        BY <2>4, WrittenAnswers
  <2>9. dir[k].base[1] = NUL <=> name[1] = NUL
    <3>1. /\ Base(name) \in Seq(Char) /\ Base(name) # <<>> /\ Len(Base(name)) <= BASE
          /\ BASE \in Nat /\ dir[k].base = normalize_name(Padded(Base(name), BASE))
          BY <2>4, NameParts, NamesAssumption DEF Encodable, encode_short_name_8_3
    <3>2. 1 \in 1 .. BASE /\ 1 <= Len(Base(name))
          BY <3>1
    <3>3. dir[k].base[1] = to_ascii_uppercase(Base(name)[1])
          BY <3>1, <3>2, PaddedIs
    <3>4. Base(name)[1] = name[1]
      <4>1. PICK r : r = rfind(name, Dot)
            OBVIOUS
      <4>2. CASE r = 0
            BY <2>4, <4>1, <4>2, NameParts
      <4>3. CASE r # 0
        <5>1. /\ Len(Base(name)) = r - 1 /\ r \in 0 .. Len(name)
              /\ \A i \in 1 .. r - 1 : Base(name)[i] = name[i]
              BY <2>4, <4>1, <4>3, NameParts
        <5>2. 1 \in 1 .. r - 1
              BY <3>2, <5>1
        <5> QED BY <5>1, <5>2
      <4> QED BY <4>2, <4>3
    <3> QED BY <3>3, <3>4, Characters
  <2>10. k \in 1 .. Len(Listed(dir)) <=> name[1] # NUL
    <3>1. ASSUME k \in 1 .. Len(Listed(dir)) PROVE dir[k].base[1] # NUL
          BY <1>1, <3>1, EntriesApart
    <3>2. ASSUME dir[k].base[1] # NUL PROVE k \in 1 .. Len(Listed(dir))
      <4>1. dir \in Seq(Entries) /\ \A i \in 1 .. Len(dir) : i < Len(dir) => dir[i].base[1] # NUL
            BY <1>1 DEF NamesInv
      <4>2. \A i \in 1 .. k : dir[i].base[1] # NUL
        <5> SUFFICES ASSUME NEW i \in 1 .. k PROVE dir[i].base[1] # NUL
            OBVIOUS
        <5>1. i = k \/ (i \in 1 .. Len(dir) /\ i < Len(dir))
              BY <1>1, <2>6
        <5> QED BY <3>2, <4>1, <5>1
      <4>3. k <= Len(Listed(dir))
            BY <1>1, <4>1, <4>2, ListedPrefix
      <4> QED BY <1>1, <2>6, <4>3
    <3> QED BY <2>9, <3>1, <3>2
  <2> QED BY <2>3, <2>7, <2>8, <2>10 DEF Plain
<1>2. NamesInv => WrittenIsFound
      BY <1>1 DEF WrittenIsFound
<1> QED BY <1>2, NamesInvHolds, PTL

(* The parts of a name that an entry answers to fit its fields.            *)
LEMMA AnsweredFits ==
    ASSUME NEW e, Encoded(e), NEW name \in Seq(Char),
           normalize_name(parse(e)) = normalize_name(name), Base(name) # <<>>
    PROVE  Encodable(name) /\ encode_short_name_8_3(name) = e
<1> DEFINE b == decode_ascii_trim(e.base)
           x == decode_ascii_trim(e.ext)
<1>1. b = normalize_name(Base(name)) /\ x = normalize_name(Ext(name))
      BY Answers
<1>2. /\ Base(name) \in Seq(Char) /\ Ext(name) \in Seq(Char)
      BY NameParts
<1>3. BASE \in Nat /\ EXT \in Nat /\ e = [base |-> e.base, ext |-> e.ext]
      BY NamesAssumption DEF Encoded
<1>4. ASSUME NEW f, NEW n \in Nat, Part(f, n), NEW s \in Seq(Char),
             decode_ascii_trim(f) = normalize_name(s)
      PROVE  /\ Len(s) <= n /\ normalize_name(Padded(s, n)) = f
             /\ \A i \in 1 .. Len(s) : s[i] # Dot /\ is_ascii(s[i])
  <2>1. /\ f \in Seq(Char) /\ Len(f) = n
        /\ \A i \in 1 .. n : f[i] # Dot /\ is_ascii(f[i])
        BY <1>4 DEF Part
  <2>2. PICK t : t = normalize_name(s)
        OBVIOUS
  <2>3. Len(t) = Len(s) /\ \A i \in 1 .. Len(s) : t[i] = to_ascii_uppercase(s[i])
        BY <2>2 DEF normalize_name
  <2>4. /\ Len(s) <= n /\ Len(s) \in Nat
        /\ \A i \in 1 .. Len(s) : t[i] = f[i]
        /\ \A i \in 1 .. n : i > Len(s) => f[i] = Space
        BY <1>4, <2>1, <2>2, <2>3, TrimShape
  <2>5. PICK u : u = normalize_name(Padded(s, n))
        OBVIOUS
  <2>6. /\ u \in Seq(Char) /\ Len(u) = n
        /\ \A i \in 1 .. n : u[i] = IF i <= Len(s) THEN to_ascii_uppercase(s[i]) ELSE Space
        BY <2>4, <2>5, PaddedIs
  <2>7. \A i \in 1 .. n : u[i] = f[i]
        BY <2>3, <2>4, <2>6
  <2>8. u = f
        BY <2>1, <2>6, <2>7
  <2>9. ASSUME NEW i \in 1 .. Len(s) PROVE s[i] # Dot /\ is_ascii(s[i])
    <3>1. to_ascii_uppercase(s[i]) = f[i] /\ i \in 1 .. n
          BY <2>3, <2>4
    <3> QED BY <2>1, <3>1, Characters
  <2> QED BY <2>4, <2>5, <2>8, <2>9
<1>5. /\ Len(Base(name)) <= BASE /\ normalize_name(Padded(Base(name), BASE)) = e.base
      /\ \A i \in 1 .. Len(Base(name)) : Base(name)[i] # Dot /\ is_ascii(Base(name)[i])
      BY <1>1, <1>2, <1>3, <1>4 DEF Encoded
<1>6. /\ Len(Ext(name)) <= EXT /\ normalize_name(Padded(Ext(name), EXT)) = e.ext
      /\ \A i \in 1 .. Len(Ext(name)) : Ext(name)[i] # Dot /\ is_ascii(Ext(name)[i])
      BY <1>1, <1>2, <1>3, <1>4 DEF Encoded
<1>7. \A i \in 1 .. Len(name) : is_ascii(name[i])
  <2>1. PICK r : r = rfind(name, Dot)
        OBVIOUS
  <2>2. CASE r = 0
    <3>1. Base(name) = name
          BY <2>1, <2>2, NameParts
    <3> QED BY <1>5, <3>1
  <2>3. CASE r # 0
    <3>1. /\ Len(Base(name)) = r - 1 /\ Len(Ext(name)) = Len(name) - r /\ r \in 0 .. Len(name)
          /\ name[r] = Dot
          /\ \A i \in 1 .. r - 1 : Base(name)[i] = name[i]
          /\ \A i \in 1 .. Len(name) - r : Ext(name)[i] = name[r + i]
          BY <2>1, <2>3, NameParts
    <3> SUFFICES ASSUME NEW i \in 1 .. Len(name) PROVE is_ascii(name[i])
        OBVIOUS
    <3>2. CASE i < r
      <4>1. i \in 1 .. r - 1
            BY <3>1, <3>2
      <4>2. Base(name)[i] = name[i] /\ is_ascii(Base(name)[i])
            BY <1>5, <3>1, <4>1
      <4> QED BY <4>2
    <3>3. CASE i = r
          BY <3>1, <3>3, Characters
    <3>4. CASE i > r
      <4>1. PICK j : j = i - r
            OBVIOUS
      <4>2. j \in 1 .. Len(name) - r /\ r + j = i
            BY <3>1, <3>4, <4>1
      <4>3. Ext(name)[j] = name[i] /\ is_ascii(Ext(name)[j])
            BY <1>6, <3>1, <4>2
      <4> QED BY <4>3
    <3> QED BY <3>1, <3>2, <3>3, <3>4
  <2> QED BY <2>2, <2>3
<1>8. ~ Contains(Base(name), Dot)
      BY <1>5 DEF Contains
<1>9. \A ch \in ToSet(name) : is_ascii(ch)
      BY <1>7 DEF ToSet
<1>10. Encodable(name)
      BY <1>5, <1>6, <1>8, <1>9 DEF Encodable
<1> QED BY <1>3, <1>5, <1>6, <1>10 DEF encode_short_name_8_3

(* The file that open_path finds under a path (lib.rs:243) is the one that *)
(* write_file_by_path overwrites under it, unless it refuses the path      *)
(* (:532): the base is blank, or more than a slash is its parent.          *)
THEOREM ReadsWhatIsWritten == Spec => []ReadsWhatItWrites
<1>1. ASSUME NamesInv, NEW path \in Paths, Absolute(path), open_path(dir, path) > 0
      PROVE  \/ /\ Refusal(path) = "none"
                /\ find_dir_entry(dir, encode_short_name_8_3(FileName(path)))
                      = open_path(dir, path)
             \/ Refusal(path) = "InvalidName" /\ Base(FileName(path)) = <<>>
             \/ Refusal(path) = "PathNotFound" /\ Len(Parent(path)) > 1
                                               /\ ToSet(Parent(path)) = {Slash}
  <2>1. path \in Seq(Char)
        BY Characters
  <2>2. PICK s, n : OnePart(path, s, n)
        BY <1>1, <2>1, FoundPath
  <2>3. PICK name : name = FileName(path)
        OBVIOUS
  <2>4. PICK k : k = open_path(dir, path)
        OBVIOUS
  <2>5. name \in Seq(Char) /\ k # 0 /\ Lookup(dir, name) = k
    <3>1. name \in Seq(Char)
          BY <2>1, <2>2, <2>3, NameOfPart
    <3>2. k # 0
          BY <1>1, <2>4
    <3>3. open_path(dir, path) = Lookup(dir, name)
          BY <2>1, <2>2, <2>3, OpensPart
    <3> QED BY <2>4, <3>1, <3>2, <3>3
  <2>6. k \in 1 .. Len(Listed(dir)) /\ normalize_name(parse(dir[k])) = normalize_name(name)
        BY <1>1, <2>5, LookupFinds
  <2>7. Encoded(dir[k])
        BY <1>1, <2>6, EntriesApart
  <2>8. /\ s \in 1 .. Len(path) /\ n \in s .. Len(path)
        /\ \A i \in 1 .. Len(path) : path[i] # Slash <=> i \in s .. n
        /\ rfind(Trimmed(path), Slash) = s - 1 /\ Len(path) \in Nat
    <3>1. rfind(Trimmed(path), Slash) = s - 1
          BY <2>1, <2>2, NameOfPart
    <3> QED BY <2>1, <2>2, <3>1 DEF OnePart
  <2>9. s > 1 /\ HasParent(path)
    <3>1. path[1] = Slash
          BY <1>1 DEF Absolute
    <3>2. s # 1
          BY <2>8, <3>1
    <3>3. s > 1 /\ s - 1 # 0
          BY <2>8, <3>2
    <3>4. HasParent(path)
          BY <2>8, <3>3 DEF HasParent
    <3> QED BY <3>3, <3>4
  <2>10. CASE Base(name) = <<>>
    <3>1. ~ Encodable(name)
          BY <2>10 DEF Encodable
    <3>2. Refusal(path) = "InvalidName"
          BY <1>1, <2>3, <2>9, <3>1 DEF Refusal
    <3> QED BY <2>3, <2>10, <3>2
  <2>11. CASE Base(name) # <<>>
    <3>1. Encodable(name) /\ encode_short_name_8_3(name) = dir[k]
          BY <2>5, <2>6, <2>7, <2>11, AnsweredFits
    <3>2. find_dir_entry(dir, encode_short_name_8_3(name)) = k
          BY <1>1, <2>5, <2>6, <3>1, EntryFinds
    <3>3. PICK p : p = Parent(path)
          OBVIOUS
    <3>4. CASE p = <<Slash>>
      <4>1. Refusal(path) = "none"
            BY <1>1, <2>3, <2>9, <3>1, <3>3, <3>4 DEF Refusal
      <4> QED BY <2>3, <2>4, <3>2, <4>1
    <3>5. CASE p # <<Slash>>
      <4>1. s - 1 # 1 /\ p = SubSeq(path, 1, s - 2)
        <5>1. s - 1 - 1 = s - 2
              BY <2>8
        <5> QED BY <2>8, <3>3, <3>5, <5>1 DEF Parent
      <4>2. s - 2 \in 1 .. Len(path)
            BY <2>8, <2>9, <4>1
      <4>3. p \in Seq(Char) /\ Len(p) = s - 2 /\ \A i \in 1 .. s - 2 : p[i] = path[i]
            BY <2>1, <4>1, <4>2
      <4>4. \A i \in 1 .. s - 2 : path[i] = Slash
        <5> SUFFICES ASSUME NEW i \in 1 .. s - 2 PROVE path[i] = Slash
            OBVIOUS
        <5>1. i \in 1 .. Len(path) /\ i \notin s .. n
              BY <2>8, <4>2
        <5> QED BY <2>8, <5>1
      <4>5. \A i \in 1 .. Len(p) : p[i] = Slash
            BY <4>3, <4>4
      <4>6. open_path(dir, p) = 0
            BY <4>3, <4>5, NoPart
      <4>7. Refusal(path) = "PathNotFound"
            BY <1>1, <2>3, <2>9, <3>1, <3>3, <3>5, <4>6 DEF Refusal
      <4>8. Len(p) # 1
        <5> SUFFICES ASSUME Len(p) = 1 PROVE FALSE
            OBVIOUS
        <5>1. p[1] = Slash
              BY <4>5
        <5>2. p = <<Slash>>
              BY <4>3, <5>1
        <5> QED BY <3>5, <5>2
      <4>9. Len(p) > 1
            BY <2>8, <4>2, <4>3, <4>8
      <4>10. ToSet(p) = {Slash}
        <5>1. \A ch : ch \in ToSet(p) <=> ch = Slash
              BY <4>5, <4>9 DEF ToSet
        <5> QED BY <5>1
      <4> QED BY <3>3, <4>7, <4>9, <4>10
    <3> QED BY <3>4, <3>5
  <2> QED BY <2>10, <2>11
<1>2. NamesInv => ReadsWhatItWrites
      BY <1>1 DEF ReadsWhatItWrites
<1> QED BY <1>2, NamesInvHolds, PTL
=============================================================================
