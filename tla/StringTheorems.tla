---------------------------- MODULE StringTheorems ----------------------------
(***************************************************************************)
(* The theorems about the inside of strings, for texts of every length.    *)
(***************************************************************************)
EXTENDS Strings, LeastNumber, SequenceTheorems

-----------------------------------------------------------------------------
(* The loops *)

Buffer == {buf \in Seq(Byte) : buf # <<>>}
Scanned == [end : Nat \ {0}, skipped : Nat]

\* p is what the search for the closing quote is at, pass by pass.
ScanPasses(buf, p) ==
    /\ p \in [0..Len(buf) -> Scanned]
    /\ p[0] = [end |-> 2, skipped |-> 0]
    /\ \A k \in 1..Len(buf) : p[k] = ScanOne(buf, p[k - 1])

LEMMA ScanIsPasses ==
    ASSUME NEW buf \in Buffer
    PROVE  \E p : ScanPasses(buf, p) /\ Scan(buf) = p[Len(buf)]
<1> DEFINE n == Len(buf)
           pass[k \in 0..n] ==
               IF k = 0 THEN [end |-> 2, skipped |-> 0] ELSE ScanOne(buf, pass[k - 1])
           step == [k \in 1..n |-> [s \in Scanned |-> ScanOne(buf, s)]]
           b == [end |-> 2, skipped |-> 0]
<1>1. n \in Nat /\ b \in Scanned
  BY DEF Buffer, Scanned
<1>2. ASSUME NEW s \in Scanned PROVE ScanOne(buf, s) \in Scanned
  BY DEF ScanOne, Scanned
<1>3. step \in [1..n -> [Scanned -> Scanned]]
  BY <1>2
<1>4. PICK f \in [0..n -> Scanned] : Iterates(f, b, step, n)
  <2> HIDE DEF step, n, b
  <2> QED BY <1>1, <1>3, IterateExists
<1>5. f = [k \in 0..n |-> IF k = 0 THEN b ELSE ScanOne(buf, f[k - 1])]
  <2>1. ASSUME NEW k \in 0..n PROVE f[k] = IF k = 0 THEN b ELSE ScanOne(buf, f[k - 1])
    <3>1. CASE k = 0
      BY <1>4, <3>1 DEF Iterates
    <3>2. CASE k # 0
      <4>1. k \in 1..n /\ k - 1 \in 0..n
        BY <1>1, <3>2
      <4>2. f[k - 1] \in Scanned /\ f[k] = step[k][f[k - 1]]
        BY <1>4, <4>1 DEF Iterates
      <4> QED BY <3>2, <4>1, <4>2
    <3> QED BY <3>1, <3>2
  <2> QED BY <2>1
<1>6. pass = [k \in 0..n |-> IF k = 0 THEN b ELSE ScanOne(buf, pass[k - 1])]
  BY <1>5
<1>7. pass[0] = b /\ \A k \in 1..n : pass[k] = ScanOne(buf, pass[k - 1])
  <2> HIDE DEF pass, b
  <2>1. 0 \in 0..n /\ \A k \in 1..n : k \in 0..n /\ k # 0
    BY <1>1
  <2> QED BY <1>6, <2>1
<1> HIDE DEF pass
<1>8. \A k \in 0..n : pass[k] \in Scanned
  BY <1>1, <1>2, <1>7, LoopInvariant
<1>9. Scan(buf) = pass[n]
  BY DEF Scan, pass
<1>10. pass \in [0..n -> Scanned]
  BY <1>6, <1>8
<1> QED BY <1>7, <1>9, <1>10 DEF ScanPasses

-----------------------------------------------------------------------------
(* Escapes *)

LEMMA HexBound ==
    ASSUME NEW buf, NEW i
    PROVE  ParseHex4(buf, i) \in Nat /\ ParseHex4(buf, i) <= 65535
<1> DEFINE digit(c) == IF c \in 48..57 THEN c - 48
                       ELSE IF c \in 65..70 THEN 10 + c - 65
                       ELSE IF c \in 97..102 THEN 10 + c - 97 ELSE 16
           digits == [k \in 1..4 |-> digit(buf[i + k - 1])]
<1>1. ASSUME NEW c PROVE digit(c) \in 0..16
  BY SMT
<1> HIDE DEF digit
<1>2. digits \in Seq(0..16) /\ Len(digits) = 4
  BY <1>1, SMT
<1>3. Contains(digits, 16) <=> \E k \in 1..4 : digits[k] = 16
  <2> HIDE DEF digits
  <2> QED BY <1>2, SMT DEF Contains
<1>4. digits[1] \in 0..16 /\ digits[2] \in 0..16 /\ digits[3] \in 0..16 /\ digits[4] \in 0..16
  BY <1>1, SMT
<1> HIDE DEF digits
<1>5. ParseHex4(buf, i) = IF Contains(digits, 16) THEN 0
                          ELSE 4096 * digits[1] + 256 * digits[2] + 16 * digits[3] + digits[4]
  BY SMT DEF ParseHex4, digits, digit
<1>6. CASE Contains(digits, 16)
  BY <1>5, <1>6, SMT
<1>7. CASE ~Contains(digits, 16)
  <2>1. digits[1] # 16 /\ digits[2] # 16 /\ digits[3] # 16 /\ digits[4] # 16
    BY <1>3, <1>7, SMT
  <2>2. digits[1] \in 0..15 /\ digits[2] \in 0..15 /\ digits[3] \in 0..15 /\ digits[4] \in 0..15
    BY <1>4, <2>1, SMT
  <2>3. ParseHex4(buf, i) = 4096 * digits[1] + 256 * digits[2] + 16 * digits[3] + digits[4]
    BY <1>5, <1>7
  <2> DEFINE fits(v) == v \in Nat /\ v <= 65535
             value(x, y, z, w) == 4096 * x + 256 * y + 16 * z + w
  <2>4. \A x, y, z, w \in 0..15 : fits(value(x, y, z, w))
    BY SMT
  <2>5. ParseHex4(buf, i) = value(digits[1], digits[2], digits[3], digits[4])
    BY <2>3
  <2> HIDE DEF value, fits
  <2>6. fits(ParseHex4(buf, i))
    BY <2>2, <2>4, <2>5
  <2> QED BY <2>6, SMT DEF fits
<1> QED BY <1>6, <1>7, SMT

\* A code point becomes as many bytes as RFC 3629 says.
LEMMA EncodeBytes ==
    ASSUME NEW c \in Nat, c <= 1114111
    PROVE  /\ Utf8Encode(c) \in Seq(Byte) /\ Len(Utf8Encode(c)) >= 1 /\ Len(Utf8Encode(c)) <= 4
           /\ c < 65536 => Len(Utf8Encode(c)) <= 3
           /\ c < 128 => Utf8Encode(c) = <<c>>
<1> DEFINE length == IF c < 128 THEN 1 ELSE IF c < 2048 THEN 2
                     ELSE IF c < 65536 THEN 3 ELSE 4
           mark   == <<0, 192, 224, 240>>[length]
           rest(pos) == IF pos = length THEN c ELSE c \div Shifted[length - pos]
           byte(pos) == IF pos = 1 THEN mark + rest(1) ELSE 128 + (rest(pos) % 64)
<1>1. Utf8Encode(c) = [pos \in 1..length |-> byte(pos)]
  BY SMT DEF Utf8Encode
<1>2. length \in 1..4 /\ (c < 65536 => length <= 3) /\ (c < 128 <=> length = 1)
      /\ (c < 2048 <=> length \in {1, 2}) /\ (c < 65536 <=> length \in {1, 2, 3})
  BY SMT
<1> HIDE DEF length
<1>3. Shifted[1] = 64 /\ Shifted[2] = 4096 /\ Shifted[3] = 262144
  BY SMT DEF Shifted
<1>4. ASSUME NEW pos \in 1..length PROVE byte(pos) \in Byte
  <2>1. rest(pos) \in Nat
    <3>1. pos # length => Shifted[length - pos] \in {64, 4096, 262144}
      BY <1>2, <1>3, SMT
    <3> QED BY <3>1, SMT
  <2>2. CASE pos # 1
    BY <2>1, <2>2, SMT DEF Byte
  <2>3. CASE pos = 1
    <3>1. CASE length = 1
      BY <1>2, <2>3, <3>1, SMT DEF Byte
    <3>2. CASE length = 2
      <4>1. rest(1) = c \div 64 /\ c < 2048
        BY <1>2, <1>3, <3>2, SMT
      <4>2. rest(1) \in 0..31
        BY <4>1, SMT
      <4> QED BY <2>3, <3>2, <4>2, SMT DEF Byte
    <3>3. CASE length = 3
      <4>1. rest(1) = c \div 4096 /\ c < 65536
        BY <1>2, <1>3, <3>3, SMT
      <4>2. rest(1) \in 0..15
        BY <4>1, SMT
      <4> QED BY <2>3, <3>3, <4>2, SMT DEF Byte
    <3>4. CASE length = 4
      <4>1. rest(1) = c \div 262144
        BY <1>2, <1>3, <3>4, SMT
      <4>2. rest(1) \in 0..4
        BY <4>1, SMT
      <4> QED BY <2>3, <3>4, <4>2, SMT DEF Byte
    <3> QED BY <1>2, <3>1, <3>2, <3>3, <3>4, SMT
  <2> QED BY <2>2, <2>3, SMT
<1>5. Utf8Encode(c) \in Seq(Byte) /\ Len(Utf8Encode(c)) = length
  <2> HIDE DEF byte
  <2>1. [pos \in 1..length |-> byte(pos)] \in [1..length -> Byte]
    BY <1>4, SMT
  <2> QED BY <1>1, <1>2, <2>1, SMT
<1>6. c < 128 => Utf8Encode(c) = <<c>>
  <2> SUFFICES ASSUME c < 128 PROVE Utf8Encode(c) = <<c>>
    BY SMT
  <2>1. length = 1
    BY <1>2, SMT
  <2>2. byte(1) = c
    BY <2>1, SMT
  <2> HIDE DEF byte
  <2>3. Utf8Encode(c)[1] = c /\ Len(Utf8Encode(c)) = 1
    BY <1>1, <1>5, <2>1, <2>2, SMT
  <2> QED BY <1>5, <2>3, SMT
<1> QED BY <1>2, <1>5, <1>6, SMT

\* What an escape takes off the text and puts into the block.
Escaped(e, left) ==
    /\ e.bytes \in Seq(Byte) /\ e.length \in {0, 2, 6, 12}
    /\ e.length = 0 => Len(e.bytes) = 0
    /\ e.length = 2 => Len(e.bytes) = 1
    /\ e.length = 6 => Len(e.bytes) <= 3 /\ left >= 6
    /\ e.length = 12 => Len(e.bytes) <= 4 /\ left >= 12

LEMMA PairFits ==
    ASSUME NEW x \in Nat, NEW y \in Nat
    PROVE  LET c == 65536 + 1024 * (x % 1024) + (y % 1024) IN c \in Nat /\ c <= 1114111
<1>1. x % 1024 \in 0..1023 /\ y % 1024 \in 0..1023
  BY SMT
<1> QED BY <1>1, SMT

LEMMA UnicodeEscapeFits ==
    ASSUME NEW buf, NEW i \in Nat, NEW end \in Nat
    PROVE  Escaped(Utf16LiteralToUtf8(buf, i, end), end - i)
<1> DEFINE first == ParseHex4(buf, i + 2)
           second == ParseHex4(buf, i + 8)
           pair == 65536 + 1024 * (first % 1024) + (second % 1024)
           e == Utf16LiteralToUtf8(buf, i, end)
<1>1. e \in {Refused, [bytes |-> Utf8Encode(first), length |-> 6],
             [bytes |-> Utf8Encode(pair), length |-> 12]}
      /\ (e # Refused => end - i >= 6)
      /\ (e \notin {Refused, [bytes |-> Utf8Encode(first), length |-> 6]}
            => SecondHalf(buf, i + 6, end))
  BY DEF Utf16LiteralToUtf8
<1>2. Len(Utf8Encode(first)) <= 3 /\ Utf8Encode(first) \in Seq(Byte)
  <2>1. first \in Nat /\ first <= 65535
    BY HexBound
  <2>2. first <= 1114111 /\ first < 65536
    BY <2>1, SMT
  <2> QED BY <2>1, <2>2, EncodeBytes, SMT
<1>3. Len(Utf8Encode(pair)) <= 4 /\ Utf8Encode(pair) \in Seq(Byte)
  <2>1. first \in Nat /\ second \in Nat
    BY HexBound, SMT
  <2>2. pair \in Nat /\ pair <= 1114111
    BY <2>1, PairFits, SMT
  <2>3. ASSUME NEW c \in Nat, c <= 1114111
        PROVE  Len(Utf8Encode(c)) <= 4 /\ Utf8Encode(c) \in Seq(Byte)
    BY <2>3, EncodeBytes, SMT
  <2> HIDE DEF pair
  <2> QED BY <2>2, <2>3, SMT
<1>4. SecondHalf(buf, i + 6, end) => end - i >= 12
  BY SMT DEF SecondHalf
<1> HIDE DEF first, second, pair, e
<1>5. CASE e = Refused
  BY <1>5, SMT DEF Escaped, Refused, e
<1>6. CASE e = [bytes |-> Utf8Encode(first), length |-> 6] /\ e # Refused
  BY <1>1, <1>2, <1>6, SMT DEF Escaped, e
<1>7. CASE e = [bytes |-> Utf8Encode(pair), length |-> 12]
           /\ e \notin {Refused, [bytes |-> Utf8Encode(first), length |-> 6]}
  BY <1>1, <1>3, <1>4, <1>7, SMT DEF Escaped, e
<1> QED BY <1>1, <1>5, <1>6, <1>7 DEF e

LEMMA EscapeFits ==
    ASSUME NEW buf \in Buffer, NEW end \in 1..Len(buf), NEW i \in Nat, i >= 1, i < end
    PROVE  Escaped(Escape(buf, i, end), end - i)
<1> DEFINE letter == buf[i + 1]
<1>1. letter \in Byte
  BY SMT DEF Buffer
<1>2. CASE letter \in DOMAIN ByteOf
  <2>1. ByteOf[letter] \in Byte
    BY <1>2, SMT DEF ByteOf, Byte
  <2>2. Escape(buf, i, end) = [bytes |-> <<ByteOf[letter]>>, length |-> 2]
    BY <1>2 DEF Escape
  <2> QED BY <2>1, <2>2, SMT DEF Escaped
<1>3. CASE letter \notin DOMAIN ByteOf /\ letter \in {Quote, Backslash, Slash}
  <2>1. Escape(buf, i, end) = [bytes |-> <<letter>>, length |-> 2]
    BY <1>3 DEF Escape
  <2> QED BY <1>1, <2>1, SMT DEF Escaped
<1>4. CASE letter \notin DOMAIN ByteOf /\ letter \notin {Quote, Backslash, Slash}
  <2>1. Escape(buf, i, end) \in {Utf16LiteralToUtf8(buf, i, end), Refused}
    BY <1>4 DEF Escape
  <2>2. Escaped(Refused, end - i)
    BY SMT DEF Escaped, Refused
  <2> QED BY <2>1, <2>2, UnicodeEscapeFits
<1> QED BY <1>2, <1>3, <1>4

-----------------------------------------------------------------------------
(* The block.  c says how many escapes begin before a place, as the scan reads  *)
(* them.  The decoder may stand where the scan did not, in the middle of an     *)
(* escape; so what matters is how many can begin between any two places.        *)

EscapeCount(buf, s, c) ==
    /\ c \in [2..s.end -> Nat]
    /\ c[2] = 0 /\ c[s.end] = s.skipped
    /\ \A i, j \in 2..s.end : i <= j => c[i] <= c[j] /\ 2 * (c[j] - c[i]) <= j - i + 1
    /\ \A i \in 2..s.end : 2 * (c[s.end] - c[i]) <= s.end - i
    /\ \A i \in 2..(s.end - 1) : buf[i] # Backslash => c[i + 1] = c[i]

Counted(buf) == {s \in Scanned : s.end >= 2 /\ \E c : EscapeCount(buf, s, c)}

LEMMA ScanOneCounts ==
    ASSUME NEW buf \in Buffer, NEW s \in Counted(buf)
    PROVE  ScanOne(buf, s) \in Counted(buf)
<1> DEFINE t == ScanOne(buf, s)
           e == s.end
<1>1. PICK c : EscapeCount(buf, s, c)
  BY DEF Counted
<1>2. s \in Scanned /\ e \in Nat /\ e >= 2
  BY DEF Counted, Scanned
<1>3. CASE t = s
  BY <1>3
<1>4. CASE ~Searched(buf, s) /\ buf[e] = Backslash
  <2>1. t = [end |-> e + 2, skipped |-> s.skipped + 1]
    BY <1>4 DEF ScanOne
  <2>2. t \in Scanned /\ t.end = e + 2 /\ t.skipped = s.skipped + 1
    BY <1>2, <2>1 DEF Scanned
  <2> HIDE DEF t
  <2> DEFINE d == [i \in 2..t.end |-> IF i <= e THEN c[i] ELSE s.skipped + 1]
  <2>3. s.skipped \in Nat /\ c[e] = s.skipped /\ \A i \in 2..e : c[i] \in Nat
    BY <1>1, <1>2 DEF EscapeCount, Scanned
  <2>4. d \in [2..t.end -> Nat] /\ d[2] = 0 /\ d[t.end] = s.skipped + 1
    <3>1. c[2] = 0
      BY <1>1 DEF EscapeCount
    <3>2. 2 \in 2..t.end /\ t.end \in 2..t.end /\ 2 <= e /\ ~(t.end <= e)
      BY <1>2, <2>2
    <3>3. \A i \in 2..t.end : i <= e => i \in 2..e
      BY <1>2, <2>2
    <3>4. \A i \in 2..t.end : d[i] \in Nat
      BY <2>3, <3>3
    <3> QED BY <3>1, <3>2, <3>4
  <2>5. ASSUME NEW i \in 2..t.end, NEW j \in 2..t.end, i <= j
        PROVE  d[i] <= d[j] /\ 2 * (d[j] - d[i]) <= j - i + 1
    <3>1. CASE j <= e
      <4>1. i \in 2..e /\ j \in 2..e /\ d[i] = c[i] /\ d[j] = c[j]
        BY <1>2, <2>2, <2>5, <3>1
      <4> QED BY <1>1, <2>5, <4>1 DEF EscapeCount
    <3>2. CASE i <= e /\ j > e
      <4>1. i \in 2..e /\ d[i] = c[i] /\ d[j] = s.skipped + 1 /\ j >= e + 1
        BY <1>2, <2>2, <2>5, <3>2
      <4>2. e \in 2..e /\ c[i] <= c[e] /\ 2 * (c[e] - c[i]) <= e - i
        BY <1>1, <1>2, <4>1 DEF EscapeCount
      <4>3. c[i] \in Nat /\ c[e] \in Nat
        BY <2>3, <4>1, <4>2
      <4>4. i \in Nat /\ j \in Nat
        BY <1>2, <2>2
      <4>5. \A u, v, x, y, z \in Nat :
              u <= v /\ 2 * (v - u) <= z - x /\ y >= z + 1 =>
                  u <= v + 1 /\ 2 * ((v + 1) - u) <= y - x + 1
        OBVIOUS
      <4>6. c[i] <= c[e] + 1 /\ 2 * ((c[e] + 1) - c[i]) <= j - i + 1
        BY <1>2, <4>1, <4>2, <4>3, <4>4, <4>5
      <4>7. d[i] = c[i] /\ d[j] = c[e] + 1
        BY <2>3, <4>1
      <4> HIDE DEF d
      <4> QED BY <4>6, <4>7
    <3>3. CASE i > e
      <4>1. d[i] = s.skipped + 1 /\ d[j] = s.skipped + 1
        BY <1>2, <2>2, <2>5, <3>3
      <4> QED BY <2>3, <2>5, <4>1
    <3> QED BY <1>2, <2>2, <3>1, <3>2, <3>3
  <2>6. ASSUME NEW i \in 2..t.end PROVE 2 * (d[t.end] - d[i]) <= t.end - i
    <3>1. CASE i <= e
      <4>1. i \in 2..e /\ d[i] = c[i]
        BY <1>2, <2>2, <3>1
      <4>2. 2 * (c[e] - c[i]) <= e - i /\ e \in 2..e
        BY <1>1, <1>2, <4>1 DEF EscapeCount
      <4>3. c[i] \in Nat /\ c[e] \in Nat
        BY <2>3, <4>1, <4>2
      <4>4. 2 * ((s.skipped + 1) - c[i]) <= t.end - i
        BY <1>2, <2>2, <2>3, <4>2, <4>3
      <4> QED BY <2>4, <4>1, <4>4
    <3>2. CASE i > e
      <4>1. d[i] = s.skipped + 1
        BY <1>2, <2>2, <3>2
      <4> QED BY <1>2, <2>2, <2>3, <2>4, <4>1
    <3> QED BY <1>2, <2>2, <3>1, <3>2
  <2>7. ASSUME NEW i \in 2..(t.end - 1), buf[i] # Backslash PROVE d[i + 1] = d[i]
    <3>1. i # e
      BY <1>4, <2>7
    <3>2. CASE i < e
      <4>1. i \in 2..(e - 1) /\ d[i] = c[i] /\ d[i + 1] = c[i + 1]
        BY <1>2, <2>2, <3>2
      <4> QED BY <1>1, <2>7, <4>1 DEF EscapeCount
    <3>3. CASE i > e
      BY <1>2, <2>2, <3>3
    <3> QED BY <1>2, <2>2, <3>1, <3>2, <3>3
  <2> HIDE DEF d
  <2>8. EscapeCount(buf, t, d)
    BY <2>2, <2>4, <2>5, <2>6, <2>7 DEF EscapeCount
  <2> QED BY <1>2, <2>2, <2>8 DEF Counted, t
<1>5. CASE ~Searched(buf, s) /\ buf[e] # Backslash
  <2>1. t = [s EXCEPT !.end = @ + 1]
    BY <1>5 DEF ScanOne
  <2>2. t \in Scanned /\ t.end = e + 1 /\ t.skipped = s.skipped
    BY <1>2, <2>1 DEF Scanned
  <2> HIDE DEF t
  <2> DEFINE d == [i \in 2..t.end |-> IF i <= e THEN c[i] ELSE s.skipped]
  <2>3. s.skipped \in Nat /\ c[e] = s.skipped /\ \A i \in 2..e : c[i] \in Nat
    BY <1>1, <1>2 DEF EscapeCount, Scanned
  <2>4. d \in [2..t.end -> Nat] /\ d[2] = 0 /\ d[t.end] = s.skipped
    <3>1. c[2] = 0
      BY <1>1 DEF EscapeCount
    <3>2. 2 \in 2..t.end /\ t.end \in 2..t.end /\ 2 <= e /\ ~(t.end <= e)
      BY <1>2, <2>2
    <3>3. \A i \in 2..t.end : i <= e => i \in 2..e
      BY <1>2, <2>2
    <3>4. \A i \in 2..t.end : d[i] \in Nat
      BY <2>3, <3>3
    <3> QED BY <3>1, <3>2, <3>4
  <2>5. ASSUME NEW i \in 2..t.end, NEW j \in 2..t.end, i <= j
        PROVE  d[i] <= d[j] /\ 2 * (d[j] - d[i]) <= j - i + 1
    <3>1. CASE j <= e
      <4>1. i \in 2..e /\ j \in 2..e /\ d[i] = c[i] /\ d[j] = c[j]
        BY <1>2, <2>2, <2>5, <3>1
      <4> QED BY <1>1, <2>5, <4>1 DEF EscapeCount
    <3>2. CASE i <= e /\ j > e
      <4>1. i \in 2..e /\ d[i] = c[i] /\ d[j] = s.skipped /\ j = e + 1
        BY <1>2, <2>2, <2>5, <3>2
      <4>2. e \in 2..e /\ c[i] <= c[e] /\ 2 * (c[e] - c[i]) <= e - i
        BY <1>1, <1>2, <4>1 DEF EscapeCount
      <4>3. c[i] \in Nat /\ c[e] \in Nat
        BY <2>3, <4>1, <4>2
      <4>4. i \in Nat /\ j \in Nat
        BY <1>2, <2>2
      <4>5. \A u, v, x, z \in Nat : 2 * (v - u) <= z - x => 2 * (v - u) <= (z + 1) - x + 1
        OBVIOUS
      <4>6. 2 * (c[e] - c[i]) <= j - i + 1
        BY <1>2, <4>1, <4>2, <4>3, <4>4, <4>5
      <4>7. d[i] = c[i] /\ d[j] = c[e]
        BY <2>3, <4>1
      <4> HIDE DEF d
      <4> QED BY <4>2, <4>6, <4>7
    <3>3. CASE i > e
      <4>1. d[i] = s.skipped /\ d[j] = s.skipped
        BY <1>2, <2>2, <2>5, <3>3
      <4> QED BY <2>3, <2>5, <4>1
    <3> QED BY <1>2, <2>2, <3>1, <3>2, <3>3
  <2>6. ASSUME NEW i \in 2..t.end PROVE 2 * (d[t.end] - d[i]) <= t.end - i
    <3>1. CASE i <= e
      <4>1. i \in 2..e /\ d[i] = c[i]
        BY <1>2, <2>2, <3>1
      <4>2. 2 * (c[e] - c[i]) <= e - i /\ e \in 2..e
        BY <1>1, <1>2, <4>1 DEF EscapeCount
      <4>3. c[i] \in Nat /\ c[e] \in Nat
        BY <2>3, <4>1, <4>2
      <4> QED BY <1>2, <2>2, <2>3, <2>4, <4>1, <4>2, <4>3
    <3>2. CASE i > e
      <4>1. d[i] = s.skipped
        BY <1>2, <2>2, <3>2
      <4> QED BY <1>2, <2>2, <2>3, <2>4, <4>1
    <3> QED BY <1>2, <2>2, <3>1, <3>2
  <2>7. ASSUME NEW i \in 2..(t.end - 1), buf[i] # Backslash PROVE d[i + 1] = d[i]
    <3>1. CASE i < e
      <4>1. i \in 2..(e - 1) /\ d[i] = c[i] /\ d[i + 1] = c[i + 1]
        BY <1>2, <2>2, <3>1
      <4> QED BY <1>1, <2>7, <4>1 DEF EscapeCount
    <3>2. CASE i = e
      BY <1>2, <2>2, <2>3, <3>2
    <3> QED BY <1>2, <2>2, <3>1, <3>2
  <2> HIDE DEF d
  <2>8. EscapeCount(buf, t, d)
    BY <2>2, <2>4, <2>5, <2>6, <2>7 DEF EscapeCount
  <2> QED BY <1>2, <2>2, <2>8 DEF Counted, t
<1> QED BY <1>3, <1>4, <1>5 DEF ScanOne

LEMMA ScanCounts ==
    ASSUME NEW buf \in Buffer
    PROVE  Scan(buf) \in Counted(buf)
<1> DEFINE n == Len(buf)
           b == [end |-> 2, skipped |-> 0]
           c == [i \in 2..2 |-> 0]
<1>1. n \in Nat /\ b \in Scanned
  BY DEF Buffer, Scanned
<1>2. EscapeCount(buf, b, c)
  <2>1. b.end = 2 /\ b.skipped = 0 /\ c \in [2..2 -> Nat] /\ c[2] = 0
    OBVIOUS
  <2> HIDE DEF b, c
  <2> QED BY <2>1 DEF EscapeCount
<1>3. b \in Counted(buf)
  BY <1>1, <1>2 DEF Counted
<1>4. PICK p : ScanPasses(buf, p) /\ Scan(buf) = p[n]
  BY ScanIsPasses
<1> HIDE DEF n
<1>5. \A k \in 0..n : p[k] \in Counted(buf)
  <2>1. p[0] \in Counted(buf)
    BY <1>3, <1>4 DEF ScanPasses
  <2>2. \A k \in 1..n : p[k - 1] \in Counted(buf) => p[k] \in Counted(buf)
    BY <1>4, ScanOneCounts DEF ScanPasses, n
  <2> QED BY <1>1, <2>1, <2>2, LoopInvariant
<1> QED BY <1>1, <1>4, <1>5

-----------------------------------------------------------------------------
(* Decoding, byte by byte or escape by escape. *)

Decoded == [at : Nat \ {0}, out : Seq(Byte)]

DecodePasses(buf, end, p) ==
    /\ p \in [0..end -> Decoded]
    /\ p[0] = [at |-> 2, out |-> <<>>]
    /\ \A k \in 1..end : p[k] = DecodeOne(buf, end, p[k - 1])

\* The three things a step of the decoder does.
LEMMA DecodeOneCases ==
    ASSUME NEW buf \in Buffer, NEW end \in 1..Len(buf), NEW d \in Decoded
    PROVE  /\ d.at >= end => DecodeOne(buf, end, d) = d
           /\ d.at < end /\ buf[d.at] # Backslash =>
                /\ buf[d.at] \in Byte
                /\ DecodeOne(buf, end, d) = [at |-> d.at + 1, out |-> Append(d.out, buf[d.at])]
           /\ d.at < end /\ buf[d.at] = Backslash =>
                \E e : /\ e = Escape(buf, d.at, end) /\ Escaped(e, end - d.at)
                       /\ DecodeOne(buf, end, d) = [at |-> d.at + e.length, out |-> d.out \o e.bytes]
<1>1. d.at \in Nat /\ d.at >= 1
  BY DEF Decoded
<1>2. CASE d.at >= end
  <2>1. ~(d.at < end)
    BY <1>1, <1>2
  <2>2. DecodeOne(buf, end, d) = d
    BY <1>2 DEF DecodeOne
  <2> QED BY <2>1, <2>2
<1>3. CASE d.at < end /\ buf[d.at] # Backslash
  <2>1. buf[d.at] \in Byte
    BY <1>1, <1>3 DEF Buffer
  <2>2. ~(d.at >= end)
    BY <1>1, <1>3
  <2> QED BY <1>3, <2>1, <2>2 DEF DecodeOne
<1>4. CASE d.at < end /\ buf[d.at] = Backslash
  <2>1. ~(d.at >= end)
    BY <1>1, <1>4
  <2>2. Escaped(Escape(buf, d.at, end), end - d.at)
    BY <1>1, <1>4, EscapeFits
  <2> QED BY <1>4, <2>1, <2>2, Zenon DEF DecodeOne
<1> QED BY <1>1, <1>2, <1>3, <1>4

LEMMA DecodeOneType ==
    ASSUME NEW buf \in Buffer, NEW end \in 1..Len(buf), NEW d \in Decoded
    PROVE  DecodeOne(buf, end, d) \in Decoded
<1>1. d.at \in Nat \ {0} /\ d.out \in Seq(Byte)
  BY DEF Decoded
<1>2. CASE d.at >= end
  BY <1>2, DecodeOneCases
<1>3. CASE d.at < end /\ buf[d.at] # Backslash
  <2>1. DecodeOne(buf, end, d) = [at |-> d.at + 1, out |-> Append(d.out, buf[d.at])]
        /\ buf[d.at] \in Byte
    BY <1>3, DecodeOneCases
  <2>2. Append(d.out, buf[d.at]) \in Seq(Byte)
    BY <1>1, <2>1
  <2> QED BY <1>1, <2>1, <2>2 DEF Decoded
<1>4. CASE d.at < end /\ buf[d.at] = Backslash
  <2>1. PICK e : /\ e = Escape(buf, d.at, end) /\ Escaped(e, end - d.at)
                 /\ DecodeOne(buf, end, d) = [at |-> d.at + e.length, out |-> d.out \o e.bytes]
    BY <1>4, DecodeOneCases
  <2>2. e.length \in Nat /\ e.bytes \in Seq(Byte)
    BY <2>1 DEF Escaped
  <2>3. d.out \o e.bytes \in Seq(Byte)
    BY <1>1, <2>2
  <2> QED BY <1>1, <2>1, <2>2, <2>3 DEF Decoded
<1> QED BY <1>1, <1>2, <1>3, <1>4

LEMMA DecodeIsPasses ==
    ASSUME NEW buf \in Buffer, NEW end \in 1..Len(buf)
    PROVE  \E p : DecodePasses(buf, end, p) /\ Decode(buf, end) = p[end]
<1> DEFINE pass[k \in 0..end] ==
               IF k = 0 THEN [at |-> 2, out |-> <<>>] ELSE DecodeOne(buf, end, pass[k - 1])
           step == [k \in 1..end |-> [d \in Decoded |-> DecodeOne(buf, end, d)]]
           b == [at |-> 2, out |-> <<>>]
<1>1. end \in Nat /\ b \in Decoded
  BY DEF Buffer, Decoded
<1>2. step \in [1..end -> [Decoded -> Decoded]]
  BY DecodeOneType
<1>3. PICK f \in [0..end -> Decoded] : Iterates(f, b, step, end)
  <2> HIDE DEF step, b
  <2> QED BY <1>1, <1>2, IterateExists
<1>4. f = [k \in 0..end |-> IF k = 0 THEN b ELSE DecodeOne(buf, end, f[k - 1])]
  <2>1. ASSUME NEW k \in 0..end
        PROVE  f[k] = IF k = 0 THEN b ELSE DecodeOne(buf, end, f[k - 1])
    <3>1. CASE k = 0
      BY <1>3, <3>1 DEF Iterates
    <3>2. CASE k # 0
      <4>1. k \in 1..end /\ k - 1 \in 0..end
        BY <1>1, <3>2
      <4>2. f[k - 1] \in Decoded /\ f[k] = step[k][f[k - 1]]
        BY <1>3, <4>1 DEF Iterates
      <4> QED BY <3>2, <4>1, <4>2
    <3> QED BY <3>1, <3>2
  <2> QED BY <2>1
<1>5. pass = [k \in 0..end |-> IF k = 0 THEN b ELSE DecodeOne(buf, end, pass[k - 1])]
  BY <1>4
<1>6. pass[0] = b /\ \A k \in 1..end : pass[k] = DecodeOne(buf, end, pass[k - 1])
  <2> HIDE DEF pass, b
  <2>1. 0 \in 0..end /\ \A k \in 1..end : k \in 0..end /\ k # 0
    BY <1>1
  <2> QED BY <1>5, <2>1
<1> HIDE DEF pass
<1>7. \A k \in 0..end : pass[k] \in Decoded
  BY <1>1, <1>6, DecodeOneType, LoopInvariant
<1>8. Decode(buf, end) = pass[end]
  BY DEF Decode, pass
<1>9. pass \in [0..end -> Decoded]
  BY <1>5, <1>7
<1> QED BY <1>6, <1>8, <1>9 DEF DecodePasses

-----------------------------------------------------------------------------
(* What has been decoded fits what the scan has counted so far.  An escape of *)
(* two bytes may be decoded over the end by one; the spare byte of the block   *)
(* is then the last.                                                           *)
InBlock(buf, s, c) ==
    {d \in Decoded : /\ d.at >= 2 /\ d.at <= s.end + 1
                     /\ d.at <= s.end => Len(d.out) <= d.at - 2 - c[d.at]
                     /\ d.at = s.end + 1 => Len(d.out) <= d.at - 2 - s.skipped}

LEMMA DecodeOneInBlock ==
    ASSUME NEW buf \in Buffer, NEW s \in Scanned, s.end >= 2, s.end <= Len(buf),
           NEW c, EscapeCount(buf, s, c), NEW d \in InBlock(buf, s, c)
    PROVE  DecodeOne(buf, s.end, d) \in InBlock(buf, s, c)
<1> DEFINE at == d.at
           end == s.end
           t == DecodeOne(buf, end, d)
<1>1. end \in 1..Len(buf) /\ end >= 2 /\ s.skipped \in Nat
  BY DEF Scanned, Buffer
<1>2. d \in Decoded /\ at \in Nat /\ at >= 2 /\ at <= end + 1 /\ Len(d.out) \in Nat
      /\ d.out \in Seq(Byte)
  BY DEF InBlock, Decoded
<1>3. t \in Decoded
  BY <1>1, <1>2, DecodeOneType
<1>4. \A i \in 2..end : c[i] \in Nat
  BY <1>1 DEF EscapeCount
<1>5. \A i, j \in 2..end : i <= j => c[i] <= c[j] /\ 2 * (c[j] - c[i]) <= j - i + 1
  BY DEF EscapeCount
<1>6. c[end] = s.skipped
  BY DEF EscapeCount
<1>7. CASE at >= end
  BY <1>1, <1>2, <1>7, DecodeOneCases
<1> HIDE DEF at, end
<1>8. CASE at < end /\ buf[at] # Backslash
  <2>1. t = [at |-> at + 1, out |-> Append(d.out, buf[at])]
    BY <1>1, <1>2, <1>8, DecodeOneCases DEF at, end
  <2>2. t.at = at + 1 /\ t.out = Append(d.out, buf[at]) /\ Len(t.out) = Len(d.out) + 1
    BY <1>2, <2>1
  <2>3. at \in 2..(end - 1) /\ c[at + 1] = c[at]
    BY <1>1, <1>2, <1>8 DEF EscapeCount, end
  <2>4. c[at] \in Nat /\ c[at + 1] \in Nat
    BY <1>1, <1>4, <2>3
  <2>5. Len(d.out) <= at - 2 - c[at]
    BY <1>8, <1>1, <1>2 DEF InBlock, at, end
  <2> HIDE DEF t
  <2>6. t.at <= end /\ Len(t.out) <= (at + 1) - 2 - c[at + 1]
    BY <1>1, <1>2, <2>2, <2>3, <2>4, <2>5
  <2>7. t.at >= 2 /\ t.at <= end + 1 /\ t.at # end + 1
    BY <1>1, <1>2, <2>2, <2>3
  <2> QED BY <1>3, <2>2, <2>6, <2>7 DEF InBlock, t, at, end
<1>9. CASE at < end /\ buf[at] = Backslash
  <2>1. PICK e : /\ e = Escape(buf, at, end) /\ Escaped(e, end - at)
                 /\ t = [at |-> at + e.length, out |-> d.out \o e.bytes]
    BY <1>1, <1>2, <1>9, DecodeOneCases DEF at, end
  <2>2. e.bytes \in Seq(Byte) /\ e.length \in {0, 2, 6, 12} /\ Len(e.bytes) \in Nat
    BY <2>1 DEF Escaped
  <2>3. t.at = at + e.length /\ Len(t.out) = Len(d.out) + Len(e.bytes)
    BY <1>2, <2>1, <2>2
  <2>4. at \in 2..end /\ c[at] \in Nat /\ Len(d.out) <= at - 2 - c[at]
    BY <1>1, <1>2, <1>4, <1>9 DEF InBlock, at, end
  <2>5. at + 1 \in 2..end /\ c[at + 1] \in Nat
    BY <1>1, <1>4, <1>9, <2>4
  <2> HIDE DEF t
  <2>6. CASE t.at <= end
    <3>1. t.at \in 2..end /\ c[t.at] \in Nat
      BY SMTT(30), <1>1, <1>4, <2>2, <2>3, <2>4, <2>6
    <3>2. 2 * (c[t.at] - c[at]) <= e.length + 1
      <4>1. at <= t.at /\ t.at - at = e.length
        BY <1>2, <2>2, <2>3
      <4>2. 2 * (c[t.at] - c[at]) <= t.at - at + 1
        BY <1>5, <2>4, <3>1, <4>1
      <4> QED BY <4>1, <4>2
    <3>3. Len(e.bytes) <= e.length - (c[t.at] - c[at])
      <4>1. CASE e.length = 0
        <5>1. Len(e.bytes) = 0 /\ t.at = at
          BY <2>1, <2>3, <2>4, <4>1 DEF Escaped
        <5> QED BY <2>4, <4>1, <5>1
      <4>2. CASE e.length = 2
        <5>1. c[t.at] - c[at] <= 1
          BY <2>4, <3>1, <3>2, <4>2
        <5>2. Len(e.bytes) = 1
          BY <2>1, <4>2 DEF Escaped
        <5> QED BY <2>4, <3>1, <4>2, <5>1, <5>2
      <4>3. CASE e.length = 6
        BY SMTT(30), <2>1, <2>2, <2>4, <3>1, <3>2, <4>3 DEF Escaped
      <4>4. CASE e.length = 12
        BY SMTT(30), <2>1, <2>2, <2>4, <3>1, <3>2, <4>4 DEF Escaped
      <4> QED BY <2>2, <4>1, <4>2, <4>3, <4>4
    <3>4. Len(t.out) <= t.at - 2 - c[t.at]
      <4>1. \A a, l, x, y, m, n \in Nat : n <= a - 2 - x /\ m <= l - (y - x)
                                            => n + m <= (a + l) - 2 - y
        OBVIOUS
      <4>2. e.length \in Nat
        BY <2>2
      <4>3. Len(d.out) + Len(e.bytes) <= (at + e.length) - 2 - c[t.at]
        BY <1>2, <2>2, <2>4, <3>1, <3>3, <4>1, <4>2
      <4> QED BY <2>3, <4>3
    <3>5. t.at >= 2 /\ t.at <= end + 1 /\ t.at # end + 1
      BY <1>1, <2>6, <3>1
    <3> QED BY <1>3, <3>4, <3>5 DEF InBlock, t, at, end
  <2>7. CASE ~(t.at <= end)
    <3>1. e.length = 2 /\ Len(e.bytes) = 1 /\ t.at = end + 1 /\ at + 1 = end
      BY <1>1, <1>2, <1>9, <2>1, <2>2, <2>3, <2>4, <2>7 DEF Escaped
    <3>2. 2 * (c[at + 1] - c[at]) <= 2
      BY <1>5, <2>4, <2>5
    <3>3. Len(t.out) <= t.at - 2 - s.skipped
      <4>1. s.skipped <= c[at] + 1
        BY <1>1, <1>6, <2>4, <2>5, <3>1, <3>2
      <4>2. \A a, x, y, n \in Nat : n <= a - 2 - x /\ y <= x + 1 => n + 1 <= (a + 2) - 2 - y
        OBVIOUS
      <4>3. Len(d.out) + 1 <= (at + 2) - 2 - s.skipped
        BY <1>1, <1>2, <2>4, <4>1, <4>2
      <4> QED BY <2>3, <3>1, <4>3
    <3>4. t.at >= 2 /\ t.at <= end + 1 /\ ~(t.at <= end)
      BY <1>1, <3>1
    <3> QED BY <1>3, <3>3, <3>4 DEF InBlock, t, at, end
  <2> QED BY <2>6, <2>7
<1> QED BY <1>1, <1>2, <1>7, <1>8, <1>9

LEMMA DecodeInBlock ==
    ASSUME NEW buf \in Buffer, Scan(buf).end <= Len(buf)
    PROVE  LET s == Scan(buf)
               d == Decode(buf, s.end)
           IN  /\ s \in Scanned /\ s.end >= 2
               /\ d \in Decoded /\ d.at <= s.end + 1 /\ d.at >= 2
               /\ Len(d.out) + 1 <= s.end - s.skipped
<1> DEFINE s == Scan(buf)
           end == s.end
           d == Decode(buf, s.end)
           b == [at |-> 2, out |-> <<>>]
<1>1. PICK c : EscapeCount(buf, s, c)
  BY ScanCounts DEF Counted
<1>2. s \in Scanned /\ end \in Nat /\ end >= 2 /\ end \in 1..Len(buf) /\ s.skipped \in Nat
  BY ScanCounts DEF Counted, Scanned, Buffer
<1> HIDE DEF s
<1>3. b \in InBlock(buf, s, c)
  <2>1. c[2] = 0 /\ b \in Decoded /\ b.at = 2 /\ Len(b.out) = 0
    BY <1>1 DEF EscapeCount, Decoded
  <2> HIDE DEF b
  <2> QED BY <1>2, <2>1 DEF InBlock
<1>4. PICK p : DecodePasses(buf, end, p) /\ d = p[end]
  BY <1>2, DecodeIsPasses
<1>5. \A k \in 0..end : p[k] \in InBlock(buf, s, c)
  <2>1. p[0] \in InBlock(buf, s, c)
    BY <1>3, <1>4 DEF DecodePasses
  <2>2. ASSUME NEW k \in 1..end, p[k - 1] \in InBlock(buf, s, c)
        PROVE  p[k] \in InBlock(buf, s, c)
    <3>1. p[k] = DecodeOne(buf, end, p[k - 1])
      BY <1>4 DEF DecodePasses
    <3>2. s.end >= 2 /\ s.end <= Len(buf) /\ s \in Scanned
      BY <1>2 DEF s
    <3> QED BY <1>1, <2>2, <3>1, <3>2, DecodeOneInBlock
  <2> QED BY <1>2, <2>1, <2>2, LoopInvariant
<1>6. d \in InBlock(buf, s, c)
  BY <1>2, <1>4, <1>5
<1> HIDE DEF d, end
<1>7. d \in Decoded /\ d.at \in Nat /\ d.at >= 2 /\ d.at <= end + 1 /\ Len(d.out) \in Nat
      /\ (d.at <= end => Len(d.out) <= d.at - 2 - c[d.at])
      /\ (d.at = end + 1 => Len(d.out) <= d.at - 2 - s.skipped)
  BY <1>6 DEF InBlock, Decoded, end
<1>8. Len(d.out) + 1 <= end - s.skipped
  <2>1. CASE d.at <= end
    <3>1. d.at \in 2..end /\ end \in 2..end /\ Len(d.out) <= d.at - 2 - c[d.at]
      BY <1>2, <1>7, <2>1
    <3>2. c[d.at] \in Nat /\ c[end] = s.skipped /\ 2 * (c[end] - c[d.at]) <= end - d.at
      BY <1>1, <3>1 DEF EscapeCount, end
    <3>3. s.skipped - c[d.at] <= end - d.at
      BY <1>2, <1>7, <2>1, <3>2
    <3>4. \A a, x, y, n, m \in Nat : n <= a - 2 - x /\ y - x <= m - a => n + 1 <= m - y
      OBVIOUS
    <3> QED BY <1>2, <1>7, <3>1, <3>2, <3>3, <3>4
  <2>2. CASE d.at = end + 1
    BY <1>2, <1>7, <2>2
  <2> QED BY <1>2, <1>7, <2>1, <2>2
<1> QED BY <1>2, <1>7, <1>8 DEF s, d, end

-----------------------------------------------------------------------------
(* The states: what was parsed is the text there is, and what was printed is *)
(* what was parsed.                                                           *)
StringsInv ==
    /\ text \in Buffer
    /\ parsed = Nothing \/ parsed = ParseStringOf(text, memory)
    /\ printed = <<>> \/ (parsed.ok /\ printed = PrintStringPtr(CString(parsed.out)))

LEMMA StringsInvHolds == Spec => []StringsInv
<1>1. Init => StringsInv
  BY TextAssumption DEF Init, StringsInv, Buffer
<1>2. StringsInv /\ [Next]_vars => StringsInv'
  <2> SUFFICES ASSUME StringsInv, [Next]_vars PROVE StringsInv'
    OBVIOUS
  <2>1. ASSUME NEW piece \in Pieces, Write(piece) PROVE StringsInv'
    <3>1. text \in Seq(Byte) /\ piece \in Seq(Byte) /\ text # <<>>
      BY TextAssumption DEF StringsInv, Buffer
    <3>2. text \o piece \in Seq(Byte) /\ text \o piece # <<>>
      BY <3>1
    <3>3. ~parsed.ok
      BY <2>1 DEF Write, Nothing, Outcome
    <3> QED BY <2>1, <3>2, <3>3 DEF StringsInv, Write, Buffer
  <2>2. CASE ParseString
    <3>1. ~parsed.ok
      BY <2>2 DEF ParseString, Nothing, Outcome
    <3> QED BY <2>2, <3>1 DEF StringsInv, ParseString
  <2>3. CASE PrintString
    BY <2>3 DEF StringsInv, PrintString
  <2>4. CASE Forget
    BY <2>4, TextAssumption DEF StringsInv, Forget, Buffer
  <2>5. CASE UNCHANGED vars
    BY <2>5 DEF StringsInv, vars
  <2> QED BY <2>1, <2>2, <2>3, <2>4, <2>5 DEF Next
<1> QED BY <1>1, <1>2, PTL DEF Spec

LEMMA ParsedInBlock ==
    ASSUME NEW buf \in Buffer, NEW m
    PROVE  Len(ParseStringOf(buf, m).out) <= ParseStringOf(buf, m).block
<1> DEFINE s == Scan(buf)
           d == Decode(buf, s.end)
           block == s.end - 1 - s.skipped + 1
           r == ParseStringOf(buf, m)
<1>1. CASE buf[1] # Quote \/ s.end > Len(buf) \/ ~m
  <2>1. r = Outcome(FALSE, 1, <<>>, 0)
    BY <1>1 DEF ParseStringOf
  <2>2. r.out = <<>> /\ r.block = 0
    BY <2>1 DEF Outcome
  <2> QED BY <2>2
<1>2. CASE ~(buf[1] # Quote \/ s.end > Len(buf) \/ ~m)
  <2>1. Scan(buf).end <= Len(buf)
    <3>1. s \in Scanned
      BY ScanCounts DEF Counted
    <3> QED BY <1>2, <3>1 DEF Scanned, Buffer
  <2>2. s \in Scanned /\ d \in Decoded /\ Len(d.out) + 1 <= s.end - s.skipped
    BY <2>1, DecodeInBlock
  <2>3. r \in {Outcome(FALSE, ErrorOffset(d.at), d.out, block),
               Outcome(TRUE, s.end, Append(d.out, 0), block)}
    BY <1>2 DEF ParseStringOf
  <2> HIDE DEF r, d, s
  <2>4. r.block = block /\ r.out \in {d.out, Append(d.out, 0)}
    BY <2>3 DEF Outcome
  <2>5. Len(r.out) <= Len(d.out) + 1
    BY <2>2, <2>4 DEF Decoded
  <2>6. s.end \in Nat /\ s.skipped \in Nat /\ Len(d.out) \in Nat /\ Len(r.out) \in Nat
    <3>1. s.end \in Nat /\ s.skipped \in Nat /\ d.out \in Seq(Byte) /\ 0 \in Byte
      BY <2>2 DEF Scanned, Decoded, Byte
    <3>2. Append(d.out, 0) \in Seq(Byte)
      BY <3>1, AppendProperties
    <3> QED BY <2>4, <3>1, <3>2
  <2>7. block = s.end - s.skipped
    BY <2>6
  <2> QED BY <2>2, <2>4, <2>5, <2>6, <2>7 DEF r
<1> QED BY <1>1, <1>2

\* Whatever the text, the decoder never writes more than the block holds that
\* the scan asked for: the count of escapes and the decoder's reading of them
\* may differ, but not by more than the spare byte.
THEOREM DecodesStayInside == Spec => []DecodesInsideBlock
<1>1. StringsInv => DecodesInsideBlock
  <2> SUFFICES ASSUME StringsInv PROVE DecodesInsideBlock
    OBVIOUS
  <2>1. CASE parsed = Nothing
    BY <2>1 DEF DecodesInsideBlock, Nothing, Outcome
  <2>2. CASE parsed = ParseStringOf(text, memory)
    BY <2>2, ParsedInBlock DEF DecodesInsideBlock, StringsInv
  <2> QED BY <2>1, <2>2 DEF StringsInv
<1> QED BY <1>1, StringsInvHolds, PTL

-----------------------------------------------------------------------------
(* The loops run to their end: a model's pass too few would leave them short. *)

LEMMA ScanStops ==
    ASSUME NEW buf \in Buffer
    PROVE  Searched(buf, Scan(buf))
<1> DEFINE n == Len(buf)
<1>1. n \in Nat
  BY DEF Buffer
<1>2. PICK p : ScanPasses(buf, p) /\ Scan(buf) = p[n]
  BY ScanIsPasses
<1> DEFINE G == {k \in Nat : k <= n => Searched(buf, p[k]) \/ p[k].end >= k + 2}
<1>3. 0 \in G
  BY <1>2 DEF ScanPasses
<1>4. ASSUME NEW k \in Nat, k \in G PROVE k + 1 \in G
  <2> SUFFICES ASSUME k + 1 <= n PROVE Searched(buf, p[k + 1]) \/ p[k + 1].end >= (k + 1) + 2
    OBVIOUS
  <2>1. k \in 0..n /\ k + 1 \in 1..n /\ (k + 1) - 1 = k
    BY <1>1
  <2>2. p[k + 1] = ScanOne(buf, p[k]) /\ p[k] \in Scanned
    BY <1>2, <2>1 DEF ScanPasses
  <2>3. CASE Searched(buf, p[k])
    BY <2>2, <2>3 DEF ScanOne
  <2>4. CASE ~Searched(buf, p[k])
    <3>1. p[k].end >= k + 2 /\ p[k].end \in Nat
      BY <1>4, <2>1, <2>2, <2>4 DEF Scanned
    <3>2. p[k + 1].end \in {p[k].end + 1, p[k].end + 2}
      BY <2>2, <2>4 DEF ScanOne, Scanned
    <3> QED BY <3>1, <3>2
  <2> QED BY <2>3, <2>4
<1>5. n \in G
  <2> HIDE DEF G
  <2> QED BY <1>1, <1>3, <1>4, SetInduction
<1>6. p[n].end >= n + 2 => Searched(buf, p[n])
  <2>1. p[n].end \in Nat
    BY <1>1, <1>2 DEF ScanPasses, Scanned
  <2> QED BY <1>1, <2>1 DEF Searched
<1> QED BY <1>1, <1>2, <1>5, <1>6

LEMMA DecodeStops ==
    ASSUME NEW buf \in Buffer, NEW end \in 1..Len(buf)
    PROVE  DecodeOne(buf, end, Decode(buf, end)) = Decode(buf, end)
<1>1. end \in Nat
  BY DEF Buffer
<1>2. PICK p : DecodePasses(buf, end, p) /\ Decode(buf, end) = p[end]
  BY DecodeIsPasses
<1> DEFINE G == {k \in Nat : k <= end => DecodeOne(buf, end, p[k]) = p[k] \/ p[k].at >= k + 2}
<1>3. 0 \in G
  BY <1>2 DEF DecodePasses
<1>4. ASSUME NEW k \in Nat, k \in G PROVE k + 1 \in G
  <2> SUFFICES ASSUME k + 1 <= end
               PROVE  DecodeOne(buf, end, p[k + 1]) = p[k + 1] \/ p[k + 1].at >= (k + 1) + 2
    OBVIOUS
  <2>1. k \in 0..end /\ k + 1 \in 1..end /\ (k + 1) - 1 = k
    BY <1>1
  <2> DEFINE d == p[k]
             t == p[k + 1]
  <2>2. t = DecodeOne(buf, end, d) /\ d \in Decoded
    BY <1>2, <2>1 DEF DecodePasses
  <2>3. CASE t = d
    BY <2>2, <2>3
  <2>4. CASE t # d
    <3>1. d.at >= k + 2 /\ d.at \in Nat /\ d.out \in Seq(Byte)
      BY <1>4, <2>1, <2>2, <2>4 DEF Decoded
    <3> HIDE DEF d, t
    <3>2. CASE d.at >= end
      BY <2>2, <2>4, <3>2, DecodeOneCases
    <3>3. CASE d.at < end /\ buf[d.at] # Backslash
      <4>1. t = [at |-> d.at + 1, out |-> Append(d.out, buf[d.at])]
        BY <2>2, <3>3, DecodeOneCases
      <4>2. t.at >= (k + 1) + 2
        BY <3>1, <4>1
      <4> QED BY <4>2 DEF t
    <3>4. CASE d.at < end /\ buf[d.at] = Backslash
      <4>1. PICK e : /\ e = Escape(buf, d.at, end) /\ Escaped(e, end - d.at)
                     /\ t = [at |-> d.at + e.length, out |-> d.out \o e.bytes]
        BY ZenonT(30), <2>2, <3>4, DecodeOneCases
      <4>2. e.length # 0
        <5> SUFFICES ASSUME e.length = 0 PROVE FALSE
          OBVIOUS
        <5>1. e.bytes = <<>>
          BY <4>1 DEF Escaped
        <5>2. d.out \o <<>> = d.out /\ d.at + 0 = d.at
          BY <3>1
        <5>3. d = [at |-> d.at, out |-> d.out]
          BY <2>2 DEF Decoded
        <5> QED BY <2>4, <4>1, <5>1, <5>2, <5>3
      <4>3. e.length \in Nat /\ e.length >= 2
        BY <4>1, <4>2 DEF Escaped
      <4>4. t.at = d.at + e.length
        BY <4>1
      <4>5. t.at >= (k + 1) + 2
        BY <3>1, <4>3, <4>4
      <4> QED BY <4>5 DEF t
    <3> QED BY <1>1, <3>1, <3>2, <3>3, <3>4
  <2> QED BY <2>3, <2>4
<1>5. end \in G
  <2> HIDE DEF G
  <2> QED BY <1>1, <1>3, <1>4, SetInduction
<1>6. p[end] \in Decoded
  BY <1>1, <1>2 DEF DecodePasses
<1>7. p[end].at >= end + 2 => DecodeOne(buf, end, p[end]) = p[end]
  <2>1. p[end].at >= end + 2 => p[end].at >= end
    BY <1>1, <1>6 DEF Decoded
  <2> QED BY <1>6, <2>1, DecodeOneCases
<1> QED BY <1>1, <1>2, <1>5, <1>7

-----------------------------------------------------------------------------
(* What is written.  A value is what a C string can be: no byte of it is 0. *)

Value == Seq(Byte \ {0})

Plain(b)   == b >= 32 /\ b \notin {Quote, Backslash}
Control(b) == b < 32 /\ b \notin OneLetter

LEMMA ByteCases ==
    ASSUME NEW b \in Byte \ {0}
    PROVE  /\ Plain(b) \/ b \in OneLetter \/ Control(b)
           /\ Plain(b) => Written(b) = <<b>> /\ Added(b) = 0
           /\ b \in OneLetter => Written(b) = <<Backslash, LetterFor(b)>> /\ Added(b) = 1
           /\ Control(b) => /\ Added(b) = 5
                            /\ Written(b) = <<Backslash, LowerU, 48, 48, HexLetter(b \div 16),
                                              HexLetter(b % 16)>>
  BY DEF Byte, Plain, Control, OneLetter, Written, Added, Quote, Backslash

LEMMA LetterForByte ==
    ASSUME NEW b \in OneLetter
    PROVE  /\ LetterFor(b) \in Byte /\ LetterFor(b) >= 32
           /\ \/ b \in {Quote, Backslash} /\ LetterFor(b) = b
              \/ LetterFor(b) \in DOMAIN ByteOf /\ ByteOf[LetterFor(b)] = b
<1>1. CASE b \in {Quote, Backslash}
  BY <1>1 DEF LetterFor, Quote, Backslash, Byte
<1>2. CASE b \notin {Quote, Backslash}
  <2>1. b \in {8, 9, 10, 12, 13}
    BY <1>2 DEF OneLetter
  <2>2. DOMAIN ByteOf = {98, 102, 110, 114, 116}
    BY DEF ByteOf
  <2>3. ByteOf[98] = 8 /\ ByteOf[102] = 12 /\ ByteOf[110] = 10 /\ ByteOf[114] = 13 /\ ByteOf[116] = 9
    BY DEF ByteOf
  <2>4. \E letter \in DOMAIN ByteOf : ByteOf[letter] = b
    BY <2>1, <2>2, <2>3
  <2>5. LetterFor(b) = CHOOSE letter \in DOMAIN ByteOf : ByteOf[letter] = b
    BY <1>2 DEF LetterFor
  <2>6. LetterFor(b) \in DOMAIN ByteOf /\ ByteOf[LetterFor(b)] = b
    BY <2>4, <2>5, Zenon
  <2> QED BY <2>2, <2>6 DEF Byte
<1> QED BY <1>1, <1>2

LEMMA HexLetterByte ==
    ASSUME NEW d \in 0..15
    PROVE  /\ HexLetter(d) \in Byte /\ HexLetter(d) >= 32 /\ HexLetter(d) \notin {Quote, Backslash}
           /\ HexLetter(d) \in 48..57 => HexLetter(d) - 48 = d
           /\ HexLetter(d) \notin 48..57 => HexLetter(d) \in 97..102 /\ 10 + HexLetter(d) - 97 = d
  BY DEF HexLetter, Byte, Quote, Backslash

\* Nothing written needs an escape of its own, and its length is what the
\* first pass counts.
LEMMA WrittenFits ==
    ASSUME NEW b \in Byte \ {0}
    PROVE  /\ Written(b) \in Seq(Byte) /\ Len(Written(b)) = 1 + Added(b)
           /\ \A i \in 1..Len(Written(b)) : Written(b)[i] >= 32
<1>1. CASE Plain(b)
  <2>1. b >= 32 /\ Written(b) = <<b>> /\ Added(b) = 0
    BY <1>1, ByteCases DEF Plain
  <2> QED BY <2>1
<1>2. CASE b \in OneLetter
  <2> DEFINE l == LetterFor(b)
  <2>1. l \in Byte /\ l >= 32 /\ Written(b) = <<Backslash, l>> /\ Added(b) = 1
    BY <1>2, LetterForByte, ByteCases
  <2>2. Backslash \in Byte /\ Backslash >= 32
    BY DEF Backslash, Byte
  <2> HIDE DEF l
  <2> QED BY <2>1, <2>2
<1>3. CASE Control(b)
  <2> DEFINE x == HexLetter(b \div 16)
             y == HexLetter(b % 16)
  <2>1. b \div 16 \in 0..15 /\ b % 16 \in 0..15
    BY DEF Byte
  <2>2. x \in Byte /\ x >= 32 /\ y \in Byte /\ y >= 32
    BY <2>1, HexLetterByte
  <2>3. Written(b) = <<Backslash, LowerU, 48, 48, x, y>> /\ Added(b) = 5
    BY <1>3, ByteCases
  <2>4. Backslash \in Byte /\ Backslash >= 32 /\ LowerU \in Byte /\ LowerU >= 32 /\ 48 \in Byte
    BY DEF Backslash, LowerU, Byte
  <2> HIDE DEF x, y
  <2>5. Written(b) \in Seq(Byte) /\ Len(Written(b)) = 6
    BY <2>2, <2>3, <2>4
  <2>6. \A i \in 1..6 : Written(b)[i] >= 32
    BY <2>2, <2>3, <2>4
  <2> QED BY <2>3, <2>5, <2>6
<1> QED BY <1>1, <1>2, <1>3, ByteCases

\* w is what has been written, byte by byte of the value.
WritePasses(value, w) ==
    /\ w \in [0..Len(value) -> Seq(Byte)]
    /\ w[0] = <<Quote>>
    /\ \A k \in 1..Len(value) : w[k] = w[k - 1] \o Written(value[k])

LEMMA AllWrittenIsPasses ==
    ASSUME NEW value \in Value
    PROVE  \E w : WritePasses(value, w) /\ AllWritten(value) = w[Len(value)]
<1> DEFINE n == Len(value)
           upto[k \in 0..n] == IF k = 0 THEN <<Quote>> ELSE upto[k - 1] \o Written(value[k])
           step == [k \in 1..n |-> [s \in Seq(Byte) |-> s \o Written(value[k])]]
           b == <<Quote>>
<1>1. n \in Nat /\ b \in Seq(Byte)
  BY DEF Value, Quote, Byte
<1>2. \A k \in 1..n : Written(value[k]) \in Seq(Byte)
  BY WrittenFits DEF Value
<1>3. step \in [1..n -> [Seq(Byte) -> Seq(Byte)]]
  BY <1>2
<1>4. PICK f \in [0..n -> Seq(Byte)] : Iterates(f, b, step, n)
  <2> HIDE DEF step, b, n
  <2> QED BY <1>1, <1>3, IterateExists
<1>5. f = [k \in 0..n |-> IF k = 0 THEN b ELSE f[k - 1] \o Written(value[k])]
  <2>1. ASSUME NEW k \in 0..n
        PROVE  f[k] = IF k = 0 THEN b ELSE f[k - 1] \o Written(value[k])
    <3>1. CASE k = 0
      BY <1>4, <3>1 DEF Iterates
    <3>2. CASE k # 0
      <4>1. k \in 1..n /\ k - 1 \in 0..n
        BY <1>1, <3>2
      <4>2. f[k - 1] \in Seq(Byte) /\ f[k] = step[k][f[k - 1]]
        BY <1>4, <4>1 DEF Iterates
      <4> QED BY <3>2, <4>1, <4>2
    <3> QED BY <3>1, <3>2
  <2> QED BY <2>1
<1>6. upto = [k \in 0..n |-> IF k = 0 THEN b ELSE upto[k - 1] \o Written(value[k])]
  BY <1>5
<1>7. upto[0] = b /\ \A k \in 1..n : upto[k] = upto[k - 1] \o Written(value[k])
  <2> HIDE DEF upto, b
  <2>1. 0 \in 0..n /\ \A k \in 1..n : k \in 0..n /\ k # 0
    BY <1>1
  <2> QED BY <1>6, <2>1
<1> HIDE DEF upto
<1>8. \A k \in 0..n : upto[k] \in Seq(Byte)
  <2>1. ASSUME NEW k \in 1..n, upto[k - 1] \in Seq(Byte) PROVE upto[k] \in Seq(Byte)
    <3>1. Written(value[k]) \in Seq(Byte) /\ upto[k] = upto[k - 1] \o Written(value[k])
      BY <1>2, <1>7
    <3> QED BY <2>1, <3>1, ConcatProperties
  <2>2. upto[0] \in Seq(Byte)
    BY <1>1, <1>7
  <2> HIDE DEF n
  <2> QED BY <1>1, <2>1, <2>2, LoopInvariant
<1>9. AllWritten(value) = upto[n]
  BY DEF AllWritten, upto
<1>10. upto \in [0..n -> Seq(Byte)]
  BY <1>6, <1>8
<1> QED BY <1>7, <1>9, <1>10 DEF WritePasses

LEMMA OutputLengthIsPasses ==
    ASSUME NEW value \in Value
    PROVE  \E u \in [0..Len(value) -> Nat] :
               /\ u[0] = 0 /\ OutputLength(value) = u[Len(value)]
               /\ \A k \in 1..Len(value) : u[k] = u[k - 1] + 1 + Added(value[k])
<1> DEFINE n == Len(value)
           upto[k \in 0..n] == IF k = 0 THEN 0 ELSE upto[k - 1] + 1 + Added(value[k])
           step == [k \in 1..n |-> [s \in Nat |-> s + 1 + Added(value[k])]]
<1>1. n \in Nat
  BY DEF Value
<1>2. \A k \in 1..n : Added(value[k]) \in Nat
  BY DEF Added
<1>3. step \in [1..n -> [Nat -> Nat]]
  BY <1>2
<1>4. PICK f \in [0..n -> Nat] : Iterates(f, 0, step, n)
  <2> HIDE DEF step, n
  <2> QED BY <1>1, <1>3, IterateExists
<1>5. f = [k \in 0..n |-> IF k = 0 THEN 0 ELSE f[k - 1] + 1 + Added(value[k])]
  <2>1. ASSUME NEW k \in 0..n
        PROVE  f[k] = IF k = 0 THEN 0 ELSE f[k - 1] + 1 + Added(value[k])
    <3>1. CASE k = 0
      BY <1>4, <3>1 DEF Iterates
    <3>2. CASE k # 0
      <4>1. k \in 1..n /\ k - 1 \in 0..n
        BY <1>1, <3>2
      <4>2. f[k - 1] \in Nat /\ f[k] = step[k][f[k - 1]]
        BY <1>4, <4>1 DEF Iterates
      <4> QED BY <3>2, <4>1, <4>2
    <3> QED BY <3>1, <3>2
  <2> QED BY <2>1
<1>6. upto = [k \in 0..n |-> IF k = 0 THEN 0 ELSE upto[k - 1] + 1 + Added(value[k])]
  BY <1>5
<1>7. upto[0] = 0 /\ \A k \in 1..n : upto[k] = upto[k - 1] + 1 + Added(value[k])
  <2> HIDE DEF upto
  <2>1. 0 \in 0..n /\ \A k \in 1..n : k \in 0..n /\ k # 0
    BY <1>1
  <2> QED BY <1>6, <2>1
<1> HIDE DEF upto
<1>8. \A k \in 0..n : upto[k] \in Nat
  <2>1. \A k \in 1..n : upto[k - 1] \in Nat => upto[k] \in Nat
    BY <1>2, <1>7
  <2>2. upto[0] \in Nat
    BY <1>7
  <2> HIDE DEF n
  <2> QED BY <1>1, <2>1, <2>2, LoopInvariant
<1>9. OutputLength(value) = upto[n]
  BY DEF OutputLength, upto
<1>10. upto \in [0..n -> Nat]
  BY <1>6, <1>8
<1> QED BY <1>7, <1>9, <1>10

\* Where what is written for each byte stands among all that is written.
LEMMA WrittenLayout ==
    ASSUME NEW value \in Value, NEW w, WritePasses(value, w)
    PROVE  LET n == Len(value) IN
           /\ \A k \in 0..n : Len(w[k]) \in Nat /\ Len(w[k]) >= 1 /\ Len(w[k]) <= Len(w[n])
           /\ \A k \in 1..n : Len(w[k]) = Len(w[k - 1]) + Len(Written(value[k]))
           /\ w[n][1] = Quote
           /\ \A k \in 1..n : \A i \in 1..Len(Written(value[k])) :
                 w[n][Len(w[k - 1]) + i] = Written(value[k])[i]
           /\ \A i \in 1..Len(w[n]) : w[n][i] >= 32
<1> DEFINE n == Len(value)
<1>1. n \in Nat
  BY DEF Value
<1>2. w \in [0..n -> Seq(Byte)] /\ w[0] = <<Quote>>
      /\ \A k \in 1..n : w[k] = w[k - 1] \o Written(value[k])
  BY DEF WritePasses
<1> HIDE DEF n
<1>3. ASSUME NEW k \in 1..n
      PROVE  /\ Written(value[k]) \in Seq(Byte) /\ w[k - 1] \in Seq(Byte) /\ w[k] \in Seq(Byte)
             /\ k - 1 \in 0..n /\ k \in 0..n
             /\ \A i \in 1..Len(Written(value[k])) : Written(value[k])[i] >= 32
  <2>1. k - 1 \in 0..n /\ k \in 0..n
    BY <1>1
  <2>2. value[k] \in Byte \ {0}
    BY DEF Value, n
  <2> QED BY <1>2, <2>1, <2>2, WrittenFits
<1>4. ASSUME NEW k \in 1..n
      PROVE  /\ Len(w[k]) = Len(w[k - 1]) + Len(Written(value[k]))
             /\ \A i \in 1..Len(w[k - 1]) : w[k][i] = w[k - 1][i]
             /\ \A i \in 1..Len(Written(value[k])) :
                   w[k][Len(w[k - 1]) + i] = Written(value[k])[i]
  <2> DEFINE x == w[k - 1]
             y == Written(value[k])
  <2>1. w[k] = x \o y /\ x \in Seq(Byte) /\ y \in Seq(Byte)
    BY <1>2, <1>3
  <2> HIDE DEF x, y
  <2>2. Len(w[k]) = Len(x) + Len(y)
    BY <2>1
  <2>3. \A i \in 1..Len(x) : w[k][i] = x[i]
    BY <2>1
  <2>4. \A i \in 1..Len(y) : w[k][Len(x) + i] = y[i]
    BY <2>1
  <2> QED BY <2>2, <2>3, <2>4 DEF x, y
<1> DEFINE Prefix(k, m) == /\ Len(w[k]) <= Len(w[m])
                           /\ \A i \in 1..Len(w[k]) : w[m][i] = w[k][i]
<1>5. ASSUME NEW k \in 0..n PROVE Prefix(k, n)
  <2> DEFINE G == {m \in Nat : k <= m /\ m <= n => Prefix(k, m)}
  <2>1. Len(w[k]) \in Nat
    BY <1>2
  <2>2. 0 \in G
    <3>1. k <= 0 => k = 0
      BY <1>1
    <3> QED BY <2>1, <3>1
  <2>3. ASSUME NEW m \in Nat, m \in G PROVE m + 1 \in G
    <3> SUFFICES ASSUME k <= m + 1, m + 1 <= n PROVE Prefix(k, m + 1)
      OBVIOUS
    <3>1. CASE k = m + 1
      BY <2>1, <3>1
    <3>2. CASE k # m + 1
      <4>1. k <= m /\ m <= n /\ m + 1 \in 1..n /\ (m + 1) - 1 = m /\ m \in 0..n
        BY <1>1, <3>2
      <4>2. Prefix(k, m)
        BY <2>3, <4>1
      <4>3. Len(w[m + 1]) = Len(w[m]) + Len(Written(value[m + 1]))
            /\ \A i \in 1..Len(w[m]) : w[m + 1][i] = w[m][i]
        BY ZenonT(30), <1>4, <4>1
      <4>4. Len(Written(value[m + 1])) \in Nat /\ Len(w[m]) \in Nat
        BY <1>2, <1>3, <4>1
      <4>5. \A x, y, z \in Nat : x <= y => x <= y + z
        OBVIOUS
      <4>6. Len(w[k]) <= Len(w[m + 1])
        BY <2>1, <4>2, <4>3, <4>4, <4>5
      <4>7. \A i \in 1..Len(w[k]) : i \in 1..Len(w[m])
        BY <2>1, <4>2, <4>4
      <4> QED BY <4>2, <4>3, <4>6, <4>7
    <3> QED BY <3>1, <3>2
  <2>4. n \in G
    <3> HIDE DEF G
    <3> QED BY <1>1, <2>2, <2>3, SetInduction
  <2> QED BY <1>1, <2>4
<1>6. ASSUME NEW k \in 0..n PROVE Len(w[k]) \in Nat /\ Len(w[k]) >= 1
  <2>1. w[k] \in Seq(Byte)
    BY <1>2
  <2> DEFINE G == {m \in Nat : m <= n => Len(w[m]) >= 1}
  <2>2. 0 \in G
    <3>1. Len(w[0]) = 1
      BY <1>2
    <3> QED BY <3>1
  <2>3. ASSUME NEW m \in Nat, m \in G PROVE m + 1 \in G
    <3> SUFFICES ASSUME m + 1 <= n PROVE Len(w[m + 1]) >= 1
      OBVIOUS
    <3>1. m + 1 \in 1..n /\ (m + 1) - 1 = m /\ m \in 0..n
      BY <1>1
    <3>2. Len(w[m + 1]) = Len(w[m]) + Len(Written(value[m + 1]))
      BY <1>4, <3>1
    <3>3. Len(Written(value[m + 1])) \in Nat /\ Len(w[m]) \in Nat
      BY <1>2, <1>3, <3>1
    <3>4. Len(w[m]) >= 1
      BY <1>1, <2>3, <3>1
    <3>5. \A x, y \in Nat : x >= 1 => x + y >= 1
      OBVIOUS
    <3> QED BY <3>2, <3>3, <3>4, <3>5
  <2>4. k \in G
    <3> HIDE DEF G
    <3> QED BY <2>2, <2>3, SetInduction
  <2> QED BY <2>1, <2>4
<1>7. w[n][1] = Quote
  <2>1. Prefix(0, n) /\ Len(w[0]) = 1 /\ w[0][1] = Quote
    BY <1>1, <1>2, <1>5
  <2> QED BY <2>1
<1>8. ASSUME NEW k \in 1..n, NEW i \in 1..Len(Written(value[k]))
      PROVE  w[n][Len(w[k - 1]) + i] = Written(value[k])[i]
  <2>1. k \in 0..n /\ k - 1 \in 0..n /\ Len(w[k - 1]) \in Nat
        /\ Len(Written(value[k])) \in Nat
    BY <1>3, <1>6
  <2>2. Len(w[k - 1]) + i \in 1..Len(w[k])
    <3>1. Len(w[k]) = Len(w[k - 1]) + Len(Written(value[k]))
      BY <1>4
    <3>2. \A x, y \in Nat : \A z \in 1..y : x + z \in 1..(x + y)
      OBVIOUS
    <3> QED BY <2>1, <3>1, <3>2
  <2>3. Prefix(k, n)
    BY <1>5, <2>1
  <2> QED BY <1>4, <2>2, <2>3
<1>9. \A i \in 1..Len(w[n]) : w[n][i] >= 32
  <2> DEFINE G == {m \in Nat : m <= n => \A i \in 1..Len(w[m]) : w[m][i] >= 32}
  <2>1. 0 \in G
    BY <1>2 DEF Quote
  <2>2. ASSUME NEW m \in Nat, m \in G PROVE m + 1 \in G
    <3> SUFFICES ASSUME m + 1 <= n, NEW i \in 1..Len(w[m + 1]) PROVE w[m + 1][i] >= 32
      OBVIOUS
    <3>1. m + 1 \in 1..n /\ (m + 1) - 1 = m /\ m \in 0..n
      BY <1>1
    <3>2. Len(w[m]) \in Nat /\ Len(Written(value[m + 1])) \in Nat
      BY <1>3, <1>6, <3>1
    <3>3. CASE i <= Len(w[m])
      <4>1. i \in 1..Len(w[m])
        BY <3>2, <3>3
      <4>2. w[m + 1][i] = w[m][i]
        BY ZenonT(30), <1>4, <3>1, <4>1
      <4> QED BY <1>1, <2>2, <3>1, <4>1, <4>2
    <3>4. CASE i > Len(w[m])
      <4> DEFINE j == i - Len(w[m])
      <4>1. j \in 1..Len(Written(value[m + 1])) /\ i = Len(w[m]) + j
        <5>1. Len(w[m + 1]) = Len(w[m]) + Len(Written(value[m + 1]))
          BY <1>4, <3>1
        <5>2. \A x, y \in Nat : \A z \in 1..(x + y) :
                 z > x => z - x \in 1..y /\ z = x + (z - x)
          OBVIOUS
        <5> QED BY <3>2, <3>4, <5>1, <5>2
      <4> HIDE DEF j
      <4> QED BY ZenonT(30), <1>3, <1>4, <3>1, <4>1
    <3> QED BY <3>2, <3>3, <3>4
  <2>3. n \in G
    <3> HIDE DEF G
    <3> QED BY <1>1, <2>1, <2>2, SetInduction
  <2> QED BY <1>1, <2>3
<1>10. \A k \in 0..n : Len(w[k]) \in Nat /\ Len(w[k]) >= 1 /\ Len(w[k]) <= Len(w[n])
  BY <1>5, <1>6
<1>11. \A k \in 1..n : Len(w[k]) = Len(w[k - 1]) + Len(Written(value[k]))
  BY <1>4
<1>12. \A k \in 1..n : \A i \in 1..Len(Written(value[k])) :
           w[n][Len(w[k - 1]) + i] = Written(value[k])[i]
  BY <1>8
<1> QED BY <1>7, <1>9, <1>10, <1>11, <1>12 DEF n

\* The first pass counts what the second writes.
LEMMA LengthIsCounted ==
    ASSUME NEW value \in Value
    PROVE  AllWritten(value) \in Seq(Byte) /\ Len(AllWritten(value)) = OutputLength(value) + 1
<1> DEFINE n == Len(value)
<1>1. n \in Nat
  BY DEF Value
<1>2. PICK w : WritePasses(value, w) /\ AllWritten(value) = w[n]
  BY AllWrittenIsPasses
<1>3. PICK u \in [0..n -> Nat] :
          /\ u[0] = 0 /\ OutputLength(value) = u[n]
          /\ \A k \in 1..n : u[k] = u[k - 1] + 1 + Added(value[k])
  BY OutputLengthIsPasses
<1> DEFINE G == {m \in Nat : m <= n => Len(w[m]) = u[m] + 1}
<1>4. 0 \in G
  <2>1. Len(w[0]) = 1 /\ u[0] = 0
    BY <1>2, <1>3 DEF WritePasses
  <2> QED BY <2>1
<1>5. ASSUME NEW m \in Nat, m \in G PROVE m + 1 \in G
  <2> SUFFICES ASSUME m + 1 <= n PROVE Len(w[m + 1]) = u[m + 1] + 1
    OBVIOUS
  <2>1. m + 1 \in 1..n /\ (m + 1) - 1 = m /\ m \in 0..n
    BY <1>1
  <2>2. Len(w[m]) = u[m] + 1
    BY <1>1, <1>5, <2>1
  <2>3. Len(w[m + 1]) = Len(w[m]) + Len(Written(value[m + 1]))
    <3>1. \A k \in 1..n : Len(w[k]) = Len(w[k - 1]) + Len(Written(value[k]))
      BY <1>2, WrittenLayout
    <3> QED BY <2>1, <3>1
  <2>4. value[m + 1] \in Byte \ {0}
    BY <2>1 DEF Value
  <2>5. Len(Written(value[m + 1])) = 1 + Added(value[m + 1]) /\ Added(value[m + 1]) \in Nat
    BY <2>4, WrittenFits DEF Added
  <2>6. u[m + 1] = u[m] + 1 + Added(value[m + 1]) /\ u[m] \in Nat
    BY <1>3, <2>1
  <2> QED BY <2>2, <2>3, <2>5, <2>6
<1>6. n \in G
  <2> HIDE DEF G
  <2> QED BY <1>1, <1>4, <1>5, SetInduction
<1>7. w[n] \in Seq(Byte)
  BY <1>1, <1>2 DEF WritePasses
<1> QED BY <1>1, <1>2, <1>3, <1>6, <1>7

-----------------------------------------------------------------------------
(* Parsing what was written. *)

LEMMA LiteralShape ==
    ASSUME NEW value \in Value, NEW w, WritePasses(value, w)
    PROVE  LET n   == Len(value)
               lit == Append(w[n], Quote)
           IN  /\ lit \in Buffer /\ lit[1] = Quote
               /\ Len(lit) = Len(w[n]) + 1 /\ lit[Len(lit)] = Quote
               /\ \A i \in 1..Len(lit) : lit[i] >= 32
               /\ \A k \in 0..n : Len(w[k]) \in Nat /\ Len(w[k]) >= 1 /\ Len(w[k]) + 1 <= Len(lit)
               /\ \A k \in 1..n : \A i \in 1..Len(Written(value[k])) :
                     lit[Len(w[k - 1]) + i] = Written(value[k])[i]
<1> DEFINE n == Len(value)
           lit == Append(w[n], Quote)
<1>1. n \in Nat /\ w \in [0..n -> Seq(Byte)]
  BY DEF Value, WritePasses
<1>2. /\ \A k \in 0..n : Len(w[k]) \in Nat /\ Len(w[k]) >= 1 /\ Len(w[k]) <= Len(w[n])
      /\ \A k \in 1..n : Len(w[k]) = Len(w[k - 1]) + Len(Written(value[k]))
      /\ w[n][1] = Quote
      /\ \A k \in 1..n : \A i \in 1..Len(Written(value[k])) :
            w[n][Len(w[k - 1]) + i] = Written(value[k])[i]
      /\ \A i \in 1..Len(w[n]) : w[n][i] >= 32
  BY WrittenLayout
<1> HIDE DEF n
<1>3. w[n] \in Seq(Byte) /\ Quote \in Byte /\ Quote >= 32
  BY <1>1 DEF Quote, Byte
<1> DEFINE all == w[n]
<1>4. all \in Seq(Byte)
  BY <1>3
<1> HIDE DEF all
<1>5. /\ Append(all, Quote) \in Seq(Byte) /\ Append(all, Quote) # <<>>
      /\ Len(Append(all, Quote)) = Len(all) + 1
      /\ Append(all, Quote)[Len(all) + 1] = Quote
      /\ \A i \in 1..Len(all) : Append(all, Quote)[i] = all[i]
  BY <1>3, <1>4, AppendProperties
<1>6. /\ lit \in Seq(Byte) /\ lit # <<>> /\ Len(lit) = Len(w[n]) + 1
      /\ lit[Len(w[n]) + 1] = Quote /\ \A i \in 1..Len(w[n]) : lit[i] = w[n][i]
  BY <1>5 DEF all
<1> HIDE DEF lit
<1>7. n \in 0..n /\ Len(w[n]) \in Nat /\ Len(w[n]) >= 1
  BY <1>1, <1>2
<1>8. lit[1] = Quote
  BY <1>2, <1>6, <1>7
<1>9. ASSUME NEW i \in 1..Len(lit) PROVE lit[i] >= 32
  <2>1. i \in 1..Len(w[n]) \/ i = Len(w[n]) + 1
    BY <1>6, <1>7
  <2> QED BY <1>2, <1>3, <1>6, <2>1
<1>10. \A k \in 0..n : Len(w[k]) \in Nat /\ Len(w[k]) >= 1 /\ Len(w[k]) + 1 <= Len(lit)
  BY <1>2, <1>6, <1>7
<1>11. ASSUME NEW k \in 1..n, NEW i \in 1..Len(Written(value[k]))
       PROVE  lit[Len(w[k - 1]) + i] = Written(value[k])[i]
  <2>1. k \in 0..n /\ k - 1 \in 0..n
    BY <1>1
  <2>2. Len(w[k - 1]) \in Nat /\ Len(Written(value[k])) \in Nat
    <3>1. value[k] \in Byte \ {0}
      BY DEF Value, n
    <3> QED BY <1>2, <2>1, <3>1, WrittenFits
  <2>3. Len(w[k - 1]) + Len(Written(value[k])) <= Len(w[n])
    BY <1>2, <2>1
  <2>4. \A x, y, z \in Nat : \A j \in 1..y : x + y <= z => x + j \in 1..z
    OBVIOUS
  <2>5. Len(w[k - 1]) + i \in 1..Len(w[n])
    BY <1>7, <2>2, <2>3, <2>4
  <2> QED BY <1>2, <1>6, <2>5
<1>12. lit \in Buffer /\ lit[Len(lit)] = Quote
  BY <1>6 DEF Buffer
<1> QED BY <1>6, <1>8, <1>9, <1>10, <1>11, <1>12 DEF n, lit

\* b is written in the literal behind p and up to q.
StandsAt(lit, b, p, q) ==
    /\ p \in Nat /\ p >= 1 /\ q \in Nat /\ q + 1 <= Len(lit) /\ b \in Byte \ {0}
    /\ Plain(b) \/ b \in OneLetter \/ Control(b)
    /\ Plain(b) => q = p + 1 /\ lit[p + 1] = b
    /\ b \in OneLetter => q = p + 2 /\ lit[p + 1] = Backslash /\ lit[p + 2] = LetterFor(b)
    /\ Control(b) =>
         /\ q = p + 6 /\ lit[p + 1] = Backslash /\ lit[p + 2] = LowerU
         /\ lit[p + 3] = 48 /\ lit[p + 4] = 48
         /\ lit[p + 5] = HexLetter(b \div 16) /\ lit[p + 6] = HexLetter(b % 16)

LEMMA LiteralAt ==
    ASSUME NEW value \in Value, NEW w, WritePasses(value, w), NEW k \in 1..Len(value)
    PROVE  StandsAt(Append(w[Len(value)], Quote), value[k], Len(w[k - 1]), Len(w[k]))
<1> DEFINE n == Len(value)
           b == value[k]
           lit == Append(w[n], Quote)
           p == Len(w[k - 1])
           q == Len(w[k])
<1>1. n \in Nat /\ b \in Byte \ {0} /\ k - 1 \in 0..n /\ k \in 0..n
  BY DEF Value
<1>2. \A j \in 0..n : Len(w[j]) \in Nat /\ Len(w[j]) >= 1 /\ Len(w[j]) + 1 <= Len(lit)
  BY LiteralShape
<1>3. p \in Nat /\ p >= 1 /\ q \in Nat /\ q + 1 <= Len(lit)
  <2> HIDE DEF n, lit
  <2> QED BY <1>1, <1>2
<1>4. q = p + Len(Written(b))
  BY WrittenLayout
<1>5. \A i \in 1..Len(Written(b)) : lit[p + i] = Written(b)[i]
  BY LiteralShape
<1> HIDE DEF n, b, lit, p, q
<1>6. CASE Plain(b)
  <2>1. Written(b) = <<b>>
    BY <1>1, <1>6, ByteCases
  <2>2. Len(Written(b)) = 1 /\ Written(b)[1] = b /\ 1 \in 1..1
    BY <2>1
  <2>3. lit[p + 1] = b
    BY <1>5, <2>2
  <2>4. q = p + 1
    BY <1>4, <2>2
  <2>5. ~(b \in OneLetter) /\ ~Control(b)
    BY <1>1, <1>6 DEF Plain, Control, OneLetter, Byte
  <2> QED BY <1>1, <1>3, <1>6, <2>3, <2>4, <2>5 DEF StandsAt, n, b, lit, p, q
<1>7. CASE b \in OneLetter
  <2>1. Written(b) = <<Backslash, LetterFor(b)>>
    BY <1>1, <1>7, ByteCases
  <2>2. Len(Written(b)) = 2 /\ Written(b)[1] = Backslash /\ Written(b)[2] = LetterFor(b)
        /\ 1 \in 1..2 /\ 2 \in 1..2
    BY <2>1
  <2>3. lit[p + 1] = Backslash /\ lit[p + 2] = LetterFor(b)
    BY <1>5, <2>2
  <2>4. q = p + 2
    BY <1>4, <2>2
  <2>5. ~Plain(b) /\ ~Control(b)
    BY <1>7 DEF Plain, Control, OneLetter
  <2> QED BY <1>1, <1>3, <1>7, <2>3, <2>4, <2>5 DEF StandsAt, n, b, lit, p, q
<1>8. CASE Control(b)
  <2>1. Written(b) = <<Backslash, LowerU, 48, 48, HexLetter(b \div 16), HexLetter(b % 16)>>
    BY <1>1, <1>8, ByteCases
  <2> DEFINE x == HexLetter(b \div 16)
             y == HexLetter(b % 16)
  <2> HIDE DEF x, y
  <2>2. Written(b) = <<Backslash, LowerU, 48, 48, x, y>>
    BY <2>1 DEF x, y
  <2>3. /\ Len(Written(b)) = 6 /\ Written(b)[1] = Backslash /\ Written(b)[2] = LowerU
        /\ Written(b)[3] = 48 /\ Written(b)[4] = 48 /\ Written(b)[5] = x /\ Written(b)[6] = y
    BY <2>2
  <2>4. \A i \in 1..6 : lit[p + i] = Written(b)[i]
    BY <1>5, <2>3
  <2>5. lit[p + 1] = Backslash /\ lit[p + 2] = LowerU /\ lit[p + 3] = 48 /\ lit[p + 4] = 48
        /\ lit[p + 5] = x /\ lit[p + 6] = y
    <3>1. {1, 2, 3, 4, 5, 6} \subseteq 1..6
      OBVIOUS
    <3> QED BY <2>3, <2>4, <3>1
  <2>6. q = p + 6
    BY <1>4, <2>3
  <2>7. ~Plain(b) /\ ~(b \in OneLetter)
    BY <1>1, <1>8 DEF Plain, Control, Byte
  <2> QED BY <1>1, <1>3, <1>8, <2>5, <2>6, <2>7 DEF StandsAt, n, b, lit, p, q, x, y
<1>9. Plain(b) \/ b \in OneLetter \/ Control(b)
  BY <1>1, ByteCases
<1> QED BY <1>6, <1>7, <1>8, <1>9 DEF n, b, lit, p, q

\* Where the scan of the literal can stand: before what is written for a byte,
\* behind the last, or at a digit of a control character.
Places(value, w) ==
    {Len(w[k]) + 1 : k \in 0..Len(value)} \union
    {Len(w[k - 1]) + i : k \in {j \in 1..Len(value) : Control(value[j])}, i \in 3..6}

\* At a place before the last is no quote, and the next is a place too.
LEMMA ScanOneLiteral ==
    ASSUME NEW value \in Value, NEW w, WritePasses(value, w),
           NEW s \in Scanned, s.end \in Places(value, w)
    PROVE  LET lit == Append(w[Len(value)], Quote)
               t   == ScanOne(lit, s)
           IN  /\ t \in Scanned /\ t.end \in Places(value, w)
               /\ Searched(lit, s) => s.end = Len(lit)
<1> DEFINE n == Len(value)
           lit == Append(w[n], Quote)
           t == ScanOne(lit, s)
           p(k) == Len(w[k - 1])
           q(k) == Len(w[k])
<1>1. n \in Nat /\ s.end \in Nat /\ s.skipped \in Nat
  BY DEF Value, Scanned
<1>2. Len(lit) = q(n) + 1 /\ lit[Len(lit)] = Quote /\ q(n) \in Nat
  <2>1. \A k \in 0..n : q(k) \in Nat
    BY LiteralShape
  <2> QED BY <1>1, <2>1, LiteralShape
<1>3. \A k \in 0..n : q(k) + 1 \in Places(value, w)
  BY DEF Places
<1>4. \A k \in 1..n : Control(value[k]) => \A i \in 3..6 : p(k) + i \in Places(value, w)
  <2> SUFFICES ASSUME NEW k \in 1..n, Control(value[k]), NEW i \in 3..6
               PROVE  p(k) + i \in Places(value, w)
    OBVIOUS
  <2>1. k \in {j \in 1..Len(value) : Control(value[j])}
    OBVIOUS
  <2>2. p(k) + i \in {Len(w[j - 1]) + m : j \in {j \in 1..Len(value) : Control(value[j])}, m \in 3..6}
    BY <2>1
  <2> QED BY <2>2 DEF Places
<1>5. t \in Scanned
  BY <1>1 DEF ScanOne, Scanned
<1>6. /\ Searched(lit, s) => t = s
      /\ ~Searched(lit, s) /\ lit[s.end] = Backslash => t.end = s.end + 2
      /\ ~Searched(lit, s) /\ lit[s.end] # Backslash => t.end = s.end + 1
  BY DEF ScanOne, Scanned
<1>7. Searched(lit, s) <=> s.end > Len(lit) \/ lit[s.end] = Quote
  BY DEF Searched
<1> HIDE DEF lit, t
<1>8. CASE \E k \in 0..n : s.end = q(k) + 1
  <2>1. PICK j \in 0..n : s.end = q(j) + 1
    BY <1>8
  <2>2. CASE j = n
    <3>1. s.end = Len(lit) /\ lit[s.end] = Quote
      BY <1>2, <2>1, <2>2
    <3>2. t = s
      BY <1>6, <1>7, <3>1
    <3> QED BY <1>5, <3>1, <3>2 DEF t, lit
  <2>3. CASE j # n
    <3> DEFINE k == j + 1
               b == value[k]
    <3>1. k \in 1..n /\ k \in 0..n /\ k - 1 = j
      BY <1>1, <2>3
    <3>2. StandsAt(lit, b, p(k), q(k))
      <4> HIDE DEF k
      <4> QED BY <3>1, LiteralAt DEF lit
    <3>3. s.end = p(k) + 1
      BY <2>1, <3>1
    <3>4. q(k) + 1 \in Places(value, w) /\ (Control(b) => p(k) + 3 \in Places(value, w))
      <4>1. 3 \in 3..6
        OBVIOUS
      <4> HIDE DEF k, p, q, n
      <4> QED BY <1>3, <1>4, <3>1, <4>1
    <3> HIDE DEF k, b, p, q
    <3>5. Backslash # Quote /\ Len(lit) \in Nat
      BY <1>2 DEF Backslash, Quote
    <3>6. CASE Plain(b)
      <4>1. lit[s.end] # Quote /\ lit[s.end] # Backslash /\ ~(s.end > Len(lit))
        BY <3>2, <3>3, <3>5, <3>6 DEF Plain, StandsAt
      <4>2. t.end = s.end + 1 /\ ~Searched(lit, s)
        BY <1>6, <1>7, <4>1
      <4>3. t.end = q(k) + 1
        BY <3>2, <3>3, <3>6, <4>2 DEF StandsAt
      <4> QED BY <1>5, <3>4, <4>2, <4>3 DEF t, lit
    <3>7. CASE b \in OneLetter
      <4>1. lit[s.end] # Quote /\ lit[s.end] = Backslash /\ ~(s.end > Len(lit))
        BY <3>2, <3>3, <3>5, <3>7 DEF StandsAt
      <4>2. t.end = s.end + 2 /\ ~Searched(lit, s)
        BY <1>6, <1>7, <4>1
      <4>3. t.end = q(k) + 1
        BY <3>2, <3>3, <3>7, <4>2 DEF StandsAt
      <4> QED BY <1>5, <3>4, <4>2, <4>3 DEF t, lit
    <3>8. CASE Control(b)
      <4>1. lit[s.end] # Quote /\ lit[s.end] = Backslash /\ ~(s.end > Len(lit))
        <5>1. p(k) \in Nat /\ q(k) = p(k) + 6 /\ q(k) + 1 <= Len(lit) /\ lit[p(k) + 1] = Backslash
          BY <3>2, <3>8, Zenon DEF StandsAt
        <5> QED BY <3>3, <3>5, <5>1
      <4>2. t.end = s.end + 2 /\ ~Searched(lit, s)
        BY <1>6, <1>7, <4>1
      <4>3. t.end = p(k) + 3
        BY <3>2, <3>3, <3>8, <4>2 DEF StandsAt
      <4> QED BY <1>5, <3>4, <3>8, <4>2, <4>3 DEF t, lit
    <3> QED BY <3>2, <3>6, <3>7, <3>8 DEF StandsAt
  <2> QED BY <2>2, <2>3
<1>9. CASE \E k \in 1..n, i \in 3..6 : Control(value[k]) /\ s.end = p(k) + i
  <2>1. PICK k \in 1..n, i \in 3..6 : Control(value[k]) /\ s.end = p(k) + i
    BY <1>9
  <2> DEFINE b == value[k]
             x == HexLetter(b \div 16)
             y == HexLetter(b % 16)
  <2>2. StandsAt(lit, b, p(k), q(k)) /\ Control(b)
    BY <2>1, LiteralAt DEF lit
  <2>3. x \notin {Quote, Backslash} /\ y \notin {Quote, Backslash}
    <3>1. \A c \in Byte : c \div 16 \in 0..15 /\ c % 16 \in 0..15
      BY DEF Byte
    <3>2. b \in Byte
      BY <2>2 DEF StandsAt
    <3> QED BY <3>1, <3>2, HexLetterByte
  <2>4. 48 \notin {Quote, Backslash}
    BY DEF Quote, Backslash
  <2>5. k \in 0..n /\ q(k) + 1 \in Places(value, w) /\ Control(b)
        /\ (i # 6 => p(k) + (i + 1) \in Places(value, w))
    <3>1. k \in 0..n /\ (i # 6 => i + 1 \in 3..6)
      BY <1>1
    <3> HIDE DEF p, q, n
    <3> QED BY <1>3, <1>4, <2>1, <3>1
  <2> HIDE DEF x, y, p, q, b
  <2>6. lit[s.end] \notin {Quote, Backslash}
    <3>1. i \in {3, 4, 5, 6}
      OBVIOUS
    <3>2. lit[p(k) + 3] = 48 /\ lit[p(k) + 4] = 48 /\ lit[p(k) + 5] = x /\ lit[p(k) + 6] = y
      BY <2>2 DEF StandsAt, x, y
    <3> QED BY <2>1, <2>3, <2>4, <3>1, <3>2
  <2>7. ~(s.end > Len(lit))
    <3>1. p(k) \in Nat /\ q(k) = p(k) + 6 /\ q(k) + 1 <= Len(lit) /\ Len(lit) \in Nat
      BY <1>2, <2>2 DEF StandsAt
    <3> QED BY <2>1, <3>1
  <2>8. t.end = s.end + 1 /\ ~Searched(lit, s)
    BY <1>6, <1>7, <2>6, <2>7
  <2>9. t.end = p(k) + (i + 1) /\ (i = 6 => t.end = q(k) + 1)
    BY <2>1, <2>2, <2>8 DEF StandsAt
  <2> QED BY <1>5, <2>5, <2>8, <2>9 DEF t, lit
<1> QED BY <1>8, <1>9 DEF Places

LEMMA ScanLiteral ==
    ASSUME NEW value \in Value, NEW w, WritePasses(value, w)
    PROVE  LET lit == Append(w[Len(value)], Quote)
           IN  Scan(lit) \in Scanned /\ Scan(lit).end = Len(lit)
<1> DEFINE n == Len(value)
           lit == Append(w[n], Quote)
           m == Len(lit)
           S == {s \in Scanned : s.end \in Places(value, w)}
<1>1. lit \in Buffer /\ m \in Nat /\ n \in Nat
  <2>1. lit \in Buffer
    BY LiteralShape
  <2> HIDE DEF lit
  <2> QED BY <2>1 DEF Buffer, Value
<1>2. PICK p : ScanPasses(lit, p) /\ Scan(lit) = p[m]
  BY <1>1, ScanIsPasses
<1>3. p[0] \in S
  <2>1. Len(w[0]) + 1 = 2 /\ 0 \in 0..n
    BY <1>1 DEF WritePasses
  <2>2. 2 \in Places(value, w)
    BY <2>1 DEF Places
  <2>3. p[0] = [end |-> 2, skipped |-> 0]
    BY <1>2 DEF ScanPasses
  <2> QED BY <2>2, <2>3 DEF Scanned
<1>4. ASSUME NEW k \in 1..m, p[k - 1] \in S PROVE p[k] \in S
  <2>1. p[k] = ScanOne(lit, p[k - 1])
    BY <1>2 DEF ScanPasses
  <2> QED BY <1>4, <2>1, ScanOneLiteral
<1> HIDE DEF lit, S, m
<1>5. \A k \in 0..m : p[k] \in S
  BY <1>1, <1>3, <1>4, LoopInvariant
<1>6. Scan(lit) \in S
  BY <1>1, <1>2, <1>5
<1>7. Searched(lit, Scan(lit))
  BY <1>1, ScanStops
<1> QED BY <1>6, <1>7, ScanOneLiteral DEF S, lit

\* The escape written for a byte is decoded to the byte.
LEMMA HexOfControl ==
    ASSUME NEW buf, NEW i \in Nat, NEW b \in 0..31, buf[i] = 48, buf[i + 1] = 48,
           buf[i + 2] = HexLetter(b \div 16), buf[i + 3] = HexLetter(b % 16)
    PROVE  ParseHex4(buf, i) = b
<1> DEFINE digit(c) == IF c \in 48..57 THEN c - 48
                       ELSE IF c \in 65..70 THEN 10 + c - 65
                       ELSE IF c \in 97..102 THEN 10 + c - 97 ELSE 16
           digits == [k \in 1..4 |-> digit(buf[i + k - 1])]
           x == b \div 16
           y == b % 16
<1>1. x \in 0..15 /\ y \in 0..15 /\ b = 16 * x + y
  OBVIOUS
<1>2. ASSUME NEW d \in 0..15 PROVE digit(HexLetter(d)) = d
  <2>1. CASE d < 10
    <3>1. HexLetter(d) = 48 + d /\ HexLetter(d) \in 48..57
      BY <2>1 DEF HexLetter
    <3> QED BY <3>1
  <2>2. CASE ~(d < 10)
    <3>1. HexLetter(d) = 87 + d /\ HexLetter(d) \in 97..102
      BY <2>2 DEF HexLetter
    <3> QED BY <3>1
  <2> QED BY <2>1, <2>2
<1>3. digit(48) = 0
  OBVIOUS
<1> HIDE DEF digit, x, y
<1>4. digits[1] = digit(buf[i]) /\ digits[2] = digit(buf[i + 1])
      /\ digits[3] = digit(buf[i + 2]) /\ digits[4] = digit(buf[i + 3])
  <2>1. i + 1 - 1 = i /\ i + 2 - 1 = i + 1 /\ i + 3 - 1 = i + 2 /\ i + 4 - 1 = i + 3
    OBVIOUS
  <2> QED BY <2>1
<1>5. digits[1] = 0 /\ digits[2] = 0 /\ digits[3] = x /\ digits[4] = y
  BY <1>1, <1>2, <1>3, <1>4 DEF x, y
<1>6. digits \in Seq({digits[1], digits[2], digits[3], digits[4]}) /\ Len(digits) = 4
  OBVIOUS
<1>7. ~Contains(digits, 16)
  <2>1. \A k \in 1..4 : k \in {1, 2, 3, 4}
    OBVIOUS
  <2> HIDE DEF digits
  <2>2. ASSUME NEW k \in 1..4, digits[k] = 16 PROVE FALSE
    BY <1>1, <1>5, <2>1, <2>2
  <2> QED BY <1>6, <2>2 DEF Contains
<1>8. ParseHex4(buf, i) = IF Contains(digits, 16) THEN 0
                          ELSE 4096 * digits[1] + 256 * digits[2] + 16 * digits[3] + digits[4]
  BY SMT DEF ParseHex4, digits, digit
<1> HIDE DEF digits
<1>9. ParseHex4(buf, i) = 4096 * 0 + 256 * 0 + 16 * x + y
  BY <1>5, <1>7, <1>8
<1>10. \A u, v \in 0..15 : 4096 * 0 + 256 * 0 + 16 * u + v = 16 * u + v
  BY SMT
<1> QED BY <1>1, <1>9, <1>10, SMT

LEMMA LetterCases ==
    ASSUME NEW buf, NEW i, NEW end, NEW l, buf[i + 1] = l
    PROVE  /\ l \in DOMAIN ByteOf =>
                Escape(buf, i, end) = [bytes |-> <<ByteOf[l]>>, length |-> 2]
           /\ l \in {Quote, Backslash, Slash} /\ l \notin DOMAIN ByteOf =>
                Escape(buf, i, end) = [bytes |-> <<l>>, length |-> 2]
           /\ l = LowerU => Escape(buf, i, end) = Utf16LiteralToUtf8(buf, i, end)
<1>1. LowerU \notin DOMAIN ByteOf /\ LowerU \notin {Quote, Backslash, Slash}
  BY DEF ByteOf, LowerU, Quote, Backslash, Slash
<1>2. l \in DOMAIN ByteOf => Escape(buf, i, end) = [bytes |-> <<ByteOf[l]>>, length |-> 2]
  BY Zenon DEF Escape
<1>3. l \in {Quote, Backslash, Slash} /\ l \notin DOMAIN ByteOf =>
          Escape(buf, i, end) = [bytes |-> <<l>>, length |-> 2]
  BY Zenon DEF Escape
<1>4. l = LowerU => Escape(buf, i, end) = Utf16LiteralToUtf8(buf, i, end)
  BY <1>1, Zenon DEF Escape
<1> QED BY <1>2, <1>3, <1>4

LEMMA EscapeWritten ==
    ASSUME NEW lit \in Buffer, NEW b, NEW p, NEW q, StandsAt(lit, b, p, q)
    PROVE  /\ b \in OneLetter =>
                Escape(lit, p + 1, Len(lit)) = [bytes |-> <<b>>, length |-> 2]
           /\ Control(b) =>
                Escape(lit, p + 1, Len(lit)) = [bytes |-> <<b>>, length |-> 6]
<1>1. p \in Nat /\ q \in Nat /\ q + 1 <= Len(lit) /\ Len(lit) \in Nat /\ b \in Byte
  BY DEF StandsAt, Buffer
<1>2. (p + 1) + 1 = p + 2
  BY <1>1
<1>3. CASE b \in OneLetter
  <2>1. lit[(p + 1) + 1] = LetterFor(b)
    BY <1>2, <1>3 DEF StandsAt
  <2>2. ASSUME b \in {Quote, Backslash}, LetterFor(b) = b
        PROVE  Escape(lit, p + 1, Len(lit)) = [bytes |-> <<b>>, length |-> 2]
    <3>1. b \notin DOMAIN ByteOf
      BY <2>2 DEF ByteOf, Quote, Backslash
    <3>2. lit[(p + 1) + 1] = b /\ b \in {Quote, Backslash, Slash}
      BY <2>1, <2>2
    <3> QED BY <3>1, <3>2, LetterCases
  <2>3. ASSUME LetterFor(b) \in DOMAIN ByteOf, ByteOf[LetterFor(b)] = b
        PROVE  Escape(lit, p + 1, Len(lit)) = [bytes |-> <<b>>, length |-> 2]
    <3> DEFINE l == LetterFor(b)
    <3>1. lit[(p + 1) + 1] = l
      BY <2>1
    <3>2. l \in DOMAIN ByteOf
      BY <2>3
    <3> HIDE DEF l
    <3>3. Escape(lit, p + 1, Len(lit)) = [bytes |-> <<ByteOf[l]>>, length |-> 2]
      BY <3>1, <3>2, LetterCases
    <3> QED BY <2>3, <3>3 DEF l
  <2>4. Escape(lit, p + 1, Len(lit)) = [bytes |-> <<b>>, length |-> 2]
    BY <1>3, <2>2, <2>3, LetterForByte
  <2>5. ~Control(b)
    BY <1>3 DEF Control
  <2> QED BY <2>4, <2>5
<1>4. CASE Control(b)
  <2>1. q = p + 6 /\ lit[(p + 1) + 1] = LowerU /\ lit[p + 3] = 48 /\ lit[p + 4] = 48
        /\ lit[p + 5] = HexLetter(b \div 16) /\ lit[p + 6] = HexLetter(b % 16)
    BY <1>2, <1>4 DEF StandsAt
  <2>2. Escape(lit, p + 1, Len(lit)) = Utf16LiteralToUtf8(lit, p + 1, Len(lit))
    BY <2>1, LetterCases
  <2>3. b \in 0..31
    BY <1>1, <1>4 DEF Control, Byte
  <2>4. ParseHex4(lit, p + 3) = b
    <3>1. p + 3 \in Nat /\ (p + 3) + 1 = p + 4 /\ (p + 3) + 2 = p + 5 /\ (p + 3) + 3 = p + 6
      BY <1>1
    <3> QED BY <2>1, <2>3, <3>1, HexOfControl
  <2>5. (p + 1) + 2 = p + 3 /\ ~(Len(lit) - (p + 1) < 6)
    BY <1>1, <2>1
  <2>6. b \notin Low /\ b \notin High
    <3>1. b \in Nat /\ b < 32
      BY <2>3
    <3> QED BY <3>1, SMT DEF Low, High
  <2>7. Utf16LiteralToUtf8(lit, p + 1, Len(lit)) = [bytes |-> Utf8Encode(b), length |-> 6]
    <3>1. ParseHex4(lit, (p + 1) + 2) = b
      BY <2>4, <2>5
    <3> QED BY <2>5, <2>6, <3>1, SMT DEF Utf16LiteralToUtf8
  <2>8. Utf8Encode(b) = <<b>>
    <3>1. b \in Nat /\ b < 128
      BY <2>3
    <3>2. b <= 1114111
      BY <3>1, SMT
    <3> QED BY <3>1, <3>2, EncodeBytes, SMT
  <2>9. b \notin OneLetter
    BY <1>4 DEF Control
  <2> QED BY <2>2, <2>7, <2>8, <2>9
<1> QED BY <1>3, <1>4

LEMMA PrefixAppend ==
    ASSUME NEW S, NEW value \in Seq(S), NEW k \in 1..Len(value)
    PROVE  /\ SubSeq(value, 1, k - 1) \in Seq(S)
           /\ SubSeq(value, 1, k) = Append(SubSeq(value, 1, k - 1), value[k])
  OBVIOUS

\* Decoding goes from byte to byte of the value.
DecodedUpto(value, w, k) == [at |-> Len(w[k]) + 1, out |-> SubSeq(value, 1, k)]

LEMMA DecodeOneLiteral ==
    ASSUME NEW value \in Value, NEW w, WritePasses(value, w), NEW k \in 1..Len(value)
    PROVE  LET lit == Append(w[Len(value)], Quote)
           IN  /\ DecodeOne(lit, Len(lit), DecodedUpto(value, w, k - 1)) = DecodedUpto(value, w, k)
               /\ DecodedUpto(value, w, k - 1) \in Decoded
               /\ DecodedUpto(value, w, k) # DecodedUpto(value, w, k - 1)
<1> DEFINE lit == Append(w[Len(value)], Quote)
           b == value[k]
           p == Len(w[k - 1])
           q == Len(w[k])
           d == DecodedUpto(value, w, k - 1)
           m == Len(lit)
           before == SubSeq(value, 1, k - 1)
<1>1. lit \in Buffer /\ StandsAt(lit, b, p, q)
  BY LiteralShape, LiteralAt
<1>2. before \in Seq(Byte) /\ SubSeq(value, 1, k) = Append(before, b)
  <2>1. value \in Seq(Byte)
    BY DEF Value
  <2> QED BY <2>1, PrefixAppend
<1>3. d = [at |-> p + 1, out |-> before] /\ DecodedUpto(value, w, k) = [at |-> q + 1, out |-> Append(before, b)]
  BY <1>2 DEF DecodedUpto
<1> HIDE DEF lit, b, p, q, d, m, before
<1>4. p \in Nat /\ q \in Nat /\ m \in Nat /\ m \in 1..Len(lit) /\ p + 1 < m /\ q > p
  <2>1. p \in Nat /\ q \in Nat /\ q + 1 <= m /\ m \in Nat /\ q \in {p + 1, p + 2, p + 6}
    BY <1>1 DEF StandsAt, m, Buffer
  <2> QED BY <2>1 DEF m
<1>5. d \in Decoded /\ d.at = p + 1 /\ d.out = before
  BY <1>2, <1>3, <1>4 DEF Decoded
<1>6. DecodedUpto(value, w, k) # d
  <2>1. q + 1 # p + 1
    BY <1>4
  <2> QED BY <1>3, <2>1
<1>7. DecodeOne(lit, m, d) = [at |-> q + 1, out |-> Append(before, b)]
  <2>1. CASE Plain(b)
    <3>1. lit[p + 1] = b /\ q = p + 1 /\ b # Backslash
      BY <1>1, <2>1 DEF StandsAt, Plain
    <3>2. DecodeOne(lit, m, d) = [at |-> d.at + 1, out |-> Append(d.out, lit[d.at])]
      BY ZenonT(30), <1>1, <1>4, <1>5, <3>1, DecodeOneCases
    <3> QED BY <1>5, <3>1, <3>2
  <2>2. ASSUME NEW l \in Nat, lit[p + 1] = Backslash, q + 1 = (p + 1) + l,
               Escape(lit, p + 1, m) = [bytes |-> <<b>>, length |-> l]
        PROVE  DecodeOne(lit, m, d) = [at |-> q + 1, out |-> Append(before, b)]
    <3>1. PICK e : /\ e = Escape(lit, d.at, m)
                   /\ DecodeOne(lit, m, d) = [at |-> d.at + e.length, out |-> d.out \o e.bytes]
      <4>1. d.at < m /\ lit[d.at] = Backslash
        BY <1>4, <1>5, <2>2
      <4> QED BY ZenonT(30), <1>1, <1>4, <1>5, <4>1, DecodeOneCases
    <3>2. e.bytes = <<b>> /\ e.length = l
      BY <1>5, <2>2, <3>1
    <3>3. before \o <<b>> = Append(before, b)
      BY <1>2
    <3> QED BY <1>5, <2>2, <3>1, <3>2, <3>3
  <2>3. CASE b \in OneLetter
    <3>1. lit[p + 1] = Backslash /\ q + 1 = (p + 1) + 2
      BY <1>1, <1>4, <2>3 DEF StandsAt
    <3>2. Escape(lit, p + 1, m) = [bytes |-> <<b>>, length |-> 2]
      BY <1>1, <2>3, EscapeWritten DEF m
    <3> QED BY <2>2, <3>1, <3>2
  <2>4. CASE Control(b)
    <3>1. lit[p + 1] = Backslash /\ q + 1 = (p + 1) + 6
      BY <1>1, <1>4, <2>4 DEF StandsAt
    <3>2. Escape(lit, p + 1, m) = [bytes |-> <<b>>, length |-> 6]
      BY <1>1, <2>4, EscapeWritten DEF m
    <3> QED BY <2>2, <3>1, <3>2
  <2> QED BY <1>1, <2>1, <2>3, <2>4 DEF StandsAt
<1> QED BY <1>3, <1>5, <1>6, <1>7 DEF lit, m, d

LEMMA DecodeLiteral ==
    ASSUME NEW value \in Value, NEW w, WritePasses(value, w)
    PROVE  LET lit == Append(w[Len(value)], Quote)
           IN  Decode(lit, Len(lit)) = [at |-> Len(lit), out |-> value]
<1> DEFINE n == Len(value)
           lit == Append(w[n], Quote)
           m == Len(lit)
           S == {DecodedUpto(value, w, k) : k \in 0..n}
<1>1. n \in Nat /\ lit \in Buffer /\ m \in Nat /\ m \in 1..Len(lit) /\ m = Len(w[n]) + 1
  <2>1. lit \in Buffer /\ m = Len(w[n]) + 1
    BY LiteralShape
  <2> HIDE DEF lit
  <2>2. m \in Nat /\ m >= 1
    BY <2>1 DEF Buffer
  <2> QED BY <2>1, <2>2 DEF Value
<1>2. PICK p : DecodePasses(lit, m, p) /\ Decode(lit, m) = p[m]
  <2> HIDE DEF lit
  <2> QED BY <1>1, DecodeIsPasses
<1>3. p[0] \in S
  <2>1. Len(w[0]) + 1 = 2 /\ 0 \in 0..n /\ SubSeq(value, 1, 0) = <<>>
    BY <1>1 DEF WritePasses, Value
  <2>2. p[0] = DecodedUpto(value, w, 0)
    BY <1>2, <2>1 DEF DecodePasses, DecodedUpto
  <2> QED BY <2>1, <2>2
<1>4. ASSUME NEW d \in S
      PROVE  /\ DecodeOne(lit, m, d) \in S
             /\ DecodeOne(lit, m, d) = d => d = DecodedUpto(value, w, n)
  <2>1. PICK k \in 0..n : d = DecodedUpto(value, w, k)
    OBVIOUS
  <2>2. CASE k < n
    <3> DEFINE j == k + 1
    <3>1. j \in 1..n /\ j \in 0..n /\ j - 1 = k
      BY <1>1, <2>2
    <3>2. DecodeOne(lit, m, DecodedUpto(value, w, j - 1)) = DecodedUpto(value, w, j)
          /\ DecodedUpto(value, w, j) # DecodedUpto(value, w, j - 1)
      <4> HIDE DEF j
      <4> QED BY <3>1, DecodeOneLiteral
    <3> HIDE DEF j, lit, m
    <3> QED BY <2>1, <3>1, <3>2
  <2>3. CASE k = n
    <3>1. d.at = m /\ d \in Decoded
      <4>1. SubSeq(value, 1, n) = value /\ value \in Seq(Byte)
        BY DEF Value
      <4>2. d = [at |-> m, out |-> value]
        BY <1>1, <2>1, <2>3, <4>1 DEF DecodedUpto
      <4> HIDE DEF m
      <4> QED BY <1>1, <4>1, <4>2 DEF Decoded
    <3> HIDE DEF lit, m
    <3>2. d.at >= m
      BY <1>1, <3>1
    <3>3. DecodeOne(lit, m, d) = d
      BY <1>1, <3>1, <3>2, DecodeOneCases
    <3> QED BY <2>1, <2>3, <3>3
  <2> QED BY <1>1, <2>2, <2>3
<1> HIDE DEF S, lit, m
<1>5. \A k \in 0..m : p[k] \in S
  <2>1. \A k \in 1..m : p[k - 1] \in S => p[k] \in S
    BY <1>2, <1>4 DEF DecodePasses
  <2> QED BY <1>1, <1>3, <2>1, LoopInvariant
<1>6. Decode(lit, m) \in S
  BY <1>1, <1>2, <1>5
<1>7. DecodeOne(lit, m, Decode(lit, m)) = Decode(lit, m)
  BY <1>1, DecodeStops
<1>8. Decode(lit, m) = DecodedUpto(value, w, n)
  BY <1>4, <1>6, <1>7
<1>9. SubSeq(value, 1, n) = value
  BY DEF Value
<1> QED BY <1>1, <1>8, <1>9 DEF DecodedUpto, lit, m

\* A value that is written and parsed is the value again.
LEMMA WrittenIsParsed ==
    ASSUME NEW value \in Value
    PROVE  LET lit == Append(AllWritten(value), Quote)
               again == ParseStringOf(lit, TRUE)
           IN  /\ lit \in Seq(Byte) /\ NoControls(lit)
               /\ again.ok /\ again.offset = Len(lit) /\ again.out = Append(value, 0)
<1>1. PICK w : WritePasses(value, w) /\ AllWritten(value) = w[Len(value)]
  BY AllWrittenIsPasses
<1> DEFINE lit == Append(w[Len(value)], Quote)
<1>2. lit \in Buffer /\ lit[1] = Quote /\ \A i \in 1..Len(lit) : lit[i] >= 32
  BY <1>1, LiteralShape
<1>3. Scan(lit).end = Len(lit)
  BY <1>1, ScanLiteral
<1>4. Decode(lit, Len(lit)) = [at |-> Len(lit), out |-> value]
  BY <1>1, DecodeLiteral
<1> HIDE DEF lit
<1>5. lit \in Seq(Byte) /\ Len(lit) \in Nat /\ DOMAIN lit = 1..Len(lit)
  BY <1>2 DEF Buffer
<1>6. NoControls(lit)
  BY <1>2, <1>5 DEF NoControls
<1> DEFINE d == Decode(lit, Scan(lit).end)
           again == ParseStringOf(lit, TRUE)
<1>7. d.at = Len(lit) /\ d.out = value
  BY <1>3, <1>4
<1>8. ~(d.at < Scan(lit).end) /\ ~(Scan(lit).end > Len(lit))
  BY <1>3, <1>5, <1>7
<1>9. again = Outcome(TRUE, Scan(lit).end, Append(d.out, 0),
                      Scan(lit).end - 1 - Scan(lit).skipped + 1)
  BY <1>2, <1>8, Zenon DEF ParseStringOf
<1>10. again.ok /\ again.offset = Len(lit) /\ again.out = Append(value, 0)
  <2> HIDE DEF d, again
  <2> QED BY <1>3, <1>7, <1>9 DEF Outcome
<1> QED BY <1>1, <1>5, <1>6, <1>10 DEF lit

\* The block print_string_ptr fills.
LEMMA PrintedIsWritten ==
    ASSUME NEW value \in Value
    PROVE  LET made == PrintStringPtr(value)
           IN  Last(made) = 0 /\ Front(made) = Append(AllWritten(value), Quote)
<1> DEFINE all == AllWritten(value)
           length == OutputLength(value)
           lit == Append(all, Quote)
           made == PrintStringPtr(value)
<1>1. all \in Seq(Byte) /\ Len(all) = length + 1
  BY LengthIsCounted
<1>2. length \in Nat
  <2>1. PICK u \in [0..Len(value) -> Nat] : length = u[Len(value)]
    BY OutputLengthIsPasses
  <2> QED BY <2>1 DEF Value
<1> HIDE DEF all, length
<1>3. made = [i \in 1..(length + 3) |->
                 IF i = length + 2 THEN Quote ELSE IF i = length + 3 THEN 0
                 ELSE IF i <= length + 1 THEN all[i] ELSE Unset]
  <2>1. ~(length + 1 > length + 3)
    BY <1>2
  <2> QED BY <1>1, <2>1 DEF PrintStringPtr, all, length
<1>4. Quote \in Byte /\ 0 \in Byte
  BY DEF Quote, Byte
<1> HIDE DEF made
<1>5. made \in Seq(Byte) /\ Len(made) = length + 3
  <2>1. \A i \in 1..(length + 3) : made[i] \in Byte
    BY <1>1, <1>2, <1>3, <1>4
  <2> QED BY <1>2, <1>3, <2>1
<1>6. Last(made) = 0
  BY <1>2, <1>3, <1>5 DEF Last
<1>7. Front(made) = SubSeq(made, 1, length + 2)
  BY <1>2, <1>5 DEF Front
<1>8. lit \in Seq(Byte) /\ Len(lit) = length + 2 /\ lit[length + 2] = Quote
      /\ \A i \in 1..(length + 1) : lit[i] = all[i]
  BY <1>1, <1>2, <1>4
<1> HIDE DEF lit
<1>9. SubSeq(made, 1, length + 2) \in Seq(Byte) /\ Len(SubSeq(made, 1, length + 2)) = length + 2
      /\ \A i \in 1..(length + 2) : SubSeq(made, 1, length + 2)[i] = made[i]
  BY <1>2, <1>5
<1>10. \A i \in 1..(length + 2) : made[i] = lit[i]
  BY <1>2, <1>3, <1>8
<1>11. SubSeq(made, 1, length + 2) = lit
  BY <1>8, <1>9, <1>10, SeqEqual
<1> QED BY <1>6, <1>7, <1>11 DEF made, lit, all

\* What an item holds is a value: of what was decoded, the bytes before a NUL.
LEMMA CStringIsValue ==
    ASSUME NEW bytes \in Seq(Byte)
    PROVE  CString(bytes) \in Value
<1> DEFINE n == Len(bytes)
           Ends == {k \in 0..n : k < n => bytes[k + 1] = 0}
           At(k) == (\A i \in 1..k : bytes[i] # 0) /\ (k < n => bytes[k + 1] = 0)
<1>1. n \in Nat /\ Ends \in SUBSET Nat
  OBVIOUS
<1>2. n \in Ends
  BY <1>1
<1> HIDE DEF n
<1>3. PICK k \in Ends : \A j \in Ends : k <= j
  <2> HIDE DEF Ends
  <2> QED BY <1>1, <1>2, LeastElement
<1>4. k \in 0..n /\ At(k)
  <2>1. ASSUME NEW i \in 1..k, bytes[i] = 0 PROVE FALSE
    <3>1. i - 1 \in 0..n /\ (i - 1) + 1 = i /\ ~(k <= i - 1)
      BY <1>1, <1>3
    <3>2. i - 1 \in Ends
      BY <2>1, <3>1
    <3> QED BY <1>3, <3>1, <3>2
  <2> QED BY <1>3, <2>1
<1> DEFINE length == CHOOSE x \in 0..n : At(x)
<1>5. length \in 0..n /\ At(length)
  <2> HIDE DEF At
  <2> QED BY <1>4
<1> HIDE DEF length, Ends
<1>6. CString(bytes) = SubSeq(bytes, 1, length)
  BY DEF CString, length, n
<1>7. ASSUME NEW i \in 1..length PROVE bytes[i] \in Byte \ {0}
  <2>1. i \in 1..Len(bytes)
    BY <1>1, <1>5 DEF n
  <2> QED BY <1>5, <2>1
<1>8. SubSeq(bytes, 1, length) \in Seq(Byte) /\ Len(SubSeq(bytes, 1, length)) = length
      /\ \A i \in 1..length : SubSeq(bytes, 1, length)[i] = bytes[i]
  BY <1>1, <1>5 DEF n
<1> DEFINE s == SubSeq(bytes, 1, length)
<1> HIDE DEF s
<1>9. s \in Seq(Byte) /\ \A i \in 1..Len(s) : s[i] \in Byte \ {0}
  BY <1>7, <1>8 DEF s
<1>10. s \in Seq(Byte \ {0})
  BY <1>9
<1> QED BY <1>6, <1>10 DEF s, Value

LEMMA ParsedIsBytes ==
    ASSUME NEW buf \in Buffer, NEW m
    PROVE  ParseStringOf(buf, m).out \in Seq(Byte)
<1> DEFINE s == Scan(buf)
           d == Decode(buf, s.end)
           block == s.end - 1 - s.skipped + 1
           r == ParseStringOf(buf, m)
<1>1. CASE buf[1] # Quote \/ s.end > Len(buf) \/ ~m
  <2>1. r = Outcome(FALSE, 1, <<>>, 0)
    BY <1>1 DEF ParseStringOf
  <2> QED BY <2>1 DEF Outcome
<1>2. CASE ~(buf[1] # Quote \/ s.end > Len(buf) \/ ~m)
  <2>1. Scan(buf).end <= Len(buf)
    <3>1. s \in Scanned
      BY ScanCounts DEF Counted
    <3> QED BY <1>2, <3>1 DEF Scanned, Buffer
  <2>2. d \in Decoded
    BY <2>1, DecodeInBlock
  <2>3. r \in {Outcome(FALSE, ErrorOffset(d.at), d.out, block),
               Outcome(TRUE, s.end, Append(d.out, 0), block)}
    BY <1>2 DEF ParseStringOf
  <2> HIDE DEF r, d, s
  <2>4. r.out \in {d.out, Append(d.out, 0)}
    BY <2>3 DEF Outcome
  <2>5. d.out \in Seq(Byte) /\ 0 \in Byte
    BY <2>2 DEF Decoded, Byte
  <2>6. Append(d.out, 0) \in Seq(Byte)
    BY <2>5, AppendProperties
  <2> QED BY <2>4, <2>5, <2>6 DEF r
<1> QED BY <1>1, <1>2

\* Whatever was parsed, what is printed of it fills its block and parses to the
\* same value.
THEOREM PrintedIsParsedBack == Spec => []PrintedParsesBack
<1>1. StringsInv => PrintedParsesBack
  <2> SUFFICES ASSUME StringsInv, printed # <<>> 
               PROVE  LET literal == Front(printed)
                          again   == ParseStringOf(literal, TRUE)
                      IN  /\ Last(printed) = 0 /\ NoControls(literal)
                          /\ again.ok /\ again.offset = Len(literal)
                          /\ again.out = Append(CString(parsed.out), 0)
    BY DEF PrintedParsesBack
  <2> DEFINE value == CString(parsed.out)
  <2>1. printed = PrintStringPtr(value) /\ parsed.ok
    BY DEF StringsInv
  <2>2. parsed.out \in Seq(Byte)
    <3>1. ~Nothing.ok
      BY DEF Nothing, Outcome
    <3> QED BY <2>1, <3>1, ParsedIsBytes DEF StringsInv
  <2>3. value \in Value
    BY <2>2, CStringIsValue
  <2> HIDE DEF value
  <2>4. Last(printed) = 0 /\ Front(printed) = Append(AllWritten(value), Quote)
    BY <2>1, <2>3, PrintedIsWritten
  <2> QED BY <2>3, <2>4, WrittenIsParsed DEF value
<1> QED BY <1>1, StringsInvHolds, PTL

-----------------------------------------------------------------------------
(* RFC 8259.  The reader of StringText goes over the same places as the scan *)
(* and the decoder when every "\u" has its digits.                            *)

LEMMA UnitIsHex4 ==
    ASSUME NEW buf \in Seq(Byte), NEW i \in Nat, i >= 1, IsUnit(buf, i)
    PROVE  Unit(buf, i) = ParseHex4(buf, i + 2)
<1> DEFINE value[k \in 0..4] == IF k = 0 THEN 0 ELSE 16 * value[k - 1] + HexValue(buf[i + 1 + k])
           step == [k \in 1..4 |-> [v \in Int |-> 16 * v + HexValue(buf[i + 1 + k])]]
           h(k) == HexValue(buf[i + 1 + k])
<1>1. ASSUME NEW k \in 1..4 PROVE buf[i + 1 + k] \in HexDigits /\ buf[i + 1 + k] \in Byte
  <2>1. k + 1 \in 2..5 /\ i + (k + 1) = i + 1 + k /\ i + 5 <= Len(buf)
    BY DEF IsUnit
  <2>2. buf[i + (k + 1)] \in HexDigits
    BY <2>1 DEF IsUnit
  <2>3. i + 1 + k \in 1..Len(buf)
    BY <2>1
  <2> QED BY <2>1, <2>2, <2>3
<1>2. \A k \in 1..4 : h(k) \in 0..15
  <2>1. \A c \in HexDigits : HexValue(c) \in 0..15
    BY DEF HexDigits, HexValue
  <2> QED BY <1>1, <2>1
<1> HIDE DEF h
<1>3. step = [k \in 1..4 |-> [v \in Int |-> 16 * v + h(k)]]
  BY DEF h
<1>4. step \in [1..4 -> [Int -> Int]]
  <2> HIDE DEF step
  <2>1. \A k \in 1..4 : \A v \in Int : 16 * v + h(k) \in Int
    BY <1>2
  <2> QED BY <1>3, <2>1
<1>5. PICK f \in [0..4 -> Int] : Iterates(f, 0, step, 4)
  <2> HIDE DEF step
  <2>1. 0 \in Int /\ 4 \in Nat
    OBVIOUS
  <2> QED BY <1>4, <2>1, IterateExists
<1>6. f[0] = 0 /\ \A k \in 1..4 : f[k] = 16 * f[k - 1] + h(k)
  <2>1. f[0] = 0 /\ \A k \in 1..4 : f[k] = step[k][f[k - 1]] /\ f[k - 1] \in Int
    BY <1>5 DEF Iterates
  <2> HIDE DEF step
  <2> QED BY <1>3, <2>1
<1>7. f = [k \in 0..4 |-> IF k = 0 THEN 0 ELSE 16 * f[k - 1] + HexValue(buf[i + 1 + k])]
  <2>1. ASSUME NEW k \in 0..4
        PROVE  f[k] = IF k = 0 THEN 0 ELSE 16 * f[k - 1] + HexValue(buf[i + 1 + k])
    <3>1. k # 0 => k \in 1..4
      OBVIOUS
    <3> QED BY <1>6, <3>1 DEF h
  <2> QED BY <2>1
<1>8. value = [k \in 0..4 |-> IF k = 0 THEN 0 ELSE 16 * value[k - 1] + HexValue(buf[i + 1 + k])]
  BY <1>7
<1>9. value[0] = 0 /\ value[1] = 16 * value[0] + h(1) /\ value[2] = 16 * value[1] + h(2)
      /\ value[3] = 16 * value[2] + h(3) /\ value[4] = 16 * value[3] + h(4)
  <2> HIDE DEF value
  <2>1. \A k \in 1..4 : value[k] = 16 * value[k - 1] + h(k)
    <3>1. \A k \in 1..4 : k \in 0..4 /\ k # 0
      OBVIOUS
    <3>2. \A k \in 0..4 : value[k] = IF k = 0 THEN 0 ELSE 16 * value[k - 1] + HexValue(buf[i + 1 + k])
      BY <1>8
    <3> QED BY <3>1, <3>2 DEF h
  <2>2. value[0] = 0
    BY <1>8
  <2> QED BY <2>1, <2>2
<1>10. Unit(buf, i) = value[4]
  BY DEF Unit, value
<1> HIDE DEF value
<1>11. value[4] = 4096 * h(1) + 256 * h(2) + 16 * h(3) + h(4)
  <2> DEFINE nested(a, b, c, d) == 16 * (16 * (16 * (16 * 0 + a) + b) + c) + d
             flat(a, b, c, d) == 4096 * a + 256 * b + 16 * c + d
  <2>1. \A a, b, c, d \in 0..15 : nested(a, b, c, d) = flat(a, b, c, d)
    BY SMT
  <2>2. h(1) \in 0..15 /\ h(2) \in 0..15 /\ h(3) \in 0..15 /\ h(4) \in 0..15
    BY <1>2
  <2>3. value[4] = nested(h(1), h(2), h(3), h(4))
    BY <1>9
  <2> HIDE DEF nested, flat
  <2>4. value[4] = flat(h(1), h(2), h(3), h(4))
    BY <2>1, <2>2, <2>3
  <2> QED BY <2>4 DEF flat
<1> DEFINE digit(c) == IF c \in 48..57 THEN c - 48
                       ELSE IF c \in 65..70 THEN 10 + c - 65
                       ELSE IF c \in 97..102 THEN 10 + c - 97 ELSE 16
           digits == [k \in 1..4 |-> digit(buf[i + 2 + k - 1])]
<1>12. \A c \in HexDigits : digit(c) = HexValue(c)
  BY DEF HexDigits, HexValue
<1>13. \A k \in 1..4 : digits[k] = h(k)
  <2>1. \A k \in 1..4 : i + 2 + k - 1 = i + 1 + k
    OBVIOUS
  <2> HIDE DEF digit
  <2> QED BY <1>1, <1>12, <2>1 DEF h
<1>14. ParseHex4(buf, i + 2) = IF Contains(digits, 16) THEN 0
                               ELSE 4096 * digits[1] + 256 * digits[2] + 16 * digits[3] + digits[4]
  BY SMT DEF ParseHex4, digits, digit
<1>15. Len(digits) = 4
  <2> HIDE DEF digit
  <2>1. digits \in Seq({digit(buf[i + 2 + k - 1]) : k \in 1..4})
    OBVIOUS
  <2> QED OBVIOUS
<1> HIDE DEF digits
<1>16. ~Contains(digits, 16)
  <2>1. ASSUME NEW k \in 1..4, digits[k] = 16 PROVE FALSE
    <3>1. h(k) = 16
      BY <1>13, <2>1
    <3>2. h(k) \in 0..15
      BY <1>2
    <3>3. \A x \in 0..15 : x # 16
      OBVIOUS
    <3> QED BY <3>1, <3>2, <3>3
  <2> QED BY <1>15, <2>1 DEF Contains
<1>17. ParseHex4(buf, i + 2) = 4096 * h(1) + 256 * h(2) + 16 * h(3) + h(4)
  BY <1>13, <1>14, <1>16
<1> QED BY <1>10, <1>11, <1>17

LEMMA Utf8Same ==
    ASSUME NEW c \in Nat, c <= 1114111
    PROVE  Utf8Of(c) = Utf8Encode(c)
<1>1. Shifted[1] = 64 /\ Shifted[2] = 4096 /\ Shifted[3] = 262144
  BY SMT DEF Shifted
<1>2. CASE c < 128
  BY <1>2, EncodeBytes, SMT DEF Utf8Of
<1>3. CASE c >= 128 /\ c < 2048
  <2>1. Utf8Of(c) = <<192 + (c \div 64), 128 + (c % 64)>>
    BY <1>3, SMT DEF Utf8Of
  <2>2. Utf8Encode(c) = [pos \in 1..2 |-> IF pos = 1 THEN 192 + (c \div 64) ELSE 128 + (c % 64)]
    BY <1>1, <1>3, SMT DEF Utf8Encode
  <2> QED BY <2>1, <2>2, SMT
<1>4. CASE c >= 2048 /\ c < 65536
  <2>1. Utf8Of(c) = <<224 + (c \div 4096), 128 + ((c \div 64) % 64), 128 + (c % 64)>>
    BY <1>4, SMT DEF Utf8Of
  <2>2. Utf8Encode(c) = [pos \in 1..3 |-> IF pos = 1 THEN 224 + (c \div 4096)
                             ELSE IF pos = 2 THEN 128 + ((c \div 64) % 64) ELSE 128 + (c % 64)]
    BY <1>1, <1>4, SMT DEF Utf8Encode
  <2> QED BY <2>1, <2>2, SMT
<1>5. CASE c >= 65536
  <2>1. Utf8Of(c) = <<240 + (c \div 262144), 128 + ((c \div 4096) % 64),
                      128 + ((c \div 64) % 64), 128 + (c % 64)>>
    BY <1>5, SMT DEF Utf8Of
  <2>2. Utf8Encode(c) = [pos \in 1..4 |-> IF pos = 1 THEN 240 + (c \div 262144)
                             ELSE IF pos = 2 THEN 128 + ((c \div 4096) % 64)
                             ELSE IF pos = 3 THEN 128 + ((c \div 64) % 64) ELSE 128 + (c % 64)]
    BY <1>1, <1>5, SMT DEF Utf8Encode
  <2> QED BY <2>1, <2>2, SMT
<1> QED BY <1>2, <1>3, <1>4, <1>5, SMT

\* V are the places the scan comes to: from each it goes on as long as there is
\* no quote, and none lies behind the last.
ScanVisits(buf, V) ==
    /\ V \subseteq Nat /\ 2 \in V /\ Scan(buf).end \in V
    /\ \A x \in V : x >= 2 /\ x <= Scan(buf).end
    /\ \A x \in V : x < Scan(buf).end =>
           /\ x <= Len(buf) /\ buf[x] # Quote
           /\ buf[x] = Backslash => x + 2 \in V
           /\ buf[x] # Backslash => x + 1 \in V

LEMMA ScanComesBy ==
    ASSUME NEW buf \in Buffer
    PROVE  \E V : ScanVisits(buf, V)
<1> DEFINE n == Len(buf)
<1>1. n \in Nat
  BY DEF Buffer
<1>2. PICK p : ScanPasses(buf, p) /\ Scan(buf) = p[n]
  BY ScanIsPasses
<1> HIDE DEF n
<1>3. p \in [0..n -> Scanned] /\ p[0].end = 2 /\ \A k \in 1..n : p[k] = ScanOne(buf, p[k - 1])
  BY <1>2 DEF ScanPasses, n
<1> DEFINE V == {p[k].end : k \in 0..n}
<1>4. ASSUME NEW k \in 0..n
      PROVE  /\ p[k].end <= p[n].end
             /\ Searched(buf, p[k]) => p[n] = p[k]
  <2> DEFINE Later(j) == p[k].end <= p[j].end /\ (Searched(buf, p[k]) => p[j] = p[k])
             G == {j \in Nat : k <= j /\ j <= n => Later(j)}
  <2>1. p[k].end \in Nat
    BY <1>3 DEF Scanned
  <2>2. 0 \in G
    <3>1. k <= 0 => k = 0
      BY <1>1
    <3> QED BY <2>1, <3>1
  <2>3. ASSUME NEW j \in Nat, j \in G PROVE j + 1 \in G
    <3> SUFFICES ASSUME k <= j + 1, j + 1 <= n PROVE Later(j + 1)
      OBVIOUS
    <3>1. CASE k = j + 1
      BY <2>1, <3>1
    <3>2. CASE k # j + 1
      <4>1. k <= j /\ j <= n /\ j \in 0..n /\ j + 1 \in 1..n /\ (j + 1) - 1 = j
        BY <1>1, <3>2
      <4>2. Later(j)
        BY <2>3, <4>1
      <4>3. p[j + 1] = ScanOne(buf, p[j]) /\ p[j] \in Scanned
        BY <1>3, <4>1
      <4>4. p[j].end <= p[j + 1].end /\ p[j + 1].end \in Nat /\ p[j].end \in Nat
        BY <4>3 DEF ScanOne, Scanned
      <4>5. Searched(buf, p[j]) => p[j + 1] = p[j]
        BY <4>3 DEF ScanOne
      <4>6. p[k].end <= p[j + 1].end
        BY <2>1, <4>2, <4>4
      <4> QED BY <4>2, <4>5, <4>6
    <3> QED BY <3>1, <3>2
  <2>4. n \in G
    <3> HIDE DEF G
    <3> QED BY <1>1, <2>2, <2>3, SetInduction
  <2> QED BY <1>1, <2>4
<1>5. ASSUME NEW x \in V
      PROVE  /\ x \in Nat /\ x >= 2 /\ x <= p[n].end
             /\ x < p[n].end =>
                 /\ x <= Len(buf) /\ buf[x] # Quote
                 /\ buf[x] = Backslash => x + 2 \in V
                 /\ buf[x] # Backslash => x + 1 \in V
  <2>1. PICK k \in 0..n : x = p[k].end
    OBVIOUS
  <2>2. x \in Nat /\ p[n].end \in Nat /\ x <= p[n].end
    BY <1>1, <1>3, <1>4, <2>1 DEF Scanned
  <2>3. x >= 2
    <3> DEFINE G == {j \in Nat : j <= n => p[j].end >= 2}
    <3>1. 0 \in G
      BY <1>3
    <3>2. ASSUME NEW j \in Nat, j \in G PROVE j + 1 \in G
      <4> SUFFICES ASSUME j + 1 <= n PROVE p[j + 1].end >= 2
        OBVIOUS
      <4>1. j \in 0..n /\ j + 1 \in 1..n /\ (j + 1) - 1 = j
        BY <1>1
      <4>2. p[j + 1] = ScanOne(buf, p[j]) /\ p[j] \in Scanned /\ p[j].end >= 2
        BY <1>1, <1>3, <3>2, <4>1
      <4> QED BY <4>2 DEF ScanOne, Scanned
    <3>3. k \in G
      <4> HIDE DEF G
      <4> QED BY <1>1, <3>1, <3>2, SetInduction
    <3> QED BY <1>1, <2>1, <3>3
  <2>4. ASSUME x < p[n].end
        PROVE  /\ x <= Len(buf) /\ buf[x] # Quote
               /\ buf[x] = Backslash => x + 2 \in V
               /\ buf[x] # Backslash => x + 1 \in V
    <3>1. ~Searched(buf, p[k])
      BY <1>4, <2>1, <2>2, <2>4
    <3>2. x <= Len(buf) /\ buf[x] # Quote
      BY <1>1, <2>1, <2>2, <3>1 DEF Searched, n
    <3>3. k + 1 \in 0..n /\ k + 1 \in 1..n /\ (k + 1) - 1 = k
      <4>1. k # n
        BY <2>1, <2>2, <2>4
      <4> QED BY <1>1, <4>1
    <3>4. p[k + 1] = ScanOne(buf, p[k]) /\ p[k + 1].end \in V
      BY <1>3, <3>3
    <3>5. p[k + 1].end = IF buf[x] = Backslash THEN x + 2 ELSE x + 1
      BY <1>3, <2>1, <3>1, <3>4 DEF ScanOne, Scanned
    <3> QED BY <3>2, <3>4, <3>5
  <2> QED BY <2>2, <2>3, <2>4
<1>6. 2 \in V /\ p[n].end \in V
  <2>1. 0 \in 0..n /\ n \in 0..n
    BY <1>1
  <2> QED BY <1>3, <2>1
<1> HIDE DEF V
<1>7. p[n] = Scan(buf)
  BY <1>2 DEF n
<1>8. ScanVisits(buf, V)
  BY <1>5, <1>6, <1>7 DEF ScanVisits
<1> QED BY <1>8

\* A "\u" with its digits is passed by the scan.
LEMMA UnitIsPassed ==
    ASSUME NEW buf \in Buffer, NEW V, ScanVisits(buf, V), NEW x \in V,
           IsUnit(buf, x), x < Scan(buf).end
    PROVE  x + 6 \in V
<1>1. x \in Nat /\ x >= 2 /\ V \subseteq Nat /\ Scan(buf).end \in Nat
  BY DEF ScanVisits
<1>2. x + 5 <= Len(buf) /\ buf[x] = Backslash /\ \A k \in 2..5 : buf[x + k] \in HexDigits
  BY DEF IsUnit
<1>3. x + 2 \in V
  BY <1>2 DEF ScanVisits
<1>4. ASSUME NEW k \in 2..5, x + k \in V PROVE x + (k + 1) \in V
  <2>1. buf[x + k] # Quote /\ buf[x + k] # Backslash
    <3>1. \A c \in HexDigits : c # Quote /\ c # Backslash
      BY DEF HexDigits, Quote, Backslash
    <3> QED BY <1>2, <3>1
  <2>2. x + k <= Len(buf) /\ x + k \in Nat
    BY <1>1, <1>2 DEF Buffer
  <2>3. x + k # Scan(buf).end
    <3>1. Searched(buf, Scan(buf))
      BY ScanStops
    <3> QED BY <2>1, <2>2, <3>1 DEF Searched, Buffer
  <2>4. x + k < Scan(buf).end
    BY <1>1, <1>4, <2>2, <2>3 DEF ScanVisits
  <2>5. (x + k) + 1 = x + (k + 1)
    BY <1>1
  <2> QED BY <1>4, <2>1, <2>4, <2>5 DEF ScanVisits
<1> QED BY <1>3, <1>4

\* A place without a quote, inside the text, is not where the scan ended.
LEMMA NotTheEnd ==
    ASSUME NEW buf \in Buffer, NEW V, ScanVisits(buf, V), NEW x \in V,
           x <= Len(buf), buf[x] # Quote
    PROVE  x < Scan(buf).end
<1>1. x \in Nat /\ x <= Scan(buf).end /\ Scan(buf).end \in Nat /\ Len(buf) \in Nat
  <2>1. V \subseteq Nat /\ Scan(buf).end \in V /\ x <= Scan(buf).end
    BY DEF ScanVisits
  <2>2. Len(buf) \in Nat
    BY DEF Buffer
  <2> QED BY <2>1, <2>2
<1>2. Searched(buf, Scan(buf))
  BY ScanStops
<1>3. x # Scan(buf).end
  BY <1>1, <1>2 DEF Searched
<1> QED BY <1>1, <1>3

LEMMA SpelledCases ==
    ASSUME NEW buf, NEW i, NEW c
    PROVE  c \in Spelled(buf, i) <=>
             \/ buf[i] \notin {Quote, Backslash} /\ c = [length |-> 1, bytes |-> <<buf[i]>>]
             \/ /\ buf[i] = Backslash /\ i < Len(buf) /\ buf[i + 1] \in DOMAIN ShortEscapes
                /\ c = [length |-> 2, bytes |-> <<ShortEscapes[buf[i + 1]]>>]
             \/ /\ IsUnit(buf, i) /\ Unit(buf, i) \notin High \union Low
                /\ c = [length |-> 6, bytes |-> Utf8Of(Unit(buf, i))]
             \/ /\ IsUnit(buf, i) /\ Unit(buf, i) \in High
                /\ IsUnit(buf, i + 6) /\ Unit(buf, i + 6) \in Low
                /\ c = [length |-> 12,
                        bytes |-> Utf8Of(65536 + 1024 * (Unit(buf, i) - 55296)
                                         + (Unit(buf, i + 6) - 56320))]
  BY SMT DEF Spelled

\* The two ways to put the halves of a pair together.
LEMMA PairSame ==
    ASSUME NEW u \in High, NEW v \in Low
    PROVE  /\ 65536 + 1024 * (u - 55296) + (v - 56320) = 65536 + 1024 * (u % 1024) + (v % 1024)
           /\ 65536 + 1024 * (u % 1024) + (v % 1024) \in Nat
           /\ 65536 + 1024 * (u % 1024) + (v % 1024) <= 1114111
<1>1. u \in Nat /\ u >= 55296 /\ u <= 56319 /\ v \in Nat /\ v >= 56320 /\ v <= 57343
  BY SMT DEF High, Low
<1>2. u % 1024 = u - 55296 /\ v % 1024 = v - 56320
  BY <1>1, SMT
<1> QED BY <1>1, <1>2, SMT

LEMMA UnitValue ==
    ASSUME NEW buf \in Buffer, NEW i \in Nat, i >= 1, IsUnit(buf, i)
    PROVE  /\ Unit(buf, i) = ParseHex4(buf, i + 2)
           /\ Unit(buf, i) \in Nat /\ Unit(buf, i) <= 65535 /\ Unit(buf, i) <= 1114111
<1>1. Unit(buf, i) = ParseHex4(buf, i + 2)
  BY UnitIsHex4 DEF Buffer
<1>2. ParseHex4(buf, i + 2) \in Nat /\ ParseHex4(buf, i + 2) <= 65535
  BY HexBound
<1>3. \A v \in Nat : v <= 65535 => v <= 1114111
  BY SMT
<1> QED BY <1>1, <1>2, <1>3

\* What is spelled are bytes, and the scan comes by behind them.
LEMMA SpelledPasses ==
    ASSUME NEW buf \in Buffer, NEW V, ScanVisits(buf, V), NEW x \in V, x < Scan(buf).end,
           NEW c \in Spelled(buf, x)
    PROVE  c.bytes \in Seq(Byte) /\ c.length \in Nat /\ c.length >= 1 /\ x + c.length \in V
<1>1. x \in Nat /\ x >= 2 /\ x <= Len(buf) /\ buf[x] # Quote /\ Len(buf) \in Nat
  BY DEF ScanVisits, Buffer
<1>2. \A i \in 1..Len(buf) : buf[i] \in Byte
  BY DEF Buffer
<1>3. ASSUME buf[x] \notin {Quote, Backslash}, c = [length |-> 1, bytes |-> <<buf[x]>>]
      PROVE  c.bytes \in Seq(Byte) /\ c.length = 1 /\ x + c.length \in V
  <2>1. x + 1 \in V
    BY <1>3 DEF ScanVisits
  <2>2. buf[x] \in Byte
    BY <1>1, <1>2
  <2> QED BY <1>3, <2>1, <2>2
<1>4. ASSUME buf[x] = Backslash, x < Len(buf), buf[x + 1] \in DOMAIN ShortEscapes,
             c = [length |-> 2, bytes |-> <<ShortEscapes[buf[x + 1]]>>]
      PROVE  c.bytes \in Seq(Byte) /\ c.length = 2 /\ x + c.length \in V
  <2>1. x + 2 \in V
    BY <1>4 DEF ScanVisits
  <2>2. \A l \in DOMAIN ShortEscapes : ShortEscapes[l] \in Byte
    BY DEF ShortEscapes, Byte
  <2> QED BY <1>4, <2>1, <2>2
<1>5. ASSUME IsUnit(buf, x), c = [length |-> 6, bytes |-> Utf8Of(Unit(buf, x))]
      PROVE  c.bytes \in Seq(Byte) /\ c.length = 6 /\ x + c.length \in V
  <2>1. x + 6 \in V
    BY <1>5, UnitIsPassed
  <2>2. Unit(buf, x) \in Nat /\ Unit(buf, x) <= 1114111
    <3>1. x >= 1
      BY <1>1
    <3> QED BY <1>1, <1>5, <3>1, UnitValue
  <2> DEFINE u == Unit(buf, x)
  <2> HIDE DEF u
  <2>3. Utf8Of(u) \in Seq(Byte)
    BY <2>2, Utf8Same, EncodeBytes, SMT DEF u
  <2> QED BY <1>5, <2>1, <2>3 DEF u
<1>6. ASSUME IsUnit(buf, x), Unit(buf, x) \in High, IsUnit(buf, x + 6), Unit(buf, x + 6) \in Low,
             c = [length |-> 12,
                  bytes |-> Utf8Of(65536 + 1024 * (Unit(buf, x) - 55296)
                                   + (Unit(buf, x + 6) - 56320))]
      PROVE  c.bytes \in Seq(Byte) /\ c.length = 12 /\ x + c.length \in V
  <2>1. x + 6 \in V
    BY <1>6, UnitIsPassed
  <2>2. x + 6 <= Len(buf) /\ buf[x + 6] # Quote
    <3>1. buf[x + 6] = Backslash /\ (x + 6) + 5 <= Len(buf)
      BY <1>6 DEF IsUnit
    <3> QED BY <1>1, <3>1 DEF Backslash, Quote
  <2>3. x + 6 < Scan(buf).end
    BY <2>1, <2>2, NotTheEnd
  <2>4. x + 12 \in V
    <3>1. (x + 6) + 6 \in V
      BY <1>6, <2>1, <2>3, UnitIsPassed
    <3>2. (x + 6) + 6 = x + 12
      BY <1>1
    <3> QED BY <3>1, <3>2
  <2> DEFINE u == Unit(buf, x)
             v == Unit(buf, x + 6)
             pair == 65536 + 1024 * (u - 55296) + (v - 56320)
  <2> HIDE DEF u, v
  <2>5. pair \in Nat /\ pair <= 1114111
    BY <1>6, PairSame, SMT DEF u, v
  <2> HIDE DEF pair
  <2>6. Utf8Of(pair) \in Seq(Byte)
    BY <2>5, Utf8Same, EncodeBytes, SMT
  <2> QED BY <1>6, <2>4, <2>6 DEF pair, u, v
<1>7. c.length \in {1, 2, 6, 12} /\ c.bytes \in Seq(Byte) /\ x + c.length \in V
  BY <1>3, <1>4, <1>5, <1>6, SpelledCases
<1> QED BY <1>7

\* Where the text has the digits of its escapes, an escape is refused exactly
\* when nothing is spelled, and else stands for what is.
LEMMA EscapeIsSpelled ==
    ASSUME NEW buf \in Buffer, NEW V, ScanVisits(buf, V), Scan(buf).end <= Len(buf),
           DigitsComplete(buf), NEW x \in V, x < Scan(buf).end, buf[x] = Backslash
    PROVE  LET e == Escape(buf, x, Scan(buf).end)
           IN  \/ e = Refused /\ Spelled(buf, x) = {}
               \/ e.length > 0 /\ Spelled(buf, x) = {[length |-> e.length, bytes |-> e.bytes]}
<1> DEFINE end == Scan(buf).end
           l == buf[x + 1]
           e == Escape(buf, x, end)
           first == ParseHex4(buf, x + 2)
<1>1. x \in Nat /\ x >= 1 /\ x >= 2 /\ end \in Nat /\ Len(buf) \in Nat /\ x + 2 \in V /\ x + 2 <= end
      /\ x < Len(buf) /\ x \in 1..(Len(buf) - 1) /\ V \subseteq Nat
  <2>1. V \subseteq Nat /\ Scan(buf).end \in V /\ x >= 2 /\ x + 2 \in V /\ x + 2 <= end
    BY DEF ScanVisits
  <2>2. Len(buf) \in Nat /\ x \in Nat /\ end \in Nat
    <3>1. Len(buf) \in Nat
      BY DEF Buffer
    <3> QED BY <2>1, <3>1
  <2> HIDE DEF end
  <2>3. x + 2 <= Len(buf)
    BY <2>1, <2>2 DEF end
  <2>4. x < Len(buf) /\ x \in 1..(Len(buf) - 1) /\ x >= 1
    BY <2>1, <2>2, <2>3
  <2> QED BY <2>1, <2>2, <2>4 DEF end
<1>2. \A c : c \in Spelled(buf, x) <=>
             \/ /\ l \in DOMAIN ShortEscapes
                /\ c = [length |-> 2, bytes |-> <<ShortEscapes[l]>>]
             \/ /\ IsUnit(buf, x) /\ Unit(buf, x) \notin High \union Low
                /\ c = [length |-> 6, bytes |-> Utf8Of(Unit(buf, x))]
             \/ /\ IsUnit(buf, x) /\ Unit(buf, x) \in High
                /\ IsUnit(buf, x + 6) /\ Unit(buf, x + 6) \in Low
                /\ c = [length |-> 12,
                        bytes |-> Utf8Of(65536 + 1024 * (Unit(buf, x) - 55296)
                                         + (Unit(buf, x + 6) - 56320))]
  <2>1. buf[x] \in {Quote, Backslash}
    OBVIOUS
  <2> QED BY <1>1, <2>1, SpelledCases, SMT
<1> HIDE DEF end, l, e, first
<1>3. DOMAIN ByteOf = {98, 102, 110, 114, 116}
      /\ DOMAIN ShortEscapes = {34, 92, 47, 98, 102, 110, 114, 116}
  BY DEF ByteOf, ShortEscapes
<1>4. CASE l \in DOMAIN ByteOf
  <2>1. e = [bytes |-> <<ByteOf[l]>>, length |-> 2]
    BY <1>4, LetterCases DEF e, l, end
  <2>2. ShortEscapes[l] = ByteOf[l] /\ l \in DOMAIN ShortEscapes /\ l # LowerU
    BY <1>3, <1>4 DEF ByteOf, ShortEscapes, LowerU
  <2>3. ~IsUnit(buf, x)
    BY <2>2 DEF IsUnit, l
  <2>4. Spelled(buf, x) = {[length |-> 2, bytes |-> <<ByteOf[l]>>]}
    BY <1>2, <2>2, <2>3, SMT
  <2> QED BY <2>1, <2>4 DEF e, end
<1>5. CASE l \notin DOMAIN ByteOf /\ l \in {Quote, Backslash, Slash}
  <2>1. e = [bytes |-> <<l>>, length |-> 2]
    BY <1>5, LetterCases DEF e, l, end
  <2>2. ShortEscapes[l] = l /\ l \in DOMAIN ShortEscapes /\ l # LowerU
    BY <1>3, <1>5 DEF ShortEscapes, LowerU, Quote, Backslash, Slash
  <2>3. ~IsUnit(buf, x)
    BY <2>2 DEF IsUnit, l
  <2>4. Spelled(buf, x) = {[length |-> 2, bytes |-> <<l>>]}
    BY <1>2, <2>2, <2>3, SMT
  <2> QED BY <2>1, <2>4 DEF e, end
<1>6. CASE l \notin DOMAIN ByteOf /\ l \notin {Quote, Backslash, Slash} /\ l # LowerU
  <2>1. e = Refused
    BY <1>6 DEF Escape, e, l
  <2>2. l \notin DOMAIN ShortEscapes
    BY <1>3, <1>6 DEF Quote, Backslash, Slash
  <2>3. ~IsUnit(buf, x)
    BY <1>6 DEF IsUnit, l
  <2>4. Spelled(buf, x) = {}
    BY <1>2, <2>2, <2>3, SMT
  <2> QED BY <2>1, <2>4 DEF e, end
<1>7. CASE l = LowerU
  <2>1. e = Utf16LiteralToUtf8(buf, x, end)
    BY <1>7, LetterCases DEF e, l, end
  <2>2. l \notin DOMAIN ShortEscapes
    BY <1>3, <1>7 DEF LowerU
  <2>3. IsUnit(buf, x)
    BY <1>1, <1>7 DEF DigitsComplete, l
  <2>4. Unit(buf, x) = first /\ first \in Nat /\ first <= 1114111
    BY <1>1, <2>3, UnitValue DEF first
  <2>5. x + 6 \in V /\ x + 6 <= end /\ ~(end - x < 6)
    <3>1. x + 6 \in V /\ x + 6 <= end
      BY <2>3, UnitIsPassed DEF ScanVisits, end
    <3> QED BY <1>1, <3>1
  <2>6. CASE first \in Low
    <3>1. e = Refused
      BY <2>1, <2>5, <2>6, SMT DEF Utf16LiteralToUtf8, first
    <3>2. first \notin High
      BY <2>4, <2>6, SMT DEF Low, High
    <3>3. Spelled(buf, x) = {}
      BY <1>2, <2>2, <2>4, <2>6, <3>2, SMT
    <3> QED BY <3>1, <3>3 DEF e, end
  <2>7. CASE first \notin Low /\ first \notin High
    <3>1. e = [bytes |-> Utf8Encode(first), length |-> 6]
      BY <2>1, <2>5, <2>7, SMT DEF Utf16LiteralToUtf8, first
    <3>2. Utf8Of(first) = Utf8Encode(first)
      BY <2>4, Utf8Same
    <3>3. Spelled(buf, x) = {[length |-> 6, bytes |-> Utf8Encode(first)]}
      BY <1>2, <2>2, <2>3, <2>4, <2>7, <3>2, SMT
    <3> QED BY <3>1, <3>3, SMT DEF e, end
  <2>8. CASE first \in High
    <3> DEFINE second == ParseHex4(buf, x + 8)
               pair == 65536 + 1024 * (first % 1024) + (second % 1024)
    <3>1. first \notin Low
      BY <2>4, <2>8, SMT DEF Low, High
    <3>2. (x + 6) + 2 = x + 8 /\ x + 6 \in Nat /\ x + 6 >= 1
      BY <1>1
    <3>3. e = IF SecondHalf(buf, x + 6, end) THEN [bytes |-> Utf8Encode(pair), length |-> 12]
              ELSE Refused
      BY <2>1, <2>5, <2>8, <3>1, SMT DEF Utf16LiteralToUtf8, first
    <3>4. IsUnit(buf, x + 6) => Unit(buf, x + 6) = second
      BY <3>2, UnitValue
    <3>5. SecondHalf(buf, x + 6, end) <=> IsUnit(buf, x + 6) /\ second \in Low
      <4>1. ASSUME SecondHalf(buf, x + 6, end) PROVE IsUnit(buf, x + 6) /\ second \in Low
        <5>1. /\ end - (x + 6) >= 6 /\ buf[x + 6] = Backslash /\ buf[(x + 6) + 1] = LowerU
              /\ ParseHex4(buf, (x + 6) + 2) \in Low
          BY <4>1 DEF SecondHalf
        <5>2. end <= Len(buf)
          BY DEF end
        <5>3. x + 6 \in 1..(Len(buf) - 1)
          BY <1>1, <3>2, <5>1, <5>2
        <5> QED BY <3>2, <5>1, <5>3 DEF DigitsComplete
      <4>2. ASSUME IsUnit(buf, x + 6), second \in Low PROVE SecondHalf(buf, x + 6, end)
        <5>1. buf[x + 6] = Backslash /\ buf[(x + 6) + 1] = LowerU /\ (x + 6) + 5 <= Len(buf)
          BY <4>2 DEF IsUnit
        <5>2. x + 6 <= Len(buf) /\ buf[x + 6] # Quote
          BY <1>1, <5>1 DEF Backslash, Quote
        <5>3. x + 6 < Scan(buf).end
          BY <2>5, <5>2, NotTheEnd
        <5>4. (x + 6) + 6 \in V
          BY <2>5, <4>2, <5>3, UnitIsPassed
        <5>5. (x + 6) + 6 <= end
          BY <5>4 DEF ScanVisits, end
        <5>6. end - (x + 6) >= 6
          BY <1>1, <5>5
        <5>7. ParseHex4(buf, (x + 6) + 2) \in Low
          BY <3>2, <4>2
        <5> QED BY <5>1, <5>6, <5>7 DEF SecondHalf
      <4> QED BY <4>1, <4>2
    <3> HIDE DEF second
    <3>6. CASE IsUnit(buf, x + 6) /\ second \in Low
      <4>1. 65536 + 1024 * (first - 55296) + (second - 56320) = pair /\ pair \in Nat /\ pair <= 1114111
        BY <2>8, <3>6, PairSame, SMT
      <4> HIDE DEF pair
      <4>2. Utf8Of(65536 + 1024 * (first - 55296) + (second - 56320)) = Utf8Encode(pair)
        BY <4>1, Utf8Same, SMT
      <4>3. e = [bytes |-> Utf8Encode(pair), length |-> 12]
        BY <3>3, <3>5, <3>6, SMT
      <4>4. Spelled(buf, x) = {[length |-> 12, bytes |-> Utf8Encode(pair)]}
        BY <1>2, <2>2, <2>3, <2>4, <2>8, <3>1, <3>4, <3>6, <4>2, SMT
      <4> QED BY <4>3, <4>4, SMT DEF e, end
    <3>7. CASE ~(IsUnit(buf, x + 6) /\ second \in Low)
      <4>1. e = Refused
        BY <3>3, <3>5, <3>7, SMT
      <4>2. Spelled(buf, x) = {}
        BY <1>2, <2>2, <2>4, <2>8, <3>4, <3>7, SMT
      <4> QED BY <4>1, <4>2 DEF e, end
    <3> QED BY <3>6, <3>7
  <2> QED BY <2>6, <2>7, <2>8
<1> QED BY <1>4, <1>5, <1>6, <1>7

\* The reader, which stays where the scan comes by.
ReadState(V) == [end : V, bytes : Seq(Byte)]

LEMMA ReadOneStays ==
    ASSUME NEW buf \in Buffer, NEW V, ScanVisits(buf, V), NEW r \in ReadState(V)
    PROVE  LET t == ReadOne(buf, r)
           IN  t \in ReadState(V) /\ (t = r \/ t.end >= r.end + 1)
<1> DEFINE t == ReadOne(buf, r)
           c == CHOOSE s \in Spelled(buf, r.end) : TRUE
<1>1. r.end \in V /\ r.bytes \in Seq(Byte) /\ V \subseteq Nat
  BY DEF ReadState, ScanVisits
<1>2. CASE r.end > Len(buf) \/ buf[r.end] = Quote \/ Spelled(buf, r.end) = {}
  BY <1>2 DEF ReadOne
<1>3. CASE ~(r.end > Len(buf) \/ buf[r.end] = Quote \/ Spelled(buf, r.end) = {})
  <2>1. c \in Spelled(buf, r.end)
    BY <1>3
  <2>2. t = [end |-> r.end + c.length, bytes |-> r.bytes \o c.bytes]
    BY <1>3 DEF ReadOne
  <2> HIDE DEF c
  <2>3. r.end <= Len(buf)
    <3>1. r.end \in Nat
      BY <1>1
    <3>2. Len(buf) \in Nat
      BY DEF Buffer
    <3> QED BY <1>3, <3>1, <3>2
  <2>4. r.end < Scan(buf).end
    BY <1>1, <1>3, <2>3, NotTheEnd
  <2>5. c.bytes \in Seq(Byte) /\ c.length \in Nat /\ c.length >= 1 /\ r.end + c.length \in V
    BY <1>1, <2>1, <2>4, SpelledPasses
  <2>6. r.bytes \o c.bytes \in Seq(Byte)
    BY <1>1, <2>5
  <2>7. t.end = r.end + c.length /\ t \in ReadState(V)
    BY <2>2, <2>5, <2>6 DEF ReadState
  <2>8. r.end + c.length >= r.end + 1
    <3>1. r.end \in Nat
      BY <1>1
    <3>2. \A a, b \in Nat : b >= 1 => a + b >= a + 1
      OBVIOUS
    <3> QED BY <2>5, <3>1, <3>2
  <2> QED BY <2>7, <2>8
<1> QED BY <1>2, <1>3

ReadPasses(buf, V, r) ==
    /\ r \in [0..Len(buf) -> ReadState(V)]
    /\ r[0] = [end |-> 2, bytes |-> <<>>]
    /\ \A k \in 1..Len(buf) : r[k] = ReadOne(buf, r[k - 1])

LEMMA ReadIsPasses ==
    ASSUME NEW buf \in Buffer, NEW V, ScanVisits(buf, V)
    PROVE  \E r : ReadPasses(buf, V, r) /\ Characters(buf) = r[Len(buf)]
<1> DEFINE n == Len(buf)
           S == ReadState(V)
           read[k \in 0..n] == IF k = 0 THEN [end |-> 2, bytes |-> <<>>] ELSE ReadOne(buf, read[k - 1])
           step == [k \in 1..n |-> [s \in S |-> ReadOne(buf, s)]]
           b == [end |-> 2, bytes |-> <<>>]
<1>1. n \in Nat /\ b \in S
  BY DEF Buffer, ReadState, ScanVisits
<1>2. ASSUME NEW s \in S PROVE ReadOne(buf, s) \in S
  BY ReadOneStays
<1> HIDE DEF S
<1>3. step \in [1..n -> [S -> S]]
  BY <1>2
<1>4. PICK f \in [0..n -> S] : Iterates(f, b, step, n)
  <2> HIDE DEF step, n, b
  <2> QED BY <1>1, <1>3, IterateExists
<1>5. f = [k \in 0..n |-> IF k = 0 THEN b ELSE ReadOne(buf, f[k - 1])]
  <2>1. ASSUME NEW k \in 0..n PROVE f[k] = IF k = 0 THEN b ELSE ReadOne(buf, f[k - 1])
    <3>1. CASE k = 0
      BY <1>4, <3>1 DEF Iterates
    <3>2. CASE k # 0
      <4>1. k \in 1..n /\ k - 1 \in 0..n
        BY <1>1, <3>2
      <4>2. f[k - 1] \in S /\ f[k] = step[k][f[k - 1]]
        BY <1>4, <4>1 DEF Iterates
      <4> QED BY <3>2, <4>1, <4>2
    <3> QED BY <3>1, <3>2
  <2> QED BY <2>1
<1>6. read = [k \in 0..n |-> IF k = 0 THEN b ELSE ReadOne(buf, read[k - 1])]
  BY <1>5
<1>7. read[0] = b /\ \A k \in 1..n : read[k] = ReadOne(buf, read[k - 1])
  <2> HIDE DEF read, b
  <2>1. 0 \in 0..n /\ \A k \in 1..n : k \in 0..n /\ k # 0
    BY <1>1
  <2> QED BY <1>6, <2>1
<1> HIDE DEF read
<1>8. \A k \in 0..n : read[k] \in S
  BY <1>1, <1>2, <1>7, LoopInvariant
<1>9. Characters(buf) = read[n]
  BY DEF Characters, read
<1>10. read \in [0..n -> S]
  BY <1>6, <1>8
<1> QED BY <1>7, <1>9, <1>10 DEF ReadPasses, S

\* A state of the reader as one of the decoder.
AsDecoded(r) == [at |-> r.end, out |-> r.bytes]

LEMMA StepSame ==
    ASSUME NEW buf \in Buffer, NEW V, ScanVisits(buf, V), Scan(buf).end <= Len(buf),
           DigitsComplete(buf), NEW r \in ReadState(V)
    PROVE  /\ AsDecoded(r) \in Decoded
           /\ DecodeOne(buf, Scan(buf).end, AsDecoded(r)) = AsDecoded(ReadOne(buf, r))
<1> DEFINE end == Scan(buf).end
           x == r.end
           d == AsDecoded(r)
           t == ReadOne(buf, r)
<1>1. x \in V /\ x \in Nat /\ x >= 2 /\ x <= end /\ end \in Nat /\ r.bytes \in Seq(Byte)
      /\ r = [end |-> x, bytes |-> r.bytes]
  <2>1. V \subseteq Nat /\ end \in V /\ x \in V
    BY DEF ScanVisits, ReadState
  <2>2. x >= 2 /\ x <= end
    BY <2>1 DEF ScanVisits
  <2>3. r.bytes \in Seq(Byte) /\ r = [end |-> x, bytes |-> r.bytes]
    BY DEF ReadState
  <2> QED BY <2>1, <2>2, <2>3
<1>2. Len(buf) \in Nat /\ end <= Len(buf) /\ end \in 1..Len(buf)
  <2>1. Len(buf) \in Nat
    BY DEF Buffer
  <2> HIDE DEF x
  <2> QED BY <1>1, <2>1
<1>3. d \in Decoded /\ d.at = x /\ d.out = r.bytes
  BY <1>1 DEF Decoded, AsDecoded
<1> HIDE DEF end, x, d, t
<1>4. CASE x = end
  <2>1. buf[x] = Quote
    <3>1. Searched(buf, Scan(buf))
      BY ScanStops
    <3> QED BY <1>1, <1>2, <1>4, <3>1 DEF Searched, end
  <2>2. t = r
    BY <2>1 DEF ReadOne, t, x
  <2>3. d.at >= end
    BY <1>1, <1>3, <1>4
  <2>4. DecodeOne(buf, end, d) = d
    BY <1>2, <1>3, <2>3, DecodeOneCases
  <2> QED BY <1>3, <2>2, <2>4 DEF d, t, end
<1>5. CASE x < end /\ buf[x] # Backslash
  <2>1. x <= Len(buf) /\ ~(x > Len(buf)) /\ buf[x] # Quote
    <3>1. buf[x] # Quote
      BY <1>1, <1>5 DEF ScanVisits, end
    <3> QED BY <1>1, <1>2, <1>5, <3>1
  <2> DEFINE c == [length |-> 1, bytes |-> <<buf[x]>>]
  <2>2. Spelled(buf, x) = {c}
    <3>1. ~IsUnit(buf, x)
      BY <1>5 DEF IsUnit
    <3>2. \A y : y \in Spelled(buf, x) <=> y = c
      BY <1>5, <2>1, <3>1, SpelledCases
    <3> QED BY <3>2
  <2>3. t = [end |-> x + 1, bytes |-> r.bytes \o <<buf[x]>>]
    <3>1. (CHOOSE s \in Spelled(buf, x) : TRUE) = c
      BY <2>2
    <3>2. Spelled(buf, x) # {}
      BY <2>2
    <3>3. t = [end |-> x + c.length, bytes |-> r.bytes \o c.bytes]
      <4> HIDE DEF c
      <4> QED BY <2>1, <3>1, <3>2, Zenon DEF ReadOne, t, x
    <3> QED BY <3>3
  <2>4. DecodeOne(buf, end, d) = [at |-> x + 1, out |-> Append(r.bytes, buf[x])]
        /\ buf[x] \in Byte
    <3>1. d.at < end /\ buf[d.at] # Backslash
      BY <1>3, <1>5
    <3>2. DecodeOne(buf, end, d) = [at |-> d.at + 1, out |-> Append(d.out, buf[d.at])]
          /\ buf[d.at] \in Byte
      BY <1>2, <1>3, <3>1, DecodeOneCases
    <3> QED BY <1>3, <3>2
  <2>5. r.bytes \o <<buf[x]>> = Append(r.bytes, buf[x])
    BY <1>1, <2>4
  <2>6. t.end = x + 1 /\ t.bytes = Append(r.bytes, buf[x])
    BY <2>3, <2>5
  <2> QED BY <1>3, <2>4, <2>6 DEF AsDecoded, d, t, end
<1>6. CASE x < end /\ buf[x] = Backslash
  <2>1. x <= Len(buf) /\ ~(x > Len(buf)) /\ buf[x] # Quote
    BY <1>1, <1>2, <1>6 DEF Backslash, Quote
  <2> DEFINE e == Escape(buf, x, end)
  <2>2. DecodeOne(buf, end, d) = [at |-> x + e.length, out |-> r.bytes \o e.bytes]
    <3>1. d.at < end /\ buf[d.at] = Backslash
      BY <1>3, <1>6
    <3>2. \E f : /\ f = Escape(buf, d.at, end) /\ Escaped(f, end - d.at)
                 /\ DecodeOne(buf, end, d) = [at |-> d.at + f.length, out |-> d.out \o f.bytes]
      BY <1>2, <1>3, <3>1, DecodeOneCases, Zenon
    <3>3. DecodeOne(buf, end, d)
              = [at |-> d.at + Escape(buf, d.at, end).length, out |-> d.out \o Escape(buf, d.at, end).bytes]
      BY <3>2, Zenon
    <3> QED BY <1>3, <3>3
  <2>3. \/ e = Refused /\ Spelled(buf, x) = {}
        \/ Spelled(buf, x) = {[length |-> e.length, bytes |-> e.bytes]}
    BY <1>1, <1>6, EscapeIsSpelled DEF end
  <2> HIDE DEF e
  <2>4. CASE e = Refused /\ Spelled(buf, x) = {}
    <3>1. t = r
      BY <2>4 DEF ReadOne, t, x
    <3>2. e.length = 0 /\ e.bytes = <<>>
      BY <2>4 DEF Refused
    <3>3. x + 0 = x /\ r.bytes \o <<>> = r.bytes
      BY <1>1
    <3>4. DecodeOne(buf, end, d) = [at |-> x, out |-> r.bytes]
      BY <2>2, <3>2, <3>3
    <3> QED BY <1>3, <3>1, <3>4 DEF AsDecoded, d, t, end, x
  <2>5. CASE Spelled(buf, x) = {[length |-> e.length, bytes |-> e.bytes]}
    <3> DEFINE c == [length |-> e.length, bytes |-> e.bytes]
    <3>1. (CHOOSE s \in Spelled(buf, x) : TRUE) = c
      BY <2>5
    <3>2. Spelled(buf, x) # {}
      BY <2>5
    <3>3. t = [end |-> x + c.length, bytes |-> r.bytes \o c.bytes]
      <4> HIDE DEF c
      <4> QED BY <2>1, <3>1, <3>2, Zenon DEF ReadOne, t, x
    <3>4. t = [end |-> x + e.length, bytes |-> r.bytes \o e.bytes]
      BY <3>3
    <3> QED BY <1>3, <2>2, <3>4 DEF AsDecoded, d, t, end
  <2> QED BY <2>3, <2>4, <2>5
<1> QED BY <1>1, <1>4, <1>5, <1>6

LEMMA CharactersStay ==
    ASSUME NEW buf \in Buffer, NEW V, ScanVisits(buf, V)
    PROVE  Characters(buf) \in ReadState(V)
<1>1. PICK r : ReadPasses(buf, V, r) /\ Characters(buf) = r[Len(buf)]
  BY ReadIsPasses
<1>2. Len(buf) \in 0..Len(buf)
  BY DEF Buffer
<1> QED BY <1>1, <1>2 DEF ReadPasses

\* The decoder, which goes up to the quote, does what the reader does.
LEMMA DecodeIsCharacters ==
    ASSUME NEW buf \in Buffer, NEW V, ScanVisits(buf, V), Scan(buf).end <= Len(buf),
           DigitsComplete(buf)
    PROVE  Decode(buf, Scan(buf).end) = AsDecoded(Characters(buf))
<1> DEFINE end == Scan(buf).end
           n == Len(buf)
<1>1. n \in Nat /\ end \in Nat /\ end >= 2 /\ end <= n /\ end \in 1..Len(buf)
  <2>1. Len(buf) \in Nat
    BY DEF Buffer
  <2>2. Scan(buf).end \in Nat /\ Scan(buf).end >= 2
    BY DEF ScanVisits
  <2> QED BY <2>1, <2>2
<1>2. PICK r : ReadPasses(buf, V, r) /\ Characters(buf) = r[n]
  BY ReadIsPasses
<1>3. PICK p : DecodePasses(buf, end, p) /\ Decode(buf, end) = p[end]
  BY <1>1, DecodeIsPasses
<1>4. ASSUME NEW s \in ReadState(V)
      PROVE  DecodeOne(buf, end, AsDecoded(s)) = AsDecoded(ReadOne(buf, s))
             /\ ReadOne(buf, s) \in ReadState(V)
  BY StepSame, ReadOneStays
<1>5. DecodeOne(buf, end, p[end]) = p[end]
  BY <1>1, <1>3, DecodeStops
<1> HIDE DEF end, n
<1>6. r \in [0..n -> ReadState(V)] /\ r[0] = [end |-> 2, bytes |-> <<>>]
      /\ \A k \in 1..n : r[k] = ReadOne(buf, r[k - 1])
  BY <1>2 DEF ReadPasses, n
<1>7. p[0] = [at |-> 2, out |-> <<>>] /\ \A k \in 1..end : p[k] = DecodeOne(buf, end, p[k - 1])
  BY <1>3 DEF DecodePasses
<1>8. p[end] = AsDecoded(r[end])
  <2> DEFINE G == {k \in Nat : k <= end => p[k] = AsDecoded(r[k])}
  <2>1. 0 \in G
    BY <1>6, <1>7 DEF AsDecoded
  <2>2. ASSUME NEW k \in Nat, k \in G PROVE k + 1 \in G
    <3> SUFFICES ASSUME k + 1 <= end PROVE p[k + 1] = AsDecoded(r[k + 1])
      OBVIOUS
    <3>1. k <= end /\ k \in 0..n /\ k + 1 \in 1..n /\ k + 1 \in 1..end /\ (k + 1) - 1 = k
      BY <1>1
    <3>2. p[k] = AsDecoded(r[k]) /\ r[k] \in ReadState(V)
      BY <1>6, <2>2, <3>1
    <3>3. p[k + 1] = DecodeOne(buf, end, p[k]) /\ r[k + 1] = ReadOne(buf, r[k])
      BY <1>6, <1>7, <3>1
    <3> QED BY <1>4, <3>2, <3>3
  <2>3. end \in G
    <3> HIDE DEF G
    <3> QED BY <1>1, <2>1, <2>2, SetInduction
  <2> QED BY <1>1, <2>3
<1>9. r[end] \in ReadState(V)
  BY <1>1, <1>6
<1>10. ReadOne(buf, r[end]) = r[end]
  <2>1. AsDecoded(ReadOne(buf, r[end])) = AsDecoded(r[end])
    BY <1>4, <1>5, <1>8, <1>9
  <2>2. \A s, t \in ReadState(V) : AsDecoded(s) = AsDecoded(t) => s = t
    <3> SUFFICES ASSUME NEW s \in ReadState(V), NEW t \in ReadState(V), AsDecoded(s) = AsDecoded(t)
                 PROVE  s = t
      OBVIOUS
    <3>1. s.end = t.end /\ s.bytes = t.bytes
      BY DEF AsDecoded
    <3> QED BY <3>1 DEF ReadState
  <2> QED BY <1>4, <1>9, <2>1, <2>2
<1>11. r[n] = r[end]
  <2> DEFINE G == {k \in Nat : end + k <= n => r[end + k] = r[end]}
  <2>1. 0 \in G
    BY <1>1
  <2>2. ASSUME NEW k \in Nat, k \in G PROVE k + 1 \in G
    <3> SUFFICES ASSUME end + (k + 1) <= n PROVE r[end + (k + 1)] = r[end]
      OBVIOUS
    <3>1. end + k <= n /\ end + (k + 1) \in 1..n /\ (end + (k + 1)) - 1 = end + k
      BY <1>1
    <3>2. r[end + k] = r[end]
      BY <2>2, <3>1
    <3>3. r[end + (k + 1)] = ReadOne(buf, r[end + k])
      BY <1>6, <3>1
    <3> QED BY <1>10, <3>2, <3>3
  <2>3. n - end \in Nat /\ end + (n - end) = n
    BY <1>1
  <2>4. n - end \in G
    <3>1. \A j \in Nat : j \in G
      <4> HIDE DEF G
      <4> QED BY <2>1, <2>2, SetInduction
    <3> QED BY <2>3, <3>1
  <2> QED BY <1>1, <2>3, <2>4
<1> QED BY <1>2, <1>3, <1>8, <1>11 DEF end, n

\* What a parse leaves, beside what the text says.
LEMMA ParsedAsSaid ==
    ASSUME NEW buf \in Buffer, NEW m, DigitsComplete(buf)
    PROVE  LET o    == ParseStringOf(buf, m)
               said == Literal(buf)
           IN  /\ m => o.ok = said.ok
               /\ o.ok => o.out = Append(said.bytes, 0) /\ o.offset = said.end
               /\ ~o.ok /\ o.block > 0 => o.out = said.bytes /\ o.offset = said.end - 1
<1> DEFINE o == ParseStringOf(buf, m)
           said == Literal(buf)
           end == Scan(buf).end
           c == Characters(buf)
           block == end - 1 - Scan(buf).skipped + 1
<1>1. PICK V : ScanVisits(buf, V)
  BY ScanComesBy
<1>2. Len(buf) \in Nat /\ buf # <<>>
  BY DEF Buffer
<1>3. end \in Nat /\ end \in V /\ V \subseteq Nat
  BY <1>1 DEF ScanVisits
<1>4. c.end \in V /\ c.end \in Nat /\ c.end <= end
  <2>1. c \in ReadState(V)
    BY <1>1, CharactersStay
  <2> QED BY <1>1, <2>1 DEF ReadState, ScanVisits
<1>5. c.end < end => c.end <= Len(buf) /\ buf[c.end] # Quote
  BY <1>1, <1>4 DEF ScanVisits
<1>6. CASE buf[1] # Quote \/ end > Len(buf) \/ ~m
  <2>1. o = Outcome(FALSE, 1, <<>>, 0)
    BY <1>6 DEF ParseStringOf
  <2>2. ~o.ok /\ o.ok = FALSE /\ ~(o.block > 0)
    BY <2>1 DEF Outcome
  <2>3. CASE buf[1] # Quote
    <3>1. said.ok = FALSE
      BY <2>3 DEF Literal
    <3> QED BY <2>2, <3>1
  <2>4. CASE buf[1] = Quote /\ end > Len(buf)
    <3>1. said = [ok |-> c.end <= Len(buf) /\ buf[c.end] = Quote, bytes |-> c.bytes, end |-> c.end]
      BY <1>2, <2>4 DEF Literal
    <3>2. ~(c.end <= Len(buf) /\ buf[c.end] = Quote)
      <4> HIDE DEF c, end
      <4> QED BY <1>2, <1>3, <1>4, <1>5, <2>4
    <3>3. said.ok = FALSE
      <4> HIDE DEF c, end, said
      <4> QED BY <3>1, <3>2
    <3> HIDE DEF o, said, c, end, block
    <3> QED BY <2>2, <3>3 DEF o, said
  <2>5. CASE ~m
    BY <2>2, <2>5
  <2> QED BY <1>6, <2>3, <2>4, <2>5
<1>7. CASE ~(buf[1] # Quote \/ end > Len(buf) \/ ~m)
  <2>1. end <= Len(buf) /\ buf[1] = Quote /\ m
    <3> HIDE DEF end
    <3> QED BY <1>2, <1>3, <1>7
  <2>2. Decode(buf, end) = AsDecoded(c)
    BY <1>1, <2>1, DecodeIsCharacters
  <2>3. said = [ok |-> c.end <= Len(buf) /\ buf[c.end] = Quote, bytes |-> c.bytes, end |-> c.end]
    BY <1>2, <2>1 DEF Literal
  <2>4. o = IF Decode(buf, end).at < end
            THEN Outcome(FALSE, ErrorOffset(Decode(buf, end).at), Decode(buf, end).out, block)
            ELSE Outcome(TRUE, end, Append(Decode(buf, end).out, 0), block)
    BY <1>7 DEF ParseStringOf
  <2>5. o = IF c.end < end THEN Outcome(FALSE, c.end - 1, c.bytes, block)
            ELSE Outcome(TRUE, end, Append(c.bytes, 0), block)
    <3>1. Decode(buf, end).at = c.end /\ Decode(buf, end).out = c.bytes
      BY <2>2 DEF AsDecoded
    <3> HIDE DEF o, c, end, block
    <3> QED BY <2>4, <3>1 DEF ErrorOffset
  <2>6. Searched(buf, Scan(buf))
    BY ScanStops
  <2>7. buf[end] = Quote
    <3> HIDE DEF end
    <3> QED BY <1>2, <1>3, <2>1, <2>6 DEF Searched, end
  <2> HIDE DEF o, c, end, block, said
  <2>8. CASE c.end < end
    <3>1. said.ok = FALSE /\ said.bytes = c.bytes /\ said.end = c.end
      BY <1>5, <2>3, <2>8
    <3>2. o.ok = FALSE /\ o.out = c.bytes /\ o.offset = c.end - 1
      BY <2>5, <2>8 DEF Outcome
    <3> QED BY <3>1, <3>2 DEF o, said
  <2>9. CASE ~(c.end < end)
    <3>1. c.end = end
      BY <1>3, <1>4, <2>9
    <3>2. said.ok = TRUE /\ said.bytes = c.bytes /\ said.end = end
      BY <2>1, <2>3, <2>7, <3>1
    <3>3. o.ok = TRUE /\ o.out = Append(c.bytes, 0) /\ o.offset = end
      BY <2>5, <2>9 DEF Outcome
    <3> QED BY <3>2, <3>3 DEF o, said
  <2> QED BY <2>8, <2>9
<1> QED BY <1>6, <1>7

\* A text with complete "\u" escapes is accepted exactly when RFC 8259 calls it a
\* string, and what is decoded, the offset and the place of an error are those of
\* the characters it spells.
THEOREM DecodesAsTheRfcSays == Spec => []DecodesAsRfc8259
<1>1. StringsInv => DecodesAsRfc8259
  <2> SUFFICES ASSUME StringsInv, parsed # Nothing, DigitsComplete(text)
               PROVE  LET said == Literal(text)
                      IN  /\ memory => parsed.ok = said.ok
                          /\ parsed.ok => parsed.out = Append(said.bytes, 0)
                                          /\ parsed.offset = said.end
                          /\ ~parsed.ok /\ parsed.block > 0 =>
                              parsed.out = said.bytes /\ parsed.offset = said.end - 1
    BY DEF DecodesAsRfc8259
  <2>1. text \in Buffer /\ parsed = ParseStringOf(text, memory)
    BY DEF StringsInv
  <2> QED BY <2>1, ParsedAsSaid
<1> QED BY <1>1, StringsInvHolds, PTL
==============
