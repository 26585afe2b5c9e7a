------------------------- MODULE ValueDecoders_proofs -------------------------
(***************************************************************************)
(* The decoders for every value that a camera may send of a characteristic *)
(* and for every way in which it may arrive.                               *)
(***************************************************************************)
EXTENDS ValueDecoders, SequenceTheorems, WellFoundedInduction, TLAPS

-----------------------------------------------------------------------------
(* What may arrive: a beginning of the frame, or the frame and a byte.     *)

\* The first bytes that the camera sends.
Beginning(k) == SubSeq(Sent, 1, k)

Arrived ==
  \/ \E k \in 0 .. Len(Sent) : value = Beginning(k)
  \/ \E byte \in Byte : value = Append(Sent, byte)

Inv ==
  /\ uuid \in Uuids
  /\ meaning \in Meanings[uuid]
  /\ error \in ErrorKinds \cup {"none"}
  /\ Arrived

\* The two bytes of a number.
LEMMA UpToIsNat ==
  ASSUME NEW m, NEW n \in 0 .. m PROVE n \in Nat
OBVIOUS

LEMMA ShortIsNat ==
  ASSUME NEW n \in Short PROVE n \in Nat
BY UpToIsNat, Zenon DEF Short

LEMMA DividedNat ==
  ASSUME NEW n \in Nat PROVE n \div 256 \in Nat /\ n % 256 \in Nat
BY SMTT(30)

\* A frame is a sequence of bytes.
LEMMA SentIsBytes ==
  ASSUME uuid \in Uuids, meaning \in Meanings[uuid]
  PROVE  Sent \in Seq(Byte) /\ Len(Sent) \in Nat
BY DecoderAssumption DEF Sent

LEMMA BeginningOfBytes ==
  ASSUME uuid \in Uuids, meaning \in Meanings[uuid], NEW k \in 0 .. Len(Sent)
  PROVE  /\ Beginning(k) \in Seq(Byte)
         /\ Len(Beginning(k)) = k
         /\ \A i \in 1 .. k : Beginning(k)[i] = Sent[i]
<1>1. Sent \in Seq(Byte) /\ Len(Sent) \in Nat
  BY SentIsBytes
<1>2. \A i \in 1 .. k : Sent[i] \in Byte
  BY <1>1, ElementOfSeq
<1> HIDE DEF Byte
<1>3. QED BY <1>1, <1>2, SubSeqProperties DEF Beginning

\* What arrives is bytes too, and has no other length than its own.
LEMMA ValueIsBytes ==
  ASSUME Inv
  PROVE  /\ value \in Seq(Byte)
         /\ Len(value) \in Nat
         /\ Len(value) <= Len(Sent) => value = Beginning(Len(value))
         /\ Len(value) > Len(Sent) => \E byte \in Byte : value = Append(Sent, byte)
         /\ value # Sent => Len(value) # Len(Sent)
         /\ \A i \in 1 .. Len(value) : i <= Len(Sent) => value[i] = Sent[i]
<1>1. Sent \in Seq(Byte) /\ Len(Sent) \in Nat
  BY SentIsBytes DEF Inv
<1>2. ASSUME NEW k \in 0 .. Len(Sent), value = Beginning(k)
      PROVE  /\ value \in Seq(Byte) /\ Len(value) = k
             /\ \A i \in 1 .. k : value[i] = Sent[i]
  BY <1>2, BeginningOfBytes DEF Inv
<1>3. ASSUME NEW byte \in Byte, value = Append(Sent, byte)
      PROVE  /\ value \in Seq(Byte) /\ Len(value) = Len(Sent) + 1
             /\ \A i \in 1 .. Len(Sent) : value[i] = Sent[i]
  BY <1>1, <1>3, AppendProperties
<1>4. Beginning(Len(Sent)) = Sent
  BY <1>1, SubSeqFull DEF Beginning
<1>5. CASE \E k \in 0 .. Len(Sent) : value = Beginning(k)
  BY <1>1, <1>2, <1>4, <1>5
<1>6. CASE \E byte \in Byte : value = Append(Sent, byte)
  BY <1>1, <1>3, <1>6
<1>7. QED BY <1>5, <1>6 DEF Inv, Arrived

THEOREM ArrivesCutOrExtended == Spec => []Inv
<1>1. Init => Inv
  <2> SUFFICES ASSUME Init PROVE Inv
    OBVIOUS
  <2>1. Sent \in Seq(Byte) /\ Len(Sent) \in Nat
    BY SentIsBytes DEF Init
  <2>2. value = Beginning(Len(Sent)) /\ Len(Sent) \in 0 .. Len(Sent)
    BY <2>1, SubSeqFull DEF Init, Beginning
  <2>3. QED BY <2>2 DEF Init, Inv, Arrived
<1>2. Inv /\ [Next]_vars => Inv'
  <2> SUFFICES ASSUME Inv, [Next]_vars PROVE Inv'
    OBVIOUS
  <2>1. uuid' = uuid /\ meaning' = meaning
    BY DEF Next, Cut, Extend, ReadFails, vars
  <2>2. Sent' = Sent
    BY <2>1 DEF Sent
  <2>3. Sent \in Seq(Byte) /\ Len(Sent) \in Nat
    BY SentIsBytes DEF Inv
  <2>4. CASE Cut
    <3>1. Len(value) \in 1 .. Len(Sent) /\ value = Beginning(Len(value))
      BY <2>4, ValueIsBytes, EmptySeq DEF Cut
    <3>2. PICK k \in 1 .. Len(Sent) : k = Len(value)
      BY <3>1
    <3>3. value' = SubSeq(SubSeq(Sent, 1, k), 1, k - 1)
      BY <2>4, <3>1, <3>2 DEF Cut, Front, Beginning
    <3>4. k - 1 \in 0 .. Len(Sent)
      BY <2>3
    <3>5. value' = Beginning(k - 1)
      <4>1. CASE k = 1
        BY <3>3, <4>1, SubSeqEmpty DEF Beginning
      <4>2. CASE k > 1
        BY <2>3, <3>3, <4>2, SubSeqOfSubSeq DEF Beginning
      <4>3. QED BY <2>3, <4>1, <4>2
    <3>6. Arrived'
      BY <2>2, <3>4, <3>5 DEF Arrived, Beginning
    <3>7. QED BY <2>1, <2>4, <3>6 DEF Inv, Cut
  <2>5. CASE \E byte \in {0, 2, 65} : Extend(byte)
    <3>1. PICK byte \in {0, 2, 65} : Extend(byte)
      BY <2>5
    <3>2. Arrived'
      BY <2>2, <3>1 DEF Arrived, Extend, Byte
    <3>3. QED BY <2>1, <3>1, <3>2 DEF Inv, Extend
  <2>6. CASE (\E e \in ErrorKinds : ReadFails(e)) \/ UNCHANGED vars
    <3>1. value' = value /\ error' \in ErrorKinds \cup {"none"}
      BY <2>6 DEF Inv, ReadFails, vars
    <3>2. Arrived'
      BY <2>2, <3>1 DEF Arrived, Beginning, Inv
    <3>3. QED BY <2>1, <3>1, <3>2 DEF Inv
  <2>7. QED BY <2>4, <2>5, <2>6 DEF Next
<1>3. QED BY <1>1, <1>2, PTL DEF Spec

-----------------------------------------------------------------------------
(* Warnings.                                                               *)

\* When there is none.
LEMMA Quiet ==
  /\ \A what, when : Warn(what, when) = {} <=> ~when
  /\ \A a, b : a \cup b = {} <=> a = {} /\ b = {}
  /\ \A bytes : LengthWarning(bytes) = {} <=> DeclaredLength(bytes)
  /\ \A bytes : FrameWarnings(bytes) = {} <=> HasHeader(bytes) /\ DeclaredLength(bytes)
<1>1. \A what, when : Warn(what, when) = {} <=> ~when
  BY DEF Warn
<1>2. \A a, b : a \cup b = {} <=> a = {} /\ b = {}
  OBVIOUS
<1>3. \A bytes : LengthWarning(bytes) = {} <=> DeclaredLength(bytes)
  BY DEF LengthWarning
<1>4. \A bytes : FrameWarnings(bytes) = {} <=> HasHeader(bytes) /\ DeclaredLength(bytes)
  BY <1>1, <1>3 DEF FrameWarnings
<1>5. QED BY <1>1, <1>2, <1>3, <1>4

\* The characteristics that have a decoder.
Decodable == {"cc03", "cc06", "cc07", "cc09", "cc0a", "cc0b", "cc0c", "cc0d", "cc0f", "cc10",
              "cc11", "cc12", "cc40", "ccab", "dd21", "dd30", "dd31", "dd32", "dd33", "ee02",
              "ee04"}

LEMMA NoDecoder ==
  ASSUME NEW u, u \notin Decodable, NEW bytes
  PROVE  /\ Decoded(u, bytes).status = "unknown"
         /\ Decoded(u, bytes).fields = NoFields
         /\ Decoded(u, bytes).warnings = Warn("no decoder", TRUE)
<1>1. /\ u # "cc03" /\ u # "cc06" /\ u # "cc07" /\ u # "cc09" /\ u # "cc0a" /\ u # "cc0b"
      /\ u # "cc0c" /\ u # "cc0f" /\ u # "cc10" /\ u # "cc11" /\ u # "cc40" /\ u # "ccab"
      /\ u # "dd21" /\ u # "dd30" /\ u # "dd31" /\ u # "dd32" /\ u # "dd33"
      /\ u \notin {"cc0d", "cc12", "ee02", "ee04"}
  BY DEF Decodable
<1> DEFINE warned == Warn("no decoder", TRUE)
<1>2. Decoded(u, bytes) = Unknown("no decoder")
  BY <1>1, Zenon DEF Decoded
<1>3. Decoded(u, bytes) =
        [status |-> "unknown", fields |-> NoFields, warnings |-> warned]
  BY <1>2, Zenon DEF Unknown
<1> HIDE DEF warned
<1>4. /\ Decoded(u, bytes).status = "unknown"
      /\ Decoded(u, bytes).fields = NoFields
      /\ Decoded(u, bytes).warnings = warned
  BY <1>3
<1>5. QED BY <1>4, Zenon DEF warned

LEMMA ParsedHas ==
  \A fields, warnings :
    /\ Parsed(fields, warnings).fields = fields
    /\ Parsed(fields, warnings).warnings = warnings
    /\ Parsed(fields, warnings).status = "decoded" <=> warnings = {}
    /\ Parsed(fields, warnings).status = IF warnings = {} THEN "decoded" ELSE "partial"
BY DEF Parsed

LEMMA PrintableIsAscii ==
  ASSUME NEW text
  PROVE  Printable(text) => text # <<>> /\ ~\E i \in DOMAIN text : text[i] > 127
<1>1. \A n \in 32 .. 126 : ~(n > 127)
  OBVIOUS
<1>2. QED BY <1>1 DEF Printable

LEMMA AsciiStatus ==
  ASSUME NEW bytes, NEW field
  PROVE  Ascii(bytes, field).status = "decoded" <=> Printable(RStrip(bytes))
<1>1. ASSUME NEW text PROVE TextWarnings(text) = {} <=> Printable(text)
  <2>1. Printable(text) => text # <<>> /\ ~\E i \in DOMAIN text : text[i] > 127
    BY PrintableIsAscii
  <2>2. CASE Printable(text)
    BY <2>1, <2>2 DEF TextWarnings
  <2>3. CASE ~Printable(text)
    BY <2>3, Quiet DEF TextWarnings
  <2>4. QED BY <2>2, <2>3
<1>2. QED BY <1>1, ParsedHas DEF Ascii

-----------------------------------------------------------------------------
(* Recursion: induction over the members of a set, and concatenation.      *)

LEMMA SetInduction ==
  ASSUME NEW P, 0 \in P, \A n \in Nat : n \in P => n + 1 \in P
  PROVE  Nat \subseteq P
<1> DEFINE Missing == Nat \ P
<1>1. SUFFICES ASSUME Missing # {} PROVE FALSE
  OBVIOUS
<1>2. PICK n \in Missing : \A m \in Missing : <<m, n>> \notin OpToRel(<, Nat)
  BY <1>1, NatLessThanWellFounded, WFMin
<1>3. \A m \in Missing : ~(m < n)
  BY <1>2 DEF OpToRel
<1>4. n \in Nat /\ n # 0 /\ n - 1 \in Nat
  OBVIOUS
<1>5. n - 1 \in P
  BY <1>3, <1>4
<1>6. (n - 1) + 1 \in P
  BY <1>4, <1>5
<1>7. (n - 1) + 1 = n
  BY <1>4
<1>8. QED BY <1>6, <1>7

\* FlattenSeq for as many of the sequences as wanted.
Flat(s, n) == FlattenSeq(SubSeq(s, 1, n))

FlatStep(s, f, i) == IF i = 1 THEN s[i] ELSE f[i - 1] \o s[i]

LEMMA FlatteningExists ==
  ASSUME NEW s, NEW n \in Nat
  PROVE  \E f : f = [i \in 1 .. n |-> FlatStep(s, f, i)]
<1> DEFINE P == {k \in Nat : \E f : f = [i \in 1 .. k |-> FlatStep(s, f, i)]}
<1>1. 0 \in P
  <2> DEFINE f == [i \in 1 .. 0 |-> 0]
  <2>1. f = [i \in 1 .. 0 |-> FlatStep(s, f, i)]
    OBVIOUS
  <2>2. QED BY <2>1
<1>2. ASSUME NEW k \in Nat, k \in P PROVE k + 1 \in P
  <2>1. PICK g : g = [i \in 1 .. k |-> FlatStep(s, g, i)]
    BY <1>2
  <2> DEFINE f == [i \in 1 .. k + 1 |-> IF i = k + 1 THEN FlatStep(s, g, i) ELSE g[i]]
  <2>2. ASSUME NEW i \in 1 .. k + 1 PROVE f[i] = FlatStep(s, f, i)
    <3>1. i > 1 => f[i - 1] = g[i - 1]
      OBVIOUS
    <3>2. FlatStep(s, f, i) = FlatStep(s, g, i)
      BY <3>1 DEF FlatStep
    <3>3. i # k + 1 => g[i] = FlatStep(s, g, i)
      <4> HIDE DEF f
      <4>1. i # k + 1 => i \in 1 .. k
        OBVIOUS
      <4>2. QED BY <2>1, <4>1
    <3>4. QED BY <3>2, <3>3
  <2>3. f = [i \in 1 .. k + 1 |-> f[i]]
    OBVIOUS
  <2>4. f = [i \in 1 .. k + 1 |-> FlatStep(s, f, i)]
    <3> HIDE DEF f
    <3>1. QED BY <2>2, <2>3
  <2>5. \E h : h = [i \in 1 .. k + 1 |-> FlatStep(s, h, i)]
    <3> HIDE DEF f
    <3>1. QED BY <2>4
  <2>6. QED BY <2>5
<1>3. Nat \subseteq P
  <2> HIDE DEF P
  <2>1. QED BY <1>1, <1>2, SetInduction
<1>4. QED BY <1>3

LEMMA FlattenRecursion ==
  ASSUME NEW s, Len(s) \in Nat \ {0}
  PROVE  \E f : /\ f = [i \in 1 .. Len(s) |-> FlatStep(s, f, i)]
                /\ FlattenSeq(s) = f[Len(s)]
<1> DEFINE f == CHOOSE f : f = [i \in 1 .. Len(s) |-> FlatStep(s, f, i)]
<1>1. f = [i \in 1 .. Len(s) |-> FlatStep(s, f, i)]
  BY FlatteningExists
<1>2. FlattenSeq(s) = f[Len(s)]
  BY DEF FlattenSeq, FlatStep
<1>3. QED BY <1>1, <1>2

LEMMA FlatStart ==
  ASSUME NEW s PROVE Flat(s, 0) = <<>>
<1>1. SubSeq(s, 1, 0) = <<>>
  BY SubSeqEmpty
<1>2. QED BY <1>1 DEF Flat, FlattenSeq

LEMMA FlatNext ==
  ASSUME NEW S, NEW s \in Seq(Seq(S)), NEW n \in Nat, n < Len(s)
  PROVE  Flat(s, n + 1) = Flat(s, n) \o s[n + 1]
<1> DEFINE p == SubSeq(s, 1, n)
           q == SubSeq(s, 1, n + 1)
<1>1. Len(s) \in Nat /\ \A i \in 1 .. Len(s) : s[i] \in Seq(S)
  OBVIOUS
<1>2. /\ Len(q) = n + 1
      /\ \A i \in 1 .. n + 1 : q[i] = s[i]
  <2>1. 1 \in Int /\ n + 1 \in Int /\ \A i \in 1 .. n + 1 : s[i] \in Seq(S)
    BY <1>1
  <2>2. QED BY <2>1, SubSeqProperties
<1>3. /\ Len(p) = n
      /\ \A i \in 1 .. n : p[i] = s[i]
  <2>1. 1 \in Int /\ n \in Int /\ \A i \in 1 .. n : s[i] \in Seq(S)
    BY <1>1
  <2>2. QED BY <2>1, SubSeqProperties
<1> HIDE DEF p, q
<1>4. PICK f : /\ f = [i \in 1 .. n + 1 |-> FlatStep(q, f, i)]
               /\ FlattenSeq(q) = f[n + 1]
  <2>1. Len(q) \in Nat \ {0}
    BY <1>2
  <2>2. QED BY <1>2, <2>1, FlattenRecursion
<1>5. \A i \in 1 .. n + 1 : f[i] = FlatStep(s, f, i)
  <2> SUFFICES ASSUME NEW i \in 1 .. n + 1 PROVE f[i] = FlatStep(s, f, i)
    OBVIOUS
  <2>1. f[i] = FlatStep(q, f, i)
    BY <1>4
  <2>2. QED BY <1>2, <2>1 DEF FlatStep
<1>6. CASE n = 0
  <2>1. Flat(s, n + 1) = s[1]
    BY <1>4, <1>5, <1>6 DEF FlatStep, Flat, q
  <2>2. Flat(s, n) = <<>>
    BY <1>6, FlatStart
  <2>3. s[1] \in Seq(S)
    BY <1>1
  <2>4. QED BY <1>6, <2>1, <2>2, <2>3, ConcatEmptySeq
<1>7. CASE n > 0
  <2>1. PICK g : /\ g = [i \in 1 .. n |-> FlatStep(p, g, i)]
                 /\ FlattenSeq(p) = g[n]
    <3>1. Len(p) = n /\ Len(p) \in Nat \ {0}
      BY <1>3, <1>7
    <3>2. QED BY <3>1, FlattenRecursion
  <2>2. \A i \in 1 .. n : g[i] = FlatStep(s, g, i)
    <3> SUFFICES ASSUME NEW i \in 1 .. n PROVE g[i] = FlatStep(s, g, i)
      OBVIOUS
    <3>1. g[i] = FlatStep(p, g, i)
      BY <2>1
    <3>2. QED BY <1>3, <3>1 DEF FlatStep
  <2> DEFINE P == {k \in Nat : k \in 1 .. n => f[k] = g[k]}
  <2>3. 0 \in P
    OBVIOUS
  <2>4. ASSUME NEW k \in Nat, k \in P PROVE k + 1 \in P
    <3>1. SUFFICES ASSUME k + 1 \in 1 .. n PROVE f[k + 1] = g[k + 1]
      OBVIOUS
    <3>2. f[k + 1] = FlatStep(s, f, k + 1) /\ g[k + 1] = FlatStep(s, g, k + 1)
      BY <1>5, <2>2, <3>1
    <3>3. k > 0 => f[(k + 1) - 1] = g[(k + 1) - 1]
      BY <2>4, <3>1
    <3>4. QED BY <3>2, <3>3 DEF FlatStep
  <2>5. n \in P
    <3> HIDE DEF P
    <3>1. Nat \subseteq P
      BY <2>3, <2>4, SetInduction
    <3>2. QED BY <3>1
  <2>6. f[n] = g[n]
    BY <1>7, <2>5
  <2>7. f[n + 1] = f[(n + 1) - 1] \o s[n + 1]
    <3>1. n + 1 \in 1 .. n + 1 /\ n + 1 # 1
      BY <1>7
    <3>2. f[n + 1] = FlatStep(s, f, n + 1)
      BY <1>5, <3>1
    <3>3. QED BY <3>1, <3>2 DEF FlatStep
  <2>8. (n + 1) - 1 = n
    OBVIOUS
  <2>9. QED BY <1>4, <2>1, <2>6, <2>7, <2>8 DEF Flat, p, q
<1>8. QED BY <1>6, <1>7

\* What is flattened is a sequence that begins with what is flattened of a
\* beginning.
LEMMA FlatBegins ==
  ASSUME NEW S, NEW s \in Seq(Seq(S)), NEW n \in 0 .. Len(s)
  PROVE  /\ Flat(s, n) \in Seq(S)
         /\ \A k \in 0 .. n : /\ Len(Flat(s, k)) <= Len(Flat(s, n))
                              /\ \A i \in 1 .. Len(Flat(s, k)) : Flat(s, n)[i] = Flat(s, k)[i]
<1> DEFINE Begins(m) == \A k \in 0 .. m :
                          /\ Len(Flat(s, k)) <= Len(Flat(s, m))
                          /\ \A i \in 1 .. Len(Flat(s, k)) : Flat(s, m)[i] = Flat(s, k)[i]
           P == {m \in Nat : m <= Len(s) => Flat(s, m) \in Seq(S) /\ Begins(m)}
<1>1. 0 \in P
  <2>1. Flat(s, 0) = <<>> /\ Flat(s, 0) \in Seq(S)
    BY FlatStart, EmptySeq
  <2>2. \A k \in 0 .. 0 : k = 0
    OBVIOUS
  <2>3. Begins(0)
    <3> SUFFICES ASSUME NEW k \in 0 .. 0
                 PROVE  /\ Len(Flat(s, k)) <= Len(Flat(s, 0))
                        /\ \A i \in 1 .. Len(Flat(s, k)) : Flat(s, 0)[i] = Flat(s, k)[i]
      OBVIOUS
    <3>1. k = 0
      BY <2>2
    <3>2. Len(Flat(s, 0)) \in Nat
      BY <2>1
    <3>3. QED BY <3>1, <3>2
  <2>4. QED BY <2>1, <2>3
<1>2. ASSUME NEW m \in Nat, m \in P PROVE m + 1 \in P
  <2>1. SUFFICES ASSUME m + 1 <= Len(s) PROVE Flat(s, m + 1) \in Seq(S) /\ Begins(m + 1)
    OBVIOUS
  <2>2. Len(s) \in Nat
    OBVIOUS
  <2>3. Flat(s, m) \in Seq(S) /\ Begins(m)
    BY <1>2, <2>1, <2>2
  <2>4. s[m + 1] \in Seq(S)
    BY <2>1, <2>2
  <2>5. Flat(s, m + 1) = Flat(s, m) \o s[m + 1]
    BY <2>1, <2>2, FlatNext
  <2>6. /\ Flat(s, m + 1) \in Seq(S)
        /\ Len(Flat(s, m + 1)) = Len(Flat(s, m)) + Len(s[m + 1])
        /\ \A i \in 1 .. Len(Flat(s, m)) : Flat(s, m + 1)[i] = Flat(s, m)[i]
    <3>1. Len(Flat(s, m)) \in Nat /\ Len(s[m + 1]) \in Nat
      BY <2>3, <2>4
    <3> DEFINE a == Flat(s, m)
               b == s[m + 1]
    <3>2. /\ a \o b \in Seq(S)
          /\ Len(a \o b) = Len(a) + Len(b)
          /\ \A i \in 1 .. Len(a) + Len(b) :
               (a \o b)[i] = IF i <= Len(a) THEN a[i] ELSE b[i - Len(a)]
      BY <2>3, <2>4, ConcatProperties
    <3> HIDE DEF a, b
    <3>3. \A i \in 1 .. Len(a) : (a \o b)[i] = a[i]
      BY <3>1, <3>2 DEF a, b
    <3>4. QED BY <2>5, <3>2, <3>3 DEF a, b
  <2>7. Len(Flat(s, m)) \in Nat /\ Len(s[m + 1]) \in Nat
    BY <2>3, <2>4
  <2>8. ASSUME NEW k \in 0 .. m + 1
        PROVE  /\ Len(Flat(s, k)) <= Len(Flat(s, m + 1))
               /\ \A i \in 1 .. Len(Flat(s, k)) : Flat(s, m + 1)[i] = Flat(s, k)[i]
    <3>1. CASE k = m + 1
      BY <2>6, <2>7, <3>1
    <3>2. CASE k \in 0 .. m
      <4>1. /\ Len(Flat(s, k)) <= Len(Flat(s, m))
            /\ \A i \in 1 .. Len(Flat(s, k)) : Flat(s, m)[i] = Flat(s, k)[i]
        BY <2>3, <3>2
      <4>2. 1 .. Len(Flat(s, k)) \subseteq 1 .. Len(Flat(s, m))
        BY <2>7, <4>1
      <4>3. QED BY <2>6, <2>7, <4>1, <4>2
    <3>3. QED BY <3>1, <3>2
  <2>9. QED BY <2>6, <2>8
<1>3. n \in P
  <2> HIDE DEF P
  <2>1. Nat \subseteq P
    BY <1>1, <1>2, SetInduction
  <2>2. QED BY <2>1
<1>4. n <= Len(s)
  OBVIOUS
<1>5. QED BY <1>3, <1>4

-----------------------------------------------------------------------------
(* Lengths.                                                                *)

\* Of numbers that are bounded one is the greatest.
LEMMA GreatestExists ==
  ASSUME NEW N \in Nat, NEW S \in SUBSET (0 .. N), S # {}
  PROVE  Max(S) \in S /\ \A i \in S : Max(S) >= i
<1> DEFINE D == {N - i : i \in S}
<1>1. D \subseteq Nat /\ D # {}
  <2>1. \A i \in S : N - i \in Nat
    OBVIOUS
  <2>2. PICK i \in S : TRUE
    OBVIOUS
  <2>3. N - i \in D
    OBVIOUS
  <2>4. QED BY <2>1, <2>3
<1> HIDE DEF D
<1>2. PICK d \in D : \A c \in D : <<c, d>> \notin OpToRel(<, Nat)
  BY <1>1, NatLessThanWellFounded, WFMin
<1>3. \A c \in D : ~(c < d)
  BY <1>1, <1>2 DEF OpToRel
<1>4. PICK g \in S : d = N - g
  BY DEF D
<1>5. ASSUME NEW i \in S PROVE g >= i
  <2>1. N - i \in D
    BY DEF D
  <2>2. ~(N - i < d)
    BY <1>3, <2>1
  <2>3. i \in 0 .. N /\ g \in 0 .. N
    OBVIOUS
  <2>4. QED BY <1>4, <2>2, <2>3
<1>6. QED BY <1>5 DEF Max

LEMMA FourBytes ==
  ASSUME NEW n \in Short
  PROVE  /\ BE2(n) \in Seq(Nat) /\ Len(BE2(n)) = 2
         /\ BE4(n) \in Seq(Nat) /\ Len(BE4(n)) = 4
<1>1. n \div 256 \in Nat /\ n % 256 \in Nat
  BY ShortIsNat, DividedNat
<1>2. BE2(n) \in Seq(Nat) /\ Len(BE2(n)) = 2
  BY <1>1 DEF BE2
<1>3. <<0, 0>> \in Seq(Nat) /\ Len(<<0, 0>>) = 2
  OBVIOUS
<1> DEFINE zeros == <<0, 0>>
<1>4. BE4(n) = zeros \o BE2(n)
  BY DEF BE4
<1>5. zeros \in Seq(Nat) /\ Len(zeros) = 2
  BY <1>3
<1> HIDE DEF zeros
<1>6. zeros \o BE2(n) \in Seq(Nat) /\ Len(zeros \o BE2(n)) = Len(zeros) + Len(BE2(n))
  BY <1>2, <1>5, ConcatProperties
<1>7. QED BY <1>2, <1>4, <1>5, <1>6

LEMMA PlainFrame ==
  ASSUME NEW payload \in Seq(Nat)
  PROVE  /\ Plain(payload) \in Seq(Nat)
         /\ Len(Plain(payload)) = Len(payload) + 3
         /\ Plain(payload)[1] = Len(payload) + 2
         /\ Plain(payload)[2] = 0 /\ Plain(payload)[3] = 0
         /\ \A i \in 1 .. Len(payload) : Plain(payload)[i + 3] = payload[i]
<1> DEFINE head == <<Len(payload) + 2>> \o <<0, 0>>
<1>1. Len(payload) \in Nat
  OBVIOUS
<1>2. /\ head \in Seq(Nat) /\ Len(head) = 3
      /\ head[1] = Len(payload) + 2 /\ head[2] = 0 /\ head[3] = 0
  BY <1>1
<1> HIDE DEF head
<1>3. /\ head \o payload \in Seq(Nat)
      /\ Len(head \o payload) = Len(head) + Len(payload)
      /\ \A i \in 1 .. Len(head) + Len(payload) :
           (head \o payload)[i] = IF i <= Len(head) THEN head[i] ELSE payload[i - Len(head)]
  BY <1>2, ConcatProperties
<1>4. Plain(payload) = head \o payload
  BY DEF Plain, Enclosed, head
<1>5. /\ (head \o payload)[1] = head[1] /\ (head \o payload)[2] = head[2]
      /\ (head \o payload)[3] = head[3]
      /\ \A i \in 1 .. Len(payload) : (head \o payload)[i + 3] = payload[i]
  BY <1>1, <1>2, <1>3
<1>6. QED BY <1>1, <1>2, <1>3, <1>4, <1>5

LEMMA FunctionIsSequence ==
  ASSUME NEW T, NEW n \in Nat, NEW f \in [1 .. n -> T]
  PROVE  f \in Seq(T) /\ Len(f) = n
<1>1. f \in Seq(T)
  BY SeqDef
<1>2. QED BY <1>1

\* The characteristics whose frame is plain.
LEMMA PlainlySent ==
  ASSUME uuid \in Uuids, meaning \in Meanings[uuid],
         uuid \in {"cc03", "cc06", "cc07", "cc10", "cc11", "cc40"}
  PROVE  \E payload \in Seq(Nat) : Sent = Plain(payload)
<1>1. meaning \in Meant(uuid)
  BY DecoderAssumption
<1>2. Byte \subseteq Nat
  BY DEF Byte
<1>3. CASE uuid = "cc03"
  <2>1. <<meaning>> \in Seq(Nat)
    BY <1>1, <1>2, <1>3 DEF Meant
  <2>2. Sent = Plain(<<meaning>>)
    BY <1>3 DEF Sent, Frame
  <2>3. QED BY <2>1, <2>2
<1>4. CASE uuid \in {"cc06", "cc07", "cc11"}
  <2>1. meaning \in Seq(Nat)
    BY <1>1, <1>2, <1>4, SeqMonotonic DEF Meant, Text
  <2>2. Sent = Plain(meaning)
    BY <1>4 DEF Sent, Frame
  <2>3. QED BY <2>1, <2>2
<1>5. CASE uuid = "cc10"
  <2> DEFINE packs == [i \in DOMAIN meaning.packs |-> Pack(meaning.packs[i])]
             payload == <<2, 3, 0>> \o FlattenSeq(packs) \o BE4(meaning.reserved) \o <<meaning.power>>
  <2>1. /\ meaning.packs \in Seq(Short) /\ meaning.reserved \in Short
        /\ meaning.power \in Nat
    BY <1>1, <1>2, <1>5 DEF Meant
  <2>2. ASSUME NEW n \in Short PROVE Pack(n) \in Seq(Nat)
    <3>1. BE4(n) \in Seq(Nat) /\ <<1, 0, 5, 0>> \in Seq(Nat)
      BY FourBytes
    <3>2. QED BY <3>1, ConcatProperties DEF Pack
  <2>3. packs \in Seq(Seq(Nat)) /\ Len(packs) \in Nat
    <3>1. Len(meaning.packs) \in Nat /\ DOMAIN meaning.packs = 1 .. Len(meaning.packs)
      BY <2>1
    <3>2. \A i \in 1 .. Len(meaning.packs) : meaning.packs[i] \in Short
      BY <2>1
    <3>3. packs \in [1 .. Len(meaning.packs) -> Seq(Nat)]
      BY <2>2, <3>1, <3>2
    <3> HIDE DEF packs
    <3>4. QED BY <3>1, <3>3, FunctionIsSequence
  <2>4. FlattenSeq(packs) \in Seq(Nat)
    <3> HIDE DEF packs
    <3>1. Len(packs) \in 0 .. Len(packs)
      BY <2>3
    <3>2. Flat(packs, Len(packs)) \in Seq(Nat)
      BY <2>3, <3>1, FlatBegins
    <3>3. SubSeq(packs, 1, Len(packs)) = packs
      BY <2>3, SubSeqFull
    <3>4. QED BY <3>2, <3>3 DEF Flat
  <2>5. BE4(meaning.reserved) \in Seq(Nat)
    BY <2>1, FourBytes
  <2>6. <<meaning.power>> \in Seq(Nat) /\ <<2, 3, 0>> \in Seq(Nat)
    BY <2>1
  <2>7. payload \in Seq(Nat)
    <3> HIDE DEF packs
    <3>1. <<2, 3, 0>> \o FlattenSeq(packs) \in Seq(Nat)
      BY <2>4, <2>6, ConcatProperties
    <3>2. <<2, 3, 0>> \o FlattenSeq(packs) \o BE4(meaning.reserved) \in Seq(Nat)
      BY <2>5, <3>1, ConcatProperties
    <3>3. QED BY <2>6, <3>2, ConcatProperties
  <2>8. Sent = Plain(payload)
    BY <1>5 DEF Sent, Frame
  <2> HIDE DEF payload
  <2>9. QED BY <2>7, <2>8
<1>6. CASE uuid = "cc40"
  <2> DEFINE lines == [i \in DOMAIN meaning |-> Append(meaning[i], 10)]
  <2>1. meaning \in Seq(Seq(Nat))
    BY <1>1, <1>2, <1>6, SeqMonotonic DEF Meant, Text
  <2>2. lines \in Seq(Seq(Nat)) /\ Len(lines) \in Nat
    <3>1. Len(meaning) \in Nat /\ DOMAIN meaning = 1 .. Len(meaning)
      BY <2>1
    <3>2. \A i \in 1 .. Len(meaning) : meaning[i] \in Seq(Nat)
      BY <2>1
    <3>3. lines \in [1 .. Len(meaning) -> Seq(Nat)]
      BY <3>1, <3>2, AppendProperties
    <3> HIDE DEF lines
    <3>4. QED BY <3>1, <3>3, FunctionIsSequence
  <2>3. FlattenSeq(lines) \in Seq(Nat)
    <3> HIDE DEF lines
    <3>1. Len(lines) \in 0 .. Len(lines)
      BY <2>2
    <3>2. Flat(lines, Len(lines)) \in Seq(Nat)
      BY <2>2, <3>1, FlatBegins
    <3>3. SubSeq(lines, 1, Len(lines)) = lines
      BY <2>2, SubSeqFull
    <3>4. QED BY <3>2, <3>3 DEF Flat
  <2>4. Sent = Plain(FlattenSeq(lines))
    BY <1>6 DEF Sent, Frame
  <2>5. QED BY <2>3, <2>4
<1>7. QED BY <1>3, <1>4, <1>5, <1>6

\* A frame that is not the one that was sent has not the length it declares.
LEMMA WrongLengthShows ==
  ASSUME Inv, value # Sent, value # <<>>,
         uuid \in {"cc03", "cc06", "cc07", "cc10", "cc11", "cc40"}
  PROVE  /\ ~DeclaredLength(value)
         /\ Len(value) >= 2 => value[2] = 0
<1>1. PICK payload \in Seq(Nat) : Sent = Plain(payload)
  BY PlainlySent DEF Inv
<1>2. /\ Len(payload) \in Nat /\ Len(Sent) = Len(payload) + 3
      /\ Sent[1] = Len(payload) + 2 /\ Sent[2] = 0
  <2>1. /\ Len(Plain(payload)) = Len(payload) + 3
        /\ Plain(payload)[1] = Len(payload) + 2 /\ Plain(payload)[2] = 0
    BY PlainFrame
  <2>2. QED BY <1>1, <2>1
<1>3. Len(value) \in Nat /\ Len(value) # Len(Sent)
  BY ValueIsBytes
<1>4. Len(value) # 0
  BY ValueIsBytes, EmptySeq
<1>5. value[1] = Sent[1] /\ (Len(value) >= 2 => value[2] = Sent[2])
  BY <1>2, <1>3, <1>4, ValueIsBytes
<1>6. QED BY <1>2, <1>3, <1>5 DEF DeclaredLength

\* The packs of a battery frame.
Packs(bytes) ==
  LET At6(n) == 6 + 8 * (n - 1)
  IN  [n \in 1 .. (Len(bytes) - 11) \div 8 |->
         [slot_flags |-> bytes[At6(n) + 1], position_code |-> bytes[At6(n) + 2],
          level_code |-> bytes[At6(n) + 3], reserved_code |-> bytes[At6(n) + 4],
          remaining_percent |-> BigEndian(SubSeq(bytes, At6(n) + 5, At6(n) + 8))]]

\* When a battery frame is not exact.
LEMMA BatteryWarns ==
  ASSUME NEW bytes, Len(bytes) \in Nat
  PROVE  Battery(bytes).status = "decoded" <=>
           /\ Len(bytes) - 11 >= 0
           /\ DeclaredLength(bytes)
           /\ SubSeq(bytes, Len(bytes) - 4, Len(bytes) - 1) = <<0, 0, 0, 0>>
           /\ (Len(bytes) - 11) % 8 = 0
           /\ ~\E n \in DOMAIN Packs(bytes) : Packs(bytes)[n].remaining_percent > 100
           /\ Packs(bytes) # <<>>
<1> DEFINE size == Len(bytes) - 11
           power == bytes[Len(bytes)]
           fields == [protocol_version |-> <<bytes[4]>>, feature_flags |-> <<bytes[5]>>,
                      battery_group_code |-> <<bytes[6]>>, batteries |-> <<Packs(bytes)>>,
                      external_power_code |-> <<power>>,
                      external_power_state |-> <<PowerState(power)>>]
           reserved == SubSeq(bytes, Len(bytes) - 4, Len(bytes) - 1) # <<0, 0, 0, 0>>
           above == \E n \in DOMAIN Packs(bytes) : Packs(bytes)[n].remaining_percent > 100
           w1 == LengthWarning(bytes)
           w2 == Warn("reserved bytes", reserved)
           w3 == Warn("truncated pack", size % 8 # 0)
           w4 == Warn("percentage", above)
           w5 == Warn("no pack", Packs(bytes) = <<>>)
           warnings == w1 \cup w2 \cup w3 \cup w4 \cup w5
<1>1. CASE size < 0
  <2>1. Battery(bytes) = Parsed(NoFields, Warn("truncated frame", TRUE))
    BY <1>1 DEF Battery
  <2>2. ~(size >= 0)
    BY <1>1
  <2>3. QED BY <2>1, <2>2, Quiet, ParsedHas
<1>2. CASE ~(size < 0)
  <2>1. Battery(bytes) = Parsed(fields, warnings)
    BY <1>2, Zenon DEF Battery, Packs
  <2>2. size >= 0
    BY <1>2
  <2>3. /\ w1 = {} <=> DeclaredLength(bytes)
        /\ w2 = {} <=> ~reserved
        /\ w3 = {} <=> size % 8 = 0
        /\ w4 = {} <=> ~above
        /\ w5 = {} <=> Packs(bytes) # <<>>
    <3> HIDE DEF reserved, size, above
    <3>1. QED BY Quiet
  <2> HIDE DEF w1, w2, w3, w4, w5, fields
  <2>4. warnings = {} <=> w1 = {} /\ w2 = {} /\ w3 = {} /\ w4 = {} /\ w5 = {}
    OBVIOUS
  <2> HIDE DEF warnings
  <2>5. Battery(bytes).status = "decoded" <=> warnings = {}
    BY <2>1, ParsedHas
  <2>6. QED BY <2>2, <2>3, <2>4, <2>5, Zenon DEF reserved, size, above
<1>3. QED BY <1>1, <1>2

\* Where a length is declared, a wrong one is noticed.
LEMMA WrongLengthPartial ==
  ASSUME Inv, value # Sent, Decoded(uuid, value).status = "decoded"
  PROVE  uuid \notin {"cc03", "cc10", "cc11", "cc40", "dd30", "dd31", "dd32", "dd33"}
<1>1. Len(value) \in Nat /\ Len(value) # Len(Sent)
  BY ValueIsBytes
<1>2. Len(value) >= 1 => value # <<>>
  BY EmptySeq
<1>3. CASE uuid = "cc03"
  <2>1. PushTransfer(value).status = "decoded"
    BY <1>3 DEF Decoded
  <2>2. Payload(value) # <<>> /\ DeclaredLength(value)
    BY <2>1, Quiet DEF PushTransfer, Parsed
  <2>3. Len(value) >= 4
    <3>1. SUFFICES ASSUME Len(value) < 4 PROVE Payload(value) = <<>>
      BY <1>1, <2>2
    <3>2. QED BY <1>1, <3>1, SubSeqEmpty DEF Payload
  <2>4. QED BY <1>1, <1>2, <1>3, <2>2, <2>3, WrongLengthShows
<1>4. CASE uuid = "cc10"
  <2>1. Battery(value).status = "decoded"
    BY <1>4 DEF Decoded
  <2>2. Len(value) - 11 >= 0 /\ DeclaredLength(value)
    BY <1>1, <2>1, BatteryWarns
  <2>3. QED BY <1>1, <1>2, <1>4, <2>2, WrongLengthShows
<1>5. CASE uuid = "cc11"
  <2>1. FramedAscii(value, "model").status = "decoded"
    BY <1>5 DEF Decoded
  <2>2. HasHeader(value) /\ DeclaredLength(value)
    BY <2>1, Quiet DEF FramedAscii, Parsed
  <2>3. QED BY <1>1, <1>2, <1>5, <2>2, WrongLengthShows DEF HasHeader
<1>6. CASE uuid = "cc40"
  <2>1. FtpProfiles(value).status = "decoded"
    BY <1>6 DEF Decoded
  <2>2. HasHeader(value) /\ DeclaredLength(value)
    BY <2>1, Quiet DEF FtpProfiles, Parsed
  <2>3. QED BY <1>1, <1>2, <1>6, <2>2, WrongLengthShows DEF HasHeader
<1>7. CASE uuid \in {"dd30", "dd31", "dd32", "dd33"}
  <2>1. Len(Sent) = 1
    BY <1>7 DEF Sent, Frame
  <2>2. PICK field : Decoded(uuid, value) = SingleBool(value, field)
    BY <1>7 DEF Decoded
  <2>3. Len(value) = 1
    <3> SUFFICES ASSUME Len(value) # 1
                 PROVE  FALSE
      OBVIOUS
    <3> DEFINE without == With(Field(field, None), NoFields)
    <3>1. SingleBool(value, field) = Parsed(without, Warn("not one byte", TRUE))
      BY DEF SingleBool
    <3>2. Warn("not one byte", TRUE) # {}
      BY DEF Warn
    <3> HIDE DEF without
    <3>3. SingleBool(value, field).status # "decoded"
      BY <3>1, <3>2, ParsedHas
    <3>4. QED BY <2>2, <3>3
  <2>4. QED BY <1>1, <2>1, <2>3
<1>8. QED BY <1>3, <1>4, <1>5, <1>6, <1>7

\* What is left of a text and passes for one is the length of its frame.
LEMMA OnlyLengthLeft ==
  ASSUME Inv, value # Sent, Decoded(uuid, value).status = "decoded", uuid \in {"cc06", "cc07"}
  PROVE  RStrip(value) = <<Head(value)>>
<1> DEFINE ends == {0} \cup {i \in DOMAIN value : value[i] # 0}
           k == Max(ends)
<1>1. value \in Seq(Byte) /\ Len(value) \in Nat /\ DOMAIN value = 1 .. Len(value)
  BY ValueIsBytes
<1>2. k \in 0 .. Len(value)
  <2>1. ends \in SUBSET (0 .. Len(value)) /\ ends # {}
    BY <1>1
  <2> HIDE DEF ends
  <2>2. QED BY <1>1, <2>1, GreatestExists
<1>3. RStrip(value) = SubSeq(value, 1, k)
  BY DEF RStrip
<1> HIDE DEF k
<1>4. PICK field : Decoded(uuid, value) = OptionalFramedAscii(value, field)
  BY DEF Decoded
<1>5. ~(HasHeader(value) /\ DeclaredLength(value))
  <2>1. SUFFICES ASSUME HasHeader(value) PROVE ~DeclaredLength(value)
    OBVIOUS
  <2>2. value # <<>>
    BY <1>1, <2>1, EmptySeq DEF HasHeader
  <2>3. QED BY <2>2, WrongLengthShows
<1>6. Printable(SubSeq(value, 1, k))
  <2>1. Decoded(uuid, value) = Ascii(value, field)
    BY <1>4, <1>5 DEF OptionalFramedAscii, Content
  <2>2. Ascii(value, field).status = "decoded"
    BY <2>1
  <2>3. Printable(RStrip(value))
    BY <2>2, AsciiStatus
  <2>4. QED BY <1>3, <2>3
<1>7. /\ SubSeq(value, 1, k) \in Seq(Byte)
      /\ Len(SubSeq(value, 1, k)) = k
      /\ \A i \in 1 .. k : SubSeq(value, 1, k)[i] = value[i]
  <2>1. \A i \in 1 .. k : value[i] \in Byte
    BY <1>1, <1>2, ElementOfSeq
  <2> HIDE DEF Byte
  <2>2. QED BY <1>2, <2>1, SubSeqProperties
<1>8. k # 0
  <2>1. SUFFICES ASSUME k = 0 PROVE FALSE
    OBVIOUS
  <2>2. SubSeq(value, 1, k) = <<>>
    BY <2>1, SubSeqEmpty
  <2>3. QED BY <1>6, <2>2 DEF Printable
<1>9. ~(k >= 2)
  <2>1. SUFFICES ASSUME k >= 2 PROVE FALSE
    OBVIOUS
  <2>2. Len(value) >= 2 /\ value # <<>>
    BY <1>1, <1>2, <2>1, EmptySeq
  <2>3. value[2] = 0
    BY <2>2, WrongLengthShows
  <2>4. 2 \in DOMAIN SubSeq(value, 1, k) /\ SubSeq(value, 1, k)[2] = 0
    BY <1>2, <1>7, <2>1, <2>3
  <2>5. 0 \in 32 .. 126
    BY <1>6, <2>4 DEF Printable
  <2>6. QED BY <2>5
<1>10. k = 1
  BY <1>2, <1>8, <1>9
<1>11. SubSeq(value, 1, 1) = <<value[1]>>
  <2>1. /\ SubSeq(value, 1, 1) \in Seq(Byte) /\ Len(SubSeq(value, 1, 1)) = 1
        /\ SubSeq(value, 1, 1)[1] = value[1]
    BY <1>7, <1>10
  <2>2. <<value[1]>> \in Seq(Byte) /\ Len(<<value[1]>>) = 1 /\ <<value[1]>>[1] = value[1]
    BY <1>1, <1>2, <1>10
  <2> DEFINE s == SubSeq(value, 1, 1)
             t == <<value[1]>>
  <2>3. /\ s \in Seq(Byte) /\ t \in Seq(Byte) /\ Len(s) = Len(t)
        /\ \A i \in 1 .. Len(s) : s[i] = t[i]
    BY <2>1, <2>2
  <2>4. s = t
    <3> HIDE DEF s, t
    <3>1. QED BY <2>3, SeqEqual
  <2>5. QED BY <2>4
<1>12. Head(value) = value[1]
  BY <1>1
<1>13. QED BY <1>3, <1>10, <1>11, <1>12

-----------------------------------------------------------------------------
(* The records of a camera status.                                         *)

\* Induction from the last index to the first.
LEMMA DownwardInduction ==
  ASSUME NEW N \in Nat, NEW P,
         \A i \in 1 .. N : (\A j \in i + 1 .. N : j \in P) => i \in P
  PROVE  1 .. N \subseteq P
<1> DEFINE Missing == (1 .. N) \ P
<1>1. SUFFICES ASSUME Missing # {} PROVE FALSE
  OBVIOUS
<1>2. Missing \in SUBSET (0 .. N)
  OBVIOUS
<1>3. Max(Missing) \in Missing /\ \A i \in Missing : Max(Missing) >= i
  <2> HIDE DEF Missing
  <2>1. QED BY <1>1, <1>2, GreatestExists
<1>4. PICK m \in 1 .. N : m = Max(Missing)
  BY <1>3
<1>5. \A j \in m + 1 .. N : j \in P
  <2>1. SUFFICES ASSUME NEW j \in m + 1 .. N, j \in Missing PROVE FALSE
    OBVIOUS
  <2>2. m >= j
    BY <1>3, <1>4, <2>1
  <2>3. QED BY <2>2
<1>6. m \in P
  BY <1>5
<1>7. QED BY <1>3, <1>4, <1>6

\* Parts of two sequences that agree.
LEMMA SamePart ==
  ASSUME NEW S, NEW b \in Seq(S), NEW p \in Seq(S), Len(p) <= Len(b),
         \A i \in 1 .. Len(p) : p[i] = b[i],
         NEW m \in 1 .. Len(p) + 1, NEW n \in m - 1 .. Len(p)
  PROVE  /\ SubSeq(p, m, n) = SubSeq(b, m, n)
         /\ SubSeq(p, m, n) \in Seq(S)
         /\ Len(SubSeq(p, m, n)) = n - m + 1
         /\ \A i \in 1 .. n - m + 1 : SubSeq(p, m, n)[i] = p[m + i - 1]
<1>1. Len(p) \in Nat /\ Len(b) \in Nat /\ m \in Int /\ n \in Int
  OBVIOUS
<1>2. \A i \in m .. n : i \in 1 .. Len(p) /\ i \in 1 .. Len(b)
  BY <1>1
<1>3. \A i \in m .. n : p[i] \in S /\ b[i] \in S
  BY <1>2, ElementOfSeq
<1> DEFINE s == SubSeq(p, m, n)
           t == SubSeq(b, m, n)
<1>4. /\ s \in Seq(S) /\ Len(s) = IF m <= n THEN n - m + 1 ELSE 0
      /\ \A i \in 1 .. n - m + 1 : s[i] = p[m + i - 1]
  BY <1>1, <1>3, SubSeqProperties
<1>5. /\ t \in Seq(S) /\ Len(t) = IF m <= n THEN n - m + 1 ELSE 0
      /\ \A i \in 1 .. n - m + 1 : t[i] = b[m + i - 1]
  BY <1>1, <1>3, SubSeqProperties
<1> HIDE DEF s, t
<1>6. Len(s) = n - m + 1 /\ Len(t) = n - m + 1
  BY <1>1, <1>4, <1>5
<1>7. \A i \in 1 .. Len(s) : s[i] = t[i]
  <2> SUFFICES ASSUME NEW i \in 1 .. Len(s) PROVE s[i] = t[i]
    OBVIOUS
  <2>1. m + i - 1 \in m .. n
    BY <1>1, <1>6
  <2>2. QED BY <1>2, <1>4, <1>5, <1>6, <2>1
<1>8. s = t
  BY <1>4, <1>5, <1>6, <1>7, SeqEqual
<1>9. QED BY <1>4, <1>6, <1>8 DEF s, t

LEMMA RoomForRecord ==
  ASSUME NEW n \in Nat, NEW e \in Nat, NEW i \in 1 .. n, e >= 2, i + e <= n
  PROVE  i + 3 \in 1 .. n + 1 /\ i + e \in (i + 3) - 1 .. n
OBVIOUS

RecordAt(bytes, i) ==
  [tag |-> BigEndian(SubSeq(bytes, i + 1, i + 2)), payload |-> SubSeq(bytes, i + 3, i + bytes[i])]

IsRecordAt(bytes, i) == i <= Len(bytes) /\ bytes[i] >= 2 /\ i + bytes[i] <= Len(bytes)

\* What _parse_length_tagged_records finds from one byte on.
ParseStep(bytes, from, i) ==
  IF i > Len(bytes) THEN [records |-> <<>>, whole |-> TRUE]
  ELSE IF bytes[i] < 2 \/ i + bytes[i] > Len(bytes) THEN [records |-> <<>>, whole |-> FALSE]
  ELSE LET end  == i + bytes[i]
           rest == from[end + 1]
       IN  [records |-> <<[tag |-> BigEndian(SubSeq(bytes, i + 1, i + 2)),
                           payload |-> SubSeq(bytes, i + 3, end)]>> \o rest.records,
            whole |-> rest.whole]

LEMMA ParseStepCases ==
  ASSUME NEW bytes \in Seq(Nat), NEW from, NEW i \in 1 .. Len(bytes) + 1
  PROVE  /\ i = Len(bytes) + 1 =>
              ParseStep(bytes, from, i) = [records |-> <<>>, whole |-> TRUE]
         /\ i <= Len(bytes) /\ ~IsRecordAt(bytes, i) =>
              ParseStep(bytes, from, i) = [records |-> <<>>, whole |-> FALSE]
         /\ IsRecordAt(bytes, i) =>
              /\ i + bytes[i] + 1 \in i + 3 .. Len(bytes) + 1
              /\ ParseStep(bytes, from, i) =
                   [records |-> <<RecordAt(bytes, i)>> \o from[i + bytes[i] + 1].records,
                    whole |-> from[i + bytes[i] + 1].whole]
<1>1. Len(bytes) \in Nat
  OBVIOUS
<1>2. i <= Len(bytes) => bytes[i] \in Nat
  BY <1>1
<1>3. CASE i = Len(bytes) + 1
  BY <1>1, <1>3 DEF ParseStep, IsRecordAt
<1>4. CASE i <= Len(bytes) /\ ~IsRecordAt(bytes, i)
  <2>1. ~(i > Len(bytes)) /\ (bytes[i] < 2 \/ i + bytes[i] > Len(bytes))
    BY <1>1, <1>2, <1>4 DEF IsRecordAt
  <2>2. ParseStep(bytes, from, i) = [records |-> <<>>, whole |-> FALSE]
    BY <2>1 DEF ParseStep
  <2>3. i # Len(bytes) + 1
    BY <1>1, <1>4
  <2>4. QED BY <1>4, <2>2, <2>3
<1>5. CASE IsRecordAt(bytes, i)
  <2>1. ~(i > Len(bytes)) /\ ~(bytes[i] < 2 \/ i + bytes[i] > Len(bytes))
    BY <1>1, <1>2, <1>5 DEF IsRecordAt
  <2>2. i + bytes[i] + 1 \in i + 3 .. Len(bytes) + 1
    BY <1>1, <1>2, <1>5 DEF IsRecordAt
  <2>3. ParseStep(bytes, from, i) =
          [records |-> <<RecordAt(bytes, i)>> \o from[i + bytes[i] + 1].records,
           whole |-> from[i + bytes[i] + 1].whole]
    BY <2>1 DEF ParseStep, RecordAt
  <2>4. i # Len(bytes) + 1
    BY <1>1, <2>1
  <2>5. QED BY <1>5, <2>2, <2>3, <2>4
<1>6. QED BY <1>1, <1>3, <1>4, <1>5

LEMMA ResultOfParse ==
  ASSUME NEW r, NEW a, NEW b, r = [records |-> a, whole |-> b]
  PROVE  r.records = a /\ r.whole = b
OBVIOUS

LEMMA ParsedAt ==
  ASSUME NEW bytes \in Seq(Nat), NEW f,
         f = [i \in 1 .. Len(bytes) + 1 |-> ParseStep(bytes, f, i)],
         NEW i \in 1 .. Len(bytes) + 1
  PROVE  /\ i = Len(bytes) + 1 => f[i].records = <<>> /\ f[i].whole = TRUE
         /\ i # Len(bytes) + 1 /\ ~IsRecordAt(bytes, i) => f[i].records = <<>> /\ f[i].whole = FALSE
         /\ IsRecordAt(bytes, i) =>
              /\ i \in 1 .. Len(bytes)
              /\ i + bytes[i] + 1 \in i + 3 .. Len(bytes) + 1
              /\ i + bytes[i] + 1 \in i + 1 .. Len(bytes) + 1
              /\ i + bytes[i] + 1 \in 1 .. Len(bytes) + 1
              /\ f[i].records = <<RecordAt(bytes, i)>> \o f[i + bytes[i] + 1].records
              /\ f[i].whole = f[i + bytes[i] + 1].whole
<1>1. Len(bytes) \in Nat
  OBVIOUS
<1>2. f[i] = ParseStep(bytes, f, i)
  OBVIOUS
<1>3. i # Len(bytes) + 1 => i <= Len(bytes)
  BY <1>1
<1>4. i = Len(bytes) + 1 => f[i] = [records |-> <<>>, whole |-> TRUE]
  BY <1>2, ParseStepCases
<1>5. i # Len(bytes) + 1 /\ ~IsRecordAt(bytes, i) => f[i] = [records |-> <<>>, whole |-> FALSE]
  BY <1>2, <1>3, ParseStepCases
<1>6. ASSUME IsRecordAt(bytes, i)
      PROVE  /\ i \in 1 .. Len(bytes)
             /\ i + bytes[i] + 1 \in i + 3 .. Len(bytes) + 1
             /\ i + bytes[i] + 1 \in i + 1 .. Len(bytes) + 1
             /\ i + bytes[i] + 1 \in 1 .. Len(bytes) + 1
             /\ f[i] = [records |-> <<RecordAt(bytes, i)>> \o f[i + bytes[i] + 1].records,
                        whole |-> f[i + bytes[i] + 1].whole]
  <2>1. i + bytes[i] + 1 \in i + 3 .. Len(bytes) + 1
    BY <1>6, ParseStepCases
  <2>2. i \in 1 .. Len(bytes)
    BY <1>1, <1>6 DEF IsRecordAt
  <2>3. /\ i + 3 .. Len(bytes) + 1 \subseteq i + 1 .. Len(bytes) + 1
        /\ i + 1 .. Len(bytes) + 1 \subseteq 1 .. Len(bytes) + 1
    BY <1>1, <2>2
  <2>4. f[i] = [records |-> <<RecordAt(bytes, i)>> \o f[i + bytes[i] + 1].records,
                whole |-> f[i + bytes[i] + 1].whole]
    BY <1>2, <1>6, ParseStepCases
  <2>5. QED BY <2>1, <2>2, <2>3, <2>4
<1>7. ASSUME i = Len(bytes) + 1 PROVE f[i].records = <<>> /\ f[i].whole = TRUE
  BY <1>4, <1>7
<1>8. ASSUME i # Len(bytes) + 1, ~IsRecordAt(bytes, i)
      PROVE  f[i].records = <<>> /\ f[i].whole = FALSE
  BY <1>5, <1>8
<1>9. ASSUME IsRecordAt(bytes, i)
      PROVE  /\ f[i].records = <<RecordAt(bytes, i)>> \o f[i + bytes[i] + 1].records
             /\ f[i].whole = f[i + bytes[i] + 1].whole
  <2>1. f[i] = [records |-> <<RecordAt(bytes, i)>> \o f[i + bytes[i] + 1].records,
                whole |-> f[i + bytes[i] + 1].whole]
    BY <1>6, <1>9
  <2>2. QED BY <2>1, ResultOfParse
<1>10. QED BY <1>6, <1>7, <1>8, <1>9, Zenon

\* A step only looks further on.
LEMMA ParseStepLooksOn ==
  ASSUME NEW bytes \in Seq(Nat), NEW i \in 1 .. Len(bytes) + 1, NEW g, NEW h,
         \A j \in i + 1 .. Len(bytes) + 1 : g[j] = h[j]
  PROVE  ParseStep(bytes, g, i) = ParseStep(bytes, h, i)
<1>1. Len(bytes) \in Nat
  OBVIOUS
<1>2. CASE IsRecordAt(bytes, i)
  <2>1. i + bytes[i] + 1 \in i + 3 .. Len(bytes) + 1
    BY <1>2, ParseStepCases
  <2>2. i + 3 .. Len(bytes) + 1 \subseteq i + 1 .. Len(bytes) + 1
    BY <1>1
  <2>3. g[i + bytes[i] + 1] = h[i + bytes[i] + 1]
    BY <2>1, <2>2
  <2>4. QED BY <1>2, <2>3, ParseStepCases
<1>3. CASE ~IsRecordAt(bytes, i)
  <2>1. i = Len(bytes) + 1 \/ i <= Len(bytes)
    BY <1>1
  <2>2. QED BY <1>3, <2>1, ParseStepCases
<1>4. QED BY <1>2, <1>3

LEMMA ParseExists ==
  ASSUME NEW bytes \in Seq(Nat)
  PROVE  \E f : f = [i \in 1 .. Len(bytes) + 1 |-> ParseStep(bytes, f, i)]
<1> DEFINE N == Len(bytes) + 1
           Solved(i, g) == \A j \in i .. N : g[j] = ParseStep(bytes, g, j)
           P == {i \in 1 .. N : \E g : Solved(i, g)}
<1>1. Len(bytes) \in Nat /\ N \in Nat /\ N >= 1
  OBVIOUS
<1>2. ASSUME NEW i \in 1 .. N, \A j \in i + 1 .. N : j \in P PROVE i \in P
  <2>1. \E g : Solved(i + 1, g)
    <3>1. CASE i = N
      <4>1. i + 1 .. N = {}
        BY <1>1, <3>1
      <4>2. Solved(i + 1, 0)
        BY <4>1
      <4>3. QED BY <4>2
    <3>2. CASE i # N
      <4>1. i + 1 \in i + 1 .. N
        BY <1>1, <3>2
      <4>2. QED BY <1>2, <4>1
    <3>3. QED BY <3>1, <3>2
  <2>2. PICK g : Solved(i + 1, g)
    BY <2>1
  <2> DEFINE h == [j \in i .. N |-> IF j = i THEN ParseStep(bytes, g, i) ELSE g[j]]
  <2>3. ASSUME NEW j \in i .. N PROVE h[j] = ParseStep(bytes, h, j)
    <3>1. \A k \in j + 1 .. N : k \in i .. N /\ k # i
      BY <1>1
    <3>2. \A k \in j + 1 .. N : g[k] = h[k]
      BY <3>1
    <3>3. ParseStep(bytes, g, j) = ParseStep(bytes, h, j)
      <4> HIDE DEF h
      <4>1. j \in 1 .. Len(bytes) + 1
        BY <1>1
      <4>2. QED BY <3>2, <4>1, ParseStepLooksOn
    <3>4. j # i => j \in i + 1 .. N
      BY <1>1
    <3>5. j # i => g[j] = ParseStep(bytes, g, j)
      <4> HIDE DEF h
      <4>1. QED BY <2>2, <3>4
    <3>6. h[j] = ParseStep(bytes, g, j)
      BY <3>5
    <3>7. QED BY <3>3, <3>6
  <2>4. \E f : Solved(i, f)
    <3> HIDE DEF h
    <3>1. Solved(i, h)
      BY <2>3
    <3>2. QED BY <3>1
  <2>5. QED BY <2>4
<1>3. 1 \in P
  <2> HIDE DEF P, N
  <2>1. 1 .. N \subseteq P
    BY <1>1, <1>2, DownwardInduction
  <2>2. QED BY <1>1, <2>1
<1>4. PICK g : Solved(1, g)
  BY <1>3
<1> DEFINE f == [i \in 1 .. N |-> g[i]]
<1>5. ASSUME NEW i \in 1 .. N PROVE f[i] = ParseStep(bytes, f, i)
  <2>1. \A j \in i + 1 .. N : j \in 1 .. N
    BY <1>1
  <2>2. \A j \in i + 1 .. N : g[j] = f[j]
    BY <2>1
  <2>3. ParseStep(bytes, g, i) = ParseStep(bytes, f, i)
    <3> HIDE DEF f
    <3>1. QED BY <2>2, ParseStepLooksOn
  <2>4. f[i] = ParseStep(bytes, g, i)
    <3>1. g[i] = ParseStep(bytes, g, i)
      BY <1>4
    <3>2. QED BY <3>1
  <2>5. QED BY <2>3, <2>4
<1>6. f = [i \in 1 .. N |-> f[i]]
  OBVIOUS
<1>7. f = [i \in 1 .. N |-> ParseStep(bytes, f, i)]
  <2> HIDE DEF f
  <2>1. QED BY <1>5, <1>6
<1>8. \E h : h = [i \in 1 .. N |-> ParseStep(bytes, h, i)]
  <2> HIDE DEF f
  <2>1. QED BY <1>7
<1>9. QED BY <1>8

LEMMA RecordsAreParsed ==
  ASSUME NEW bytes \in Seq(Nat)
  PROVE  \E f : /\ f = [i \in 1 .. Len(bytes) + 1 |-> ParseStep(bytes, f, i)]
                /\ Records(bytes) = f[1]
<1> DEFINE f == CHOOSE f : f = [i \in 1 .. Len(bytes) + 1 |-> ParseStep(bytes, f, i)]
<1>1. f = [i \in 1 .. Len(bytes) + 1 |-> ParseStep(bytes, f, i)]
  BY ParseExists
<1>2. Records(bytes) = f[1]
  BY DEF Records, ParseStep
<1>3. QED BY <1>1, <1>2

LEMMA OneIsSequence ==
  ASSUME NEW S, NEW x \in S
  PROVE  <<x>> \in Seq(S) /\ Len(<<x>>) = 1 /\ <<x>>[1] = x
OBVIOUS

\* Of a part of a status the records are the first ones of the whole, each as
\* it is there.
LEMMA RecordsOfPart ==
  ASSUME NEW b \in Seq(Nat), NEW p \in Seq(Nat), Len(p) <= Len(b),
         \A i \in 1 .. Len(p) : p[i] = b[i]
  PROVE  \E R : /\ Records(p).records \in Seq(R)
                /\ Records(b).records \in Seq(R)
                /\ Len(Records(p).records) <= Len(Records(b).records)
                /\ \A i \in 1 .. Len(Records(p).records) :
                     Records(p).records[i] = Records(b).records[i]
<1>1. PICK f : f = [i \in 1 .. Len(p) + 1 |-> ParseStep(p, f, i)] /\ Records(p) = f[1]
  BY RecordsAreParsed
<1>2. PICK g : g = [i \in 1 .. Len(b) + 1 |-> ParseStep(b, g, i)] /\ Records(b) = g[1]
  BY RecordsAreParsed
<1> DEFINE R == {RecordAt(b, i) : i \in 1 .. Len(b)}
           Typed == {i \in 1 .. Len(b) + 1 : g[i].records \in Seq(R)}
           Agree(i) == /\ f[i].records \in Seq(R)
                       /\ Len(f[i].records) <= Len(g[i].records)
                       /\ \A n \in 1 .. Len(f[i].records) : f[i].records[n] = g[i].records[n]
           P == {i \in 1 .. Len(p) + 1 : Agree(i)}
<1>3. Len(b) \in Nat /\ Len(p) \in Nat
  OBVIOUS
<1>4. ASSUME NEW i \in 1 .. Len(b) + 1, \A j \in i + 1 .. Len(b) + 1 : j \in Typed
      PROVE  i \in Typed
  <2>2. CASE IsRecordAt(b, i)
    <3> DEFINE j == i + b[i] + 1
    <3>1. g[i].records = <<RecordAt(b, i)>> \o g[j].records
      BY <1>2, <2>2, ParsedAt
    <3>2. j \in i + 1 .. Len(b) + 1
      BY <1>2, <2>2, ParsedAt
    <3> HIDE DEF j
    <3>3. g[j].records \in Seq(R)
      BY <1>4, <3>2
    <3>4. i \in 1 .. Len(b)
      BY <1>2, <2>2, ParsedAt
    <3>5. <<RecordAt(b, i)>> \in Seq(R)
      <4>1. RecordAt(b, i) \in R
        BY <3>4
      <4>2. QED BY <4>1, OneIsSequence
    <3> HIDE DEF R
    <3>6. <<RecordAt(b, i)>> \o g[j].records \in Seq(R)
      BY <3>3, <3>5, ConcatProperties
    <3>7. QED BY <3>1, <3>6
  <2>3. CASE ~IsRecordAt(b, i)
    <3>1. g[i].records = <<>>
      BY <1>2, <2>3, ParsedAt, Zenon
    <3>2. QED BY <3>1, EmptySeq
  <2>4. QED BY <2>2, <2>3
<1>5. \A i \in 1 .. Len(b) + 1 : g[i].records \in Seq(R)
  <2> HIDE DEF Typed
  <2>1. 1 .. Len(b) + 1 \subseteq Typed
    <3>1. Len(b) + 1 \in Nat
      BY <1>3
    <3>2. QED BY <1>4, <3>1, DownwardInduction
  <2>2. QED BY <2>1 DEF Typed
<1>6. ASSUME NEW i \in 1 .. Len(p) + 1, \A j \in i + 1 .. Len(p) + 1 : j \in P
      PROVE  i \in P
  <2>2. i \in 1 .. Len(b) + 1
    BY <1>3
  <2>3. g[i].records \in Seq(R)
    BY <1>5, <2>2
  <2>4. CASE IsRecordAt(p, i)
    <3> DEFINE j == i + p[i] + 1
    <3>1. /\ i \in 1 .. Len(p) /\ j \in i + 1 .. Len(p) + 1
          /\ f[i].records = <<RecordAt(p, i)>> \o f[j].records
      BY <1>1, <2>4, ParsedAt
    <3>2. i \in 1 .. Len(p) /\ p[i] = b[i] /\ p[i] \in Nat /\ p[i] >= 2 /\ i + p[i] <= Len(p)
      <4>1. p[i] >= 2 /\ i + p[i] <= Len(p)
        BY <2>4 DEF IsRecordAt
      <4>2. p[i] = b[i]
        BY <3>1
      <4>3. p[i] \in Nat
        BY <3>1, ElementOfSeq
      <4>4. QED BY <3>1, <4>1, <4>2, <4>3
    <3>3. IsRecordAt(b, i)
      <4>1. i <= Len(b)
        BY <1>3, <3>2
      <4>2. i + p[i] <= Len(b)
        BY <1>3, <3>2
      <4>3. QED BY <3>2, <4>1, <4>2 DEF IsRecordAt
    <3>4. RecordAt(p, i) = RecordAt(b, i)
      <4>1. SubSeq(p, i + 1, i + 2) = SubSeq(b, i + 1, i + 2)
        <5>1. i + 1 \in 1 .. Len(p) + 1 /\ i + 2 \in (i + 1) - 1 .. Len(p)
          <6>1. i + 2 <= Len(p)
            BY <1>3, <3>2
          <6>2. QED BY <1>3, <3>2, <6>1
        <5> DEFINE m == i + 1
                   n == i + 2
        <5>2. SubSeq(p, m, n) = SubSeq(b, m, n)
          <6> HIDE DEF m, n
          <6>1. m \in 1 .. Len(p) + 1 /\ n \in m - 1 .. Len(p)
            BY <5>1 DEF m, n
          <6>2. QED BY <6>1, SamePart
        <5>3. QED BY <5>2
      <4>2. SubSeq(p, i + 3, i + p[i]) = SubSeq(b, i + 3, i + p[i])
        <5>1. i + 3 \in 1 .. Len(p) + 1 /\ i + p[i] \in (i + 3) - 1 .. Len(p)
          <6>1. PICK e \in Nat : e = p[i]
            BY <3>2
          <6>2. e >= 2 /\ i + e <= Len(p) /\ i \in 1 .. Len(p)
            BY <3>2, <6>1
          <6>3. i + 3 \in 1 .. Len(p) + 1 /\ i + e \in (i + 3) - 1 .. Len(p)
            BY <1>3, <6>2, RoomForRecord
          <6>4. QED BY <6>1, <6>3
        <5> DEFINE m == i + 3
                   n == i + p[i]
        <5>2. SubSeq(p, m, n) = SubSeq(b, m, n)
          <6> HIDE DEF m, n
          <6>1. m \in 1 .. Len(p) + 1 /\ n \in m - 1 .. Len(p)
            BY <5>1 DEF m, n
          <6>2. QED BY <6>1, SamePart
        <5>3. QED BY <5>2
      <4>3. QED BY <3>2, <4>1, <4>2 DEF RecordAt
    <3>5. /\ g[i].records = <<RecordAt(b, i)>> \o g[i + b[i] + 1].records
          /\ i \in 1 .. Len(b) /\ i + b[i] + 1 \in 1 .. Len(b) + 1
      BY <1>2, <2>2, <3>3, ParsedAt
    <3>6. g[i].records = <<RecordAt(b, i)>> \o g[j].records /\ j \in 1 .. Len(b) + 1
      BY <3>2, <3>5
    <3> HIDE DEF j
    <3>7. j \in i + 1 .. Len(p) + 1 /\ j \in 1 .. Len(b) + 1
      BY <3>1, <3>6
    <3>8. Agree(j) /\ g[j].records \in Seq(R)
      BY <1>5, <1>6, <3>7
    <3>9. <<RecordAt(b, i)>> \in Seq(R)
      <4>1. RecordAt(b, i) \in R
        BY <3>5
      <4> HIDE DEF R
      <4>2. QED BY <4>1, OneIsSequence
    <3> DEFINE r == RecordAt(b, i)
               s == f[j].records
               t == g[j].records
    <3>10. /\ s \in Seq(R) /\ t \in Seq(R) /\ <<r>> \in Seq(R)
           /\ Len(s) <= Len(t)
           /\ \A n \in 1 .. Len(s) : s[n] = t[n]
      BY <3>8, <3>9
    <3>11. f[i].records = <<r>> \o s /\ g[i].records = <<r>> \o t
      BY <3>1, <3>4, <3>6
    <3> HIDE DEF R, r, s, t
    <3>12. /\ <<r>> \o s \in Seq(R)
           /\ Len(<<r>> \o s) = Len(<<r>>) + Len(s)
           /\ \A n \in 1 .. Len(<<r>>) + Len(s) :
                (<<r>> \o s)[n] = IF n <= Len(<<r>>) THEN <<r>>[n] ELSE s[n - Len(<<r>>)]
      BY <3>10, ConcatProperties
    <3>13. /\ <<r>> \o t \in Seq(R)
           /\ Len(<<r>> \o t) = Len(<<r>>) + Len(t)
           /\ \A n \in 1 .. Len(<<r>>) + Len(t) :
                (<<r>> \o t)[n] = IF n <= Len(<<r>>) THEN <<r>>[n] ELSE t[n - Len(<<r>>)]
      BY <3>10, ConcatProperties
    <3>14. Len(<<r>>) = 1 /\ Len(s) \in Nat /\ Len(t) \in Nat
      BY <3>10
    <3>15. \A n \in 1 .. Len(<<r>> \o s) : (<<r>> \o s)[n] = (<<r>> \o t)[n]
      <4> SUFFICES ASSUME NEW n \in 1 .. Len(<<r>> \o s) PROVE (<<r>> \o s)[n] = (<<r>> \o t)[n]
        OBVIOUS
      <4>1. n \in 1 .. 1 + Len(s) /\ n \in 1 .. 1 + Len(t)
        BY <3>10, <3>12, <3>14
      <4>2. n > 1 => n - 1 \in 1 .. Len(s)
        BY <3>14, <4>1
      <4>3. QED BY <3>10, <3>12, <3>13, <3>14, <4>1, <4>2
    <3>16. Agree(i)
      BY <3>10, <3>11, <3>12, <3>13, <3>14, <3>15
    <3>17. QED BY <3>16
  <2>5. CASE ~IsRecordAt(p, i)
    <3>1. f[i].records = <<>>
      BY <1>1, <2>5, ParsedAt, Zenon
    <3>2. Len(g[i].records) \in Nat
      <4> HIDE DEF R
      <4>1. QED BY <2>3
    <3>3. Agree(i)
      <4>1. /\ f[i].records \in Seq(R) /\ Len(f[i].records) = 0
            /\ 1 .. Len(f[i].records) = {}
        BY <3>1, EmptySeq
      <4>2. QED BY <3>2, <4>1
    <3>4. QED BY <3>3
  <2>6. QED BY <2>4, <2>5
<1>7. 1 \in P
  <2> HIDE DEF P
  <2>1. 1 .. Len(p) + 1 \subseteq P
    <3>1. Len(p) + 1 \in Nat
      BY <1>3
    <3>2. QED BY <1>6, <3>1, DownwardInduction
  <2>2. QED BY <1>3, <2>1
<1>8. g[1].records \in Seq(R)
  <2>1. 1 \in 1 .. Len(b) + 1
    BY <1>3
  <2>2. QED BY <1>5, <2>1
<1>9. QED BY <1>1, <1>2, <1>7, <1>8

-----------------------------------------------------------------------------
(* What the summary shows of a frame that is cut.                          *)

\* What a reading says in a field.
Says(reading, f) == IF f \in DOMAIN reading.fields THEN reading.fields[f] ELSE None

LEMMA SummaryOfOne ==
  ASSUME NEW reading
  PROVE  LET batteries == Says(reading, "batteries")
         IN  /\ \A f \in SummaryFields : Summary(<<reading>>)[f] = Says(reading, f)
             /\ Summary(<<reading>>)["battery_percent"] =
                  IF batteries = None \/ batteries[1] = <<>> THEN None
                  ELSE <<batteries[1][1].remaining_percent>>
             /\ DOMAIN Summary(<<reading>>) = SummaryFields \cup {"battery_percent"}
<1>1. ASSUME NEW f PROVE FirstField(<<reading>>, f) = Says(reading, f)
  <2> DEFINE has == {i \in DOMAIN <<reading>> : /\ f \in DOMAIN <<reading>>[i].fields
                                                /\ <<reading>>[i].fields[f] # None}
  <2>1. DOMAIN <<reading>> = {1} /\ <<reading>>[1] = reading
    OBVIOUS
  <2>2. CASE f \in DOMAIN reading.fields /\ reading.fields[f] # None
    <3>1. has = {1}
      BY <2>1, <2>2
    <3>2. Min({1}) = 1
      BY DEF Min
    <3>3. FirstField(<<reading>>, f) = <<reading>>[Min(has)].fields[f]
      BY <3>1 DEF FirstField
    <3> HIDE DEF has
    <3>4. QED BY <2>1, <2>2, <3>1, <3>2, <3>3 DEF Says
  <2>3. CASE ~(f \in DOMAIN reading.fields /\ reading.fields[f] # None)
    <3>1. has = {}
      BY <2>1, <2>3
    <3>2. FirstField(<<reading>>, f) = None
      BY <3>1 DEF FirstField
    <3>3. QED BY <2>3, <3>2 DEF Says
  <2>4. QED BY <2>2, <2>3
<1>2. "battery_percent" \notin SummaryFields
  BY DEF SummaryFields
<1>3. QED BY <1>1, <1>2 DEF Summary, With, Field

\* The fields of the summary that a cut frame must not make up.
Kept == SummaryFields \ {"external_power_state", "model", "firmware_version"}

\* A result that is not about the state of the camera.
LEMMA NothingKept ==
  ASSUME NEW u, NEW bytes,
         u \notin {"cc09", "cc0f", "cc10", "dd21", "dd30", "dd31", "dd32", "dd33"}
  PROVE  DOMAIN Decoded(u, bytes).fields \cap (Kept \cup {"batteries"}) = {}
<1>1. CASE u = "cc03"
  <2>1. DOMAIN PushTransfer(bytes).fields \subseteq {"push_transfer_code", "push_transfer_state"}
    BY DEF PushTransfer, Parsed, NoFields
  <2>2. Decoded(u, bytes) = PushTransfer(bytes)
    BY <1>1 DEF Decoded
  <2>3. QED BY <2>1, <2>2 DEF Kept, SummaryFields
<1>2. CASE u = "cc40"
  <2>1. DOMAIN FtpProfiles(bytes).fields = {"ftp_profile_names"}
    BY DEF FtpProfiles, Parsed, Field
  <2>2. Decoded(u, bytes) = FtpProfiles(bytes)
    BY <1>2 DEF Decoded
  <2>3. QED BY <2>1, <2>2 DEF Kept, SummaryFields
<1>3. CASE u = "ccab"
  <2>1. DOMAIN WifiBand(bytes).fields \subseteq {"message_code", "wifi_band_code"}
    BY DEF WifiBand, Parsed, NoFields
  <2>2. Decoded(u, bytes) = WifiBand(bytes)
    BY <1>3 DEF Decoded
  <2>3. QED BY <2>1, <2>2 DEF Kept, SummaryFields
<1>4. CASE u \in {"cc0a", "cc0b", "cc11", "cc06", "cc07", "cc0c"}
  <2>1. ASSUME NEW field
        PROVE  /\ DOMAIN Ascii(bytes, field).fields = {field}
               /\ DOMAIN FramedAscii(bytes, field).fields = {field}
               /\ DOMAIN OptionalFramedAscii(bytes, field).fields = {field}
    BY DEF Ascii, FramedAscii, OptionalFramedAscii, Parsed, Field
  <2>2. PICK field \in {"firmware_version", "model", "ssid", "password", "bssid"} :
          Decoded(u, bytes) \in {Ascii(bytes, field), FramedAscii(bytes, field),
                                 OptionalFramedAscii(bytes, field)}
    BY <1>4 DEF Decoded
  <2>3. DOMAIN Decoded(u, bytes).fields = {field}
    BY <2>1, <2>2
  <2>4. field \notin Kept \cup {"batteries"}
    BY DEF Kept, SummaryFields
  <2>5. QED BY <2>3, <2>4
<1>5. CASE u \in {"cc0d", "cc12", "ee02", "ee04"}
  <2>1. DOMAIN FramingOnly(bytes).fields
          \subseteq {"declared_length", "message_type", "payload_length"}
    BY DEF FramingOnly, Parsed, Unknown, NoFields
  <2>2. Decoded(u, bytes) = FramingOnly(bytes)
    BY <1>5 DEF Decoded
  <2>3. QED BY <2>1, <2>2 DEF Kept, SummaryFields
<1>6. CASE u \notin {"cc03", "cc40", "ccab", "cc0a", "cc0b", "cc11", "cc06", "cc07", "cc0c",
                     "cc0d", "cc12", "ee02", "ee04"}
  <2>1. u \notin Decodable
    BY <1>6 DEF Decodable
  <2>2. QED BY <2>1, NoDecoder DEF NoFields
<1>7. QED BY <1>1, <1>2, <1>3, <1>4, <1>5, <1>6

\* Of the records that count each tag has one.
FirstOfTag(records) ==
  {i \in DOMAIN records : \A j \in DOMAIN records : j < i => records[j].tag # records[i].tag}

At(records, tag) == CHOOSE i \in FirstOfTag(records) : records[i].tag = tag

Tags(records) == {records[i].tag : i \in FirstOfTag(records)}

\* When a camera status is not exact.
LEMMA StatusWarns ==
  ASSUME NEW bytes
  PROVE  LET records == Records(bytes).records
             tags == Tags(records)
         IN  CameraStatus(bytes).status = "decoded" <=>
               /\ Records(bytes).whole
               /\ ~(1 \in tags /\ WifiState(BigEndian(records[At(records, 1)].payload)) = "unknown")
               /\ tags \ (DOMAIN StatusNames \cup {1}) = {}
               /\ FirstOfTag(records) = DOMAIN records
<1> DEFINE records == Records(bytes).records
           tags == Tags(records)
           odd == 1 \in tags /\ WifiState(BigEndian(records[At(records, 1)].payload)) = "unknown"
           unknown == tags \ (DOMAIN StatusNames \cup {1})
           w1 == Warn("broken record", ~Records(bytes).whole)
           w2 == Warn("unknown state", odd)
           w3 == Warn("duplicate tags", FirstOfTag(records) # DOMAIN records)
           w4 == Warn("unknown tags", unknown # {})
           warnings == w1 \cup w2 \cup w3 \cup w4
<1>1. PICK fields : CameraStatus(bytes) = Parsed(fields, warnings)
  BY Zenon DEF CameraStatus, StatusFields, FirstOfTag, At, Tags
<1>2. /\ w1 = {} <=> Records(bytes).whole
      /\ w2 = {} <=> ~odd
      /\ w3 = {} <=> FirstOfTag(records) = DOMAIN records
      /\ w4 = {} <=> unknown = {}
  <2> HIDE DEF odd, unknown
  <2>1. QED BY Quiet
<1> HIDE DEF w1, w2, w3, w4
<1>3. warnings = {} <=> w1 = {} /\ w2 = {} /\ w3 = {} /\ w4 = {}
  OBVIOUS
<1> HIDE DEF warnings
<1>4. CameraStatus(bytes).status = "decoded" <=> warnings = {}
  BY <1>1, ParsedHas
<1>5. QED BY <1>2, <1>3, <1>4, Zenon DEF odd, unknown

LEMMA StatusNamesDiffer ==
  /\ DOMAIN StatusNames = {2, 3, 5, 7, 8, 9, 10}
  /\ \A s, t \in DOMAIN StatusNames : StatusNames[s] = StatusNames[t] => s = t
  /\ \A t \in DOMAIN StatusNames : StatusNames[t] \notin
       {"wifi_state_code", "wifi_state", "unknown_tags", "duplicate_tags", "batteries"}
BY DEF StatusNames

\* What a camera status says: of each tag, what its first record has.
LEMMA StatusSays ==
  ASSUME NEW bytes
  PROVE  LET records == Records(bytes).records
             result  == CameraStatus(bytes)
         IN  /\ \A t \in DOMAIN StatusNames :
                  Says(result, StatusNames[t]) =
                    IF t \in Tags(records)
                      THEN <<BigEndian(records[At(records, t)].payload)>> ELSE None
             /\ Says(result, "wifi_state") =
                  IF 1 \in Tags(records)
                    THEN <<WifiState(BigEndian(records[At(records, 1)].payload))>> ELSE None
             /\ \A f \in (Kept \cup {"batteries"}) \ {"wifi_state"} :
                  (\A t \in DOMAIN StatusNames : f # StatusNames[t]) => Says(result, f) = None
<1> DEFINE parsed == Records(bytes)
           records == parsed.records
           counts == FirstOfTag(records)
           Number(i) == BigEndian(records[i].payload)
           tags == Tags(records)
           known == [name \in {StatusNames[t] : t \in tags \cap DOMAIN StatusNames} |->
                       <<Number(At(records,
                                   CHOOSE t \in DOMAIN StatusNames : StatusNames[t] = name))>>]
           wifi == IF 1 \notin tags THEN NoFields
                   ELSE [wifi_state_code |-> <<Number(At(records, 1))>>,
                         wifi_state      |-> <<WifiState(Number(At(records, 1)))>>]
<1>1. \E rest, twice :
        /\ DOMAIN rest \subseteq {"unknown_tags"}
        /\ DOMAIN twice \subseteq {"duplicate_tags"}
        /\ CameraStatus(bytes).fields = With(With(known, wifi), With(rest, twice))
  <2> DEFINE unknown == tags \ (DOMAIN StatusNames \cup {1})
             rest == IF unknown = {} THEN NoFields
                     ELSE Field("unknown_tags",
                                <<{<<t, Number(At(records, t))>> : t \in unknown}>>)
             again == SelectSeq([i \in DOMAIN records |-> i], LAMBDA i : i \notin counts)
             twice == IF counts = DOMAIN records THEN NoFields
                      ELSE Field("duplicate_tags",
                                 <<[n \in DOMAIN again |-> records[again[n]].tag]>>)
  <2>1. CameraStatus(bytes).fields = With(With(known, wifi), With(rest, twice))
    BY DEF CameraStatus, StatusFields, FirstOfTag, At, Tags, Parsed
  <2>2. DOMAIN rest \subseteq {"unknown_tags"} /\ DOMAIN twice \subseteq {"duplicate_tags"}
    BY DEF NoFields, Field
  <2> HIDE DEF rest, twice, known, wifi
  <2>3. QED BY <2>1, <2>2
<1>2. PICK rest, twice :
        /\ DOMAIN rest \subseteq {"unknown_tags"}
        /\ DOMAIN twice \subseteq {"duplicate_tags"}
        /\ CameraStatus(bytes).fields = With(With(known, wifi), With(rest, twice))
  BY <1>1
<1> DEFINE fields == CameraStatus(bytes).fields
<1>3. DOMAIN wifi = IF 1 \in tags THEN {"wifi_state_code", "wifi_state"} ELSE {}
  BY DEF NoFields
<1>4. DOMAIN known = {StatusNames[t] : t \in tags \cap DOMAIN StatusNames}
  OBVIOUS
<1>5. ASSUME NEW t \in DOMAIN StatusNames, t \in tags
      PROVE  known[StatusNames[t]] = <<Number(At(records, t))>>
  <2>1. (CHOOSE s \in DOMAIN StatusNames : StatusNames[s] = StatusNames[t]) = t
    BY StatusNamesDiffer
  <2>2. StatusNames[t] \in {StatusNames[s] : s \in tags \cap DOMAIN StatusNames}
    BY <1>5
  <2> HIDE DEF Number, tags
  <2>3. QED BY <2>1, <2>2
<1>6. 1 \in tags => wifi["wifi_state"] = <<WifiState(Number(At(records, 1)))>>
  <2> HIDE DEF tags, Number
  <2>1. QED OBVIOUS
<1> HIDE DEF known, wifi, tags, Number
<1>7. /\ DOMAIN fields = (DOMAIN known \cup DOMAIN wifi) \cup (DOMAIN rest \cup DOMAIN twice)
      /\ \A f \in DOMAIN known : fields[f] = known[f]
      /\ \A f \in DOMAIN wifi \ DOMAIN known : fields[f] = wifi[f]
  BY <1>2 DEF With
<1>8. ASSUME NEW t \in DOMAIN StatusNames
      PROVE  Says(CameraStatus(bytes), StatusNames[t]) =
               IF t \in tags THEN <<Number(At(records, t))>> ELSE None
  <2>1. CASE t \in tags
    <3>1. StatusNames[t] \in DOMAIN known
      BY <1>4, <2>1
    <3>2. QED BY <1>5, <1>7, <2>1, <3>1 DEF Says
  <2>2. CASE t \notin tags
    <3>1. StatusNames[t] \notin DOMAIN known
      BY <1>4, <2>2, StatusNamesDiffer
    <3>2. StatusNames[t] \notin DOMAIN fields
      BY <1>2, <1>3, <1>7, <3>1, StatusNamesDiffer
    <3>3. QED BY <2>2, <3>2 DEF Says
  <2>3. QED BY <2>1, <2>2
<1>9. "wifi_state" \notin DOMAIN known
  BY <1>4, StatusNamesDiffer
<1>10. Says(CameraStatus(bytes), "wifi_state") =
         IF 1 \in tags THEN <<WifiState(Number(At(records, 1)))>> ELSE None
  <2>1. CASE 1 \in tags
    BY <1>3, <1>6, <1>7, <1>9, <2>1 DEF Says
  <2>2. CASE 1 \notin tags
    BY <1>2, <1>3, <1>7, <1>9, <2>2 DEF Says
  <2>3. QED BY <2>1, <2>2
<1>11. ASSUME NEW f \in (Kept \cup {"batteries"}) \ {"wifi_state"},
              \A t \in DOMAIN StatusNames : f # StatusNames[t]
       PROVE  Says(CameraStatus(bytes), f) = None
  <2>1. f \notin {"wifi_state_code", "wifi_state", "unknown_tags", "duplicate_tags"}
    BY DEF Kept, SummaryFields
  <2>2. f \notin DOMAIN known
    BY <1>4, <1>11
  <2>3. f \notin DOMAIN fields
    BY <1>2, <1>3, <1>7, <2>1, <2>2
  <2>4. QED BY <2>3 DEF Says
<1>12. QED BY <1>8, <1>10, <1>11 DEF tags, Number

\* A tag that a part of a status has is the one that the whole has.
LEMMA SameTagInPart ==
  ASSUME NEW R, NEW r \in Seq(R), NEW w \in Seq(R), Len(r) <= Len(w),
         \A i \in 1 .. Len(r) : r[i] = w[i],
         NEW t \in Tags(r)
  PROVE  t \in Tags(w) /\ r[At(r, t)] = w[At(w, t)]
<1>1. /\ DOMAIN r = 1 .. Len(r) /\ DOMAIN w = 1 .. Len(w)
      /\ Len(r) \in Nat /\ Len(w) \in Nat
  OBVIOUS
<1>2. At(r, t) \in FirstOfTag(r) /\ r[At(r, t)].tag = t
  BY DEF Tags, At
<1>3. PICK i \in FirstOfTag(r) : i = At(r, t)
  BY <1>2
<1>4. i \in 1 .. Len(r) /\ i \in 1 .. Len(w) /\ r[i] = w[i] /\ w[i].tag = t
  BY <1>1, <1>2, <1>3 DEF FirstOfTag
<1>5. ASSUME NEW j \in 1 .. Len(w), j < i PROVE w[j].tag # t
  <2>1. j \in 1 .. Len(r)
    BY <1>1, <1>4, <1>5
  <2>2. r[j].tag # r[i].tag
    BY <1>1, <1>5, <2>1 DEF FirstOfTag
  <2>3. QED BY <1>4, <2>1, <2>2
<1>6. i \in FirstOfTag(w)
  BY <1>1, <1>4, <1>5 DEF FirstOfTag
<1>7. t \in Tags(w)
  BY <1>4, <1>6 DEF Tags
<1>8. At(w, t) \in FirstOfTag(w) /\ w[At(w, t)].tag = t
  BY <1>7 DEF Tags, At
<1>9. PICK k \in FirstOfTag(w) : k = At(w, t)
  BY <1>8
<1>10. k \in 1 .. Len(w) /\ w[k].tag = t
  BY <1>1, <1>8, <1>9 DEF FirstOfTag
<1>11. ~(k < i)
  BY <1>5, <1>10
<1>12. ~(i < k)
  BY <1>1, <1>4, <1>9, <1>10 DEF FirstOfTag
<1>13. k = i
  BY <1>4, <1>10, <1>11, <1>12
<1>14. QED BY <1>3, <1>4, <1>7, <1>9, <1>13

\* What a cut frame says of the state of the camera, the whole frame says too.
Honest(cut, whole) ==
  /\ \A f \in Kept : Says(cut, f) \in {None, Says(whole, f)}
  /\ \/ Says(cut, "batteries") = None
     \/ Says(cut, "batteries")[1] = <<>>
     \/ /\ Says(whole, "batteries") # None
        /\ Says(whole, "batteries")[1] # <<>>
        /\ Says(cut, "batteries")[1][1].remaining_percent
             = Says(whole, "batteries")[1][1].remaining_percent

LEMMA StatusIsHonest ==
  ASSUME Inv, uuid = "cc09", Len(value) <= Len(Sent)
  PROVE  Honest(CameraStatus(value), CameraStatus(Sent))
<1>1. /\ value \in Seq(Byte) /\ Sent \in Seq(Byte)
      /\ \A i \in 1 .. Len(value) : value[i] = Sent[i]
  <2>1. Sent \in Seq(Byte) /\ Len(Sent) \in Nat /\ Len(value) \in Nat
    BY SentIsBytes, ValueIsBytes DEF Inv
  <2>2. QED BY <2>1, ValueIsBytes
<1>2. value \in Seq(Nat) /\ Sent \in Seq(Nat)
  <2>1. Byte \subseteq Nat
    BY DEF Byte
  <2>2. QED BY <1>1, <2>1, SeqMonotonic
<1> DEFINE r == Records(value).records
           w == Records(Sent).records
<1>3. PICK R : /\ r \in Seq(R) /\ w \in Seq(R) /\ Len(r) <= Len(w)
               /\ \A i \in 1 .. Len(r) : r[i] = w[i]
  BY <1>1, <1>2, RecordsOfPart
<1> HIDE DEF r, w
<1>4. \A t \in Tags(r) : t \in Tags(w) /\ r[At(r, t)] = w[At(w, t)]
  BY <1>3, SameTagInPart
<1>5. ASSUME NEW f \in Kept
      PROVE  Says(CameraStatus(value), f) \in {None, Says(CameraStatus(Sent), f)}
  <2>1. CASE \E t \in DOMAIN StatusNames : f = StatusNames[t]
    <3>1. PICK t \in DOMAIN StatusNames : f = StatusNames[t]
      BY <2>1
    <3>2. /\ Says(CameraStatus(value), f) =
               IF t \in Tags(r) THEN <<BigEndian(r[At(r, t)].payload)>> ELSE None
          /\ Says(CameraStatus(Sent), f) =
               IF t \in Tags(w) THEN <<BigEndian(w[At(w, t)].payload)>> ELSE None
      BY <3>1, StatusSays DEF r, w
    <3>3. QED BY <1>4, <3>2
  <2>2. CASE f = "wifi_state"
    <3>1. /\ Says(CameraStatus(value), f) =
               IF 1 \in Tags(r) THEN <<WifiState(BigEndian(r[At(r, 1)].payload))>> ELSE None
          /\ Says(CameraStatus(Sent), f) =
               IF 1 \in Tags(w) THEN <<WifiState(BigEndian(w[At(w, 1)].payload))>> ELSE None
      BY <2>2, StatusSays DEF r, w
    <3>2. QED BY <1>4, <3>1
  <2>3. CASE f # "wifi_state" /\ \A t \in DOMAIN StatusNames : f # StatusNames[t]
    BY <2>3, StatusSays
  <2>4. QED BY <2>1, <2>2, <2>3
<1>6. Says(CameraStatus(value), "batteries") = None
  <2>1. "batteries" # "wifi_state" /\ \A t \in DOMAIN StatusNames : "batteries" # StatusNames[t]
    BY StatusNamesDiffer
  <2>2. QED BY <2>1, StatusSays
<1>7. QED BY <1>5, <1>6 DEF Honest

\* Of the media, the battery and the location settings what is there is where it
\* is in the whole frame.
LEMMA SamePartOfSent ==
  ASSUME Inv, Len(value) <= Len(Sent), NEW m \in Nat \ {0}, NEW n \in Nat, m <= n + 1, n <= Len(value)
  PROVE  SubSeq(value, m, n) = SubSeq(Sent, m, n)
<1>1. Sent \in Seq(Byte) /\ Len(Sent) \in Nat /\ value \in Seq(Byte) /\ Len(value) \in Nat
  BY SentIsBytes, ValueIsBytes DEF Inv
<1>2. \A i \in 1 .. Len(value) : value[i] = Sent[i]
  BY <1>1, ValueIsBytes
<1>3. m \in 1 .. Len(value) + 1 /\ n \in m - 1 .. Len(value)
  BY <1>1
<1> HIDE DEF Byte
<1>4. QED BY <1>1, <1>2, <1>3, SamePart

LEMMA MediaIsHonest ==
  ASSUME Inv, Len(value) <= Len(Sent)
  PROVE  Honest(Media(value), Media(Sent))
<1>1. Len(value) \in Nat /\ Len(Sent) \in Nat
  BY SentIsBytes, ValueIsBytes DEF Inv
<1>2. CASE Len(value) < 16
  <2>1. Media(value).fields = NoFields
    BY <1>2 DEF Media, Parsed
  <2>2. \A f : Says(Media(value), f) = None
    BY <2>1 DEF Says, NoFields
  <2>3. QED BY <2>2 DEF Honest
<1>3. CASE Len(value) >= 16
  <2>1. value[6] = Sent[6] /\ value[7] = Sent[7] /\ value[8] = Sent[8]
    BY <1>1, <1>3, ValueIsBytes
  <2>2. SubSeq(value, 9, 12) = SubSeq(Sent, 9, 12) /\ SubSeq(value, 13, 16) = SubSeq(Sent, 13, 16)
    BY <1>1, <1>3, SamePartOfSent
  <2>3. ASSUME NEW bytes, Len(bytes) >= 16, Len(bytes) \in Nat
        PROVE  /\ DOMAIN Media(bytes).fields = {"protocol_version", "media_flags", "primary_slot",
                                                "unparsed_trailing_bytes"}
               /\ Media(bytes).fields["primary_slot"] =
                    <<[position_code |-> bytes[6], status_code |-> bytes[7],
                       status |-> IF bytes[7] < 3
                                    THEN <<"absent", "present", "format_required">>[bytes[7] + 1]
                                    ELSE "unknown",
                       reserved_code |-> bytes[8],
                       remaining_shots |-> BigEndian(SubSeq(bytes, 9, 12)),
                       remaining_recording_seconds |-> BigEndian(SubSeq(bytes, 13, 16))]>>
    <3>1. ~(Len(bytes) < 16)
      BY <2>3
    <3>2. QED BY <3>1 DEF Media, Parsed
  <2>4. Len(Sent) >= 16
    BY <1>1, <1>3
  <2>5. Says(Media(value), "primary_slot") = Says(Media(Sent), "primary_slot")
    BY <1>1, <1>3, <2>1, <2>2, <2>3, <2>4 DEF Says
  <2>6. \A f \in (Kept \cup {"batteries"}) \ {"primary_slot"} : Says(Media(value), f) = None
    <3>1. \A f \in (Kept \cup {"batteries"}) \ {"primary_slot"} : f \notin DOMAIN Media(value).fields
      BY <1>1, <1>3, <2>3 DEF Kept, SummaryFields
    <3>2. QED BY <3>1 DEF Says
  <2>7. QED BY <2>5, <2>6 DEF Honest
<1>4. QED BY <1>1, <1>2, <1>3

LEMMA BatteryIsHonest ==
  ASSUME Inv, Len(value) <= Len(Sent)
  PROVE  Honest(Battery(value), Battery(Sent))
<1>1. Len(value) \in Nat /\ Len(Sent) \in Nat
  BY SentIsBytes, ValueIsBytes DEF Inv
<1> DEFINE Level(bytes) == BigEndian(SubSeq(bytes, 11, 14))
<1>2. ASSUME NEW bytes, Len(bytes) \in Nat, Len(bytes) >= 11
      PROVE  /\ DOMAIN Battery(bytes).fields = {"protocol_version", "feature_flags",
                  "battery_group_code", "batteries", "external_power_code", "external_power_state"}
             /\ Len(bytes) < 19 => Battery(bytes).fields["batteries"][1] = <<>>
             /\ Len(bytes) >= 19 =>
                  /\ Battery(bytes).fields["batteries"][1] # <<>>
                  /\ Battery(bytes).fields["batteries"][1][1].remaining_percent = Level(bytes)
  <2> DEFINE size == Len(bytes) - 11
             packs == Packs(bytes)
  <2>1. ~(size < 0)
    BY <1>2
  <2>2. /\ DOMAIN Battery(bytes).fields = {"protocol_version", "feature_flags",
             "battery_group_code", "batteries", "external_power_code", "external_power_state"}
        /\ Battery(bytes).fields["batteries"] = <<packs>>
    BY <2>1 DEF Battery, Packs, Parsed
  <2>3. ASSUME Len(bytes) < 19 PROVE packs = <<>>
    <3>1. size \div 8 = 0
      BY <1>2, <2>3
    <3>2. 1 .. size \div 8 = {}
      BY <3>1
    <3>3. QED BY <3>2 DEF Packs
  <2>4. ASSUME Len(bytes) >= 19
        PROVE  packs # <<>> /\ packs[1].remaining_percent = Level(bytes)
    <3>1. size \div 8 \in Nat /\ size \div 8 >= 1
      BY <1>2, <2>4
    <3>2. 1 \in 1 .. size \div 8
      BY <3>1
    <3>3. 1 \in DOMAIN packs
      BY <3>2 DEF Packs
    <3>4. packs # <<>>
      BY <3>3
    <3>5. packs[1].remaining_percent = BigEndian(SubSeq(bytes, 6 + 8 * (1 - 1) + 5, 6 + 8 * (1 - 1) + 8))
      BY <3>2 DEF Packs
    <3>6. 6 + 8 * (1 - 1) + 5 = 11 /\ 6 + 8 * (1 - 1) + 8 = 14
      OBVIOUS
    <3>7. QED BY <3>4, <3>5, <3>6
  <2> HIDE DEF packs
  <2>5. QED BY <2>2, <2>3, <2>4
<1>3. CASE Len(value) < 11
  <2>1. Len(value) - 11 < 0
    BY <1>1, <1>3
  <2>2. Battery(value).fields = NoFields
    BY <2>1 DEF Battery, Parsed
  <2>3. \A f : Says(Battery(value), f) = None
    BY <2>2 DEF Says, NoFields
  <2>4. QED BY <2>3 DEF Honest
<1>4. CASE Len(value) >= 11
  <2>1. \A f \in Kept : Says(Battery(value), f) = None
    <3>1. \A f \in Kept : f \notin DOMAIN Battery(value).fields
      BY <1>1, <1>2, <1>4 DEF Kept, SummaryFields
    <3>2. QED BY <3>1 DEF Says
  <2>2. Says(Battery(value), "batteries") = Battery(value).fields["batteries"]
    BY <1>1, <1>2, <1>4 DEF Says
  <2>3. CASE Len(value) < 19
    BY <1>1, <1>2, <1>4, <2>1, <2>2, <2>3 DEF Honest
  <2>4. CASE Len(value) >= 19
    <3>1. Len(Sent) >= 19 /\ Len(Sent) >= 11
      BY <1>1, <2>4
    <3>2. Says(Battery(Sent), "batteries") = Battery(Sent).fields["batteries"]
      BY <1>1, <1>2, <3>1 DEF Says
    <3>3. Level(value) = Level(Sent)
      <4>1. SubSeq(value, 11, 14) = SubSeq(Sent, 11, 14)
        BY <1>1, <2>4, SamePartOfSent
      <4>2. QED BY <4>1
    <3> HIDE DEF Level
    <3>4. /\ Says(Battery(Sent), "batteries")[1] # <<>>
          /\ Says(Battery(value), "batteries")[1][1].remaining_percent
               = Says(Battery(Sent), "batteries")[1][1].remaining_percent
      BY <1>1, <1>2, <1>4, <2>2, <2>4, <3>1, <3>2, <3>3
    <3>5. Says(Battery(Sent), "batteries") # None
      <4>1. PICK packs : Battery(Sent).fields["batteries"] = <<packs>>
        <5>1. ~(Len(Sent) - 11 < 0)
          BY <1>1, <3>1
        <5>2. QED BY <5>1 DEF Battery, Parsed
      <4>2. QED BY <3>2, <4>1 DEF None
    <3>6. QED BY <2>1, <3>4, <3>5 DEF Honest
  <2>5. QED BY <1>1, <2>3, <2>4
<1>5. QED BY <1>1, <1>3, <1>4

LEMMA Joined ==
  ASSUME NEW s \in Seq(Nat), NEW t \in Seq(Nat)
  PROVE  /\ s \o t \in Seq(Nat)
         /\ Len(s \o t) = Len(s) + Len(t)
         /\ \A i \in 1 .. Len(s) + Len(t) : (s \o t)[i] = IF i <= Len(s) THEN s[i] ELSE t[i - Len(s)]
BY ConcatProperties

LEMMA SixOrSeven ==
  ASSUME NEW n \in {1, 2} PROVE 5 + n \in {6, 7}
OBVIOUS

LEMMA NoneOfOne ==
  ASSUME NEW n \in Nat, n <= 1, n # 1 PROVE n = 0
OBVIOUS

\* The location feature is sent as parse_dd21_mode wants it.
LEMMA FeatureSent ==
  ASSUME uuid \in Uuids, meaning \in Meanings[uuid], uuid = "dd21"
  PROVE  LocationFeature(Sent).fields =
           [timezone_supported |-> <<Sent[5] = 2>>,
            location_packet_size |-> <<IF Sent[5] = 2 THEN 95 ELSE 91>>,
            feature_flags |-> <<Sent[5]>>]
<1>1. /\ meaning.timezone \in BOOLEAN /\ meaning.rest \in {<<0>>, <<0, 0>>}
      /\ Sent = <<6, 16, 0, 156, IF meaning.timezone THEN 2 ELSE 0>> \o meaning.rest
  BY DecoderAssumption DEF Meant, Sent, Frame
<1> DEFINE flag == IF meaning.timezone THEN 2 ELSE 0
           head == <<6, 16, 0, 156, flag>>
           rest == meaning.rest
<1>2. flag \in {0, 2}
  OBVIOUS
<1>3. /\ head \in Seq(Nat) /\ Len(head) = 5
      /\ head[1] = 6 /\ head[2] = 16 /\ head[3] = 0 /\ head[4] = 156 /\ head[5] \in {0, 2}
  <2> HIDE DEF flag
  <2>1. QED BY <1>2
<1>4. rest \in Seq(Nat) /\ Len(rest) \in {1, 2} /\ \A i \in 1 .. Len(rest) : rest[i] = 0
  <2>1. CASE rest = <<0>>
    BY <2>1
  <2>2. CASE rest = <<0, 0>>
    BY <2>2
  <2>3. QED BY <1>1, <2>1, <2>2
<1>5. Sent = head \o rest
  BY <1>1
<1> HIDE DEF flag, head, rest
<1>6. /\ Sent \in Seq(Nat)
      /\ Len(Sent) = Len(head) + Len(rest)
      /\ \A i \in 1 .. Len(head) + Len(rest) :
           Sent[i] = IF i <= Len(head) THEN head[i] ELSE rest[i - Len(head)]
  <2>1. /\ head \o rest \in Seq(Nat)
        /\ Len(head \o rest) = Len(head) + Len(rest)
        /\ \A i \in 1 .. Len(head) + Len(rest) :
             (head \o rest)[i] = IF i <= Len(head) THEN head[i] ELSE rest[i - Len(head)]
    BY <1>3, <1>4, Joined
  <2>2. QED BY <1>5, <2>1
<1>7. Len(Sent) \in {6, 7}
  <2>1. Len(Sent) = 5 + Len(rest)
    BY <1>3, <1>6
  <2>2. QED BY <1>4, <2>1, SixOrSeven
<1>8. \A i \in 1 .. 5 : Sent[i] = head[i]
  BY <1>3, <1>4, <1>6
<1>9. \A i \in 6 .. Len(Sent) : Sent[i] = 0
  <2> SUFFICES ASSUME NEW i \in 6 .. Len(Sent) PROVE Sent[i] = 0
    OBVIOUS
  <2>1. i \in 1 .. Len(head) + Len(rest) /\ ~(i <= Len(head)) /\ i - Len(head) \in 1 .. Len(rest)
    BY <1>3, <1>4, <1>6
  <2>2. QED BY <1>4, <1>6, <2>1
<1>10. SubSeq(Sent, 1, 4) = <<6, 16, 0, 156>>
  <2> DEFINE s == SubSeq(Sent, 1, 4)
             t == <<6, 16, 0, 156>>
  <2>1. \A i \in 1 .. 4 : Sent[i] \in Nat
    BY <1>6, <1>7, ElementOfSeq
  <2>2. /\ s \in Seq(Nat) /\ Len(s) = 4
        /\ \A i \in 1 .. 4 : s[i] = Sent[1 + i - 1]
    BY <2>1, SubSeqProperties
  <2>3. t \in Seq(Nat) /\ Len(t) = 4 /\ t[1] = 6 /\ t[2] = 16 /\ t[3] = 0 /\ t[4] = 156
    OBVIOUS
  <2> HIDE DEF s, t
  <2>4. \A i \in 1 .. 4 : s[i] = head[i]
    BY <1>8, <2>2
  <2>5. s[1] = t[1] /\ s[2] = t[2] /\ s[3] = t[3] /\ s[4] = t[4]
    BY <1>3, <2>3, <2>4
  <2>6. \A i \in 1 .. Len(s) : s[i] = t[i]
    <3>1. \A i \in 1 .. 4 : i = 1 \/ i = 2 \/ i = 3 \/ i = 4
      OBVIOUS
    <3>2. QED BY <2>2, <2>5, <3>1
  <2>7. Len(s) = Len(t)
    BY <2>2, <2>3
  <2>8. s = t
    BY <2>2, <2>3, <2>6, <2>7, SeqEqual
  <2>9. QED BY <2>8 DEF s, t
<1>11. Sent[5] \in {0, 2}
  BY <1>3, <1>8
<1>12. QED BY <1>7, <1>9, <1>10, <1>11 DEF LocationFeature, Parsed

LEMMA FeatureIsHonest ==
  ASSUME Inv, uuid = "dd21", Len(value) <= Len(Sent)
  PROVE  Honest(LocationFeature(value), LocationFeature(Sent))
<1>1. Len(value) \in Nat /\ Len(Sent) \in Nat
  BY SentIsBytes, ValueIsBytes DEF Inv
<1> DEFINE Known(bytes) == [timezone_supported |-> <<bytes[5] = 2>>,
                            location_packet_size |-> <<IF bytes[5] = 2 THEN 95 ELSE 91>>,
                            feature_flags |-> <<bytes[5]>>]
           Nothing == [timezone_supported |-> None, location_packet_size |-> None]
<1>2. LocationFeature(Sent).fields = Known(Sent)
  BY FeatureSent DEF Inv
<1>3. \/ LocationFeature(value).fields = Nothing
      \/ Len(value) \in {6, 7} /\ LocationFeature(value).fields = Known(value)
  BY DEF LocationFeature, Parsed
<1>4. CASE LocationFeature(value).fields = Nothing
  <2>1. /\ DOMAIN Nothing = {"timezone_supported", "location_packet_size"}
        /\ Nothing["timezone_supported"] = None /\ Nothing["location_packet_size"] = None
    OBVIOUS
  <2>2. \A f \in DOMAIN Nothing : Nothing[f] = None
    BY <2>1
  <2>3. \A f \in Kept \cup {"batteries"} : Says(LocationFeature(value), f) = None
    BY <1>4, <2>2 DEF Says
  <2>4. QED BY <2>3 DEF Honest
<1>5. CASE Len(value) \in {6, 7} /\ LocationFeature(value).fields = Known(value)
  <2>1. value[5] = Sent[5]
    BY <1>1, <1>5, ValueIsBytes
  <2>2. LocationFeature(value).fields = LocationFeature(Sent).fields
    BY <1>2, <1>5, <2>1
  <2>3. \A f \in Kept : Says(LocationFeature(value), f) = Says(LocationFeature(Sent), f)
    BY <2>2 DEF Says
  <2>4. Says(LocationFeature(value), "batteries") = None
    BY <1>5 DEF Says
  <2>5. QED BY <2>3, <2>4 DEF Honest
<1>6. QED BY <1>3, <1>4, <1>5

\* A setting is the only byte of its frame.
LEMMA SettingIsHonest ==
  ASSUME Inv, uuid \in {"dd30", "dd31", "dd32", "dd33"}, Len(value) <= Len(Sent), value # Sent,
         NEW field
  PROVE  Honest(SingleBool(value, field), SingleBool(Sent, field))
<1>1. Len(value) \in Nat /\ Len(Sent) \in Nat
  BY SentIsBytes, ValueIsBytes DEF Inv
<1>2. Len(Sent) = 1
  BY DEF Sent, Frame
<1>3. Len(value) = 0
  <2>1. Len(value) # Len(Sent)
    BY ValueIsBytes
  <2>2. Len(value) <= 1 /\ Len(value) # 1
    BY <1>2, <2>1
  <2>3. QED BY <1>1, <2>2, NoneOfOne
<1>4. SingleBool(value, field).fields = With(Field(field, None), NoFields)
  BY <1>3 DEF SingleBool, Parsed
<1>5. \A f : Says(SingleBool(value, field), f) = None
  BY <1>4 DEF Says, With, Field, NoFields
<1>6. QED BY <1>5 DEF Honest

\* All of it, decoder by decoder.
LEMMA CutIsHonest ==
  ASSUME Inv, Len(value) <= Len(Sent), value # Sent
  PROVE  Honest(Decoded(uuid, value), Decoded(uuid, Sent))
<1>1. CASE uuid = "cc09"
  BY <1>1, StatusIsHonest DEF Decoded
<1>2. CASE uuid = "cc0f"
  BY <1>2, MediaIsHonest DEF Decoded
<1>3. CASE uuid = "cc10"
  BY <1>3, BatteryIsHonest DEF Decoded
<1>4. CASE uuid = "dd21"
  BY <1>4, FeatureIsHonest DEF Decoded
<1>5. CASE uuid \in {"dd30", "dd31", "dd32", "dd33"}
  <2>1. PICK field : /\ Decoded(uuid, value) = SingleBool(value, field)
                     /\ Decoded(uuid, Sent) = SingleBool(Sent, field)
    BY <1>5 DEF Decoded
  <2>2. QED BY <1>5, <2>1, SettingIsHonest
<1>6. CASE uuid \notin {"cc09", "cc0f", "cc10", "dd21", "dd30", "dd31", "dd32", "dd33"}
  <2>1. DOMAIN Decoded(uuid, value).fields \cap (Kept \cup {"batteries"}) = {}
    BY <1>6, NothingKept
  <2>2. \A f \in Kept \cup {"batteries"} : Says(Decoded(uuid, value), f) = None
    BY <2>1 DEF Says
  <2>3. QED BY <2>2 DEF Honest
<1>7. QED BY <1>1, <1>2, <1>3, <1>4, <1>5, <1>6

\* However little of a frame arrives, what the summary then says of the camera's
\* status, media, first battery and location settings it says of the whole frame
\* (_parse_length_tagged_records, _decode_media, _decode_battery, snapshot_summary).
THEOREM NothingFalseShown == Spec => []CutShowsNothingFalse
<1>1. Inv => CutShowsNothingFalse
  <2> DEFINE whole == DecodeCharacteristic(uuid, Sent, "none")
             shown == Summary(<<Reading>>)
             meant == Summary(<<whole>>)
  <2> SUFFICES ASSUME Inv, Len(value) <= Len(Sent),
                      NEW f \in DOMAIN shown \ {"external_power_state", "model",
                                                "firmware_version"}
               PROVE  shown[f] \in {None, meant[f]}
    BY DEF CutShowsNothingFalse
  <2>1. f \in Kept \/ f = "battery_percent"
    BY SummaryOfOne DEF Kept
  <2>2. ASSUME NEW g PROVE Says(whole, g) = Says(Decoded(uuid, Sent), g)
    BY DEF DecodeCharacteristic, Says
  <2>3. CASE error # "none"
    <3>1. Reading.fields = NoFields
      BY <2>3 DEF Reading, DecodeCharacteristic
    <3>2. \A g : Says(Reading, g) = None
      BY <3>1 DEF Says, NoFields
    <3> HIDE DEF whole
    <3>3. shown[f] = None
      BY <2>1, <3>2, SummaryOfOne DEF Kept
    <3>4. QED BY <3>3
  <2>4. CASE error = "none" /\ value = Sent
    BY <2>4 DEF Reading
  <2>5. CASE error = "none" /\ value # Sent
    <3>1. Honest(Decoded(uuid, value), Decoded(uuid, Sent))
      BY <2>5, CutIsHonest
    <3>2. ASSUME NEW g PROVE Says(Reading, g) = Says(Decoded(uuid, value), g)
      BY <2>5 DEF Reading, DecodeCharacteristic, Says
    <3> HIDE DEF whole
    <3>3. Honest(Reading, whole)
      BY <2>2, <3>1, <3>2 DEF Honest
    <3>4. CASE f \in Kept
      BY <3>3, <3>4, SummaryOfOne DEF Honest, Kept
    <3>5. CASE f = "battery_percent"
      <4> DEFINE a == Says(Reading, "batteries")
                 b == Says(whole, "batteries")
      <4>1. shown[f] = IF a = None \/ a[1] = <<>> THEN None ELSE <<a[1][1].remaining_percent>>
        BY <3>5, SummaryOfOne
      <4>2. meant[f] = IF b = None \/ b[1] = <<>> THEN None ELSE <<b[1][1].remaining_percent>>
        BY <3>5, SummaryOfOne
      <4>3. \/ a = None \/ a[1] = <<>>
            \/ b # None /\ b[1] # <<>> /\ a[1][1].remaining_percent = b[1][1].remaining_percent
        BY <3>3 DEF Honest
      <4> HIDE DEF a, b, shown, meant
      <4>4. QED BY <4>1, <4>2, <4>3
    <3>6. QED BY <2>1, <3>4, <3>5
  <2>6. QED BY <2>3, <2>4, <2>5
<1>2. QED BY <1>1, ArrivesCutOrExtended, PTL

-----------------------------------------------------------------------------
(* Where the records of a camera status are in its frame.                  *)

StatusRecord == [tag : Short, payload : Text]

\* The records as they are sent, and where the first n of them end.
Sendings == [i \in DOMAIN meaning |-> Record(meaning[i])]
End(n) == Len(Flat(Sendings, n))

LEMMA RecordBytes ==
  ASSUME NEW r \in StatusRecord
  PROVE  /\ Record(r) \in Seq(Nat)
         /\ Len(r.payload) \in Nat
         /\ Len(Record(r)) = Len(r.payload) + 3
         /\ Record(r)[1] = Len(r.payload) + 2
         /\ Record(r)[2] = BE2(r.tag)[1] /\ Record(r)[3] = BE2(r.tag)[2]
         /\ \A i \in 1 .. Len(r.payload) : Record(r)[i + 3] = r.payload[i]
<1> DEFINE size == <<Len(r.payload) + 2>>
           tag == BE2(r.tag)
           payload == r.payload
<1>1. payload \in Seq(Nat) /\ Len(payload) \in Nat
  <2>1. payload \in Seq(Byte) /\ Byte \subseteq Nat
    BY DEF StatusRecord, Text, Byte
  <2> HIDE DEF payload
  <2>2. payload \in Seq(Nat)
    BY <2>1, SeqMonotonic
  <2>3. QED BY <2>2
<1>2. tag \in Seq(Nat) /\ Len(tag) = 2
  BY FourBytes DEF StatusRecord
<1>3. size \in Seq(Nat) /\ Len(size) = 1 /\ size[1] = Len(payload) + 2
  BY <1>1
<1>4. Record(r) = (size \o tag) \o payload
  BY DEF Record
<1>5. r.payload = payload /\ BE2(r.tag) = tag
  OBVIOUS
<1> HIDE DEF size, tag, payload
<1>6. /\ size \o tag \in Seq(Nat) /\ Len(size \o tag) = Len(size) + Len(tag)
      /\ \A i \in 1 .. Len(size) + Len(tag) :
           (size \o tag)[i] = IF i <= Len(size) THEN size[i] ELSE tag[i - Len(size)]
  BY <1>2, <1>3, Joined
<1> DEFINE head == size \o tag
<1>7. head \in Seq(Nat) /\ Len(head) = 3
      /\ head[1] = size[1] /\ head[2] = tag[1] /\ head[3] = tag[2]
  BY <1>2, <1>3, <1>6
<1> HIDE DEF head
<1>8. /\ head \o payload \in Seq(Nat) /\ Len(head \o payload) = Len(head) + Len(payload)
      /\ \A i \in 1 .. Len(head) + Len(payload) :
           (head \o payload)[i] = IF i <= Len(head) THEN head[i] ELSE payload[i - Len(head)]
  BY <1>1, <1>7, Joined
<1>9. \A i \in 1 .. Len(payload) : i + 3 \in 1 .. Len(head) + Len(payload) /\ ~(i + 3 <= Len(head))
                                   /\ (i + 3) - Len(head) = i
  BY <1>1, <1>7
<1>10. /\ (head \o payload)[1] = head[1] /\ (head \o payload)[2] = head[2]
       /\ (head \o payload)[3] = head[3]
       /\ \A i \in 1 .. Len(payload) : (head \o payload)[i + 3] = payload[i]
  <2>1. \A i \in 1 .. Len(payload) : (head \o payload)[i + 3] = payload[(i + 3) - Len(head)]
    BY <1>8, <1>9
  <2>2. \A i \in 1 .. Len(payload) : (head \o payload)[i + 3] = payload[i]
    BY <1>9, <2>1
  <2>3. /\ (head \o payload)[1] = head[1] /\ (head \o payload)[2] = head[2]
        /\ (head \o payload)[3] = head[3]
    BY <1>1, <1>7, <1>8
  <2>4. QED BY <2>2, <2>3
<1>11. Record(r) = head \o payload
  BY <1>4 DEF head
<1>12. QED BY <1>1, <1>3, <1>5, <1>7, <1>8, <1>10, <1>11

LEMMA StatusFrame ==
  ASSUME uuid \in Uuids, meaning \in Meanings[uuid], uuid = "cc09"
  PROVE  /\ meaning \in Seq(StatusRecord) /\ Len(meaning) \in Nat
         /\ Sendings \in Seq(Seq(Nat)) /\ Len(Sendings) = Len(meaning)
         /\ \A i \in 1 .. Len(meaning) : Sendings[i] = Record(meaning[i])
         /\ Sent = Flat(Sendings, Len(meaning))
         /\ \A n \in 0 .. Len(meaning) : Frame("cc09", SubSeq(meaning, 1, n)) = Flat(Sendings, n)
<1>1. meaning \in Seq(StatusRecord)
  BY DecoderAssumption DEF Meant, StatusRecord
<1>2. Len(meaning) \in Nat /\ DOMAIN meaning = 1 .. Len(meaning)
  BY <1>1
<1>3. \A i \in 1 .. Len(meaning) : meaning[i] \in StatusRecord /\ Record(meaning[i]) \in Seq(Nat)
  BY <1>1, RecordBytes
<1>4. Sendings \in [1 .. Len(meaning) -> Seq(Nat)]
  BY <1>2, <1>3 DEF Sendings
<1>5. Sendings \in Seq(Seq(Nat)) /\ Len(Sendings) = Len(meaning)
  BY <1>2, <1>4, FunctionIsSequence
<1>6. \A i \in 1 .. Len(meaning) : Sendings[i] = Record(meaning[i])
  BY <1>2 DEF Sendings
<1>7. \A m : Frame("cc09", m) = FlattenSeq([i \in DOMAIN m |-> Record(m[i])])
  BY DEF Frame
<1>8. ASSUME NEW n \in 0 .. Len(meaning)
      PROVE  Frame("cc09", SubSeq(meaning, 1, n)) = Flat(Sendings, n)
  <2> DEFINE m == SubSeq(meaning, 1, n)
             s == [i \in DOMAIN m |-> Record(m[i])]
             t == SubSeq(Sendings, 1, n)
  <2>1. /\ m \in Seq(StatusRecord) /\ Len(m) = n
        /\ \A i \in 1 .. n : m[i] = meaning[i]
    <3>1. \A i \in 1 .. n : meaning[i] \in StatusRecord
      BY <1>2, <1>3
    <3>2. QED BY <3>1, SubSeqProperties
  <2>2. /\ t \in Seq(Seq(Nat)) /\ Len(t) = n
        /\ \A i \in 1 .. n : t[i] = Sendings[i]
    <3>1. \A i \in 1 .. n : Sendings[i] \in Seq(Nat)
      BY <1>2, <1>3, <1>6
    <3>2. QED BY <3>1, SubSeqProperties
  <2>3. DOMAIN m = 1 .. n
    <3> HIDE DEF m
    <3>1. QED BY <2>1
  <2>4. \A i \in 1 .. n : i \in 1 .. Len(meaning)
    BY <1>2
  <2> HIDE DEF m, t
  <2>5. s \in [1 .. n -> Seq(Nat)] /\ \A i \in 1 .. n : s[i] = t[i]
    BY <1>3, <1>6, <2>1, <2>2, <2>3, <2>4
  <2> HIDE DEF s
  <2>6. s \in Seq(Seq(Nat)) /\ Len(s) = n
    BY <2>5, FunctionIsSequence
  <2>7. s = t
    BY <2>2, <2>5, <2>6, SeqEqual
  <2>8. QED BY <1>7, <2>7 DEF Flat, m, s, t
<1>9. SubSeq(meaning, 1, Len(meaning)) = meaning
  BY <1>1, SubSeqFull
<1>10. Sent = Flat(Sendings, Len(meaning))
  <2>1. Len(meaning) \in 0 .. Len(meaning)
    BY <1>2
  <2>2. Sent = Frame("cc09", meaning)
    BY DEF Sent
  <2>3. QED BY <1>8, <1>9, <2>1, <2>2
<1>11. QED BY <1>1, <1>2, <1>5, <1>6, <1>8, <1>10

\* One record after the other.
LEMMA RecordsInPlace ==
  ASSUME uuid \in Uuids, meaning \in Meanings[uuid], uuid = "cc09"
  PROVE  /\ End(0) = 0
         /\ End(Len(meaning)) = Len(Sent)
         /\ \A n \in 0 .. Len(meaning) : End(n) \in Nat /\ End(n) <= Len(Sent)
         /\ \A n \in 0 .. Len(meaning) : Flat(Sendings, n) = SubSeq(Sent, 1, End(n))
         /\ \A n \in 0 .. Len(meaning) - 1 :
              /\ Len(meaning[n + 1].payload) \in Nat
              /\ End(n + 1) = End(n) + Len(meaning[n + 1].payload) + 3
              /\ \A i \in 1 .. Len(meaning[n + 1].payload) + 3 :
                   Sent[End(n) + i] = Record(meaning[n + 1])[i]
<1> DEFINE N == Len(meaning)
<1>1. /\ meaning \in Seq(StatusRecord) /\ N \in Nat
      /\ Sendings \in Seq(Seq(Nat)) /\ Len(Sendings) = N
      /\ \A i \in 1 .. N : Sendings[i] = Record(meaning[i])
      /\ Sent = Flat(Sendings, N)
  BY StatusFrame
<1>2. End(0) = 0 /\ End(N) = Len(Sent)
  <2>1. Flat(Sendings, 0) = <<>>
    BY FlatStart
  <2>2. QED BY <1>1, <2>1 DEF End
<1>3. /\ \A n \in 0 .. N : Flat(Sendings, n) \in Seq(Nat) /\ End(n) \in Nat
      /\ \A n \in 0 .. N : /\ End(n) <= Len(Sent)
                           /\ \A i \in 1 .. End(n) : Sent[i] = Flat(Sendings, n)[i]
  <2>1. \A n \in 0 .. N : Flat(Sendings, n) \in Seq(Nat)
    BY <1>1, FlatBegins
  <2>2. N \in 0 .. Len(Sendings)
    BY <1>1
  <2>3. \A n \in 0 .. N : /\ Len(Flat(Sendings, n)) <= Len(Flat(Sendings, N))
                          /\ \A i \in 1 .. Len(Flat(Sendings, n)) :
                               Flat(Sendings, N)[i] = Flat(Sendings, n)[i]
    BY <1>1, <2>2, FlatBegins
  <2>4. QED BY <1>1, <2>1, <2>3 DEF End
<1>4. ASSUME NEW n \in 0 .. N PROVE Flat(Sendings, n) = SubSeq(Sent, 1, End(n))
  <2> DEFINE s == Flat(Sendings, n)
             t == SubSeq(Sent, 1, End(n))
  <2>1. s \in Seq(Nat) /\ Len(s) = End(n) /\ \A i \in 1 .. End(n) : Sent[i] = s[i]
    BY <1>3 DEF End
  <2>2. End(n) \in Nat
    BY <1>3
  <2>3. \A i \in 1 .. End(n) : Sent[i] \in Nat
    BY <2>1
  <2>4. t \in Seq(Nat) /\ Len(t) = End(n) /\ \A i \in 1 .. End(n) : t[i] = Sent[i]
    BY <2>2, <2>3, SubSeqProperties
  <2> HIDE DEF s, t
  <2>5. s = t
    BY <2>1, <2>4, SeqEqual
  <2>6. QED BY <2>5 DEF s, t
<1>5. ASSUME NEW n \in 0 .. N - 1
      PROVE  /\ Len(meaning[n + 1].payload) \in Nat
             /\ End(n + 1) = End(n) + Len(meaning[n + 1].payload) + 3
             /\ \A i \in 1 .. Len(meaning[n + 1].payload) + 3 :
                  Sent[End(n) + i] = Record(meaning[n + 1])[i]
  <2>1. n \in Nat /\ n < N /\ n + 1 \in 1 .. N /\ n \in 0 .. N /\ n + 1 \in 0 .. N
    BY <1>1
  <2> DEFINE r == meaning[n + 1]
             a == Flat(Sendings, n)
             b == Record(r)
             size == Len(r.payload)
  <2>2. r \in StatusRecord
    BY <1>1, <2>1
  <2>3. b \in Seq(Nat) /\ size \in Nat /\ Len(b) = size + 3
    BY <2>2, RecordBytes
  <2>4. Flat(Sendings, n + 1) = a \o b
    BY <1>1, <2>1, FlatNext
  <2>5. a \in Seq(Nat) /\ Len(a) = End(n) /\ End(n) \in Nat
    BY <1>3, <2>1 DEF End
  <2> HIDE DEF r, a, b, size
  <2>6. /\ a \o b \in Seq(Nat) /\ Len(a \o b) = Len(a) + Len(b)
        /\ \A i \in 1 .. Len(a) + Len(b) :
             (a \o b)[i] = IF i <= Len(a) THEN a[i] ELSE b[i - Len(a)]
    BY <2>3, <2>5, Joined
  <2>7. End(n + 1) = End(n) + size + 3
    BY <2>3, <2>4, <2>5, <2>6 DEF End
  <2>8. ASSUME NEW i \in 1 .. size + 3 PROVE Sent[End(n) + i] = b[i]
    <3>1. /\ End(n) + i \in 1 .. Len(a) + Len(b) /\ ~(End(n) + i <= Len(a))
          /\ (End(n) + i) - Len(a) = i /\ End(n) + i \in 1 .. End(n + 1)
      BY <2>3, <2>5, <2>7
    <3>2. (a \o b)[End(n) + i] = b[i]
      BY <2>6, <3>1
    <3>3. Sent[End(n) + i] = Flat(Sendings, n + 1)[End(n) + i]
      BY <1>3, <2>1, <3>1
    <3>4. QED BY <2>4, <3>2, <3>3
  <2>9. QED BY <2>3, <2>7, <2>8 DEF r, b, size
<1>6. QED BY <1>2, <1>3, <1>4, <1>5

\* The records are whole or not.
LEMMA WholeOrNot ==
  ASSUME NEW bytes \in Seq(Nat)
  PROVE  Records(bytes).whole \in BOOLEAN
<1> DEFINE N == Len(bytes) + 1
<1>1. Len(bytes) \in Nat
  OBVIOUS
<1>2. PICK f : /\ f = [i \in 1 .. Len(bytes) + 1 |-> ParseStep(bytes, f, i)]
               /\ Records(bytes) = f[1]
  BY RecordsAreParsed
<1> DEFINE P == {i \in 1 .. N : f[i].whole \in BOOLEAN}
<1>3. ASSUME NEW i \in 1 .. N, \A j \in i + 1 .. N : j \in P PROVE i \in P
  <2>1. CASE IsRecordAt(bytes, i)
    <3>1. /\ f[i].whole = f[i + bytes[i] + 1].whole
          /\ i + bytes[i] + 1 \in i + 1 .. N
      BY <1>2, <2>1, ParsedAt
    <3>2. f[i + bytes[i] + 1].whole \in BOOLEAN
      BY <1>3, <3>1
    <3>3. QED BY <3>1, <3>2
  <2>2. CASE ~IsRecordAt(bytes, i)
    <3>1. f[i].whole \in {TRUE, FALSE}
      BY <1>2, <2>2, ParsedAt
    <3>2. QED BY <3>1
  <2>3. QED BY <2>1, <2>2
<1>4. 1 .. N \subseteq P
  <2>1. N \in Nat
    BY <1>1
  <2> HIDE DEF P, N
  <2>2. QED BY <1>3, <2>1, DownwardInduction
<1>5. QED BY <1>1, <1>2, <1>4

\* Where a record is sent, and all of it arrives, one is found.
LEMMA RecordFound ==
  ASSUME Inv, uuid = "cc09", NEW n \in 0 .. Len(meaning) - 1
  PROVE  /\ Len(value) > End(n) => value[End(n) + 1] = Len(meaning[n + 1].payload) + 2
         /\ IsRecordAt(value, End(n) + 1) <=> End(n + 1) <= Len(value)
<1> DEFINE e == End(n)
           k == Len(meaning[n + 1].payload)
<1>1. /\ uuid \in Uuids /\ meaning \in Meanings[uuid]
      /\ Len(meaning) \in Nat
  BY StatusFrame DEF Inv
<1>2. n \in 0 .. Len(meaning) /\ n + 1 \in 0 .. Len(meaning)
  BY <1>1
<1>3. /\ e \in Nat /\ k \in Nat /\ End(n + 1) = e + k + 3 /\ End(n + 1) <= Len(Sent)
      /\ \A i \in 1 .. k + 3 : Sent[e + i] = Record(meaning[n + 1])[i]
  BY <1>1, <1>2, RecordsInPlace
<1>4. Record(meaning[n + 1])[1] = k + 2
  <2>1. meaning[n + 1] \in StatusRecord
    <3>1. meaning \in Seq(StatusRecord)
      BY <1>1, StatusFrame
    <3>2. n + 1 \in 1 .. Len(meaning)
      BY <1>1
    <3>3. QED BY <3>1, <3>2, ElementOfSeq
  <2>2. QED BY <2>1, RecordBytes
<1>5. Sent[e + 1] = k + 2
  <2>1. 1 \in 1 .. k + 3
    BY <1>3
  <2>2. QED BY <1>3, <1>4, <2>1
<1>6. Len(value) \in Nat /\ Len(Sent) \in Nat
  BY <1>1, SentIsBytes, ValueIsBytes
<1>7. Len(value) > e => value[e + 1] = k + 2
  <2>1. SUFFICES ASSUME Len(value) > e PROVE value[e + 1] = k + 2
    OBVIOUS
  <2>2. e + 1 \in 1 .. Len(value) /\ e + 1 <= Len(Sent)
    BY <1>3, <1>6, <2>1
  <2>3. value[e + 1] = Sent[e + 1]
    BY <2>2, ValueIsBytes
  <2>4. QED BY <1>5, <2>3
<1> HIDE DEF e, k
<1>8. IsRecordAt(value, e + 1) <=> End(n + 1) <= Len(value)
  <2>1. ASSUME IsRecordAt(value, e + 1) PROVE End(n + 1) <= Len(value)
    <3>1. e + 1 <= Len(value) /\ (e + 1) + value[e + 1] <= Len(value)
      BY <2>1 DEF IsRecordAt
    <3>2. value[e + 1] = k + 2
      BY <1>3, <1>6, <1>7, <3>1
    <3>3. QED BY <1>3, <1>6, <3>1, <3>2
  <2>2. ASSUME End(n + 1) <= Len(value) PROVE IsRecordAt(value, e + 1)
    <3>1. e + 1 <= Len(value) /\ Len(value) > e
      BY <1>3, <1>6, <2>2
    <3>2. value[e + 1] = k + 2
      BY <1>7, <3>1
    <3>3. (e + 1) + (k + 2) <= Len(value) /\ k + 2 >= 2
      BY <1>3, <1>6, <2>2
    <3>4. QED BY <3>1, <3>2, <3>3 DEF IsRecordAt
  <2>3. QED BY <2>1, <2>2
<1>9. QED BY <1>7, <1>8 DEF e, k

\* A status whose records are whole ends where one of them does.
LEMMA WholeEndsWithRecord ==
  ASSUME Inv, uuid = "cc09", Records(value).whole = TRUE
  PROVE  \E n \in 0 .. Len(meaning) : Len(value) = End(n)
<1> DEFINE N == Len(meaning)
<1>1. /\ uuid \in Uuids /\ meaning \in Meanings[uuid] /\ N \in Nat
  BY StatusFrame DEF Inv
<1>2. /\ value \in Seq(Nat) /\ Len(value) \in Nat /\ Len(Sent) \in Nat
  <2>1. value \in Seq(Byte) /\ Byte \subseteq Nat
    BY ValueIsBytes DEF Byte
  <2>2. value \in Seq(Nat)
    BY <2>1, SeqMonotonic
  <2>3. QED BY <1>1, <2>2, SentIsBytes
<1>3. PICK f : /\ f = [i \in 1 .. Len(value) + 1 |-> ParseStep(value, f, i)]
               /\ Records(value) = f[1]
  BY <1>2, RecordsAreParsed
<1> DEFINE Claim(n) == Len(value) >= End(n) /\ f[End(n) + 1].whole = TRUE
                         => \E k \in 0 .. N : Len(value) = End(k)
           P == {i \in 1 .. N + 1 : Claim(i - 1)}
<1>4. \A n \in 0 .. N : End(n) \in Nat /\ End(n) <= Len(Sent)
  BY <1>1, RecordsInPlace
<1>5. ASSUME NEW i \in 1 .. N + 1, \A j \in i + 1 .. N + 1 : j \in P PROVE i \in P
  <2> DEFINE n == i - 1
  <2>1. n \in 0 .. N
    BY <1>1
  <2> SUFFICES ASSUME Len(value) >= End(n), f[End(n) + 1].whole = TRUE
               PROVE  \E k \in 0 .. N : Len(value) = End(k)
    OBVIOUS
  <2> HIDE DEF n
  <2>2. CASE Len(value) = End(n)
    BY <2>1, <2>2
  <2>3. CASE Len(value) > End(n)
    <3>1. End(n) + 1 \in 1 .. Len(value) + 1 /\ End(n) + 1 # Len(value) + 1
      BY <1>2, <1>4, <2>1, <2>3
    <3>2. IsRecordAt(value, End(n) + 1)
      <4>1. SUFFICES ASSUME ~IsRecordAt(value, End(n) + 1) PROVE FALSE
        OBVIOUS
      <4>2. f[End(n) + 1].whole = FALSE
        BY <1>2, <1>3, <3>1, <4>1, ParsedAt
      <4>3. QED BY <4>2
    <3>3. CASE n = N
      <4>1. End(n) = Len(Sent)
        BY <1>1, <3>3, RecordsInPlace
      <4>2. PICK byte \in Byte : value = Append(Sent, byte)
        BY <1>2, <2>3, <4>1, ValueIsBytes
      <4>3. Len(value) = Len(Sent) + 1
        BY <1>1, <4>2, SentIsBytes, AppendProperties
      <4>4. value[End(n) + 1] >= 2 /\ (End(n) + 1) + value[End(n) + 1] <= Len(value)
        BY <3>2 DEF IsRecordAt
      <4>5. value[End(n) + 1] \in Nat
        <5>1. End(n) + 1 \in 1 .. Len(value)
          BY <1>2, <3>1
        <5>2. QED BY <1>2, <5>1, ElementOfSeq
      <4>6. QED BY <1>2, <4>1, <4>3, <4>4, <4>5
    <3>4. CASE n # N
      <4>1. n \in 0 .. N - 1 /\ n + 1 \in 0 .. N /\ n + 2 \in i + 1 .. N + 1 /\ (n + 2) - 1 = n + 1
        BY <1>1, <2>1, <3>4 DEF n
      <4>2. End(n + 1) <= Len(value) /\ value[End(n) + 1] = Len(meaning[n + 1].payload) + 2
        BY <2>3, <3>2, <4>1, RecordFound
      <4>3. /\ End(n + 1) = End(n) + Len(meaning[n + 1].payload) + 3
            /\ Len(meaning[n + 1].payload) \in Nat
        BY <1>1, <4>1, RecordsInPlace
      <4>4. End(n) \in Nat /\ End(n + 1) \in Nat
        BY <1>4, <2>1, <4>1
      <4>5. (End(n) + 1) + value[End(n) + 1] + 1 = End(n + 1) + 1
        <5>1. \A e, k \in Nat : (e + 1) + (k + 2) + 1 = (e + k + 3) + 1
          OBVIOUS
        <5>2. QED BY <4>2, <4>3, <4>4, <5>1
      <4>6. f[End(n) + 1].whole = f[(End(n) + 1) + value[End(n) + 1] + 1].whole
        BY <1>2, <1>3, <3>1, <3>2, ParsedAt
      <4>7. f[End(n + 1) + 1].whole = TRUE
        BY <4>5, <4>6
      <4>8. n + 2 \in P
        BY <1>5, <4>1
      <4>9. Claim(n + 1)
        BY <4>1, <4>8
      <4>10. QED BY <1>2, <4>2, <4>4, <4>7, <4>9
    <3>5. QED BY <3>3, <3>4
  <2>4. QED BY <1>2, <1>4, <2>1, <2>2, <2>3
<1>6. Claim(0)
  <2> HIDE DEF Claim
  <2>1. 1 .. N + 1 \subseteq P
    <3> HIDE DEF P
    <3>1. N + 1 \in Nat
      BY <1>1
    <3>2. QED BY <1>5, <3>1, DownwardInduction
  <2>2. 1 \in P
    <3> HIDE DEF P
    <3>1. 1 \in 1 .. N + 1
      BY <1>1
    <3>2. QED BY <2>1, <3>1
  <2>3. 1 - 1 = 0
    OBVIOUS
  <2>4. QED BY <2>2, <2>3
<1>7. End(0) = 0 /\ Len(value) >= End(0) /\ f[End(0) + 1].whole = TRUE
  <2>1. End(0) = 0
    BY <1>1, RecordsInPlace
  <2>2. f[1].whole = TRUE
    BY <1>3
  <2>3. QED BY <1>2, <2>1, <2>2
<1>8. QED BY <1>6, <1>7

\* A frame of the wrong length passes for decoded only where none is declared:
\* a text without a frame, of which no more than the length may look like one,
\* and a camera status that lost whole records (_framed_payload,
\* _optional_framed_ascii, _parse_length_tagged_records, _single_bool).
THEOREM WrongLengthIsNoticed == Spec => []WrongLengthNoticed
<1>1. Inv => WrongLengthNoticed
  <2> SUFFICES ASSUME Inv, error = "none", value # Sent, Reading.status = "decoded"
               PROVE  /\ uuid \notin {"cc03", "cc10", "cc11", "cc40", "dd30", "dd31", "dd32", "dd33"}
                      /\ uuid \in {"cc06", "cc07"} => RStrip(value) = <<Head(value)>>
                      /\ uuid = "cc09" => \E n \in 0 .. Len(meaning) - 1 :
                                            value = Frame("cc09", SubSeq(meaning, 1, n))
    BY DEF WrongLengthNoticed
  <2>1. Decoded(uuid, value).status = "decoded"
    BY DEF Reading, DecodeCharacteristic
  <2>2. ASSUME uuid = "cc09"
        PROVE  \E n \in 0 .. Len(meaning) - 1 : value = Frame("cc09", SubSeq(meaning, 1, n))
    <3>1. uuid \in Uuids /\ meaning \in Meanings[uuid] /\ Len(meaning) \in Nat
      BY <2>2, StatusFrame DEF Inv
    <3>2. CameraStatus(value).status = "decoded"
      BY <2>1, <2>2 DEF Decoded
    <3>3. Records(value).whole
      BY <3>2, StatusWarns
    <3>4. Records(value).whole = TRUE
      <4>1. value \in Seq(Nat)
        <5>1. value \in Seq(Byte) /\ Byte \subseteq Nat
          BY ValueIsBytes DEF Byte
        <5>2. QED BY <5>1, SeqMonotonic
      <4>2. Records(value).whole \in BOOLEAN
        BY <4>1, WholeOrNot
      <4>3. QED BY <3>3, <4>2
    <3>5. PICK n \in 0 .. Len(meaning) : Len(value) = End(n)
      BY <2>2, <3>4, WholeEndsWithRecord
    <3>6. n # Len(meaning)
      <4>1. End(Len(meaning)) = Len(Sent)
        BY <2>2, <3>1, RecordsInPlace
      <4>2. Len(value) # Len(Sent)
        BY ValueIsBytes
      <4>3. QED BY <3>5, <4>1, <4>2
    <3>7. value = SubSeq(Sent, 1, End(n))
      <4>1. Len(value) <= Len(Sent)
        BY <2>2, <3>1, <3>5, RecordsInPlace
      <4>2. value = Beginning(Len(value))
        BY <4>1, ValueIsBytes
      <4>3. QED BY <3>5, <4>2 DEF Beginning
    <3>8. SubSeq(Sent, 1, End(n)) = Flat(Sendings, n)
      BY <2>2, <3>1, RecordsInPlace
    <3>9. Frame("cc09", SubSeq(meaning, 1, n)) = Flat(Sendings, n)
      BY <2>2, <3>1, StatusFrame
    <3>10. n \in 0 .. Len(meaning) - 1
      BY <3>1, <3>6
    <3>11. QED BY <3>7, <3>8, <3>9, <3>10
  <2>3. QED BY <2>1, <2>2, WrongLengthPartial, OnlyLengthLeft
<1>2. QED BY <1>1, ArrivesCutOrExtended, PTL
-----------------------------------------------------------------------------
(* Numbers.                                                                *)

NumberStep(bytes, f, i) == IF i = 0 THEN 0 ELSE 256 * f[i - 1] + bytes[i]

LEMMA NumbersExist ==
  ASSUME NEW bytes, NEW n \in Nat
  PROVE  \E f : f = [i \in 0 .. n |-> NumberStep(bytes, f, i)]
<1> DEFINE P == {k \in Nat : \E f : f = [i \in 0 .. k |-> NumberStep(bytes, f, i)]}
<1>1. 0 \in P
  <2> DEFINE f == [i \in 0 .. 0 |-> 0]
  <2>1. \A i \in 0 .. 0 : NumberStep(bytes, f, i) = 0
    BY DEF NumberStep
  <2>2. f = [i \in 0 .. 0 |-> NumberStep(bytes, f, i)]
    BY <2>1
  <2>3. \E h : h = [i \in 0 .. 0 |-> NumberStep(bytes, h, i)]
    <3> HIDE DEF f
    <3>1. QED BY <2>2
  <2>4. QED BY <2>3
<1>2. ASSUME NEW k \in Nat, k \in P PROVE k + 1 \in P
  <2>1. PICK g : g = [i \in 0 .. k |-> NumberStep(bytes, g, i)]
    BY <1>2
  <2> DEFINE f == [i \in 0 .. k + 1 |-> IF i = k + 1 THEN NumberStep(bytes, g, i) ELSE g[i]]
  <2>2. ASSUME NEW i \in 0 .. k + 1 PROVE f[i] = NumberStep(bytes, f, i)
    <3>1. i > 0 => f[i - 1] = g[i - 1]
      OBVIOUS
    <3>2. NumberStep(bytes, f, i) = NumberStep(bytes, g, i)
      BY <3>1 DEF NumberStep
    <3>3. i # k + 1 => g[i] = NumberStep(bytes, g, i)
      <4> HIDE DEF f
      <4>1. i # k + 1 => i \in 0 .. k
        OBVIOUS
      <4>2. QED BY <2>1, <4>1
    <3>4. QED BY <3>2, <3>3
  <2>3. f = [i \in 0 .. k + 1 |-> f[i]]
    OBVIOUS
  <2>4. f = [i \in 0 .. k + 1 |-> NumberStep(bytes, f, i)]
    <3> HIDE DEF f
    <3>1. QED BY <2>2, <2>3
  <2>5. \E h : h = [i \in 0 .. k + 1 |-> NumberStep(bytes, h, i)]
    <3> HIDE DEF f
    <3>1. QED BY <2>4
  <2>6. QED BY <2>5
<1>3. Nat \subseteq P
  <2> HIDE DEF P
  <2>1. QED BY <1>1, <1>2, SetInduction
<1>4. QED BY <1>3

LEMMA NumberRecursion ==
  ASSUME NEW bytes, Len(bytes) \in Nat
  PROVE  \E f : /\ \A i \in 0 .. Len(bytes) : f[i] = NumberStep(bytes, f, i)
                /\ BigEndian(bytes) = f[Len(bytes)]
<1> DEFINE f == CHOOSE f : f = [i \in 0 .. Len(bytes) |-> NumberStep(bytes, f, i)]
<1>1. f = [i \in 0 .. Len(bytes) |-> NumberStep(bytes, f, i)]
  BY NumbersExist
<1>2. BigEndian(bytes) = f[Len(bytes)]
  BY DEF BigEndian, NumberStep
<1> HIDE DEF f
<1>3. \A i \in 0 .. Len(bytes) : f[i] = NumberStep(bytes, f, i)
  BY <1>1
<1>4. QED BY <1>2, <1>3

LEMMA NumberIsNat ==
  ASSUME NEW bytes \in Seq(Nat)
  PROVE  BigEndian(bytes) \in Nat
<1>1. Len(bytes) \in Nat /\ \A i \in 1 .. Len(bytes) : bytes[i] \in Nat
  OBVIOUS
<1>2. PICK f : /\ \A i \in 0 .. Len(bytes) : f[i] = NumberStep(bytes, f, i)
               /\ BigEndian(bytes) = f[Len(bytes)]
  BY <1>1, NumberRecursion
<1> DEFINE P == {k \in Nat : k <= Len(bytes) => f[k] \in Nat}
<1>3. 0 \in P
  BY <1>1, <1>2 DEF NumberStep
<1>4. ASSUME NEW k \in Nat, k \in P PROVE k + 1 \in P
  <2>1. SUFFICES ASSUME k + 1 <= Len(bytes) PROVE f[k + 1] \in Nat
    OBVIOUS
  <2>2. k + 1 \in 0 .. Len(bytes) /\ k + 1 \in 1 .. Len(bytes) /\ k + 1 # 0 /\ (k + 1) - 1 = k
    BY <1>1, <2>1
  <2>3. f[k + 1] = 256 * f[k] + bytes[k + 1]
    BY <1>2, <2>2 DEF NumberStep
  <2>4. f[k] \in Nat /\ bytes[k + 1] \in Nat
    BY <1>1, <1>4, <2>1, <2>2
  <2>5. QED BY <2>3, <2>4
<1>5. Nat \subseteq P
  <2> HIDE DEF P
  <2>1. QED BY <1>3, <1>4, SetInduction
<1>6. QED BY <1>1, <1>2, <1>5

LEMMA NumberOfTwo ==
  ASSUME NEW bytes, Len(bytes) = 2, bytes[1] \in Nat, bytes[2] \in Nat
  PROVE  BigEndian(bytes) = 256 * bytes[1] + bytes[2]
<1>1. PICK f : /\ \A i \in 0 .. 2 : f[i] = NumberStep(bytes, f, i)
               /\ BigEndian(bytes) = f[2]
  <2>1. Len(bytes) \in Nat
    OBVIOUS
  <2>2. QED BY <2>1, NumberRecursion
<1>2. f[0] = 0
  BY <1>1 DEF NumberStep
<1>3. f[1] = bytes[1]
  BY <1>1, <1>2 DEF NumberStep
<1>4. f[2] = 256 * bytes[1] + bytes[2]
  BY <1>1, <1>3 DEF NumberStep
<1>5. QED BY <1>1, <1>4

LEMMA NumberOfFour ==
  ASSUME NEW bytes, Len(bytes) = 4, bytes[1] = 0, bytes[2] = 0,
         bytes[3] \in Nat, bytes[4] \in Nat
  PROVE  BigEndian(bytes) = 256 * bytes[3] + bytes[4]
<1>1. PICK f : /\ \A i \in 0 .. 4 : f[i] = NumberStep(bytes, f, i)
               /\ BigEndian(bytes) = f[4]
  <2>1. Len(bytes) \in Nat
    OBVIOUS
  <2>2. QED BY <2>1, NumberRecursion
<1>2. f[0] = 0
  BY <1>1 DEF NumberStep
<1>3. f[1] = 0
  BY <1>1, <1>2 DEF NumberStep
<1>4. f[2] = 0
  BY <1>1, <1>3 DEF NumberStep
<1>5. f[3] = bytes[3]
  BY <1>1, <1>4 DEF NumberStep
<1>6. f[4] = 256 * bytes[3] + bytes[4]
  BY <1>1, <1>5 DEF NumberStep
<1>7. QED BY <1>1, <1>6

LEMMA Division ==
  ASSUME NEW n \in Short, NEW q, NEW r, q = n \div 256, r = n % 256
  PROVE  n \in Nat /\ q \in Nat /\ r \in Nat /\ 256 * q + r = n
<1>1. n \in Nat
  BY ShortIsNat
<1>2. q \in Nat /\ r \in Nat
  BY <1>1, DividedNat
<1>3. n = (n \div 256) * 256 + (n % 256)
  BY <1>1
<1>4. n = q * 256 + r
  BY <1>3
<1>5. QED BY <1>1, <1>2, <1>4

\* A number that is sent in two or in four bytes is read back.
LEMMA TwoBytes ==
  ASSUME NEW n \in Short, NEW bytes, Len(bytes) = 2,
         bytes[1] = BE2(n)[1], bytes[2] = BE2(n)[2]
  PROVE  BigEndian(bytes) = n
<1>1. bytes[1] = n \div 256 /\ bytes[2] = n % 256
  BY DEF BE2
<1>2. /\ bytes[1] \in Nat /\ bytes[2] \in Nat
      /\ 256 * bytes[1] + bytes[2] = n
  BY <1>1, Division
<1>3. BigEndian(bytes) = 256 * bytes[1] + bytes[2]
  BY <1>2, NumberOfTwo
<1>4. QED BY <1>2, <1>3

LEMMA FourBytesRead ==
  ASSUME NEW n \in Short, NEW bytes, Len(bytes) = 4, \A i \in 1 .. 4 : bytes[i] = BE4(n)[i]
  PROVE  BigEndian(bytes) = n
<1>1. /\ BE4(n)[1] = 0 /\ BE4(n)[2] = 0
      /\ BE4(n)[3] = n \div 256 /\ BE4(n)[4] = n % 256
  BY DEF BE4, BE2
<1>2. bytes[1] = 0 /\ bytes[2] = 0 /\ bytes[3] = n \div 256 /\ bytes[4] = n % 256
  BY <1>1
<1>3. /\ bytes[3] \in Nat /\ bytes[4] \in Nat
      /\ 256 * bytes[3] + bytes[4] = n
  BY <1>2, Division
<1>4. BigEndian(bytes) = 256 * bytes[3] + bytes[4]
  BY <1>2, <1>3, NumberOfFour
<1>5. QED BY <1>3, <1>4
-----------------------------------------------------------------------------
(* A camera status that arrives as it was sent.                            *)

LEMMA RestBegins ==
  ASSUME NEW S, NEW s \in Seq(S), NEW n \in 1 .. Len(s)
  PROVE  <<s[n]>> \o SubSeq(s, n + 1, Len(s)) = SubSeq(s, n, Len(s))
<1> DEFINE first == <<s[n]>>
           rest == SubSeq(s, n + 1, Len(s))
           all == SubSeq(s, n, Len(s))
           N == Len(s)
<1>1. N \in Nat /\ n \in 1 .. N /\ n \in Int /\ N \in Int /\ n + 1 \in Int /\ \A i \in 1 .. N : s[i] \in S
  OBVIOUS
<1>2. rest \in Seq(S) /\ Len(rest) = N - n /\ \A i \in 1 .. N - n : rest[i] = s[n + i]
  <2>1. /\ rest \in Seq(S) /\ Len(rest) = IF n + 1 <= N THEN N - (n + 1) + 1 ELSE 0
        /\ \A i \in 1 .. N - (n + 1) + 1 : rest[i] = s[(n + 1) + i - 1]
    BY <1>1, SubSeqProperties
  <2> HIDE DEF rest, N
  <2>2. N - (n + 1) + 1 = N - n /\ (~(n + 1 <= N) => N - n = 0)
    BY <1>1
  <2>3. Len(rest) = N - n
    BY <2>1, <2>2
  <2>4. ASSUME NEW i \in 1 .. N - n PROVE rest[i] = s[n + i]
    <3>1. (n + 1) + i - 1 = n + i /\ i \in 1 .. N - (n + 1) + 1
      BY <1>1, <2>2
    <3>2. rest[i] = s[(n + 1) + i - 1]
      BY <2>1, <3>1
    <3>3. QED BY <3>1, <3>2
  <2>5. QED BY <2>1, <2>3, <2>4
<1>3. all \in Seq(S) /\ Len(all) = N - n + 1 /\ \A i \in 1 .. N - n + 1 : all[i] = s[n + i - 1]
  BY <1>1, SubSeqProperties
<1>4. first \in Seq(S) /\ Len(first) = 1 /\ first[1] = s[n]
  BY <1>1
<1> HIDE DEF first, rest, all, N
<1>5. /\ first \o rest \in Seq(S)
      /\ Len(first \o rest) = Len(first) + Len(rest)
      /\ \A i \in 1 .. Len(first) + Len(rest) :
           (first \o rest)[i] = IF i <= Len(first) THEN first[i] ELSE rest[i - Len(first)]
  BY <1>2, <1>4, ConcatProperties
<1>6. Len(first \o rest) = Len(all)
  BY <1>1, <1>2, <1>3, <1>4, <1>5
<1>7. ASSUME NEW i \in 1 .. Len(all) PROVE (first \o rest)[i] = all[i]
  <2>1. i \in 1 .. N - n + 1 /\ i \in 1 .. Len(first) + Len(rest)
    BY <1>1, <1>2, <1>3, <1>4
  <2>2. CASE i = 1
    <3>1. n + i - 1 = n
      BY <1>1, <2>2
    <3>2. QED BY <1>3, <1>4, <1>5, <2>1, <2>2, <3>1
  <2>3. CASE i # 1
    <3>1. i - 1 \in 1 .. N - n /\ ~(i <= 1) /\ n + (i - 1) = n + i - 1
      BY <1>1, <2>1, <2>3
    <3>2. (first \o rest)[i] = rest[i - 1]
      BY <1>4, <1>5, <2>1, <3>1
    <3>3. QED BY <1>2, <1>3, <2>1, <3>1, <3>2
  <2>4. QED BY <2>2, <2>3
<1>8. first \o rest = all
  BY <1>3, <1>5, <1>6, <1>7, SeqEqual
<1>9. QED BY <1>8 DEF first, rest, all, N

LEMMA SentRecord ==
  ASSUME uuid \in Uuids, meaning \in Meanings[uuid], uuid = "cc09",
         NEW n \in 0 .. Len(meaning) - 1
  PROVE  /\ IsRecordAt(Sent, End(n) + 1)
         /\ RecordAt(Sent, End(n) + 1) = meaning[n + 1]
         /\ (End(n) + 1) + Sent[End(n) + 1] + 1 = End(n + 1) + 1
<1> DEFINE e == End(n)
           r == meaning[n + 1]
           k == Len(r.payload)
<1>1. /\ meaning \in Seq(StatusRecord) /\ Len(meaning) \in Nat
  BY StatusFrame
<1>2. n \in 0 .. Len(meaning) /\ n + 1 \in 0 .. Len(meaning) /\ n + 1 \in 1 .. Len(meaning)
  BY <1>1
<1>3. r \in StatusRecord
  BY <1>1, <1>2
<1>4. /\ k \in Nat /\ Record(r)[1] = k + 2
      /\ Record(r)[2] = BE2(r.tag)[1] /\ Record(r)[3] = BE2(r.tag)[2]
      /\ \A i \in 1 .. k : Record(r)[i + 3] = r.payload[i]
  BY <1>3, RecordBytes
<1>5. /\ e \in Nat /\ End(n + 1) = e + k + 3 /\ End(n + 1) <= Len(Sent)
      /\ \A i \in 1 .. k + 3 : Sent[e + i] = Record(r)[i]
  BY <1>2, RecordsInPlace
<1>6. Len(Sent) \in Nat
  BY SentIsBytes
<1>7. r.tag \in Short /\ r.payload \in Seq(Byte) /\ r = [tag |-> r.tag, payload |-> r.payload]
  BY <1>3 DEF StatusRecord, Text
<1> HIDE DEF e, r, k
<1>8. 1 \in 1 .. k + 3 /\ 2 \in 1 .. k + 3 /\ 3 \in 1 .. k + 3
  BY <1>4
<1>9. /\ Sent[e + 1] = k + 2
      /\ Sent[e + 2] = BE2(r.tag)[1] /\ Sent[e + 3] = BE2(r.tag)[2]
  BY <1>4, <1>5, <1>8
<1>10. ASSUME NEW i \in 1 .. k PROVE Sent[e + 3 + i] = r.payload[i]
  <2>1. i + 3 \in 1 .. k + 3 /\ e + 3 + i = e + (i + 3)
    BY <1>4, <1>5
  <2>2. QED BY <1>4, <1>5, <2>1
<1> DEFINE tag == SubSeq(Sent, e + 2, e + 3)
           payload == SubSeq(Sent, e + 4, e + k + 3)
<1>11. BE2(r.tag)[1] \in Nat /\ BE2(r.tag)[2] \in Nat
  <2>1. BE2(r.tag)[1] = r.tag \div 256 /\ BE2(r.tag)[2] = r.tag % 256
    BY DEF BE2
  <2>2. QED BY <1>7, <2>1, Division
<1>12. Len(tag) = 2 /\ tag[1] = Sent[e + 2] /\ tag[2] = Sent[e + 3]
  <2>1. /\ e + 2 \in Int /\ e + 3 \in Int /\ e + 2 <= e + 3 /\ (e + 3) - (e + 2) + 1 = 2
        /\ (e + 2) + 1 - 1 = e + 2 /\ (e + 2) + 2 - 1 = e + 3
        /\ \A i \in e + 2 .. e + 3 : i = e + 2 \/ i = e + 3
    BY <1>5
  <2>2. \A i \in e + 2 .. e + 3 : Sent[i] \in Nat
    BY <1>9, <1>11, <2>1
  <2>3. /\ Len(tag) = IF e + 2 <= e + 3 THEN (e + 3) - (e + 2) + 1 ELSE 0
        /\ \A i \in 1 .. (e + 3) - (e + 2) + 1 : tag[i] = Sent[(e + 2) + i - 1]
    BY <2>1, <2>2, SubSeqProperties
  <2> HIDE DEF tag
  <2>4. QED BY <2>1, <2>3
<1>13. BigEndian(tag) = r.tag
  <2> HIDE DEF tag
  <2>1. QED BY <1>7, <1>9, <1>12, TwoBytes
<1>14. payload = r.payload
  <2> DEFINE a == e + 4
             b == e + k + 3
  <2>1. /\ a \in Int /\ b \in Int /\ b - a + 1 = k /\ (~(a <= b) => k = 0)
        /\ \A i \in 1 .. k : a + i - 1 = e + 3 + i
        /\ \A i \in a .. b : i - (e + 3) \in 1 .. k /\ e + 3 + (i - (e + 3)) = i
    BY <1>4, <1>5
  <2>2. Len(r.payload) = k /\ \A i \in 1 .. k : r.payload[i] \in Byte
    <3>1. Len(r.payload) = k
      BY DEF k
    <3>2. QED BY <1>7, <3>1, ElementOfSeq
  <2> HIDE DEF a, b
  <2>3. \A i \in a .. b : Sent[i] \in Byte
    <3> TAKE i \in a .. b
    <3>1. i - (e + 3) \in 1 .. k /\ e + 3 + (i - (e + 3)) = i
      BY <2>1
    <3>2. Sent[e + 3 + (i - (e + 3))] = r.payload[i - (e + 3)]
      BY <1>10, <3>1
    <3>3. QED BY <2>2, <3>1, <3>2
  <2>4. payload = SubSeq(Sent, a, b)
    BY DEF a, b
  <2> HIDE DEF payload, Byte
  <2>5. /\ payload \in Seq(Byte)
        /\ Len(payload) = IF a <= b THEN b - a + 1 ELSE 0
        /\ \A i \in 1 .. b - a + 1 : payload[i] = Sent[a + i - 1]
    BY <2>1, <2>3, <2>4, SubSeqProperties
  <2>6. Len(payload) = k
    BY <2>1, <2>5
  <2>7. ASSUME NEW i \in 1 .. k PROVE payload[i] = r.payload[i]
    BY <1>10, <2>1, <2>5
  <2>8. QED BY <1>7, <2>2, <2>5, <2>6, <2>7, SeqEqual
<1>15. RecordAt(Sent, e + 1) = r
  <2>1. (e + 1) + 1 = e + 2 /\ (e + 1) + 2 = e + 3 /\ (e + 1) + 3 = e + 4
        /\ (e + 1) + (k + 2) = e + k + 3
    BY <1>4, <1>5
  <2>2. RecordAt(Sent, e + 1) =
          [tag |-> BigEndian(SubSeq(Sent, e + 2, e + 3)), payload |-> SubSeq(Sent, e + 4, e + k + 3)]
    BY <1>9, <2>1 DEF RecordAt
  <2>3. QED BY <1>7, <1>13, <1>14, <2>2
<1>16. IsRecordAt(Sent, e + 1)
  <2>1. e + 1 <= Len(Sent) /\ k + 2 >= 2 /\ (e + 1) + (k + 2) <= Len(Sent)
    BY <1>4, <1>5, <1>6
  <2>2. QED BY <1>9, <2>1 DEF IsRecordAt
<1>17. (e + 1) + Sent[e + 1] + 1 = End(n + 1) + 1
  <2>1. (e + 1) + (k + 2) + 1 = (e + k + 3) + 1
    BY <1>4, <1>5
  <2>2. QED BY <1>5, <1>9, <2>1
<1>18. QED BY <1>15, <1>16, <1>17 DEF e, r

LEMMA RecordsReadBack ==
  ASSUME uuid \in Uuids, meaning \in Meanings[uuid], uuid = "cc09"
  PROVE  Records(Sent).records = meaning /\ Records(Sent).whole = TRUE
<1> DEFINE N == Len(meaning)
<1>1. meaning \in Seq(StatusRecord) /\ N \in Nat
  BY StatusFrame
<1>2. Sent \in Seq(Nat) /\ Len(Sent) \in Nat
  <2>1. Sent \in Seq(Byte) /\ Byte \subseteq Nat
    BY SentIsBytes DEF Byte
  <2>2. QED BY <2>1, SeqMonotonic, SentIsBytes
<1>3. PICK f : f = [i \in 1 .. Len(Sent) + 1 |-> ParseStep(Sent, f, i)] /\ Records(Sent) = f[1]
  BY <1>2, RecordsAreParsed
<1> DEFINE Claim(n) == /\ f[End(n) + 1].records = SubSeq(meaning, n + 1, N)
                       /\ f[End(n) + 1].whole = TRUE
           P == {i \in 1 .. N + 1 : Claim(i - 1)}
<1>4. \A n \in 0 .. N : End(n) \in Nat /\ End(n) + 1 \in 1 .. Len(Sent) + 1
  BY <1>2, RecordsInPlace
<1>5. ASSUME NEW i \in 1 .. N + 1, \A j \in i + 1 .. N + 1 : j \in P PROVE i \in P
  <2> DEFINE n == i - 1
  <2>1. n \in 0 .. N /\ n + 1 = i
    BY <1>1
  <2>2. SUFFICES Claim(n)
    OBVIOUS
  <2> HIDE DEF n
  <2>3. CASE n = N
    <3>1. End(n) + 1 = Len(Sent) + 1
      BY <2>3, RecordsInPlace
    <3>2. f[End(n) + 1].records = <<>> /\ f[End(n) + 1].whole = TRUE
      BY <1>2, <1>3, <1>4, <2>1, <3>1, ParsedAt
    <3>3. SubSeq(meaning, n + 1, N) = <<>>
      <4>1. n + 1 > N /\ n + 1 \in Int /\ N \in Int
        BY <1>1, <2>3
      <4>2. QED BY <4>1, SubSeqEmpty
    <3>4. QED BY <3>2, <3>3
  <2>4. CASE n # N
    <3>1. /\ n \in 0 .. N - 1 /\ n + 2 \in i + 1 .. N + 1 /\ (n + 2) - 1 = n + 1
          /\ n + 1 \in 1 .. N /\ (n + 1) + 1 = n + 2
      BY <1>1, <2>1, <2>4
    <3>2. /\ IsRecordAt(Sent, End(n) + 1)
          /\ RecordAt(Sent, End(n) + 1) = meaning[n + 1]
          /\ (End(n) + 1) + Sent[End(n) + 1] + 1 = End(n + 1) + 1
      BY <3>1, SentRecord
    <3>3. End(n) + 1 \in 1 .. Len(Sent) + 1
      BY <1>4, <2>1
    <3>4. /\ f[End(n) + 1].records = <<meaning[n + 1]>> \o f[End(n + 1) + 1].records
          /\ f[End(n) + 1].whole = f[End(n + 1) + 1].whole
      <4> DEFINE here == End(n) + 1
      <4>1. /\ f[here].records = <<RecordAt(Sent, here)>> \o f[here + Sent[here] + 1].records
            /\ f[here].whole = f[here + Sent[here] + 1].whole
        <5> HIDE DEF here
        <5>1. here \in 1 .. Len(Sent) + 1 /\ IsRecordAt(Sent, here)
          BY <3>2, <3>3 DEF here
        <5>2. QED BY <1>2, <1>3, <5>1, ParsedAt
      <4>2. QED BY <3>2, <4>1
    <3>5. n + 2 \in P
      BY <1>5, <3>1
    <3>6. Claim(n + 1)
      BY <3>1, <3>5
    <3>7. <<meaning[n + 1]>> \o SubSeq(meaning, (n + 1) + 1, N) = SubSeq(meaning, n + 1, N)
      BY <1>1, <3>1, RestBegins
    <3>8. QED BY <3>4, <3>6, <3>7
  <2>5. QED BY <2>3, <2>4
<1>6. Claim(0)
  <2> HIDE DEF Claim
  <2>1. 1 .. N + 1 \subseteq P
    <3> HIDE DEF P
    <3>1. N + 1 \in Nat
      BY <1>1
    <3>2. QED BY <1>5, <3>1, DownwardInduction
  <2>2. 1 \in P
    <3> HIDE DEF P
    <3>1. 1 \in 1 .. N + 1
      BY <1>1
    <3>2. QED BY <2>1, <3>1
  <2>3. 1 - 1 = 0
    OBVIOUS
  <2>4. QED BY <2>2, <2>3
<1>7. End(0) + 1 = 1 /\ SubSeq(meaning, 0 + 1, N) = meaning
  <2>1. End(0) = 0
    BY RecordsInPlace
  <2>2. SubSeq(meaning, 1, N) = meaning
    BY <1>1, SubSeqFull
  <2>3. QED BY <2>1, <2>2
<1>8. QED BY <1>3, <1>6, <1>7

LEMMA FirstHasTag ==
  ASSUME NEW R, NEW r \in Seq(R), NEW i \in FirstOfTag(r)
  PROVE  r[i].tag \in Tags(r) /\ At(r, r[i].tag) = i
<1>1. Len(r) \in Nat /\ DOMAIN r = 1 .. Len(r)
  OBVIOUS
<1>2. \A k \in FirstOfTag(r) : k \in 1 .. Len(r)
  BY <1>1 DEF FirstOfTag
<1>3. ASSUME NEW k \in FirstOfTag(r), r[k].tag = r[i].tag PROVE k = i
  <2>1. ~(k < i) /\ ~(i < k)
    BY <1>3 DEF FirstOfTag
  <2>2. QED BY <1>1, <1>2, <2>1
<1>4. At(r, r[i].tag) = i
  BY <1>3 DEF At
<1>5. QED BY <1>4 DEF Tags

LEMMA WifiKnown ==
  ASSUME NEW code \in Nat
  PROVE  WifiState(code) = "unknown" <=> ~(code < 4)
<1>1. CASE code < 4
  <2>1. code \in {0, 1, 2, 3}
    BY <1>1
  <2>2. WifiState(code) \in {"terminated", "launching", "launched", "terminating"}
    BY <1>1, <2>1 DEF WifiState
  <2>3. QED BY <1>1, <2>2
<1>2. CASE ~(code < 4)
  BY <1>2 DEF WifiState
<1>3. QED BY <1>1, <1>2

LEMMA StatusReadBack ==
  ASSUME uuid \in Uuids, meaning \in Meanings[uuid], uuid = "cc09"
  PROVE  /\ CameraStatus(Sent).status = "decoded" <=> Understood
         /\ \A i \in DOMAIN meaning :
              (/\ meaning[i].tag \in DOMAIN StatusNames
               /\ \A j \in 1 .. i - 1 : meaning[j].tag # meaning[i].tag)
              => CameraStatus(Sent).fields[StatusNames[meaning[i].tag]]
                   = <<BigEndian(meaning[i].payload)>>
<1>1. /\ meaning \in Seq(StatusRecord) /\ Len(meaning) \in Nat
      /\ DOMAIN meaning = 1 .. Len(meaning)
  BY StatusFrame
<1>2. Records(Sent).records = meaning /\ Records(Sent).whole = TRUE
  BY RecordsReadBack
<1>3. \A i \in DOMAIN meaning : BigEndian(meaning[i].payload) \in Nat
  <2> SUFFICES ASSUME NEW i \in DOMAIN meaning PROVE BigEndian(meaning[i].payload) \in Nat
    OBVIOUS
  <2>1. meaning[i] \in StatusRecord
    BY <1>1
  <2>2. meaning[i].payload \in Seq(Byte) /\ Byte \subseteq Nat
    BY <2>1 DEF StatusRecord, Text, Byte
  <2>3. meaning[i].payload \in Seq(Nat)
    BY <2>2, SeqMonotonic
  <2>4. QED BY <2>3, NumberIsNat
<1> DEFINE Number(i) == BigEndian(meaning[i].payload)
           first == FirstOfTag(meaning)
           Unique == \A i, j \in DOMAIN meaning : meaning[i].tag = meaning[j].tag => i = j
           Known == \A i \in DOMAIN meaning : \/ meaning[i].tag \in DOMAIN StatusNames
                                              \/ meaning[i].tag = 1 /\ Number(i) < 4
           Odd == 1 \in Tags(meaning) /\ WifiState(Number(At(meaning, 1))) = "unknown"
           Strange == Tags(meaning) \ (DOMAIN StatusNames \cup {1}) # {}
           Decodes == CameraStatus(Sent).status = "decoded"
<1>4. \A i \in first : /\ i \in DOMAIN meaning
                       /\ meaning[i].tag \in Tags(meaning)
                       /\ At(meaning, meaning[i].tag) = i
  <2>1. \A i \in first : i \in DOMAIN meaning
    BY DEF FirstOfTag
  <2>2. QED BY <1>1, <2>1, FirstHasTag
<1>5. Tags(meaning) = {meaning[i].tag : i \in first}
  BY DEF Tags
<1>6. Unique <=> first = DOMAIN meaning
  BY <1>1 DEF FirstOfTag
<1>7. Decodes <=> ~Odd /\ ~Strange /\ first = DOMAIN meaning
  BY <1>2, StatusWarns
<1>8. Understood <=> Unique /\ Known
  BY DEF Understood
<1>9. 1 \notin DOMAIN StatusNames
  BY StatusNamesDiffer
<1>10. ASSUME NEW i \in DOMAIN meaning PROVE WifiState(Number(i)) = "unknown" <=> ~(Number(i) < 4)
  BY <1>3, WifiKnown
<1> HIDE DEF first, Number
<1>11. ASSUME first = DOMAIN meaning PROVE ~Odd /\ ~Strange <=> Known
  <2>1. \A i \in DOMAIN meaning : meaning[i].tag \in Tags(meaning) /\ At(meaning, meaning[i].tag) = i
    BY <1>4, <1>11
  <2>2. Odd <=> \E i \in DOMAIN meaning : meaning[i].tag = 1 /\ ~(Number(i) < 4)
    <3>1. \A i \in DOMAIN meaning : meaning[i].tag = 1 => i = At(meaning, 1)
      BY <2>1
    <3>2. 1 \in Tags(meaning) <=> \E i \in DOMAIN meaning : meaning[i].tag = 1
      BY <1>5, <1>11
    <3>3. QED BY <1>10, <3>1, <3>2
  <2>3. Strange <=>
          \E i \in DOMAIN meaning : meaning[i].tag \notin DOMAIN StatusNames /\ meaning[i].tag # 1
    BY <1>5, <1>11
  <2> HIDE DEF Odd, Strange
  <2>4. QED BY <1>9, <2>2, <2>3
<1>12. Decodes <=> Understood
  <2> HIDE DEF Decodes, Odd, Strange, Unique, Known
  <2>1. QED BY <1>6, <1>7, <1>8, <1>11
<1>13. ASSUME NEW i \in DOMAIN meaning, meaning[i].tag \in DOMAIN StatusNames,
              \A j \in 1 .. i - 1 : meaning[j].tag # meaning[i].tag
       PROVE  CameraStatus(Sent).fields[StatusNames[meaning[i].tag]] = <<Number(i)>>
  <2> DEFINE t == meaning[i].tag
  <2>1. i \in FirstOfTag(meaning)
    <3>1. \A j \in 1 .. Len(meaning) : j < i => j \in 1 .. i - 1
      BY <1>1
    <3>2. QED BY <1>1, <1>13, <3>1 DEF FirstOfTag
  <2>2. t \in Tags(meaning) /\ At(meaning, t) = i
    BY <1>4, <2>1 DEF first
  <2>3. Says(CameraStatus(Sent), StatusNames[t]) = <<Number(i)>>
    BY <1>2, <1>13, <2>2, StatusSays DEF Number
  <2>4. <<Number(i)>> # None
    BY DEF None
  <2>5. QED BY <2>3, <2>4 DEF Says
<1>14. QED BY <1>12, <1>13 DEF Number
-----------------------------------------------------------------------------
(* A battery frame that arrives as it was sent.                            *)

\* Where a sequence is in what is flattened.
LEMMA FlatInPlace ==
  ASSUME NEW S, NEW s \in Seq(Seq(S)), NEW n \in Nat, n < Len(s)
  PROVE  /\ Len(Flat(s, n)) \in Nat
         /\ Len(s[n + 1]) \in Nat
         /\ Len(Flat(s, n + 1)) = Len(Flat(s, n)) + Len(s[n + 1])
         /\ Len(Flat(s, n + 1)) <= Len(FlattenSeq(s))
         /\ \A i \in 1 .. Len(s[n + 1]) : FlattenSeq(s)[Len(Flat(s, n)) + i] = s[n + 1][i]
<1> DEFINE a == Flat(s, n)
           b == s[n + 1]
           c == Flat(s, n + 1)
           N == Len(s)
<1>1. N \in Nat /\ n \in 0 .. N /\ n + 1 \in 0 .. N /\ n + 1 \in 1 .. N /\ N \in 0 .. N
  OBVIOUS
<1>2. FlattenSeq(s) = Flat(s, N)
  <2>1. SubSeq(s, 1, N) = s
    BY SubSeqFull
  <2>2. QED BY <2>1 DEF Flat
<1>3. a \in Seq(S) /\ c \in Seq(S) /\ b \in Seq(S)
  BY <1>1, FlatBegins, ElementOfSeq
<1>4. c = a \o b
  BY <1>1, FlatNext
<1>5. /\ Len(c) <= Len(Flat(s, N))
      /\ \A i \in 1 .. Len(c) : Flat(s, N)[i] = c[i]
  BY <1>1, FlatBegins
<1> HIDE DEF a, b, c, N
<1>6. /\ Len(a \o b) = Len(a) + Len(b)
      /\ \A i \in 1 .. Len(a) + Len(b) : (a \o b)[i] = IF i <= Len(a) THEN a[i] ELSE b[i - Len(a)]
  BY <1>3, ConcatProperties
<1>7. Len(a) \in Nat /\ Len(b) \in Nat
  BY <1>3
<1>8. ASSUME NEW i \in 1 .. Len(b) PROVE FlattenSeq(s)[Len(a) + i] = b[i]
  <2>1. Len(a) + i \in 1 .. Len(a) + Len(b) /\ ~(Len(a) + i <= Len(a)) /\ (Len(a) + i) - Len(a) = i
    BY <1>7
  <2>2. (a \o b)[Len(a) + i] = b[i]
    BY <1>6, <2>1
  <2>3. QED BY <1>2, <1>4, <1>5, <1>6, <2>1, <2>2
<1>9. QED BY <1>2, <1>4, <1>5, <1>6, <1>7, <1>8 DEF a, b, c

LEMMA PackBytes ==
  ASSUME NEW n \in Short
  PROVE  /\ Pack(n) \in Seq(Nat) /\ Len(Pack(n)) = 8
         /\ \A i \in 1 .. 4 : Pack(n)[4 + i] = BE4(n)[i]
<1> DEFINE head == <<1, 0, 5, 0>>
           tail == BE4(n)
<1>1. head \in Seq(Nat) /\ Len(head) = 4
  OBVIOUS
<1>2. tail \in Seq(Nat) /\ Len(tail) = 4
  BY FourBytes
<1>3. Pack(n) = head \o tail
  BY DEF Pack
<1> HIDE DEF head, tail
<1>4. /\ head \o tail \in Seq(Nat)
      /\ Len(head \o tail) = Len(head) + Len(tail)
      /\ \A i \in 1 .. Len(head) + Len(tail) :
           (head \o tail)[i] = IF i <= Len(head) THEN head[i] ELSE tail[i - Len(head)]
  BY <1>1, <1>2, Joined
<1>5. ASSUME NEW i \in 1 .. 4 PROVE Pack(n)[4 + i] = tail[i]
  <2> DEFINE j == 4 + i
  <2>1. j \in 1 .. 4 + 4 /\ ~(j <= 4) /\ j - 4 = i
    OBVIOUS
  <2> HIDE DEF j
  <2>2. j \in 1 .. Len(head) + Len(tail) /\ ~(j <= Len(head))
    BY <1>1, <1>2, <2>1
  <2>3. (head \o tail)[j] = tail[j - Len(head)]
    BY <1>4, <2>2
  <2>4. j - Len(head) = i
    BY <1>1, <2>1
  <2>5. (head \o tail)[j] = tail[i]
    BY <2>3, <2>4
  <2>6. (head \o tail)[4 + i] = tail[i]
    BY <2>5 DEF j
  <2>7. QED BY <1>3, <2>6, Zenon
<1>6. Pack(n) \in Seq(Nat) /\ Len(Pack(n)) = 8
  BY <1>1, <1>2, <1>3, <1>4
<1>7. QED BY <1>5, <1>6, Zenon DEF tail

\* Packs are eight bytes long.
LEMMA PacksInPlace ==
  ASSUME NEW p \in Seq(Short)
  PROVE  LET packs == [i \in DOMAIN p |-> Pack(p[i])]
             bytes == FlattenSeq(packs)
         IN  /\ bytes \in Seq(Nat)
             /\ Len(bytes) = 8 * Len(p)
             /\ \A n \in 1 .. Len(p) : \A i \in 1 .. 4 :
                  bytes[8 * (n - 1) + 4 + i] = BE4(p[n])[i]
<1> DEFINE packs == [i \in DOMAIN p |-> Pack(p[i])]
           bytes == FlattenSeq(packs)
           N == Len(p)
<1>1. N \in Nat /\ DOMAIN p = 1 .. N /\ \A i \in 1 .. N : p[i] \in Short
  OBVIOUS
<1>2. \A i \in 1 .. N : packs[i] = Pack(p[i])
  BY <1>1
<1>3. packs \in Seq(Seq(Nat)) /\ Len(packs) = N
  <2>1. packs \in [1 .. N -> Seq(Nat)]
    BY <1>1, PackBytes
  <2> HIDE DEF packs, N
  <2>2. QED BY <1>1, <2>1, FunctionIsSequence
<1> HIDE DEF packs, bytes, N
<1>4. ASSUME NEW n \in 1 .. N PROVE Len(packs[n]) = 8
  <2>1. p[n] \in Short /\ packs[n] = Pack(p[n])
    BY <1>1, <1>2
  <2>2. QED BY <2>1, PackBytes
<1> DEFINE P == {n \in Nat : n <= N => Len(Flat(packs, n)) = 8 * n}
<1>5. 0 \in P
  <2>1. Flat(packs, 0) = <<>> /\ Len(<<>>) = 0
    BY FlatStart
  <2>2. QED BY <2>1
<1>6. ASSUME NEW n \in Nat, n \in P PROVE n + 1 \in P
  <2>1. SUFFICES ASSUME n + 1 <= N PROVE Len(Flat(packs, n + 1)) = 8 * (n + 1)
    OBVIOUS
  <2>2. n < N /\ n <= N /\ n + 1 \in 1 .. N
    BY <1>1, <2>1
  <2>3. Len(Flat(packs, n + 1)) = Len(Flat(packs, n)) + Len(packs[n + 1])
    BY <1>3, <2>2, FlatInPlace
  <2>4. Len(Flat(packs, n)) = 8 * n
    BY <1>6, <2>2
  <2>5. Len(packs[n + 1]) = 8
    BY <1>4, <2>2
  <2>6. 8 * n + 8 = 8 * (n + 1)
    OBVIOUS
  <2>7. QED BY <2>3, <2>4, <2>5, <2>6
<1>7. \A n \in 0 .. N : Len(Flat(packs, n)) = 8 * n
  <2>1. Nat \subseteq P
    <3> HIDE DEF P
    <3>1. QED BY <1>5, <1>6, SetInduction
  <2>2. QED BY <1>1, <2>1
<1>8. bytes = Flat(packs, N) /\ bytes \in Seq(Nat)
  <2>1. SubSeq(packs, 1, N) = packs
    BY <1>3, SubSeqFull
  <2>2. bytes = Flat(packs, N)
    BY <2>1 DEF Flat, bytes
  <2>3. N \in 0 .. Len(packs)
    BY <1>1, <1>3
  <2>4. QED BY <1>3, <2>2, <2>3, FlatBegins
<1>9. Len(bytes) = 8 * N
  <2>1. N \in 0 .. N
    BY <1>1
  <2>2. QED BY <1>7, <1>8, <2>1
<1>10. ASSUME NEW n \in 1 .. N, NEW i \in 1 .. 4
       PROVE  bytes[8 * (n - 1) + 4 + i] = BE4(p[n])[i]
  <2> DEFINE k == n - 1
  <2>1. k \in Nat /\ k < N /\ k + 1 = n /\ k \in 0 .. N
    BY <1>1
  <2> HIDE DEF k
  <2>2. Len(packs[k + 1]) = 8 /\ Len(Flat(packs, k)) = 8 * k
    BY <1>4, <1>7, <2>1
  <2>3. \A j \in 1 .. Len(packs[k + 1]) :
          FlattenSeq(packs)[Len(Flat(packs, k)) + j] = packs[k + 1][j]
    BY <1>3, <2>1, FlatInPlace
  <2>4. 4 + i \in 1 .. 8 /\ 8 * k + (4 + i) = 8 * k + 4 + i
    BY <2>1
  <2>5. bytes[8 * k + 4 + i] = packs[n][4 + i]
    BY <2>1, <2>2, <2>3, <2>4 DEF bytes
  <2>6. packs[n][4 + i] = BE4(p[n])[i]
    BY <1>1, <1>2, PackBytes
  <2>7. QED BY <2>5, <2>6 DEF k
<1>11. QED BY <1>8, <1>9, <1>10 DEF bytes, packs, N

\* Where the parts of a battery frame are.
LEMMA BatterySent ==
  ASSUME uuid \in Uuids, meaning \in Meanings[uuid], uuid = "cc10"
  PROVE  LET N == Len(meaning.packs)
         IN  /\ meaning.packs \in Seq(Short) /\ N \in Nat
             /\ meaning.reserved \in Short
             /\ Len(Sent) = 8 * N + 11
             /\ Sent[1] = 8 * N + 10
             /\ \A n \in 1 .. N : \A i \in 1 .. 4 :
                  Sent[8 * (n - 1) + 10 + i] = BE4(meaning.packs[n])[i]
             /\ \A i \in 1 .. 4 : Sent[8 * N + 6 + i] = BE4(meaning.reserved)[i]
             /\ Sent[8 * N + 11] = meaning.power
<1> DEFINE N == Len(meaning.packs)
           head == <<2, 3, 0>>
           packs == FlattenSeq([i \in DOMAIN meaning.packs |-> Pack(meaning.packs[i])])
           reserved == BE4(meaning.reserved)
           power == <<meaning.power>>
           a == head \o packs
           b == a \o reserved
           c == b \o power
<1>1. meaning.packs \in Seq(Short) /\ meaning.reserved \in Short /\ meaning.power \in Nat
  <2>1. meaning \in Meant(uuid) /\ Byte \subseteq Nat
    BY DecoderAssumption DEF Byte
  <2>2. QED BY <2>1 DEF Meant
<1>2. N \in Nat
  BY <1>1
<1>3. Sent = Plain(c)
  BY DEF Sent, Frame
<1>4. head \in Seq(Nat) /\ Len(head) = 3
  OBVIOUS
<1>5. /\ packs \in Seq(Nat) /\ Len(packs) = 8 * N
      /\ \A n \in 1 .. N : \A i \in 1 .. 4 : packs[8 * (n - 1) + 4 + i] = BE4(meaning.packs[n])[i]
  BY <1>1, PacksInPlace
<1>6. reserved \in Seq(Nat) /\ Len(reserved) = 4
  BY <1>1, FourBytes
<1>7. power \in Seq(Nat) /\ Len(power) = 1 /\ power[1] = meaning.power
  BY <1>1
<1> HIDE DEF head, packs, reserved, power, N
<1>8. /\ a \in Seq(Nat) /\ Len(a) = 8 * N + 3
      /\ \A i \in 1 .. 8 * N : a[3 + i] = packs[i]
  <2>1. /\ a \in Seq(Nat) /\ Len(a) = Len(head) + Len(packs)
        /\ \A i \in 1 .. Len(head) + Len(packs) :
             a[i] = IF i <= Len(head) THEN head[i] ELSE packs[i - Len(head)]
    BY <1>4, <1>5, Joined
  <2> HIDE DEF a
  <2>2. ASSUME NEW i \in 1 .. 8 * N PROVE a[3 + i] = packs[i]
    <3>1. 3 + i \in 1 .. 3 + 8 * N /\ ~(3 + i <= 3) /\ (3 + i) - 3 = i
      BY <1>2
    <3>2. QED BY <1>4, <1>5, <2>1, <3>1
  <2>3. Len(a) = 8 * N + 3
    BY <1>2, <1>4, <1>5, <2>1
  <2>4. QED BY <2>1, <2>2, <2>3
<1> HIDE DEF a
<1>9. /\ b \in Seq(Nat) /\ Len(b) = 8 * N + 7
      /\ \A i \in 1 .. 8 * N + 3 : b[i] = a[i]
      /\ \A i \in 1 .. 4 : b[8 * N + 3 + i] = reserved[i]
  <2>1. /\ b \in Seq(Nat) /\ Len(b) = Len(a) + Len(reserved)
        /\ \A i \in 1 .. Len(a) + Len(reserved) :
             b[i] = IF i <= Len(a) THEN a[i] ELSE reserved[i - Len(a)]
    BY <1>6, <1>8, Joined
  <2> HIDE DEF b
  <2>2. ASSUME NEW i \in 1 .. 4 PROVE b[8 * N + 3 + i] = reserved[i]
    <3>1. /\ 8 * N + 3 + i \in 1 .. 8 * N + 3 + 4 /\ ~(8 * N + 3 + i <= 8 * N + 3)
          /\ (8 * N + 3 + i) - (8 * N + 3) = i
      BY <1>2
    <3>2. QED BY <1>6, <1>8, <2>1, <3>1
  <2>3. ASSUME NEW i \in 1 .. 8 * N + 3 PROVE b[i] = a[i]
    <3>1. i \in 1 .. 8 * N + 3 + 4 /\ i <= 8 * N + 3
      BY <1>2
    <3>2. QED BY <1>6, <1>8, <2>1, <3>1
  <2>4. Len(b) = 8 * N + 7
    BY <1>2, <1>6, <1>8, <2>1
  <2>5. QED BY <2>1, <2>2, <2>3, <2>4
<1> HIDE DEF b
<1>10. /\ c \in Seq(Nat) /\ Len(c) = 8 * N + 8
       /\ \A i \in 1 .. 8 * N + 7 : c[i] = b[i]
       /\ c[8 * N + 8] = power[1]
  <2>1. /\ c \in Seq(Nat) /\ Len(c) = Len(b) + Len(power)
        /\ \A i \in 1 .. Len(b) + Len(power) :
             c[i] = IF i <= Len(b) THEN b[i] ELSE power[i - Len(b)]
    BY <1>7, <1>9, Joined
  <2> HIDE DEF c
  <2>2. /\ 8 * N + 8 \in 1 .. 8 * N + 7 + 1 /\ ~(8 * N + 8 <= 8 * N + 7)
        /\ (8 * N + 8) - (8 * N + 7) = 1
    BY <1>2
  <2>3. c[8 * N + 8] = power[1]
    BY <1>7, <1>9, <2>1, <2>2
  <2>4. ASSUME NEW i \in 1 .. 8 * N + 7 PROVE c[i] = b[i]
    <3>1. i \in 1 .. 8 * N + 7 + 1 /\ i <= 8 * N + 7
      BY <1>2
    <3>2. QED BY <1>7, <1>9, <2>1, <3>1
  <2>5. Len(c) = 8 * N + 8
    BY <1>2, <1>7, <1>9, <2>1
  <2>6. QED BY <2>1, <2>3, <2>4, <2>5
<1> HIDE DEF c
<1>11. /\ Len(Sent) = 8 * N + 11 /\ Sent[1] = 8 * N + 10
       /\ \A i \in 1 .. 8 * N + 8 : Sent[i + 3] = c[i]
  <2>1. /\ Len(Sent) = Len(c) + 3 /\ Sent[1] = Len(c) + 2
        /\ \A i \in 1 .. Len(c) : Sent[i + 3] = c[i]
    BY <1>3, <1>10, PlainFrame
  <2>2. (8 * N + 8) + 3 = 8 * N + 11 /\ (8 * N + 8) + 2 = 8 * N + 10
    BY <1>2
  <2>3. QED BY <1>10, <2>1, <2>2
<1>12. ASSUME NEW n \in 1 .. N, NEW i \in 1 .. 4
       PROVE  Sent[8 * (n - 1) + 10 + i] = BE4(meaning.packs[n])[i]
  <2> DEFINE k == 8 * (n - 1) + 4 + i
  <2>1. /\ k \in 1 .. 8 * N /\ 3 + k \in 1 .. 8 * N + 3 /\ 3 + k \in 1 .. 8 * N + 7
        /\ 3 + k \in 1 .. 8 * N + 8 /\ (3 + k) + 3 = 8 * (n - 1) + 10 + i
    BY <1>2
  <2>2. packs[k] = BE4(meaning.packs[n])[i]
    BY <1>5
  <2> HIDE DEF k
  <2>3. Sent[(3 + k) + 3] = c[3 + k] /\ c[3 + k] = b[3 + k] /\ b[3 + k] = a[3 + k]
    BY <1>9, <1>10, <1>11, <2>1
  <2>4. a[3 + k] = packs[k]
    BY <1>8, <2>1
  <2>5. QED BY <2>1, <2>2, <2>3, <2>4
<1>13. ASSUME NEW i \in 1 .. 4 PROVE Sent[8 * N + 6 + i] = reserved[i]
  <2>1. /\ 8 * N + 3 + i \in 1 .. 8 * N + 7 /\ 8 * N + 3 + i \in 1 .. 8 * N + 8
        /\ (8 * N + 3 + i) + 3 = 8 * N + 6 + i
    BY <1>2
  <2>2. Sent[(8 * N + 3 + i) + 3] = c[8 * N + 3 + i] /\ c[8 * N + 3 + i] = b[8 * N + 3 + i]
    BY <1>10, <1>11, <2>1
  <2>3. QED BY <1>9, <2>1, <2>2
<1>14. Sent[8 * N + 11] = meaning.power
  <2>1. 8 * N + 8 \in 1 .. 8 * N + 8 /\ (8 * N + 8) + 3 = 8 * N + 11
    BY <1>2
  <2>2. QED BY <1>7, <1>10, <1>11, <2>1
<1>15. QED BY <1>1, <1>2, <1>11, <1>12, <1>13, <1>14 DEF N, reserved

LEMMA EightTimes ==
  ASSUME NEW n \in Nat, NEW m \in Nat, m = 8 * n
  PROVE  m \div 8 = n /\ m % 8 = 0
<1>1. m \in Nat
  OBVIOUS
<1>2. m = (m \div 8) * 8 + (m % 8)
  BY <1>1
<1>3. m \div 8 \in Nat /\ m % 8 \in 0 .. 7
  BY <1>1
<1> DEFINE q == m \div 8
           r == m % 8
<1>4. q \in Nat /\ r \in 0 .. 7 /\ 8 * n = q * 8 + r
  BY <1>2, <1>3
<1> HIDE DEF q, r
<1>5. q = n /\ r = 0
  BY <1>4
<1>6. QED BY <1>5 DEF q, r

\* BE4 of nothing.
LEMMA ZeroSent ==
  ASSUME NEW n \in Short
  PROVE  BE4(n) = <<0, 0, 0, 0>> <=> n = 0
<1> DEFINE zeros == <<0, 0, 0, 0>>
<1>1. /\ BE4(n)[1] = 0 /\ BE4(n)[2] = 0
      /\ BE4(n)[3] = n \div 256 /\ BE4(n)[4] = n % 256
  BY DEF BE4, BE2
<1>2. BE4(n) \in Seq(Nat) /\ Len(BE4(n)) = 4
  BY FourBytes
<1>3. zeros \in Seq(Nat) /\ Len(zeros) = 4 /\ \A i \in 1 .. 4 : zeros[i] = 0
  OBVIOUS
<1>4. ASSUME n = 0 PROVE BE4(n) = zeros
  <2>1. n \div 256 = 0 /\ n % 256 = 0
    BY <1>4
  <2>2. \A i \in 1 .. 4 : i \in {1, 2, 3, 4}
    OBVIOUS
  <2> HIDE DEF zeros
  <2>3. \A i \in 1 .. 4 : BE4(n)[i] = zeros[i]
    BY <1>1, <1>3, <2>1, <2>2
  <2>4. QED BY <1>2, <1>3, <2>3, SeqEqual
<1>5. ASSUME BE4(n) = zeros PROVE n = 0
  <2>1. BE4(n)[3] = 0 /\ BE4(n)[4] = 0
    BY <1>3, <1>5
  <2> DEFINE q == BE4(n)[3]
             r == BE4(n)[4]
  <2>2. n \in Nat /\ 256 * q + r = n
    BY <1>1, Division
  <2>3. q = 0 /\ r = 0
    BY <2>1
  <2> HIDE DEF q, r
  <2>4. QED BY <2>2, <2>3
<1>6. QED BY <1>4, <1>5

LEMMA FourOf ==
  ASSUME NEW s, NEW e \in Nat, NEW t \in Seq(Nat), Len(t) = 4,
         \A i \in 1 .. 4 : s[e + i] = t[i]
  PROVE  SubSeq(s, e + 1, e + 4) = t
<1> DEFINE part == SubSeq(s, e + 1, e + 4)
<1>1. /\ e + 1 \in Int /\ e + 4 \in Int /\ e + 1 <= e + 4 /\ (e + 4) - (e + 1) + 1 = 4
      /\ \A i \in 1 .. 4 : (e + 1) + i - 1 = e + i
      /\ \A i \in e + 1 .. e + 4 : i - e \in 1 .. 4 /\ e + (i - e) = i
  OBVIOUS
<1>2. \A i \in 1 .. 4 : t[i] \in Nat
  BY ElementOfSeq
<1>3. \A i \in e + 1 .. e + 4 : s[i] \in Nat
  BY <1>1, <1>2
<1>4. /\ part \in Seq(Nat)
      /\ Len(part) = IF e + 1 <= e + 4 THEN (e + 4) - (e + 1) + 1 ELSE 0
      /\ \A i \in 1 .. (e + 4) - (e + 1) + 1 : part[i] = s[(e + 1) + i - 1]
  BY <1>1, <1>3, SubSeqProperties
<1> HIDE DEF part
<1>5. Len(part) = 4 /\ \A i \in 1 .. 4 : part[i] = t[i]
  BY <1>1, <1>4
<1>6. part = t
  BY <1>4, <1>5, SeqEqual
<1>7. QED BY <1>6 DEF part

\* What is made of a battery frame of N packs.
LEMMA BatteryOf ==
  ASSUME NEW bytes, NEW N \in Nat, Len(bytes) = 8 * N + 11
  PROVE  LET Level(n) == BigEndian(SubSeq(bytes, 8 * (n - 1) + 11, 8 * (n - 1) + 14))
         IN  /\ DOMAIN Battery(bytes).fields["batteries"][1] = 1 .. N
             /\ \A n \in 1 .. N : Battery(bytes).fields["batteries"][1][n].remaining_percent = Level(n)
             /\ Battery(bytes).fields["external_power_code"] = <<bytes[8 * N + 11]>>
             /\ Battery(bytes).status = "decoded" <=>
                  /\ DeclaredLength(bytes)
                  /\ SubSeq(bytes, 8 * N + 7, 8 * N + 10) = <<0, 0, 0, 0>>
                  /\ \A n \in 1 .. N : ~(Level(n) > 100)
                  /\ N # 0
<1> DEFINE size == Len(bytes) - 11
           First(n) == 6 + 8 * (n - 1)
           packs == Packs(bytes)
           Level(n) == BigEndian(SubSeq(bytes, 8 * (n - 1) + 11, 8 * (n - 1) + 14))
           zeros == <<0, 0, 0, 0>>
<1>1. size \in Nat /\ size = 8 * N /\ ~(size < 0)
  OBVIOUS
<1>2. size \div 8 = N /\ size % 8 = 0
  <2> HIDE DEF size
  <2>1. QED BY <1>1, EightTimes
<1>3. DOMAIN packs = 1 .. N /\ \A n \in 1 .. N : packs[n].remaining_percent = Level(n)
  <2> HIDE DEF size
  <2>1. DOMAIN packs = 1 .. N
    BY <1>2 DEF Packs
  <2>2. ASSUME NEW n \in 1 .. N PROVE packs[n].remaining_percent = Level(n)
    <3>1. First(n) + 5 = 8 * (n - 1) + 11 /\ First(n) + 8 = 8 * (n - 1) + 14
      OBVIOUS
    <3>2. packs[n].remaining_percent = BigEndian(SubSeq(bytes, First(n) + 5, First(n) + 8))
      BY <1>2 DEF Packs
    <3>3. QED BY <3>1, <3>2
  <2>3. QED BY <2>1, <2>2
<1>4. /\ Battery(bytes).fields["batteries"] = <<packs>>
      /\ Battery(bytes).fields["external_power_code"] = <<bytes[Len(bytes)]>>
  BY <1>1 DEF Battery, Packs, Parsed
<1>5. Battery(bytes).status = "decoded" <=>
        ~(\/ ~DeclaredLength(bytes)
          \/ SubSeq(bytes, Len(bytes) - 4, Len(bytes) - 1) # zeros
          \/ size % 8 # 0
          \/ \E n \in DOMAIN packs : packs[n].remaining_percent > 100
          \/ packs = <<>>)
  <2>1. Len(bytes) \in Nat /\ Len(bytes) - 11 >= 0
    OBVIOUS
  <2>2. QED BY <2>1, BatteryWarns, Zenon
<1>6. Len(bytes) - 4 = 8 * N + 7 /\ Len(bytes) - 1 = 8 * N + 10
  OBVIOUS
<1> HIDE DEF packs, size, zeros, Level
<1>7. packs = <<>> <=> N = 0
  <2>1. 1 .. N = {} <=> N = 0
    OBVIOUS
  <2>2. packs = <<>> => DOMAIN packs = {}
    OBVIOUS
  <2>3. N = 0 => packs = <<>>
    <3>1. SUFFICES ASSUME N = 0 PROVE packs = <<>>
      OBVIOUS
    <3>2. size \div 8 = 0
      BY <1>2, <3>1
    <3>3. 1 .. size \div 8 = {}
      BY <3>2
    <3>4. DOMAIN packs = {}
      BY <1>3, <3>1
    <3>5. QED BY <3>3 DEF packs, Packs, size
  <2>4. QED BY <1>3, <2>1, <2>2, <2>3
<1>8. (\E n \in DOMAIN packs : packs[n].remaining_percent > 100) <=> \E n \in 1 .. N : Level(n) > 100
  BY <1>3
<1>9. Battery(bytes).status = "decoded" <=>
        /\ DeclaredLength(bytes)
        /\ SubSeq(bytes, 8 * N + 7, 8 * N + 10) = zeros
        /\ \A n \in 1 .. N : ~(Level(n) > 100)
        /\ N # 0
  BY <1>2, <1>5, <1>6, <1>7, <1>8
<1>10. <<packs>>[1] = packs
  OBVIOUS
<1>11. /\ DOMAIN Battery(bytes).fields["batteries"][1] = 1 .. N
       /\ \A n \in 1 .. N : Battery(bytes).fields["batteries"][1][n].remaining_percent = Level(n)
  BY <1>3, <1>4, <1>10
<1>12. QED BY <1>4, <1>9, <1>11 DEF zeros, Level

LEMMA BatteryReadBack ==
  ASSUME uuid \in Uuids, meaning \in Meanings[uuid], uuid = "cc10"
  PROVE  /\ Battery(Sent).status = "decoded" <=> Understood
         /\ [i \in DOMAIN meaning.packs |->
               Battery(Sent).fields["batteries"][1][i].remaining_percent] = meaning.packs
         /\ Battery(Sent).fields["external_power_code"] = <<meaning.power>>
<1> DEFINE N == Len(meaning.packs)
           Level(n) == BigEndian(SubSeq(Sent, 8 * (n - 1) + 11, 8 * (n - 1) + 14))
           zeros == <<0, 0, 0, 0>>
<1>1. /\ meaning.packs \in Seq(Short) /\ N \in Nat /\ meaning.reserved \in Short
      /\ Len(Sent) = 8 * N + 11 /\ Sent[1] = 8 * N + 10
      /\ \A n \in 1 .. N : \A i \in 1 .. 4 : Sent[8 * (n - 1) + 10 + i] = BE4(meaning.packs[n])[i]
      /\ \A i \in 1 .. 4 : Sent[8 * N + 6 + i] = BE4(meaning.reserved)[i]
      /\ Sent[8 * N + 11] = meaning.power
  BY BatterySent
<1>2. /\ DOMAIN Battery(Sent).fields["batteries"][1] = 1 .. N
      /\ \A n \in 1 .. N : Battery(Sent).fields["batteries"][1][n].remaining_percent = Level(n)
      /\ Battery(Sent).fields["external_power_code"] = <<Sent[8 * N + 11]>>
      /\ Battery(Sent).status = "decoded" <=>
           /\ DeclaredLength(Sent)
           /\ SubSeq(Sent, 8 * N + 7, 8 * N + 10) = zeros
           /\ \A n \in 1 .. N : ~(Level(n) > 100)
           /\ N # 0
  BY <1>1, BatteryOf
<1>3. DOMAIN meaning.packs = 1 .. N /\ \A n \in 1 .. N : meaning.packs[n] \in Short
  BY <1>1
<1>4. meaning.packs = <<>> <=> N = 0
  BY <1>1, EmptySeq
<1> HIDE DEF N, Level, zeros
<1>5. ASSUME NEW n \in 1 .. N PROVE Level(n) = meaning.packs[n]
  <2> DEFINE e == 8 * (n - 1) + 10
             t == BE4(meaning.packs[n])
  <2>1. e \in Nat /\ e + 1 = 8 * (n - 1) + 11 /\ e + 4 = 8 * (n - 1) + 14
    BY <1>1
  <2>2. t \in Seq(Nat) /\ Len(t) = 4
    BY <1>3, FourBytes
  <2>3. \A i \in 1 .. 4 : Sent[e + i] = t[i]
    BY <1>1
  <2> HIDE DEF e, t
  <2>4. SubSeq(Sent, e + 1, e + 4) = t
    BY <2>1, <2>2, <2>3, FourOf
  <2>5. BigEndian(t) = meaning.packs[n]
    <3>1. \A i \in 1 .. 4 : t[i] = BE4(meaning.packs[n])[i]
      BY DEF t
    <3>2. QED BY <1>3, <2>2, <3>1, FourBytesRead
  <2>6. QED BY <2>1, <2>4, <2>5 DEF Level
<1>6. SubSeq(Sent, 8 * N + 7, 8 * N + 10) = zeros <=> meaning.reserved = 0
  <2> DEFINE e == 8 * N + 6
             t == BE4(meaning.reserved)
  <2>1. e \in Nat /\ e + 1 = 8 * N + 7 /\ e + 4 = 8 * N + 10
    BY <1>1
  <2>2. t \in Seq(Nat) /\ Len(t) = 4
    BY <1>1, FourBytes
  <2>3. \A i \in 1 .. 4 : Sent[e + i] = t[i]
    BY <1>1
  <2>4. t = zeros <=> meaning.reserved = 0
    BY <1>1, ZeroSent DEF zeros
  <2> HIDE DEF e, t
  <2>5. SubSeq(Sent, e + 1, e + 4) = t
    BY <2>1, <2>2, <2>3, FourOf
  <2>6. QED BY <2>1, <2>4, <2>5
<1>7. DeclaredLength(Sent)
  BY <1>1 DEF DeclaredLength
<1>8. \A n \in 1 .. N : ~(meaning.packs[n] > 100) <=> meaning.packs[n] <= 100
  <2> SUFFICES ASSUME NEW n \in 1 .. N
               PROVE  ~(meaning.packs[n] > 100) <=> meaning.packs[n] <= 100
    OBVIOUS
  <2>1. meaning.packs[n] \in Nat
    <3>1. meaning.packs[n] \in Short
      BY <1>3
    <3>2. Short \subseteq Nat
      BY DEF Short
    <3>3. QED BY <3>1, <3>2
  <2>2. QED BY <2>1
<1>9. Understood <=> /\ meaning.packs # <<>> /\ meaning.reserved = 0
                     /\ \A i \in DOMAIN meaning.packs : meaning.packs[i] <= 100
  BY DEF Understood
<1>10. Battery(Sent).status = "decoded" <=> Understood
  BY <1>2, <1>3, <1>4, <1>5, <1>6, <1>7, <1>8, <1>9
<1>11. [i \in DOMAIN meaning.packs |->
          Battery(Sent).fields["batteries"][1][i].remaining_percent] = meaning.packs
  <2> DEFINE shown == [i \in DOMAIN meaning.packs |->
                         Battery(Sent).fields["batteries"][1][i].remaining_percent]
  <2>1. DOMAIN shown = 1 .. N /\ \A i \in 1 .. N : shown[i] = meaning.packs[i]
    BY <1>2, <1>3, <1>5
  <2>2. meaning.packs = [i \in 1 .. N |-> meaning.packs[i]]
    BY <1>1, <1>3
  <2>3. shown = [i \in 1 .. N |-> meaning.packs[i]]
    BY <2>1
  <2>4. QED BY <2>2, <2>3
<1>12. QED BY <1>1, <1>2, <1>10, <1>11
-----------------------------------------------------------------------------
(* Profiles that arrive as they were sent.                                 *)

LineEnd(text, i) == Max({j \in i .. Len(text) : \A k \in i .. j : text[k] \notin Breaks})

LineStep(text, from, i) ==
  IF i > Len(text) THEN <<>>
  ELSE IF text[i] \in Breaks THEN from[i + 1]
  ELSE <<SubSeq(text, i, LineEnd(text, i))>> \o from[LineEnd(text, i) + 1]

LEMMA LineEnds ==
  ASSUME NEW text \in Seq(Nat), NEW i \in 1 .. Len(text), text[i] \notin Breaks
  PROVE  /\ LineEnd(text, i) \in i .. Len(text)
         /\ \A k \in i .. LineEnd(text, i) : text[k] \notin Breaks
         /\ \A j \in i .. Len(text) :
              (\A k \in i .. j : text[k] \notin Breaks) => LineEnd(text, i) >= j
<1> DEFINE S == {j \in i .. Len(text) : \A k \in i .. j : text[k] \notin Breaks}
<1>1. Len(text) \in Nat
  OBVIOUS
<1>2. i \in S
  <2>1. i \in i .. Len(text) /\ \A k \in i .. i : k = i
    BY <1>1
  <2>2. QED BY <2>1
<1>3. S \in SUBSET (0 .. Len(text)) /\ S # {}
  BY <1>1, <1>2
<1>4. Max(S) \in S /\ \A j \in S : Max(S) >= j
  <2> HIDE DEF S
  <2>1. QED BY <1>1, <1>3, GreatestExists
<1>5. LineEnd(text, i) = Max(S)
  BY DEF LineEnd
<1> DEFINE e == Max(S)
<1> HIDE DEF e
<1>6. e \in S /\ \A j \in S : e >= j
  BY <1>4 DEF e
<1>7. QED BY <1>5, <1>6 DEF e

\* A step only looks further on.
LEMMA LineStepLooksOn ==
  ASSUME NEW text \in Seq(Nat), NEW i \in 1 .. Len(text) + 1, NEW g, NEW h,
         \A j \in i + 1 .. Len(text) + 1 : g[j] = h[j]
  PROVE  LineStep(text, g, i) = LineStep(text, h, i)
<1>1. Len(text) \in Nat
  OBVIOUS
<1>2. CASE i > Len(text)
  BY <1>2 DEF LineStep
<1>3. CASE ~(i > Len(text)) /\ text[i] \in Breaks
  <2>1. i + 1 \in i + 1 .. Len(text) + 1
    BY <1>1, <1>3
  <2>2. g[i + 1] = h[i + 1]
    BY <2>1
  <2>3. QED BY <1>3, <2>2 DEF LineStep
<1>4. CASE ~(i > Len(text)) /\ text[i] \notin Breaks
  <2> DEFINE e == LineEnd(text, i)
  <2>1. e \in i .. Len(text)
    <3>1. i \in 1 .. Len(text)
      BY <1>1, <1>4
    <3>2. QED BY <1>4, <3>1, LineEnds
  <2> HIDE DEF e
  <2>2. e + 1 \in i + 1 .. Len(text) + 1
    BY <1>1, <2>1
  <2>3. g[e + 1] = h[e + 1]
    BY <2>2
  <2>4. QED BY <1>4, <2>3 DEF LineStep, e
<1>5. QED BY <1>2, <1>3, <1>4

LEMMA LinesExist ==
  ASSUME NEW text \in Seq(Nat)
  PROVE  \E f : f = [i \in 1 .. Len(text) + 1 |-> LineStep(text, f, i)]
<1> DEFINE N == Len(text) + 1
           Solved(i, g) == \A j \in i .. N : g[j] = LineStep(text, g, j)
           P == {i \in 1 .. N : \E g : Solved(i, g)}
<1>1. Len(text) \in Nat /\ N \in Nat /\ N >= 1
  OBVIOUS
<1>2. ASSUME NEW i \in 1 .. N, \A j \in i + 1 .. N : j \in P PROVE i \in P
  <2>1. \E g : Solved(i + 1, g)
    <3>1. CASE i = N
      <4>1. i + 1 .. N = {}
        BY <1>1, <3>1
      <4>2. Solved(i + 1, 0)
        BY <4>1
      <4>3. QED BY <4>2
    <3>2. CASE i # N
      <4>1. i + 1 \in i + 1 .. N
        BY <1>1, <3>2
      <4>2. QED BY <1>2, <4>1
    <3>3. QED BY <3>1, <3>2
  <2>2. PICK g : Solved(i + 1, g)
    BY <2>1
  <2> DEFINE h == [j \in i .. N |-> IF j = i THEN LineStep(text, g, i) ELSE g[j]]
  <2>3. ASSUME NEW j \in i .. N PROVE h[j] = LineStep(text, h, j)
    <3>1. \A k \in j + 1 .. N : k \in i .. N /\ k # i
      BY <1>1
    <3>2. \A k \in j + 1 .. N : g[k] = h[k]
      BY <3>1
    <3>3. LineStep(text, g, j) = LineStep(text, h, j)
      <4> HIDE DEF h
      <4>1. j \in 1 .. Len(text) + 1
        BY <1>1
      <4>2. QED BY <3>2, <4>1, LineStepLooksOn
    <3>4. j # i => j \in i + 1 .. N
      BY <1>1
    <3>5. j # i => g[j] = LineStep(text, g, j)
      <4> HIDE DEF h
      <4>1. QED BY <2>2, <3>4
    <3>6. h[j] = LineStep(text, g, j)
      BY <3>5
    <3>7. QED BY <3>3, <3>6
  <2>4. \E f : Solved(i, f)
    <3> HIDE DEF h
    <3>1. Solved(i, h)
      BY <2>3
    <3>2. QED BY <3>1
  <2>5. QED BY <2>4
<1>3. 1 \in P
  <2> HIDE DEF P, N
  <2>1. 1 .. N \subseteq P
    BY <1>1, <1>2, DownwardInduction
  <2>2. QED BY <1>1, <2>1
<1>4. PICK g : Solved(1, g)
  BY <1>3
<1> DEFINE f == [i \in 1 .. N |-> g[i]]
<1>5. ASSUME NEW i \in 1 .. N PROVE f[i] = LineStep(text, f, i)
  <2>1. \A j \in i + 1 .. N : j \in 1 .. N
    BY <1>1
  <2>2. \A j \in i + 1 .. N : g[j] = f[j]
    BY <2>1
  <2>3. LineStep(text, g, i) = LineStep(text, f, i)
    <3> HIDE DEF f
    <3>1. QED BY <2>2, LineStepLooksOn
  <2>4. f[i] = LineStep(text, g, i)
    <3>1. g[i] = LineStep(text, g, i)
      BY <1>4
    <3>2. QED BY <3>1
  <2>5. QED BY <2>3, <2>4
<1>6. f = [i \in 1 .. N |-> f[i]]
  OBVIOUS
<1>7. f = [i \in 1 .. N |-> LineStep(text, f, i)]
  <2> HIDE DEF f
  <2>1. QED BY <1>5, <1>6
<1>8. \E h : h = [i \in 1 .. N |-> LineStep(text, h, i)]
  <2> HIDE DEF f
  <2>1. QED BY <1>7
<1>9. QED BY <1>8

LEMMA LinesRecursion ==
  ASSUME NEW text \in Seq(Nat)
  PROVE  \E f : /\ \A i \in 1 .. Len(text) + 1 : f[i] = LineStep(text, f, i)
                /\ Lines(text) = f[1]
<1> DEFINE f == CHOOSE f : f = [i \in 1 .. Len(text) + 1 |-> LineStep(text, f, i)]
<1>1. f = [i \in 1 .. Len(text) + 1 |-> LineStep(text, f, i)]
  BY LinesExist
<1>2. Lines(text) = f[1]
  BY DEF Lines, LineStep, LineEnd
<1> HIDE DEF f
<1>3. \A i \in 1 .. Len(text) + 1 : f[i] = LineStep(text, f, i)
  BY <1>1
<1>4. QED BY <1>2, <1>3

\* A line and its end are found as they were sent.
LEMMA LineFound ==
  ASSUME NEW text \in Seq(Nat), NEW line \in Seq(Nat), NEW e \in Nat, NEW f,
         line # <<>>, \A i \in 1 .. Len(line) : line[i] \notin Breaks,
         e + Len(line) + 1 <= Len(text), text[e + Len(line) + 1] \in Breaks,
         \A i \in 1 .. Len(line) : text[e + i] = line[i],
         \A i \in 1 .. Len(text) + 1 : f[i] = LineStep(text, f, i)
  PROVE  f[e + 1] = <<line>> \o f[e + Len(line) + 2]
<1> DEFINE n == Len(line)
<1>1. n \in Nat /\ n # 0 /\ Len(text) \in Nat
  BY EmptySeq
<1> HIDE DEF n
<1>2. /\ e + 1 \in 1 .. Len(text) /\ e + 1 \in 1 .. Len(text) + 1
      /\ e + n + 1 \in 1 .. Len(text) + 1 /\ e + n \in e + 1 .. Len(text)
      /\ e + n + 1 \in 1 .. Len(text)
      /\ 1 \in 1 .. n /\ (e + n) + 1 = e + n + 1 /\ (e + n + 1) + 1 = e + n + 2
      /\ ~(e + 1 > Len(text)) /\ ~(e + n + 1 > Len(text))
  BY <1>1 DEF n
<1>3. ASSUME NEW k \in e + 1 .. e + n PROVE text[k] \notin Breaks
  <2>1. k - e \in 1 .. n /\ e + (k - e) = k
    BY <1>1
  <2>2. QED BY <2>1 DEF n
<1>4. text[e + 1] \notin Breaks
  <2>1. e + 1 \in e + 1 .. e + n
    BY <1>1
  <2>2. QED BY <1>3, <2>1
<1>5. LineEnd(text, e + 1) = e + n
  <2> DEFINE end == LineEnd(text, e + 1)
  <2>1. /\ end \in e + 1 .. Len(text)
        /\ \A k \in e + 1 .. end : text[k] \notin Breaks
        /\ \A j \in e + 1 .. Len(text) :
              (\A k \in e + 1 .. j : text[k] \notin Breaks) => end >= j
    BY <1>2, <1>4, LineEnds
  <2> HIDE DEF end
  <2>2. end >= e + n
    BY <1>2, <1>3, <2>1
  <2>3. ~(end >= e + n + 1)
    <3>1. SUFFICES ASSUME end >= e + n + 1 PROVE FALSE
      OBVIOUS
    <3>2. e + n + 1 \in e + 1 .. end
      BY <1>1, <2>1, <3>1
    <3>3. text[e + n + 1] \in Breaks
      BY DEF n
    <3>4. QED BY <2>1, <3>2, <3>3
  <2>4. end = e + n
    BY <1>1, <2>1, <2>2, <2>3
  <2>5. QED BY <2>4 DEF end
<1>6. SubSeq(text, e + 1, e + n) = line
  <2> DEFINE part == SubSeq(text, e + 1, e + n)
  <2>1. /\ e + 1 \in Int /\ e + n \in Int /\ e + 1 <= e + n /\ (e + n) - (e + 1) + 1 = n
        /\ \A i \in 1 .. n : (e + 1) + i - 1 = e + i
        /\ e + 1 .. e + n \subseteq 1 .. Len(text)
    BY <1>1, <1>2
  <2>2. \A i \in e + 1 .. e + n : text[i] \in Nat
    BY <2>1, ElementOfSeq
  <2>3. /\ part \in Seq(Nat)
        /\ Len(part) = IF e + 1 <= e + n THEN (e + n) - (e + 1) + 1 ELSE 0
        /\ \A i \in 1 .. (e + n) - (e + 1) + 1 : part[i] = text[(e + 1) + i - 1]
    BY <2>1, <2>2, SubSeqProperties, SMTT(30)
  <2> HIDE DEF part
  <2>4. Len(part) = n /\ \A i \in 1 .. n : part[i] = line[i]
    <3>1. \A i \in 1 .. n : text[e + i] = line[i]
      BY DEF n
    <3>2. QED BY <2>1, <2>3, <3>1
  <2>5. part = line
    BY <2>3, <2>4, SeqEqual DEF n
  <2>6. QED BY <2>5 DEF part
<1>7. f[e + 1] = <<line>> \o f[e + n + 1]
  <2>1. f[e + 1] = LineStep(text, f, e + 1)
    BY <1>2
  <2>2. QED BY <1>2, <1>4, <1>5, <1>6, <2>1 DEF LineStep
<1>8. f[e + n + 1] = f[e + n + 2]
  <2>1. f[e + n + 1] = LineStep(text, f, e + n + 1)
    BY <1>2
  <2>2. text[e + n + 1] \in Breaks
    BY DEF n
  <2>3. QED BY <1>2, <2>1, <2>2 DEF LineStep
<1>9. QED BY <1>7, <1>8 DEF n

\* Everything that is flattened comes from one of the sequences.
LEMMA FlatOnly ==
  ASSUME NEW S, NEW s \in Seq(Seq(S)), NEW p \in 1 .. Len(FlattenSeq(s))
  PROVE  \E n \in 1 .. Len(s) : \E i \in 1 .. Len(s[n]) : FlattenSeq(s)[p] = s[n][i]
<1> DEFINE N == Len(s)
           Found(m, q) == \E n \in 1 .. N : \E i \in 1 .. Len(s[n]) : Flat(s, m)[q] = s[n][i]
           P == {m \in Nat : m <= N => \A q \in 1 .. Len(Flat(s, m)) : Found(m, q)}
<1>1. N \in Nat /\ \A n \in 1 .. N : s[n] \in Seq(S) /\ Len(s[n]) \in Nat
  OBVIOUS
<1>2. 0 \in P
  <2>1. Len(Flat(s, 0)) = 0
    BY FlatStart
  <2>2. \A q \in 1 .. Len(Flat(s, 0)) : FALSE
    BY <2>1
  <2>3. QED BY <2>1, <2>2
<1>3. ASSUME NEW m \in Nat, m \in P PROVE m + 1 \in P
  <2> SUFFICES ASSUME m + 1 <= N, NEW q \in 1 .. Len(Flat(s, m + 1)) PROVE Found(m + 1, q)
    <3> HIDE DEF Found, N
    <3>1. QED OBVIOUS
  <2>1. m < N /\ m <= N /\ m \in 0 .. N /\ m + 1 \in 1 .. N
    BY <1>1
  <2> DEFINE a == Flat(s, m)
             b == s[m + 1]
  <2>2. a \in Seq(S) /\ b \in Seq(S) /\ Len(a) \in Nat /\ Len(b) \in Nat
    <3>1. a \in Seq(S)
      BY <2>1, FlatBegins
    <3>2. QED BY <1>1, <2>1, <3>1
  <2>3. Flat(s, m + 1) = a \o b
    BY <2>1, FlatNext
  <2> HIDE DEF a, b, N
  <2>4. /\ Len(a \o b) = Len(a) + Len(b)
        /\ \A i \in 1 .. Len(a) + Len(b) : (a \o b)[i] = IF i <= Len(a) THEN a[i] ELSE b[i - Len(a)]
    BY <2>2, ConcatProperties
  <2>5. q \in 1 .. Len(a) + Len(b)
    BY <2>3, <2>4
  <2>6. CASE q <= Len(a)
    <3>1. q \in 1 .. Len(a) /\ Flat(s, m + 1)[q] = a[q]
      BY <2>2, <2>3, <2>4, <2>5, <2>6
    <3>2. Found(m, q)
      BY <1>3, <2>1, <3>1 DEF a
    <3>3. QED BY <3>1, <3>2 DEF a
  <2>7. CASE ~(q <= Len(a))
    <3>1. q - Len(a) \in 1 .. Len(b) /\ Flat(s, m + 1)[q] = b[q - Len(a)]
      BY <2>2, <2>3, <2>4, <2>5, <2>7
    <3>2. QED BY <2>1, <3>1 DEF b
  <2>8. QED BY <2>6, <2>7
<1>4. N \in P
  <2> HIDE DEF P
  <2>1. Nat \subseteq P
    BY <1>2, <1>3, SetInduction
  <2>2. QED BY <1>1, <2>1
<1>5. FlattenSeq(s) = Flat(s, N)
  <2>1. SubSeq(s, 1, N) = s
    BY SubSeqFull
  <2>2. QED BY <2>1 DEF Flat
<1>6. QED BY <1>1, <1>4, <1>5

\* The names of FTP profiles, and how they are sent.
Name == {name \in Seq(Nat) : name # <<>> /\ \A i \in DOMAIN name : name[i] \notin Breaks}

Named(names) == [i \in DOMAIN names |-> Append(names[i], 10)]

LEMMA NamesInPlace ==
  ASSUME NEW names \in Seq(Name)
  PROVE  LET lines == Named(names)
             text  == FlattenSeq(lines)
         IN  /\ lines \in Seq(Seq(Nat)) /\ Len(lines) = Len(names)
             /\ \A n \in 1 .. Len(names) :
                  /\ names[n] \in Name /\ Len(names[n]) \in Nat
                  /\ lines[n] = Append(names[n], 10) /\ Len(lines[n]) = Len(names[n]) + 1
                  /\ \A i \in 1 .. Len(names[n]) : lines[n][i] = names[n][i]
                  /\ lines[n][Len(names[n]) + 1] = 10
             /\ text = Flat(lines, Len(names)) /\ text \in Seq(Nat)
<1> DEFINE lines == Named(names)
           text == FlattenSeq(lines)
           N == Len(names)
<1>1. N \in Nat /\ DOMAIN names = 1 .. N /\ \A n \in 1 .. N : names[n] \in Name
  OBVIOUS
<1>2. \A n \in 1 .. N : names[n] \in Seq(Nat) /\ lines[n] = Append(names[n], 10)
  BY <1>1 DEF Name, Named
<1>3. lines \in Seq(Seq(Nat)) /\ Len(lines) = N
  <2>1. \A n \in 1 .. N : Append(names[n], 10) \in Seq(Nat)
    BY <1>2, AppendProperties
  <2>2. lines \in [1 .. N -> Seq(Nat)]
    BY <1>1, <2>1 DEF Named
  <2> HIDE DEF lines, N
  <2>3. QED BY <1>1, <2>2, FunctionIsSequence
<1> HIDE DEF lines, N
<1>4. ASSUME NEW n \in 1 .. N
      PROVE  /\ names[n] \in Name /\ Len(names[n]) \in Nat
             /\ lines[n] = Append(names[n], 10) /\ Len(lines[n]) = Len(names[n]) + 1
             /\ \A i \in 1 .. Len(names[n]) : lines[n][i] = names[n][i]
             /\ lines[n][Len(names[n]) + 1] = 10
  <2> DEFINE name == names[n]
  <2>1. name \in Seq(Nat) /\ lines[n] = Append(name, 10) /\ name \in Name
    BY <1>1, <1>2
  <2> HIDE DEF name
  <2>2. /\ Len(name) \in Nat /\ Len(Append(name, 10)) = Len(name) + 1
        /\ \A i \in 1 .. Len(name) : Append(name, 10)[i] = name[i]
        /\ Append(name, 10)[Len(name) + 1] = 10
    BY <2>1, AppendProperties
  <2>3. QED BY <2>1, <2>2 DEF name
<1>5. text = Flat(lines, N) /\ text \in Seq(Nat)
  <2>1. SubSeq(lines, 1, N) = lines
    BY <1>3, SubSeqFull
  <2>2. text = Flat(lines, N)
    BY <2>1 DEF Flat
  <2>3. N \in 0 .. Len(lines)
    BY <1>1, <1>3
  <2>4. QED BY <1>3, <2>2, <2>3, FlatBegins
<1>6. QED BY <1>3, <1>4, <1>5 DEF lines, N

LEMMA LinesOfNames ==
  ASSUME NEW names \in Seq(Name)
  PROVE  Lines(FlattenSeq(Named(names))) = names
<1> DEFINE lines == Named(names)
           text == FlattenSeq(lines)
           N == Len(names)
           Ends(n) == Len(Flat(lines, n))
<1>1. N \in Nat
  OBVIOUS
<1>2. /\ lines \in Seq(Seq(Nat)) /\ Len(lines) = N
      /\ \A n \in 1 .. N :
           /\ names[n] \in Name /\ Len(names[n]) \in Nat
           /\ Len(lines[n]) = Len(names[n]) + 1
           /\ \A i \in 1 .. Len(names[n]) : lines[n][i] = names[n][i]
           /\ lines[n][Len(names[n]) + 1] = 10
      /\ text = Flat(lines, N) /\ text \in Seq(Nat) /\ Len(text) \in Nat
  BY NamesInPlace
<1>3. PICK f : /\ \A i \in 1 .. Len(text) + 1 : f[i] = LineStep(text, f, i)
               /\ Lines(text) = f[1]
  BY <1>2, LinesRecursion
<1> DEFINE Claim(n) == f[Ends(n) + 1] = SubSeq(names, n + 1, N)
           P == {i \in 1 .. N + 1 : Claim(i - 1)}
<1> HIDE DEF lines, text, N
<1>4. ASSUME NEW i \in 1 .. N + 1, \A j \in i + 1 .. N + 1 : j \in P PROVE i \in P
  <2> DEFINE n == i - 1
  <2>1. n \in 0 .. N /\ n + 1 = i /\ n \in Nat
    BY <1>1
  <2>2. SUFFICES Claim(n)
    OBVIOUS
  <2> HIDE DEF n
  <2>3. CASE n = N
    <3>1. Ends(n) + 1 \in 1 .. Len(text) + 1 /\ Ends(n) + 1 > Len(text)
      BY <1>2, <2>3
    <3>2. f[Ends(n) + 1] = <<>>
      <4>1. f[Ends(n) + 1] = LineStep(text, f, Ends(n) + 1)
        BY <1>3, <3>1
      <4>2. QED BY <3>1, <4>1 DEF LineStep
    <3>3. SubSeq(names, n + 1, N) = <<>>
      <4>1. N < n + 1 /\ n + 1 \in Int /\ N \in Int
        BY <1>1, <2>3
      <4>2. QED BY <4>1, SubSeqEmpty
    <3>4. QED BY <3>2, <3>3
  <2>4. CASE n # N
    <3>1. /\ n < N /\ n + 2 \in i + 1 .. N + 1 /\ (n + 2) - 1 = n + 1
          /\ n + 1 \in 1 .. N /\ (n + 1) + 1 = n + 2
      BY <1>1, <2>1, <2>4
    <3> DEFINE e == Ends(n)
               name == names[n + 1]
               size == Len(name)
    <3>2. /\ e \in Nat /\ Len(lines[n + 1]) = size + 1
          /\ Ends(n + 1) = e + Len(lines[n + 1]) /\ Ends(n + 1) <= Len(text)
          /\ \A j \in 1 .. Len(lines[n + 1]) : text[e + j] = lines[n + 1][j]
      <4> HIDE DEF name, size
      <4>1. n \in Nat /\ n < Len(lines) /\ lines \in Seq(Seq(Nat))
        BY <1>2, <2>1, <3>1
      <4>2. /\ Len(Flat(lines, n)) \in Nat
            /\ Len(Flat(lines, n + 1)) = Len(Flat(lines, n)) + Len(lines[n + 1])
            /\ Len(Flat(lines, n + 1)) <= Len(FlattenSeq(lines))
            /\ \A j \in 1 .. Len(lines[n + 1]) :
                 FlattenSeq(lines)[Len(Flat(lines, n)) + j] = lines[n + 1][j]
        BY <4>1, FlatInPlace
      <4>3. Len(lines[n + 1]) = size + 1
        BY <1>2, <3>1 DEF name, size
      <4>4. QED BY <4>2, <4>3 DEF text
    <3>3. /\ name \in Name /\ size \in Nat
          /\ \A j \in 1 .. size : lines[n + 1][j] = name[j]
          /\ lines[n + 1][size + 1] = 10
      BY <1>2, <3>1
    <3> HIDE DEF e, name, Ends
    <3>4. /\ name \in Seq(Nat) /\ name # <<>>
          /\ \A j \in 1 .. Len(name) : name[j] \notin Breaks
      BY <3>3 DEF Name
    <3> HIDE DEF size
    <3>5. /\ size + 1 \in 1 .. size + 1 /\ \A j \in 1 .. size : j \in 1 .. size + 1
          /\ e + (size + 1) = e + size + 1 /\ (e + size + 1) + 1 = e + size + 2
      BY <3>2, <3>3
    <3>6. e + size + 1 <= Len(text) /\ text[e + size + 1] \in Breaks
      <4>1. text[e + size + 1] = 10
        BY <3>2, <3>3, <3>5
      <4>2. QED BY <3>2, <3>5, <4>1 DEF Breaks
    <3>7. \A j \in 1 .. size : text[e + j] = name[j]
      BY <3>2, <3>3, <3>5
    <3>8. f[e + 1] = <<name>> \o f[e + size + 2]
      <4>1. /\ e + Len(name) + 1 <= Len(text) /\ text[e + Len(name) + 1] \in Breaks
            /\ \A j \in 1 .. Len(name) : text[e + j] = name[j]
            /\ e \in Nat /\ text \in Seq(Nat)
        BY <1>2, <3>2, <3>6, <3>7 DEF size
      <4>2. f[e + 1] = <<name>> \o f[e + Len(name) + 2]
        BY <1>3, <3>4, <4>1, LineFound, ZenonT(30)
      <4>3. QED BY <4>2 DEF size
    <3>9. n + 2 \in P
      BY <1>4, <3>1
    <3>10. f[e + size + 2] = SubSeq(names, (n + 1) + 1, N)
      <4>1. Claim(n + 1)
        BY <3>1, <3>9
      <4>2. Ends(n + 1) + 1 = e + size + 2
        BY <3>2, <3>5
      <4>3. QED BY <4>1, <4>2
    <3>11. <<names[n + 1]>> \o SubSeq(names, (n + 1) + 1, N) = SubSeq(names, n + 1, N)
      BY <3>1, RestBegins DEF N
    <3>12. QED BY <3>8, <3>10, <3>11 DEF e, name
  <2>5. QED BY <2>3, <2>4
<1>5. Claim(0)
  <2> HIDE DEF Claim
  <2>1. 1 .. N + 1 \subseteq P
    <3> HIDE DEF P
    <3>1. N + 1 \in Nat
      BY <1>1
    <3>2. QED BY <1>4, <3>1, DownwardInduction
  <2>2. 1 \in P
    <3> HIDE DEF P
    <3>1. 1 \in 1 .. N + 1
      BY <1>1
    <3>2. QED BY <2>1, <3>1
  <2>3. 1 - 1 = 0
    OBVIOUS
  <2>4. QED BY <2>2, <2>3
<1>6. Ends(0) + 1 = 1 /\ SubSeq(names, 0 + 1, N) = names
  <2>1. Ends(0) = 0
    BY FlatStart
  <2>2. SubSeq(names, 1, N) = names
    BY SubSeqFull DEF N
  <2>3. QED BY <2>1, <2>2
<1>7. QED BY <1>3, <1>5, <1>6 DEF text, lines
-----------------------------------------------------------------------------
(* Texts and settings that arrive as they were sent.                       *)

\* What is in a frame is what was put into it.
LEMMA PayloadOfPlain ==
  ASSUME NEW p \in Seq(Nat)
  PROVE  /\ HasHeader(Plain(p)) /\ DeclaredLength(Plain(p))
         /\ Payload(Plain(p)) = p
<1> DEFINE bytes == Plain(p)
           n == Len(p)
           part == SubSeq(bytes, 4, n + 3)
<1>1. /\ n \in Nat /\ bytes \in Seq(Nat) /\ Len(bytes) = n + 3 /\ bytes[1] = n + 2
      /\ \A i \in 1 .. n : bytes[i + 3] = p[i]
  <2>1. n \in Nat
    OBVIOUS
  <2> HIDE DEF n
  <2>2. QED BY <2>1, PlainFrame DEF n
<1> HIDE DEF bytes
<1>2. HasHeader(bytes) /\ DeclaredLength(bytes)
  BY <1>1 DEF HasHeader, DeclaredLength
<1>3. part = p
  <2> HIDE DEF n
  <2>1. /\ 4 \in Int /\ n + 3 \in Int
        /\ \A i \in 4 .. n + 3 : i \in 1 .. Len(bytes)
        /\ (4 <= n + 3 => (n + 3) - 4 + 1 = n) /\ (~(4 <= n + 3) => n = 0)
        /\ \A i \in 1 .. (n + 3) - 4 + 1 : 4 + i - 1 = i + 3
        /\ (n + 3) - 4 + 1 = n
    BY <1>1
  <2>2. \A i \in 4 .. n + 3 : bytes[i] \in Nat
    BY <1>1, <2>1, ElementOfSeq
  <2>3. /\ part \in Seq(Nat)
        /\ Len(part) = IF 4 <= n + 3 THEN (n + 3) - 4 + 1 ELSE 0
        /\ \A i \in 1 .. (n + 3) - 4 + 1 : part[i] = bytes[4 + i - 1]
    BY <2>1, <2>2, SubSeqProperties
  <2> HIDE DEF part
  <2>4. Len(part) = n /\ \A i \in 1 .. n : part[i] = p[i]
    BY <1>1, <2>1, <2>3
  <2>5. QED BY <2>3, <2>4, SeqEqual DEF n
<1>4. QED BY <1>1, <1>2, <1>3 DEF bytes, Payload

\* A text that does not end in a zero keeps its end.
LEMMA NothingToStrip ==
  ASSUME NEW text \in Seq(Nat), text = <<>> \/ text[Len(text)] # 0
  PROVE  RStrip(text) = text
<1> DEFINE n == Len(text)
           S == {0} \cup {i \in DOMAIN text : text[i] # 0}
<1>1. n \in Nat /\ DOMAIN text = 1 .. n /\ n \in S /\ S \in SUBSET (0 .. n) /\ S # {}
  <2>1. n \in Nat /\ DOMAIN text = 1 .. n
    OBVIOUS
  <2>2. n \in S
    <3>1. CASE n = 0
      BY <3>1
    <3>2. CASE n # 0
      <4>1. text # <<>> /\ n \in 1 .. n
        BY <2>1, <3>2
      <4>2. QED BY <2>1, <4>1
    <3>3. QED BY <3>1, <3>2
  <2>3. QED BY <2>1, <2>2
<1> HIDE DEF S, n
<1>2. Max(S) \in S /\ \A i \in S : Max(S) >= i
  BY <1>1, GreatestExists
<1>3. Max(S) = n
  <2>1. Max(S) \in 0 .. n /\ Max(S) >= n
    BY <1>1, <1>2
  <2>2. QED BY <1>1, <2>1
<1>4. SubSeq(text, 1, n) = text
  BY SubSeqFull DEF n
<1>5. QED BY <1>3, <1>4 DEF RStrip, S

LEMMA BytesAreNumbers ==
  ASSUME NEW text \in Text
  PROVE  text \in Seq(Nat)
<1>1. Byte \subseteq Nat /\ text \in Seq(Byte)
  BY DEF Byte, Text
<1>2. QED BY <1>1, SeqMonotonic

\* Texts, framed or not.
LEMMA TextReadBack ==
  ASSUME uuid \in Uuids, meaning \in Meanings[uuid],
         uuid \in {"cc06", "cc07", "cc0a", "cc0b", "cc0c", "cc11"}
  PROVE  Decoded(uuid, Sent).status = "decoded" <=> Understood
<1>1. meaning \in Seq(Nat)
  <2>1. meaning \in Meant(uuid)
    BY DecoderAssumption
  <2>2. meaning \in Text
    BY <2>1 DEF Meant
  <2>3. QED BY <2>2, BytesAreNumbers
<1>2. Understood <=> Printable(RStrip(meaning))
  BY DEF Understood
<1>3. CASE uuid \in {"cc0a", "cc0b"}
  <2>1. Sent = meaning
    BY <1>3 DEF Sent, Frame
  <2>2. \E field : Decoded(uuid, Sent) = Ascii(Sent, field)
    BY <1>3 DEF Decoded
  <2>3. QED BY <1>2, <2>1, <2>2, AsciiStatus
<1>4. CASE uuid \in {"cc06", "cc07"}
  <2>1. Sent = Plain(meaning)
    BY <1>4 DEF Sent, Frame
  <2>2. \E field : Decoded(uuid, Sent) = OptionalFramedAscii(Sent, field)
    BY <1>4 DEF Decoded
  <2>3. HasHeader(Sent) /\ DeclaredLength(Sent) /\ Payload(Sent) = meaning
    BY <1>1, <2>1, PayloadOfPlain
  <2>4. \E field : Decoded(uuid, Sent) = Ascii(meaning, field)
    BY <2>2, <2>3 DEF OptionalFramedAscii, Content
  <2>5. QED BY <1>2, <2>4, AsciiStatus
<1>5. CASE uuid = "cc0c"
  <2>1. Sent = meaning
    BY <1>5 DEF Sent, Frame
  <2>2. \E field : Decoded(uuid, Sent) = OptionalFramedAscii(Sent, field)
    BY <1>5 DEF Decoded
  <2>3. ~(HasHeader(Sent) /\ DeclaredLength(Sent))
    <3>1. meaning \in Meant(uuid)
      BY DecoderAssumption
    <3>2. Len(meaning) < 3 \/ meaning[1] # Len(meaning) - 1
      BY <1>5, <3>1 DEF Meant
    <3>3. Len(meaning) \in Nat
      BY <1>1
    <3>4. QED BY <2>1, <3>2, <3>3 DEF HasHeader, DeclaredLength
  <2>4. \E field : Decoded(uuid, Sent) = Ascii(meaning, field)
    BY <2>1, <2>2, <2>3 DEF OptionalFramedAscii, Content
  <2>5. QED BY <1>2, <2>4, AsciiStatus
<1>6. CASE uuid = "cc11"
  <2>1. Sent = Plain(meaning)
    BY <1>6 DEF Sent, Frame
  <2>2. Decoded(uuid, Sent) = FramedAscii(Sent, "model")
    BY <1>6 DEF Decoded
  <2>3. HasHeader(Sent) /\ DeclaredLength(Sent) /\ Payload(Sent) = meaning
    BY <1>1, <2>1, PayloadOfPlain
  <2>4. Decoded(uuid, Sent).status = "decoded" <=> Ascii(meaning, "model").status = "decoded"
    BY <2>2, <2>3, Quiet DEF FramedAscii, Ascii, Parsed
  <2>5. QED BY <1>2, <2>4, AsciiStatus
<1>7. QED BY <1>3, <1>4, <1>5, <1>6

\* The names of FTP profiles, one in a line.
LEMMA FtpReadBack ==
  ASSUME uuid \in Uuids, meaning \in Meanings[uuid], uuid = "cc40"
  PROVE  /\ FtpProfiles(Sent).status = "decoded" <=> Understood
         /\ Understood => FtpProfiles(Sent).fields["ftp_profile_names"] = <<meaning>>
<1> DEFINE lines == Named(meaning)
           text == FlattenSeq(lines)
           N == Len(meaning)
<1>1. meaning \in Seq(Name)
  <2>1. meaning \in Meant(uuid)
    BY DecoderAssumption
  <2>2. /\ meaning \in Seq(Text)
        /\ \A i \in DOMAIN meaning :
             meaning[i] # <<>> /\ \A j \in DOMAIN meaning[i] : meaning[i][j] \notin Breaks
    BY <2>1 DEF Meant
  <2>3. \A i \in DOMAIN meaning : meaning[i] \in Text
    BY <2>2
  <2>4. \A i \in DOMAIN meaning : meaning[i] \in Name
    BY <2>2, <2>3, BytesAreNumbers DEF Name
  <2>5. Len(meaning) \in Nat /\ meaning \in [1 .. Len(meaning) -> Name]
    BY <2>2, <2>4
  <2>6. QED BY <2>5, FunctionIsSequence
<1>2. /\ lines \in Seq(Seq(Nat)) /\ Len(lines) = N
      /\ \A n \in 1 .. N :
           /\ meaning[n] \in Name /\ Len(meaning[n]) \in Nat
           /\ Len(lines[n]) = Len(meaning[n]) + 1
           /\ \A i \in 1 .. Len(meaning[n]) : lines[n][i] = meaning[n][i]
           /\ lines[n][Len(meaning[n]) + 1] = 10
      /\ text = Flat(lines, N) /\ text \in Seq(Nat)
  BY <1>1, NamesInPlace
<1>3. Sent = Plain(text)
  BY DEF Sent, Frame, Named
<1>4. N \in Nat /\ DOMAIN meaning = 1 .. N
  BY <1>1
<1>5. Lines(text) = meaning
  BY <1>1, LinesOfNames
<1> HIDE DEF lines, N
<1>6. \A n \in 1 .. N : \A i \in 1 .. Len(meaning[n]) + 1 :
        \E p \in 1 .. Len(text) : text[p] = lines[n][i]
  <2> SUFFICES ASSUME NEW n \in 1 .. N, NEW i \in 1 .. Len(meaning[n]) + 1
               PROVE  \E p \in 1 .. Len(text) : text[p] = lines[n][i]
    OBVIOUS
  <2> DEFINE m == n - 1
  <2>1. m \in Nat /\ m < Len(lines) /\ m + 1 = n
    BY <1>2, <1>4
  <2> HIDE DEF m
  <2>2. /\ Len(Flat(lines, m)) \in Nat /\ Len(lines[m + 1]) \in Nat
        /\ Len(Flat(lines, m + 1)) = Len(Flat(lines, m)) + Len(lines[m + 1])
        /\ Len(Flat(lines, m + 1)) <= Len(FlattenSeq(lines))
        /\ \A j \in 1 .. Len(lines[m + 1]) :
             FlattenSeq(lines)[Len(Flat(lines, m)) + j] = lines[m + 1][j]
    <3>1. lines \in Seq(Seq(Nat))
      BY <1>2
    <3>2. QED BY <2>1, <3>1, FlatInPlace
  <2> DEFINE e == Len(Flat(lines, m))
             k == Len(lines[m + 1])
  <2>3. i \in 1 .. k
    BY <1>2, <2>1
  <2>4. Len(FlattenSeq(lines)) \in Nat
    BY <1>2
  <2>5. e \in Nat /\ k \in Nat /\ e + k <= Len(text)
    BY <2>2
  <2>6. text[e + i] = lines[m + 1][i]
    BY <2>2, <2>3
  <2> HIDE DEF e, k, text
  <2>7. e + i \in 1 .. Len(text)
    BY <2>3, <2>4, <2>5 DEF text
  <2>8. QED BY <2>1, <2>6, <2>7
<1>7. (\A p \in DOMAIN text : text[p] < 128) <=> Understood
  <2>1. Understood <=> \A n \in 1 .. N : \A i \in DOMAIN meaning[n] : meaning[n][i] < 128
    BY <1>4 DEF Understood
  <2>2. \A n \in 1 .. N : DOMAIN meaning[n] = 1 .. Len(meaning[n])
    BY <1>2 DEF Name
  <2>3. DOMAIN text = 1 .. Len(text)
    BY <1>2
  <2>4. ASSUME \A p \in DOMAIN text : text[p] < 128, NEW n \in 1 .. N, NEW i \in DOMAIN meaning[n]
        PROVE  meaning[n][i] < 128
    <3>1. i \in 1 .. Len(meaning[n]) /\ i \in 1 .. Len(meaning[n]) + 1
      BY <1>2, <2>2
    <3>2. PICK p \in 1 .. Len(text) : text[p] = lines[n][i]
      BY <1>6, <3>1
    <3>3. lines[n][i] = meaning[n][i]
      BY <1>2, <3>1
    <3>4. QED BY <2>3, <2>4, <3>2, <3>3
  <2>5. ASSUME \A n \in 1 .. N : \A i \in DOMAIN meaning[n] : meaning[n][i] < 128,
               NEW p \in DOMAIN text
        PROVE  text[p] < 128
    <3>1. p \in 1 .. Len(FlattenSeq(lines)) /\ lines \in Seq(Seq(Nat))
      BY <1>2, <2>3
    <3>2. PICK n \in 1 .. Len(lines) : \E i \in 1 .. Len(lines[n]) :
                                         FlattenSeq(lines)[p] = lines[n][i]
      BY <3>1, FlatOnly
    <3>3. PICK i \in 1 .. Len(lines[n]) : text[p] = lines[n][i]
      BY <3>2
    <3>4. n \in 1 .. N /\ i \in 1 .. Len(meaning[n]) + 1 /\ Len(meaning[n]) \in Nat
      BY <1>2
    <3>5. CASE i = Len(meaning[n]) + 1
      <4>1. text[p] = 10
        BY <1>2, <3>3, <3>4, <3>5
      <4>2. QED BY <4>1
    <3>6. CASE i # Len(meaning[n]) + 1
      <4>1. i \in 1 .. Len(meaning[n])
        BY <3>4, <3>6
      <4>2. text[p] = meaning[n][i]
        BY <1>2, <3>3, <3>4, <4>1
      <4>3. QED BY <2>2, <2>5, <3>4, <4>1, <4>2
    <3>7. QED BY <3>5, <3>6
  <2>6. QED BY <2>1, <2>4, <2>5
<1>8. RStrip(text) = text
  <2>1. CASE N = 0
    <3>1. text = <<>>
      BY <1>2, <2>1, FlatStart
    <3>2. QED BY <1>2, <3>1, NothingToStrip
  <2>2. CASE N # 0
    <3> DEFINE m == N - 1
    <3>1. m \in Nat /\ m < Len(lines) /\ m + 1 = N /\ N \in 1 .. N
      BY <1>2, <1>4, <2>2
    <3> HIDE DEF m
    <3>2. /\ Len(Flat(lines, m)) \in Nat
          /\ Len(Flat(lines, m + 1)) = Len(Flat(lines, m)) + Len(lines[m + 1])
          /\ \A j \in 1 .. Len(lines[m + 1]) :
               FlattenSeq(lines)[Len(Flat(lines, m)) + j] = lines[m + 1][j]
      <4>1. lines \in Seq(Seq(Nat))
        BY <1>2
      <4>2. QED BY <3>1, <4>1, FlatInPlace
    <3> DEFINE k == Len(lines[m + 1])
    <3>3. k = Len(meaning[N]) + 1 /\ Len(meaning[N]) \in Nat /\ lines[m + 1][k] = 10
      BY <1>2, <3>1
    <3>4. Len(text) = Len(Flat(lines, m)) + k
      BY <1>2, <3>1, <3>2
    <3>5. k \in 1 .. k
      BY <3>3
    <3>6. text[Len(text)] = 10
      BY <3>2, <3>3, <3>4, <3>5
    <3>7. QED BY <1>2, <3>6, NothingToStrip
  <2>3. QED BY <2>1, <2>2
<1> HIDE DEF text
<1>9. HasHeader(Sent) /\ DeclaredLength(Sent) /\ Payload(Sent) = text
  BY <1>2, <1>3, PayloadOfPlain
<1> DEFINE ascii == \A p \in DOMAIN text : text[p] < 128
<1>10. FtpProfiles(Sent) =
         Parsed(Field("ftp_profile_names",
                      IF HasHeader(Sent) /\ ascii THEN <<Lines(text)>> ELSE None),
                FrameWarnings(Sent) \cup Warn("not ASCII", ~ascii))
  BY <1>8, <1>9, Zenon DEF FtpProfiles
<1> HIDE DEF ascii
<1>11. FtpProfiles(Sent).status = "decoded" <=> ascii
  <2> DEFINE w1 == FrameWarnings(Sent)
             w2 == Warn("not ASCII", ~ascii)
             warnings == w1 \cup w2
  <2>1. PICK fields : FtpProfiles(Sent) = Parsed(fields, warnings)
    BY <1>10
  <2>2. w1 = {} /\ (w2 = {} <=> ascii)
    BY <1>9, Quiet
  <2> HIDE DEF w1, w2
  <2>3. warnings = {} <=> w1 = {} /\ w2 = {}
    OBVIOUS
  <2> HIDE DEF warnings
  <2>4. FtpProfiles(Sent).status = "decoded" <=> warnings = {}
    BY <2>1, ParsedHas
  <2>5. QED BY <2>2, <2>3, <2>4
<1>12. ascii => FtpProfiles(Sent).fields = Field("ftp_profile_names", <<meaning>>)
  <2>1. FtpProfiles(Sent).fields =
          Field("ftp_profile_names", IF HasHeader(Sent) /\ ascii THEN <<Lines(text)>> ELSE None)
    <3> DEFINE f == Field("ftp_profile_names",
                          IF HasHeader(Sent) /\ ascii THEN <<Lines(text)>> ELSE None)
               w == FrameWarnings(Sent) \cup Warn("not ASCII", ~ascii)
    <3>1. FtpProfiles(Sent) = Parsed(f, w)
      BY <1>10
    <3> HIDE DEF f, w
    <3>2. FtpProfiles(Sent).fields = f
      BY <3>1, ParsedHas
    <3>3. QED BY <3>2 DEF f
  <2>2. QED BY <1>5, <1>9, <2>1
<1>13. ascii <=> Understood
  BY <1>7 DEF ascii
<1>14. QED BY <1>11, <1>12, <1>13 DEF Field

\* The state of the push transfer, the only byte of its payload.
LEMMA PushReadBack ==
  ASSUME uuid \in Uuids, meaning \in Meanings[uuid], uuid = "cc03"
  PROVE  PushTransfer(Sent).status = "decoded" <=> Understood
<1> DEFINE p == <<meaning>>
<1>1. meaning \in Nat
  <2>1. meaning \in Meant(uuid) /\ Byte \subseteq Nat
    BY DecoderAssumption DEF Byte
  <2>2. QED BY <2>1 DEF Meant
<1>2. p \in Seq(Nat) /\ Len(p) = 1 /\ p[1] = meaning /\ p # <<>>
  BY <1>1
<1>3. Sent = Plain(p)
  BY DEF Sent, Frame
<1> HIDE DEF p
<1>4. Sent[4] = meaning
  <2>1. \A i \in 1 .. Len(p) : Plain(p)[i + 3] = p[i]
    BY <1>2, PlainFrame
  <2>2. 1 \in 1 .. Len(p) /\ 1 + 3 = 4
    BY <1>2
  <2>3. Plain(p)[1 + 3] = p[1]
    BY <2>1, <2>2
  <2>4. QED BY <1>2, <1>3, <2>2, <2>3
<1>5. HasHeader(Sent) /\ DeclaredLength(Sent) /\ Payload(Sent) # <<>>
  BY <1>2, <1>3, PayloadOfPlain
<1>6. PushTransfer(Sent).status = "decoded" <=> meaning = 1 \/ meaning = 2
  <2> DEFINE state == CASE meaning = 1 -> "idle" [] meaning = 2 -> "ready" [] OTHER -> "unknown"
             w1 == FrameWarnings(Sent)
             w2 == Warn("unknown state", state = "unknown")
             warnings == w1 \cup w2
  <2>1. PICK fields : PushTransfer(Sent) = Parsed(fields, warnings)
    BY <1>4, <1>5, Zenon DEF PushTransfer
  <2>2. state # "unknown" <=> meaning = 1 \/ meaning = 2
    OBVIOUS
  <2> HIDE DEF state
  <2>3. w1 = {} /\ (w2 = {} <=> state # "unknown")
    BY <1>5, Quiet
  <2> HIDE DEF w1, w2
  <2>4. warnings = {} <=> w1 = {} /\ w2 = {}
    OBVIOUS
  <2> HIDE DEF warnings
  <2>5. PushTransfer(Sent).status = "decoded" <=> warnings = {}
    BY <2>1, ParsedHas
  <2>6. QED BY <2>2, <2>3, <2>4, <2>5
<1>7. QED BY <1>6 DEF Understood

\* A setting is 0 or 1.
LEMMA SettingReadBack ==
  ASSUME uuid \in Uuids, meaning \in Meanings[uuid],
         uuid \in {"dd30", "dd31", "dd32", "dd33"}, NEW field
  PROVE  SingleBool(Sent, field).status = "decoded" <=> Understood
<1>1. meaning \in Nat
  <2>1. meaning \in Meant(uuid) /\ Byte \subseteq Nat
    BY DecoderAssumption DEF Byte
  <2>2. QED BY <2>1 DEF Meant
<1>2. Sent = <<meaning>>
  BY DEF Sent, Frame
<1>3. Len(Sent) = 1 /\ Sent[1] = meaning
  BY <1>2
<1>4. SingleBool(Sent, field).status = "decoded" <=> meaning < 2
  BY <1>3, Quiet DEF SingleBool, Parsed
<1>5. meaning < 2 <=> meaning \in {0, 1}
  BY <1>1
<1>6. QED BY <1>4, <1>5 DEF Understood

LEMMA FeatureReadBack ==
  ASSUME uuid \in Uuids, meaning \in Meanings[uuid], uuid = "dd21"
  PROVE  /\ LocationFeature(Sent).status = "decoded"
         /\ LocationFeature(Sent).fields["timezone_supported"] = <<meaning.timezone>>
<1> DEFINE head == <<6, 16, 0, 156, IF meaning.timezone THEN 2 ELSE 0>>
<1>1. meaning.timezone \in BOOLEAN /\ meaning.rest \in Seq(Nat)
  <2>1. meaning \in Meant(uuid)
    BY DecoderAssumption
  <2>2. meaning.timezone \in BOOLEAN /\ meaning.rest \in {<<0>>, <<0, 0>>}
    BY <2>1 DEF Meant
  <2>3. <<0>> \in Seq(Nat) /\ <<0, 0>> \in Seq(Nat)
    OBVIOUS
  <2>4. QED BY <2>2, <2>3
<1>2. LocationFeature(Sent).fields =
        [timezone_supported |-> <<Sent[5] = 2>>,
         location_packet_size |-> <<IF Sent[5] = 2 THEN 95 ELSE 91>>,
         feature_flags |-> <<Sent[5]>>]
  BY FeatureSent
<1>3. LocationFeature(Sent).status = "decoded"
  <2>1. "feature_flags" \in DOMAIN LocationFeature(Sent).fields
    BY <1>2
  <2>2. QED BY <2>1 DEF LocationFeature, Parsed
<1>4. Sent[5] = IF meaning.timezone THEN 2 ELSE 0
  <2>1. Sent = head \o meaning.rest
    BY DEF Sent, Frame
  <2>2. head \in Seq(Nat) /\ Len(head) = 5 /\ head[5] = IF meaning.timezone THEN 2 ELSE 0
    OBVIOUS
  <2> HIDE DEF head
  <2>3. Len(meaning.rest) \in Nat
    BY <1>1
  <2>4. 5 \in 1 .. Len(head) + Len(meaning.rest) /\ 5 <= Len(head)
    BY <2>2, <2>3
  <2>5. (head \o meaning.rest)[5] = head[5]
    BY <1>1, <2>2, <2>4, Joined
  <2>6. QED BY <2>1, <2>2, <2>5
<1>5. (Sent[5] = 2) = meaning.timezone
  BY <1>1, <1>4
<1>6. QED BY <1>2, <1>3, <1>5

\* What no decoder makes out.
LEMMA NeverReadBack ==
  ASSUME uuid \notin {"cc03", "cc06", "cc07", "cc09", "cc0a", "cc0b", "cc0c", "cc10", "cc11",
                      "cc40", "dd21", "dd30", "dd31", "dd32", "dd33"}
  PROVE  ~Understood /\ \A bytes : Decoded(uuid, bytes).status # "decoded"
<1>1. ~Understood
  BY DEF Understood
<1>2. ASSUME NEW bytes PROVE Decoded(uuid, bytes).status # "decoded"
  <2>1. /\ Media(bytes).status # "decoded" /\ WifiBand(bytes).status # "decoded"
        /\ FramingOnly(bytes).status # "decoded"
    BY Quiet DEF Media, WifiBand, FramingOnly, Unknown, Parsed
  <2>2. CASE uuid = "cc0f"
    BY <2>1, <2>2 DEF Decoded
  <2>3. CASE uuid = "ccab"
    BY <2>1, <2>3 DEF Decoded
  <2>4. CASE uuid \in {"cc0d", "cc12", "ee02", "ee04"}
    BY <2>1, <2>4 DEF Decoded
  <2>5. CASE uuid \notin {"cc0f", "ccab", "cc0d", "cc12", "ee02", "ee04"}
    BY <2>5 DEF Decoded, Unknown
  <2>6. QED BY <2>2, <2>3, <2>4, <2>5
<1>3. QED BY <1>1, <1>2

\* A frame that arrives as it was sent is decoded exactly if every code of it is
\* known, and says what the camera means by it: the flags of a status as its
\* first records have them, each battery, each FTP profile by its name, the
\* timezone support (decode_characteristic and the decoders it calls).
THEOREM FramesAreReadBack == Spec => []FramesReadBack
<1>1. Inv => FramesReadBack
  <2> DEFINE fields == Reading.fields
             Flags == \A i \in DOMAIN meaning :
               (/\ meaning[i].tag \in DOMAIN StatusNames
                /\ \A j \in 1 .. i - 1 : meaning[j].tag # meaning[i].tag)
               => fields[StatusNames[meaning[i].tag]] = <<BigEndian(meaning[i].payload)>>
             Batteries ==
               /\ [i \in DOMAIN meaning.packs |->
                     fields["batteries"][1][i].remaining_percent] = meaning.packs
               /\ fields["external_power_code"] = <<meaning.power>>
  <2> SUFFICES ASSUME Inv, error = "none", value = Sent
               PROVE  /\ Reading.status = "decoded" <=> Understood
                      /\ uuid = "cc09" => Flags
                      /\ uuid = "cc10" => Batteries
                      /\ uuid = "cc40" /\ Understood =>
                           fields["ftp_profile_names"] = <<meaning>>
                      /\ uuid = "dd21" => fields["timezone_supported"] = <<meaning.timezone>>
    BY DEF FramesReadBack
  <2>1. uuid \in Uuids /\ meaning \in Meanings[uuid]
    BY DEF Inv
  <2>2. Reading.status = Decoded(uuid, Sent).status /\ fields = Decoded(uuid, Sent).fields
    BY DEF Reading, DecodeCharacteristic
  <2>3. uuid = "cc09" => Flags /\ (Reading.status = "decoded" <=> Understood)
    <3>1. SUFFICES ASSUME uuid = "cc09"
                   PROVE  Flags /\ (Reading.status = "decoded" <=> Understood)
      OBVIOUS
    <3>2. Decoded(uuid, Sent) = CameraStatus(Sent)
      BY <3>1 DEF Decoded
    <3> HIDE DEF fields
    <3>3. QED BY <2>1, <2>2, <3>1, <3>2, StatusReadBack
  <2>4. uuid = "cc10" => Batteries /\ (Reading.status = "decoded" <=> Understood)
    <3>1. SUFFICES ASSUME uuid = "cc10"
                   PROVE  Batteries /\ (Reading.status = "decoded" <=> Understood)
      OBVIOUS
    <3>2. Decoded(uuid, Sent) = Battery(Sent)
      BY <3>1 DEF Decoded
    <3> HIDE DEF fields
    <3>3. QED BY <2>1, <2>2, <3>1, <3>2, BatteryReadBack
  <2>5. uuid = "cc40" => /\ Understood => fields["ftp_profile_names"] = <<meaning>>
                         /\ Reading.status = "decoded" <=> Understood
    <3>1. SUFFICES ASSUME uuid = "cc40"
                   PROVE  /\ Understood => fields["ftp_profile_names"] = <<meaning>>
                          /\ Reading.status = "decoded" <=> Understood
      OBVIOUS
    <3>2. Decoded(uuid, Sent) = FtpProfiles(Sent)
      BY <3>1 DEF Decoded
    <3> HIDE DEF fields
    <3>3. QED BY <2>1, <2>2, <3>1, <3>2, FtpReadBack
  <2>6. uuid = "dd21" => /\ fields["timezone_supported"] = <<meaning.timezone>>
                         /\ Reading.status = "decoded" <=> Understood
    <3>1. SUFFICES ASSUME uuid = "dd21"
                   PROVE  /\ fields["timezone_supported"] = <<meaning.timezone>>
                          /\ Reading.status = "decoded" <=> Understood
      OBVIOUS
    <3>2. Decoded(uuid, Sent) = LocationFeature(Sent)
      BY <3>1 DEF Decoded
    <3>3. Understood
      BY <3>1 DEF Understood
    <3> HIDE DEF fields
    <3>4. QED BY <2>1, <2>2, <3>1, <3>2, <3>3, FeatureReadBack
  <2>7. uuid = "cc03" => (Reading.status = "decoded" <=> Understood)
    <3>1. uuid = "cc03" => Decoded(uuid, Sent) = PushTransfer(Sent)
      BY DEF Decoded
    <3>2. QED BY <2>1, <2>2, <3>1, PushReadBack
  <2>8. uuid \in {"dd30", "dd31", "dd32", "dd33"} => (Reading.status = "decoded" <=> Understood)
    <3>1. uuid \in {"dd30", "dd31", "dd32", "dd33"} =>
            \E field : Decoded(uuid, Sent) = SingleBool(Sent, field)
      BY DEF Decoded
    <3>2. QED BY <2>1, <2>2, <3>1, SettingReadBack
  <2>9. uuid \in {"cc06", "cc07", "cc0a", "cc0b", "cc0c", "cc11"} =>
          (Reading.status = "decoded" <=> Understood)
    BY <2>1, <2>2, TextReadBack
  <2>10. uuid \notin {"cc03", "cc06", "cc07", "cc09", "cc0a", "cc0b", "cc0c", "cc10", "cc11",
                      "cc40", "dd21", "dd30", "dd31", "dd32", "dd33"} =>
           (Reading.status = "decoded" <=> Understood)
    BY <2>2, NeverReadBack
  <2> HIDE DEF fields, Flags, Batteries
  <2>11. Reading.status = "decoded" <=> Understood
    BY <2>3, <2>4, <2>5, <2>6, <2>7, <2>8, <2>9, <2>10
  <2>12. QED BY <2>3, <2>4, <2>5, <2>6, <2>11
<1>2. QED BY <1>1, ArrivesCutOrExtended, PTL

-----------------------------------------------------------------------------
(* Redaction.                                                              *)

\* The names of the fields of what is not public follow from the length.
LEMMA RedactedNames ==
  ASSUME NEW u, Sensitivity(u) # "public", NEW a, NEW b, Len(a) = Len(b)
  PROVE  /\ DOMAIN Decoded(u, a).fields = DOMAIN Decoded(u, b).fields
         /\ DOMAIN Decoded(u, a).fields \cap (SummaryFields \cup {"batteries"}) = {}
<1>1. u \notin {"cc03", "cc09", "cc0a", "cc0b", "cc0d", "cc0f", "cc10", "cc11", "cc12", "ccab",
                "dd21", "dd30", "dd31", "dd32", "dd33"}
  BY DEF Sensitivity
<1>2. ASSUME NEW bytes, NEW field
      PROVE  DOMAIN OptionalFramedAscii(bytes, field).fields = {field}
  BY DEF OptionalFramedAscii, Ascii, Parsed, Field
<1>3. CASE u \in {"cc06", "cc07", "cc0c"}
  <2>1. PICK field \in {"ssid", "password", "bssid"} :
          \A bytes : Decoded(u, bytes) = OptionalFramedAscii(bytes, field)
    BY <1>3 DEF Decoded
  <2>2. field \notin SummaryFields \cup {"batteries"}
    BY DEF SummaryFields
  <2>3. \A bytes : DOMAIN Decoded(u, bytes).fields = {field}
    BY <1>2, <2>1
  <2>4. QED BY <2>2, <2>3
<1>4. CASE u = "cc40"
  <2>1. ASSUME NEW bytes PROVE DOMAIN FtpProfiles(bytes).fields = {"ftp_profile_names"}
    BY DEF FtpProfiles, Parsed, Field
  <2>2. \A bytes : Decoded(u, bytes) = FtpProfiles(bytes)
    BY <1>4 DEF Decoded
  <2>3. QED BY <2>1, <2>2 DEF SummaryFields
<1>5. CASE u \in {"ee02", "ee04"}
  <2>1. ASSUME NEW bytes
        PROVE  DOMAIN FramingOnly(bytes).fields =
                 IF Len(bytes) >= 3 THEN {"declared_length", "message_type", "payload_length"}
                 ELSE {}
    BY DEF FramingOnly, Parsed, Unknown, NoFields, HasHeader
  <2>2. \A bytes : Decoded(u, bytes) = FramingOnly(bytes)
    BY <1>5 DEF Decoded
  <2>3. QED BY <2>1, <2>2 DEF SummaryFields
<1>6. CASE u \notin {"cc06", "cc07", "cc0c", "cc40", "ee02", "ee04"}
  <2>1. u \notin Decodable
    BY <1>1, <1>6 DEF Decodable
  <2>2. QED BY <2>1, NoDecoder DEF NoFields
<1>7. QED BY <1>3, <1>4, <1>5, <1>6

\* Nothing of it gets into the summary.
LEMMA NothingToSummarize ==
  ASSUME NEW reading, DOMAIN reading.fields \cap (SummaryFields \cup {"batteries"}) = {}
  PROVE  Summary(<<reading>>) 
                                  = With([f \in SummaryFields |-> None], Field("battery_percent", None))
<1>1. ASSUME NEW f \in SummaryFields \cup {"batteries"}
      PROVE  FirstField(<<reading>>, f) = None
  <2> DEFINE has == {i \in DOMAIN <<reading>> : /\ f \in DOMAIN <<reading>>[i].fields
                                                /\ <<reading>>[i].fields[f] # None}
  <2>1. DOMAIN <<reading>> = {1} /\ <<reading>>[1] = reading
    OBVIOUS
  <2>2. f \notin DOMAIN reading.fields
    OBVIOUS
  <2>3. has = {}
    BY <2>1, <2>2
  <2>4. QED BY <2>3 DEF FirstField
<1>2. QED BY <1>1 DEF Summary

\* What stripping zeros leaves.
LEMMA Stripped ==
  ASSUME NEW c \in Seq(Byte)
  PROVE  /\ RStrip(c) = <<>> <=> \A i \in DOMAIN c : c[i] = 0
         /\ (\E i \in DOMAIN RStrip(c) : RStrip(c)[i] > 127) <=> \E i \in DOMAIN c : c[i] > 127
<1> DEFINE ends == {0} \cup {i \in DOMAIN c : c[i] # 0}
           k == Max(ends)
           text == SubSeq(c, 1, k)
<1>1. Len(c) \in Nat /\ DOMAIN c = 1 .. Len(c) /\ \A i \in 1 .. Len(c) : c[i] \in Byte
  BY ElementOfSeq
<1>2. k \in ends /\ \A i \in ends : k >= i
  <2>1. ends \in SUBSET (0 .. Len(c)) /\ ends # {}
    BY <1>1
  <2> HIDE DEF ends
  <2>2. QED BY <1>1, <2>1, GreatestExists
<1>3. k \in 0 .. Len(c)
  BY <1>1, <1>2
<1>4. RStrip(c) = text
  BY DEF RStrip
<1> HIDE DEF k
<1>5. /\ text \in Seq(Byte) /\ Len(text) = k /\ DOMAIN text = 1 .. k
      /\ \A i \in 1 .. k : text[i] = c[i]
  <2>1. \A i \in 1 .. k : c[i] \in Byte
    BY <1>1, <1>3
  <2> HIDE DEF Byte
  <2>2. text \in Seq(Byte) /\ Len(text) = k /\ \A i \in 1 .. k : text[i] = c[i]
    BY <1>1, <1>3, <2>1, SubSeqProperties
  <2>3. DOMAIN text = 1 .. Len(text)
    BY <2>2
  <2>4. QED BY <2>2, <2>3
<1> HIDE DEF text
<1>6. text = <<>> <=> k = 0
  BY <1>3, <1>5, EmptySeq
<1>7. k = 0 <=> \A i \in DOMAIN c : c[i] = 0
  <2>1. ASSUME k = 0, NEW i \in DOMAIN c PROVE c[i] = 0
    <3>1. i >= 1 /\ i \in Nat
      BY <1>1
    <3>2. SUFFICES ASSUME c[i] # 0 PROVE FALSE
      OBVIOUS
    <3>3. k >= i
      BY <1>2, <3>2
    <3>4. QED BY <2>1, <3>1, <3>3
  <2>2. ASSUME \A i \in DOMAIN c : c[i] = 0 PROVE k = 0
    BY <1>2, <2>2
  <2>3. QED BY <2>1, <2>2
<1>8. (\E i \in DOMAIN text : text[i] > 127) <=> \E i \in DOMAIN c : c[i] > 127
  <2>1. ASSUME NEW i \in DOMAIN text, text[i] > 127 PROVE \E j \in DOMAIN c : c[j] > 127
    <3>1. i \in DOMAIN c /\ c[i] > 127
      BY <1>1, <1>3, <1>5, <2>1
    <3>2. QED BY <3>1
  <2>2. ASSUME NEW i \in DOMAIN c, c[i] > 127 PROVE \E j \in DOMAIN text : text[j] > 127
    <3>1. c[i] # 0 /\ i \in 1 .. Len(c)
      BY <1>1, <2>2
    <3>2. i \in DOMAIN text
      BY <1>2, <1>3, <1>5, <3>1
    <3>3. text[i] = c[i]
      BY <1>5, <3>2
    <3>4. QED BY <2>2, <3>2, <3>3
  <2>3. QED BY <2>1, <2>2
<1>9. QED BY <1>4, <1>6, <1>7, <1>8, Zenon

LEMMA StrippedBytes ==
  ASSUME NEW c \in Seq(Byte)
  PROVE  \A i \in DOMAIN RStrip(c) : RStrip(c)[i] \in Nat
<1> DEFINE k == Max({0} \cup {i \in DOMAIN c : c[i] # 0})
<1>1. k \in 0 .. Len(c)
  <2> DEFINE ends == {0} \cup {i \in DOMAIN c : c[i] # 0}
  <2>1. Len(c) \in Nat /\ ends \in SUBSET (0 .. Len(c)) /\ ends # {}
    OBVIOUS
  <2>2. k = Max(ends)
    OBVIOUS
  <2> HIDE DEF ends, k
  <2>3. Max(ends) \in ends
    BY <2>1, GreatestExists
  <2>4. QED BY <2>1, <2>2, <2>3
<1>2. RStrip(c) = SubSeq(c, 1, k)
  BY DEF RStrip
<1> HIDE DEF k
<1>3. \A i \in 1 .. k : c[i] \in Byte
  BY <1>1, ElementOfSeq
<1>4. RStrip(c) \in Seq(Byte)
  <2> HIDE DEF Byte
  <2>1. k \in Int
    BY <1>1
  <2>2. QED BY <1>2, <1>3, <2>1, SubSeqProperties
<1>5. DOMAIN RStrip(c) = 1 .. Len(RStrip(c))
  BY <1>4
<1>6. ASSUME NEW i \in DOMAIN RStrip(c) PROVE RStrip(c)[i] \in Byte
  BY <1>4, <1>5, ElementOfSeq
<1>7. Byte \subseteq Nat
  BY DEF Byte
<1> HIDE DEF Byte
<1>8. QED BY <1>6, <1>7

LEMMA KindIsNotAscii ==
  ASSUME NEW c \in Seq(Byte)
  PROVE  KindOfText(c) = "not ASCII" <=> \E i \in DOMAIN c : c[i] > 127
<1> DEFINE odd == \E i \in DOMAIN c : c[i] > 127
<1>1. CASE odd
  <2>1. ~\A i \in DOMAIN c : c[i] = 0
    BY <1>1
  <2>2. ~Printable(RStrip(c))
    BY <1>1, Stripped, PrintableIsAscii
  <2>3. QED BY <1>1, <2>1, <2>2 DEF KindOfText
<1>2. CASE ~odd
  BY <1>2 DEF KindOfText
<1>3. QED BY <1>1, <1>2

\* A text is warned about by its kind only.
LEMMA WarnedByKind ==
  ASSUME NEW c \in Seq(Byte), NEW d \in Seq(Byte), KindOfText(c) = KindOfText(d)
  PROVE  TextWarnings(RStrip(c)) = TextWarnings(RStrip(d))
<1> DEFINE Warned(kind) == IF kind = "printable" THEN {}
                           ELSE IF kind = "empty" THEN Warn("empty", TRUE)
                           ELSE IF kind = "not ASCII" THEN Warn("not ASCII", TRUE)
                           ELSE Warn("control characters", TRUE)
<1>1. ASSUME NEW e \in Seq(Byte) PROVE TextWarnings(RStrip(e)) = Warned(KindOfText(e))
  <2> DEFINE text == RStrip(e)
             odd == \E i \in DOMAIN text : text[i] > 127
  <2>1. /\ text = <<>> <=> \A i \in DOMAIN e : e[i] = 0
        /\ odd <=> \E i \in DOMAIN e : e[i] > 127
    BY Stripped
  <2>2. Printable(text) => text # <<>> /\ ~odd
    BY PrintableIsAscii
  <2>3. ~(text = <<>> /\ odd)
    OBVIOUS
  <2>4. CASE odd
    <3>1. KindOfText(e) = "not ASCII"
      BY <2>1, <2>2, <2>3, <2>4 DEF KindOfText
    <3>2. TextWarnings(text) = Warn("not ASCII", TRUE)
      BY <2>2, <2>3, <2>4 DEF TextWarnings
    <3>3. QED BY <3>1, <3>2
  <2>5. CASE text = <<>>
    <3>1. KindOfText(e) = "empty"
      BY <2>1, <2>2, <2>3, <2>5 DEF KindOfText
    <3>2. TextWarnings(text) = Warn("empty", TRUE)
      BY <2>2, <2>3, <2>5 DEF TextWarnings
    <3>3. QED BY <3>1, <3>2
  <2>6. CASE Printable(text)
    <3>1. KindOfText(e) = "printable"
      BY <2>1, <2>2, <2>6 DEF KindOfText
    <3>2. TextWarnings(text) = {}
      BY <2>2, <2>6 DEF TextWarnings
    <3>3. QED BY <3>1, <3>2
  <2>7. CASE ~odd /\ text # <<>> /\ ~Printable(text)
    <3>1. KindOfText(e) = "with control characters"
      BY <2>1, <2>7 DEF KindOfText
    <3>2. TextWarnings(text) = Warn("control characters", TRUE)
      BY <2>7 DEF TextWarnings
    <3>3. QED BY <3>1, <3>2
  <2>8. QED BY <2>4, <2>5, <2>6, <2>7
<1> HIDE DEF Warned
<1>2. QED BY <1>1

\* Two frames of one length that declare it alike are warned about alike.
LEMMA FramesWarnedAlike ==
  ASSUME NEW a, NEW b, Len(a) = Len(b),
         (IF HasHeader(a) /\ ~DeclaredLength(a) THEN <<a[1]>> ELSE None)
           = (IF HasHeader(b) /\ ~DeclaredLength(b) THEN <<b[1]>> ELSE None)
  PROVE  FrameWarnings(a) = FrameWarnings(b)
<1>1. HasHeader(a) <=> HasHeader(b)
  BY DEF HasHeader
<1>2. CASE ~HasHeader(a)
  BY <1>1, <1>2 DEF FrameWarnings
<1>3. CASE HasHeader(a) /\ DeclaredLength(a)
  <2>1. DeclaredLength(b)
    BY <1>1, <1>3 DEF None
  <2>2. QED BY <1>1, <1>3, <2>1 DEF FrameWarnings, LengthWarning
<1>4. CASE HasHeader(a) /\ ~DeclaredLength(a)
  <2>1. ~DeclaredLength(b) /\ a[1] = b[1]
    BY <1>1, <1>4 DEF None
  <2>2. QED BY <1>1, <1>4, <2>1 DEF FrameWarnings, LengthWarning
<1>5. QED BY <1>2, <1>3, <1>4

\* What is given away is all that the warnings and the status tell.
LEMMA WarnedAlike ==
  ASSUME NEW u, Sensitivity(u) # "public", NEW a \in Seq(Byte), NEW b \in Seq(Byte),
         Len(a) = Len(b), GivenAway(u, a) = GivenAway(u, b)
  PROVE  /\ Decoded(u, a).warnings = Decoded(u, b).warnings
         /\ Decoded(u, a).status = Decoded(u, b).status
<1> DEFINE Declared(c) == IF HasHeader(c) /\ ~DeclaredLength(c) THEN <<c[1]>> ELSE None
<1>1. u \notin {"cc03", "cc09", "cc0a", "cc0b", "cc0d", "cc0f", "cc10", "cc11", "cc12", "ccab",
                "dd21", "dd30", "dd31", "dd32", "dd33"}
  BY DEF Sensitivity
<1>2. ASSUME NEW c \in Seq(Byte) PROVE Payload(c) \in Seq(Byte)
  <2>1. Len(c) \in Nat /\ \A i \in 4 .. Len(c) : c[i] \in Byte
    BY ElementOfSeq
  <2> HIDE DEF Byte
  <2>2. QED BY <2>1, SubSeqProperties DEF Payload
<1>3. CASE u \in {"cc06", "cc07", "cc0c"}
  <2>1. PICK field : /\ Decoded(u, a) = Ascii(Content(a), field)
                     /\ Decoded(u, b) = Ascii(Content(b), field)
    BY <1>3 DEF Decoded, OptionalFramedAscii
  <2>2. Content(a) \in Seq(Byte) /\ Content(b) \in Seq(Byte)
    BY <1>2 DEF Content
  <2>3. KindOfText(Content(a)) = KindOfText(Content(b))
    BY <1>3 DEF GivenAway
  <2>4. TextWarnings(RStrip(Content(a))) = TextWarnings(RStrip(Content(b)))
    BY <2>2, <2>3, WarnedByKind
  <2>5. QED BY <2>1, <2>4, ParsedHas DEF Ascii
<1>4. CASE u = "cc40"
  <2> DEFINE Ascii7(c) == \A i \in DOMAIN RStrip(Payload(c)) : RStrip(Payload(c))[i] < 128
             Kind(c) == IF KindOfText(Payload(c)) = "not ASCII" THEN "not ASCII" ELSE "ASCII"
             Warned(c) == FrameWarnings(c) \cup Warn("not ASCII", ~Ascii7(c))
  <2>1. Declared(a) = Declared(b) /\ Kind(a) = Kind(b)
    BY <1>4 DEF GivenAway
  <2>2. ASSUME NEW c \in Seq(Byte) PROVE Kind(c) = "ASCII" <=> Ascii7(c)
    <3> DEFINE text == RStrip(Payload(c))
    <3>1. (\E i \in DOMAIN text : text[i] > 127) <=>
            \E i \in DOMAIN Payload(c) : Payload(c)[i] > 127
      BY <1>2, Stripped
    <3>2. KindOfText(Payload(c)) = "not ASCII" <=> \E i \in DOMAIN Payload(c) : Payload(c)[i] > 127
      BY <1>2, KindIsNotAscii
    <3>3. \A i \in DOMAIN text : text[i] \in Nat
      BY <1>2, StrippedBytes
    <3>4. (\E i \in DOMAIN text : text[i] > 127) <=> ~Ascii7(c)
      <4>1. \A i \in DOMAIN text : text[i] > 127 <=> ~(text[i] < 128)
        BY <3>3
      <4>2. QED BY <4>1
    <3> HIDE DEF Ascii7
    <3>5. QED BY <3>1, <3>2, <3>4
  <2>3. ASSUME NEW c
        PROVE  \E fields : Decoded(u, c) = Parsed(fields, Warned(c))
    <3>1. Decoded(u, c) = FtpProfiles(c)
      BY <1>4 DEF Decoded
    <3>2. QED BY <3>1, Zenon DEF FtpProfiles
  <2> HIDE DEF Ascii7
  <2>4. Ascii7(a) <=> Ascii7(b)
    BY <2>1, <2>2
  <2>5. FrameWarnings(a) = FrameWarnings(b)
    BY <2>1, FramesWarnedAlike
  <2>6. Warned(a) = Warned(b)
    BY <2>4, <2>5 DEF Warn
  <2> HIDE DEF Warned
  <2>7. QED BY <2>3, <2>6, ParsedHas
<1>5. CASE u \in {"ee02", "ee04"}
  <2>1. Declared(a) = Declared(b)
    BY <1>5 DEF GivenAway
  <2>2. FrameWarnings(a) = FrameWarnings(b) /\ (HasHeader(a) <=> HasHeader(b))
    BY <2>1, FramesWarnedAlike DEF HasHeader
  <2>3. Decoded(u, a) = FramingOnly(a) /\ Decoded(u, b) = FramingOnly(b)
    BY <1>5 DEF Decoded
  <2>4. CASE ~HasHeader(a)
    BY <2>2, <2>3, <2>4, Zenon DEF FramingOnly
  <2>5. CASE HasHeader(a)
    <3> DEFINE Warned(c) == FrameWarnings(c) \cup Warn("not verified", TRUE)
    <3>1. PICK f, g : /\ FramingOnly(a) = Parsed(f, Warned(a))
                      /\ FramingOnly(b) = Parsed(g, Warned(b))
      BY <2>2, <2>5, Zenon DEF FramingOnly
    <3>2. Warned(a) = Warned(b)
      BY <2>2
    <3> HIDE DEF Warned
    <3>3. QED BY <2>3, <3>1, <3>2, ParsedHas
  <2>6. QED BY <2>4, <2>5
<1>6. CASE u \notin {"cc06", "cc07", "cc0c", "cc40", "ee02", "ee04"}
  <2>1. u \notin Decodable
    BY <1>1, <1>6 DEF Decodable
  <2>2. QED BY <2>1, NoDecoder
<1>7. QED BY <1>3, <1>4, <1>5, <1>6

\* Two values of one characteristic that is not public, whole, cut or too long,
\* print alike if their lengths and what is given away agree: the masks hide the
\* rest, and the status, the warnings and the summary do not tell it (to_dict
\* without show_sensitive, the decoders, snapshot_summary).
THEOREM RedactionHidesValues == Spec => []RedactedAlike
<1>1. Inv => RedactedAlike
  <2> DEFINE Bytes(other, byte) == SubSeq(Append(Frame(uuid, other), byte), 1, Len(value))
  <2> SUFFICES ASSUME Inv, Sensitivity(uuid) # "public", error = "none",
                      NEW other \in Meanings[uuid], NEW byte \in {0, 2, 65},
                      Len(value) <= Len(Frame(uuid, other)) + 1,
                      GivenAway(uuid, Bytes(other, byte)) = GivenAway(uuid, value)
               PROVE  /\ ToDict(DecodeCharacteristic(uuid, Bytes(other, byte), "none"))
                           = ToDict(Reading)
                      /\ Summary(<<DecodeCharacteristic(uuid, Bytes(other, byte), "none")>>)
                           = Summary(<<Reading>>)
    BY DEF RedactedAlike
  <2> DEFINE bytes == Bytes(other, byte)
             a == DecodeCharacteristic(uuid, bytes, "none")
             b == Reading
             longer == Append(Frame(uuid, other), byte)
  <2>1. value \in Seq(Byte) /\ Len(value) \in Nat
    BY ValueIsBytes
  <2>2. bytes \in Seq(Byte) /\ Len(bytes) = Len(value)
    <3>1. Frame(uuid, other) \in Seq(Byte) /\ byte \in Byte
      BY DecoderAssumption DEF Inv, Byte
    <3>2. longer \in Seq(Byte) /\ Len(longer) = Len(Frame(uuid, other)) + 1
      BY <3>1, AppendProperties
    <3> HIDE DEF longer
    <3>3. \A i \in 1 .. Len(value) : longer[i] \in Byte
      BY <2>1, <3>1, <3>2, ElementOfSeq
    <3>4. bytes = SubSeq(longer, 1, Len(value))
      BY DEF longer
    <3> HIDE DEF Byte, bytes
    <3>5. QED BY <2>1, <3>3, <3>4, SubSeqProperties
  <2>3. GivenAway(uuid, bytes) = GivenAway(uuid, value)
    OBVIOUS
  <2> HIDE DEF Bytes, longer, bytes
  <2>4. /\ DOMAIN Decoded(uuid, bytes).fields = DOMAIN Decoded(uuid, value).fields
        /\ DOMAIN Decoded(uuid, bytes).fields \cap (SummaryFields \cup {"batteries"}) = {}
    BY <2>2, RedactedNames
  <2>5. /\ Decoded(uuid, bytes).warnings = Decoded(uuid, value).warnings
        /\ Decoded(uuid, bytes).status = Decoded(uuid, value).status
    BY <2>1, <2>2, <2>3, WarnedAlike
  <2>6. /\ a.uuid = uuid /\ a.status = Decoded(uuid, bytes).status
        /\ a.fields = Decoded(uuid, bytes).fields /\ a.raw = <<bytes>>
        /\ a.warnings = Decoded(uuid, bytes).warnings /\ a.error = "none"
    BY DEF DecodeCharacteristic
  <2>7. /\ b.uuid = uuid /\ b.status = Decoded(uuid, value).status
        /\ b.fields = Decoded(uuid, value).fields /\ b.raw = <<value>>
        /\ b.warnings = Decoded(uuid, value).warnings /\ b.error = "none"
    BY DEF DecodeCharacteristic, Reading
  <2> HIDE DEF a, b
  <2>8. Redacted(a) /\ Redacted(b)
    BY <2>6, <2>7 DEF Redacted
  <2>9. /\ a.raw # None /\ b.raw # None
        /\ Len(a.raw[1]) = Len(bytes) /\ Len(b.raw[1]) = Len(value)
    BY <2>6, <2>7 DEF None
  <2>10. ToDict(a) = ToDict(b)
    <3>1. a.uuid = b.uuid /\ a.error = b.error /\ a.status = b.status /\ a.warnings = b.warnings
      BY <2>5, <2>6, <2>7
    <3>2. [f \in DOMAIN a.fields |-> None] = [f \in DOMAIN b.fields |-> None]
      BY <2>4, <2>6, <2>7
    <3>3. Len(a.raw[1]) = Len(b.raw[1])
      BY <2>2, <2>9
    <3>4. QED BY <2>8, <2>9, <3>1, <3>2, <3>3 DEF ToDict
  <2>11. Summary(<<a>>) = Summary(<<b>>)
    <3>1. /\ DOMAIN a.fields \cap (SummaryFields \cup {"batteries"}) = {}
          /\ DOMAIN b.fields \cap (SummaryFields \cup {"batteries"}) = {}
      BY <2>4, <2>6, <2>7
    <3>2. QED BY <3>1, NothingToSummarize
  <2>12. QED BY <2>10, <2>11 DEF a, b, bytes, Bytes
<1>2. QED BY <1>1, ArrivesCutOrExtended, PTL
=============================================================================
