------------------------- MODULE ExifVerify_proofs -------------------------
(***************************************************************************)
(* The verification of a photo for every time zone, every resolution of    *)
(* the clock and every time of packet and photo.                           *)
(***************************************************************************)
EXTENDS ExifVerify, FiniteSetTheorems, TLAPS

-----------------------------------------------------------------------------
(* Changes and offsets.                                                    *)

\* Of finitely many changes one is the latest.
LEMMA LatestExists ==
  ASSUME NEW P, IsFiniteSet(P), P # {}, \A c \in P : c.at \in Int
  PROVE  \E e \in P : \A d \in P : d.at <= e.at
<1> DEFINE Late(Q) == \E e \in Q : \A d \in Q : d.at <= e.at
           BadSets == {Q \in SUBSET P : Q # {} /\ ~Late(Q)}
           Bad == {Cardinality(Q) : Q \in BadSets}
<1> SUFFICES ASSUME ~Late(P) PROVE FALSE
  OBVIOUS
<1>1. \A Q \in SUBSET P : IsFiniteSet(Q) /\ Cardinality(Q) \in Nat
  BY FS_Subset, FS_CardinalityType
<1>2. Bad \subseteq Nat /\ Bad # {}
  BY <1>1
<1> HIDE DEF Bad
<1>3. PICK n \in Bad : \A m \in Bad : <<m, n>> \notin OpToRel(<, Nat)
  BY <1>2, NatLessThanWellFounded, WFMin
<1>4. \A m \in Bad : ~(m < n)
  BY <1>2, <1>3 DEF OpToRel
<1>5. PICK Q \in BadSets : Cardinality(Q) = n
  BY DEF Bad
<1>6. PICK x \in Q : TRUE
  BY <1>5
<1>7. /\ Q \ {x} \in SUBSET P
      /\ Cardinality(Q \ {x}) = n - 1
      /\ n \in Nat
  BY <1>1, <1>5, <1>6, FS_RemoveElement
<1>8. CASE Q \ {x} = {}
  <2>1. \A d \in Q : d = x
    BY <1>8
  <2>2. x.at <= x.at
    BY <1>5, <1>6
  <2>3. Late(Q)
    BY <1>6, <2>1, <2>2
  <2>4. QED BY <1>5, <2>3
<1>9. CASE Q \ {x} # {}
  <2>1. Late(Q \ {x})
    <3>1. SUFFICES ASSUME ~Late(Q \ {x}) PROVE FALSE
      OBVIOUS
    <3>2. Q \ {x} \in BadSets
      BY <1>7, <1>9, <3>1
    <3>3. n - 1 \in Bad
      BY <1>7, <3>2 DEF Bad
    <3>4. n - 1 < n
      BY <1>7
    <3>5. QED BY <1>4, <3>3, <3>4
  <2>2. PICK e \in Q \ {x} : \A d \in Q \ {x} : d.at <= e.at
    BY <2>1
  <2>3. e.at \in Int /\ x.at \in Int
    BY <1>5, <1>6
  <2>4. CASE x.at <= e.at
    <3>1. \A d \in Q : d.at <= e.at
      BY <2>2, <2>4
    <3>2. QED BY <1>5, <3>1
  <2>5. CASE e.at <= x.at
    <3>1. \A d \in Q : d.at \in Int
      BY <1>5
    <3>2. ASSUME NEW d \in Q PROVE d.at <= x.at
      <4>1. d.at \in Int /\ (d = x \/ d.at <= e.at)
        BY <2>2, <3>1
      <4>2. QED BY <2>3, <2>5, <4>1
    <3>3. Late(Q)
      BY <1>6, <3>2
    <3>4. QED BY <1>5, <3>3
  <2>6. QED BY <2>3, <2>4, <2>5
<1>10. QED BY <1>8, <1>9

\* Of the changes after a tick one is the first.
LEMMA FirstExists ==
  ASSUME NEW P \in SUBSET Changes, P # {}
  PROVE  \E f \in P : \A d \in P : f.at <= d.at
<1> DEFINE Ats == {c.at : c \in P}
<1>1. Ats \subseteq Nat /\ Ats # {}
  BY ExifAssumption
<1> HIDE DEF Ats
<1>2. PICK n \in Ats : \A m \in Ats : <<m, n>> \notin OpToRel(<, Nat)
  BY <1>1, NatLessThanWellFounded, WFMin
<1>3. \A m \in Ats : n <= m
  <2>1. \A m \in Ats : m \in Nat /\ n \in Nat
    BY <1>1
  <2>2. \A m \in Ats : ~(m < n)
    BY <1>2, <2>1 DEF OpToRel
  <2>3. QED BY <2>1, <2>2
<1>4. PICK f \in P : f.at = n
  BY <1>2 DEF Ats
<1>5. \A d \in P : d.at \in Ats
  BY DEF Ats
<1>6. ASSUME NEW d \in P PROVE f.at <= d.at
  <2>1. n <= d.at
    BY <1>3, <1>5
  <2>2. QED BY <1>4, <2>1
<1>7. QED BY <1>6

\* The offset after changes is that of the latest of them.
LEMMA OffsetAfterLatest ==
  ASSUME NEW P \in SUBSET Changes, NEW e \in P, \A d \in P : d.at <= e.at
  PROVE  OffsetAfter(P) = e.offset
<1> DEFINE Latest(c) == \A d \in P : d.at <= c.at
           latest == CHOOSE c \in P : Latest(c)
<1>1. latest \in P /\ Latest(latest)
  <2>1. Latest(e)
    OBVIOUS
  <2> HIDE DEF Latest
  <2>2. QED BY <2>1
<1>2. latest.at <= e.at /\ e.at <= latest.at
  BY <1>1
<1>3. latest \in Changes /\ e \in Changes
  BY <1>1
<1> HIDE DEF latest
<1>4. latest = e
  <2>1. latest.at \in Int /\ e.at \in Int
    BY <1>3, ExifAssumption
  <2>2. latest.at = e.at
    BY <1>2, <2>1
  <2>3. QED BY <1>3, <2>2, ExifAssumption
<1>5. QED BY <1>4 DEF OffsetAfter, latest

\* Whatever changes have passed, the offset is one the zone has.
LEMMA OffsetIsKnown == \A P \in SUBSET Changes : OffsetAfter(P) \in Offsets
<1> SUFFICES ASSUME NEW P \in SUBSET Changes PROVE OffsetAfter(P) \in Offsets
  OBVIOUS
<1>1. CASE P = {}
  BY <1>1 DEF OffsetAfter, Offsets
<1>2. CASE P # {}
  <2>1. IsFiniteSet(P) /\ \A c \in P : c.at \in Int
    BY FS_Subset, ExifAssumption
  <2>2. PICK e \in P : \A d \in P : d.at <= e.at
    BY <1>2, <2>1, LatestExists
  <2>3. OffsetAfter(P) = e.offset
    BY <2>2, OffsetAfterLatest
  <2>4. QED BY <2>3 DEF Offsets
<1>3. QED BY <1>1, <1>2

\* Offsets are whole seconds.
LEMMA OffsetsAre == \A o \in Offsets : o \in Int /\ WholeSeconds(o)
BY ExifAssumption DEF Offsets

LEMMA OffsetAtIsKnown == \A tick : OffsetAt(tick) \in Offsets
BY OffsetIsKnown DEF OffsetAt

\* The two readings of a change.
LEMMA ReadingsAre ==
  ASSUME NEW c \in Changes
  PROVE  /\ Min(Readings(c)) \in Readings(c) /\ Max(Readings(c)) \in Readings(c)
         /\ \A r \in Readings(c) : /\ r \in Int
                                   /\ Min(Readings(c)) <= r
                                   /\ r <= Max(Readings(c))
<1>1. PICK a \in Int, b \in Int : Readings(c) = {a, b}
  BY ExifAssumption, OffsetAtIsKnown, OffsetsAre DEF Readings
<1>2. \E x \in {a, b} : \A y \in {a, b} : x <= y
  BY <1>1
<1>3. Min({a, b}) \in {a, b} /\ \A y \in {a, b} : Min({a, b}) <= y
  BY <1>2 DEF Min
<1>4. \E x \in {a, b} : \A y \in {a, b} : x >= y
  BY <1>1
<1>5. Max({a, b}) \in {a, b} /\ \A y \in {a, b} : Max({a, b}) >= y
  BY <1>4 DEF Max
<1>6. QED BY <1>1, <1>3, <1>5

-----------------------------------------------------------------------------
(* The lookup of a reading.                                                *)

\* A change that is still to come has a reading that has not been reached, so
\* with fold 0 it does not pass.
LEMMA LaterChange ==
  ASSUME NEW tick \in Int, NEW d \in Changes, ~(d.at <= tick)
  PROVE  Max(Readings(d)) > Local(tick)
<1> DEFINE Past == {c \in Changes : c.at <= tick}
           Later == {c \in Changes : ~(c.at <= tick)}
<1>1. PICK f \in Later : \A c \in Later : f.at <= c.at
  BY FirstExists
<1>2. \A c \in Changes : c.at \in Int /\ c.offset \in Int
  BY ExifAssumption
<1>3. {c \in Changes : c.at <= f.at - 1} = Past
  <2>1. ASSUME NEW c \in Changes PROVE c.at <= f.at - 1 <=> c.at <= tick
    <3>1. c.at <= tick \/ f.at <= c.at
      BY <1>1
    <3>2. c.at \in Int /\ f.at \in Int /\ ~(f.at <= tick)
      BY <1>1, <1>2
    <3>3. QED BY <3>1, <3>2
  <2>2. QED BY <2>1
<1>4. OffsetAt(f.at - 1) = OffsetAt(tick)
  BY <1>3 DEF OffsetAt
<1>5. f.at + OffsetAt(tick) \in Readings(f)
  BY <1>4 DEF Readings
<1>6. /\ OffsetAt(tick) \in Int /\ Local(tick) = tick + OffsetAt(tick)
      /\ f \in Changes /\ f.at \in Int /\ ~(f.at <= tick)
  BY <1>1, <1>2, OffsetAtIsKnown, OffsetsAre DEF Local
<1>7. f.at + OffsetAt(tick) > Local(tick)
  BY <1>6
<1>8. Max(Readings(d)) \in Readings(d) /\ Max(Readings(d)) \in Int
  BY ReadingsAre
<1>9. f.at + OffsetAt(tick) <= Max(Readings(d))
  <2>1. CASE d = f
    BY <1>5, <2>1, ReadingsAre
  <2>2. CASE d # f
    <3>1. f.at <= d.at /\ f.at # d.at /\ d.at \in Int
      BY <1>1, <1>2, <1>6, <2>2, ExifAssumption
    <3>2. f.at < d.at
      BY <1>6, <3>1
    <3>3. QED BY <1>5, <1>6, <1>8, <3>2, ExifAssumption
  <2>3. QED BY <2>1, <2>2
<1>10. QED BY <1>6, <1>7, <1>8, <1>9

\* Every instant that shows a reading is found with one of the two folds.
LEMMA FoldFinds ==
  ASSUME NEW tick \in Int
  PROVE  \E fold \in {0, 1} : FoldedOffset(Local(tick), fold) = OffsetAt(tick)
<1> DEFINE Past == {c \in Changes : c.at <= tick}
           reading == Local(tick)
           ByMax == {c \in Changes : Max(Readings(c)) <= reading}
           ByMin == {c \in Changes : Min(Readings(c)) <= reading}
<1>1. FoldedOffset(reading, 0) = OffsetAfter(ByMax) /\ FoldedOffset(reading, 1) = OffsetAfter(ByMin)
  BY DEF FoldedOffset
<1>2. OffsetAt(tick) = OffsetAfter(Past) /\ OffsetAt(tick) \in Int
  BY OffsetAtIsKnown, OffsetsAre DEF OffsetAt
<1>3. reading = tick + OffsetAt(tick) /\ reading \in Int
  BY <1>2 DEF Local
<1>4. \A c \in Changes : /\ Min(Readings(c)) \in Int /\ Max(Readings(c)) \in Int
                          /\ Min(Readings(c)) <= Max(Readings(c))
                          /\ c.at \in Int /\ c.offset \in Int
  BY ReadingsAre, ExifAssumption
<1>5. \A d \in Changes : ~(d.at <= tick) => ~(Max(Readings(d)) <= reading)
  <2> TAKE d \in Changes
  <2> HAVE ~(d.at <= tick)
  <2>1. Max(Readings(d)) > reading
    BY LaterChange
  <2>2. QED BY <1>3, <1>4, <2>1
<1> HIDE DEF reading
<1>6. CASE Past = {}
  <2>1. ByMax = Past
    BY <1>5, <1>6
  <2>2. QED BY <1>1, <1>2, <2>1 DEF reading
<1>7. CASE Past # {}
  <2>1. IsFiniteSet(Past)
    BY FS_Subset, ExifAssumption
  <2>2. PICK e \in Past : \A c \in Past : c.at <= e.at
    BY <1>4, <1>7, <2>1, LatestExists
  <2>3. OffsetAt(tick) = e.offset
    BY <1>2, <2>2, OffsetAfterLatest
  <2>4. Min(Readings(e)) <= reading
    <3>1. e.at + e.offset \in Readings(e)
      BY DEF Readings
    <3>2. Min(Readings(e)) <= e.at + e.offset
      BY <3>1, ReadingsAre
    <3>3. QED BY <1>3, <1>4, <2>3, <3>2
  <2>5. \A c \in Past : c = e \/ Max(Readings(c)) <= Min(Readings(e))
    <3> TAKE c \in Past
    <3>1. c = e \/ c.at # e.at
      BY ExifAssumption
    <3>2. c = e \/ c.at < e.at
      BY <1>4, <2>2, <3>1
    <3>3. Max(Readings(c)) \in Readings(c) /\ Min(Readings(e)) \in Readings(e)
      BY ReadingsAre
    <3>4. QED BY <3>2, <3>3, ExifAssumption
  <2>6. CASE Max(Readings(e)) <= reading
    <3>1. \A c \in Past : Max(Readings(c)) <= reading
      BY <1>3, <1>4, <2>4, <2>5, <2>6
    <3>2. ByMax = Past
      BY <1>5, <3>1
    <3>3. QED BY <1>1, <1>2, <3>2 DEF reading
  <2>7. CASE ~(Max(Readings(e)) <= reading)
    <3>1. \A c \in Past : Min(Readings(c)) <= reading
      BY <1>3, <1>4, <2>4, <2>5
    <3>2. \A d \in Changes : ~(d.at <= tick) => ~(Min(Readings(d)) <= reading)
      <4> TAKE d \in Changes
      <4> HAVE ~(d.at <= tick)
      <4>1. e.at < d.at
        BY <1>4
      <4>2. Max(Readings(e)) \in Readings(e) /\ Min(Readings(d)) \in Readings(d)
        BY ReadingsAre
      <4>3. Max(Readings(e)) <= Min(Readings(d))
        BY <4>1, <4>2, ExifAssumption
      <4>4. QED BY <1>3, <1>4, <2>7, <4>3
    <3>3. ByMin = Past
      BY <3>1, <3>2
    <3>4. QED BY <1>1, <1>2, <3>3 DEF reading
  <2>8. QED BY <2>6, <2>7
<1>8. QED BY <1>6, <1>7

\* So the candidates of a reading are exactly the instants that show it.
LEMMA CandidatesAreShown == \A reading \in Int : Candidates(reading) = Shown(reading)
<1> SUFFICES ASSUME NEW reading \in Int PROVE Candidates(reading) = Shown(reading)
  OBVIOUS
<1>1. \A fold \in {0, 1} : FoldedOffset(reading, fold) \in Offsets
  <2>1. \A fold \in {0, 1} :
          \E P \in SUBSET Changes : FoldedOffset(reading, fold) = OffsetAfter(P)
    BY DEF FoldedOffset
  <2>2. QED BY <2>1, OffsetIsKnown
<1>2. Candidates(reading) \subseteq Shown(reading)
  BY <1>1 DEF Candidates, Shown
<1>3. ASSUME NEW tick \in Shown(reading) PROVE tick \in Candidates(reading)
  <2>1. PICK o \in Offsets : tick = reading - o
    BY DEF Shown
  <2>2. tick \in Int /\ Local(tick) = reading
    BY <2>1, OffsetsAre DEF Shown
  <2>3. PICK fold \in {0, 1} : FoldedOffset(reading, fold) = OffsetAt(tick)
    BY <2>2, FoldFinds
  <2>4. OffsetAt(tick) \in Int
    BY OffsetAtIsKnown, OffsetsAre
  <2>5. tick = reading - FoldedOffset(reading, fold)
    BY <2>2, <2>3, <2>4 DEF Local
  <2>6. QED BY <2>2, <2>5 DEF Candidates
<1>4. QED BY <1>2, <1>3

-----------------------------------------------------------------------------
(* Whole seconds.                                                          *)

\* The whole seconds of a time.
WholePart(n) == (n \div Second) * Second

LEMMA WholePartIs ==
  ASSUME NEW n \in Int
  PROVE  /\ WholePart(n) \in Int /\ WholeSeconds(WholePart(n))
         /\ WholePart(n) <= n /\ n < WholePart(n) + Second
         /\ n \in Nat => WholePart(n) \in Nat
<1> DEFINE q == n \div Second
           r == n % Second
<1>1. Second \in Nat \ {0}
  BY ExifAssumption
<1>2. q \in Int /\ r \in 0 .. (Second - 1) /\ n = q * Second + r
  BY <1>1
<1>3. n \in Nat => q \in Nat
  BY <1>1
<1>4. (q * Second) % Second = 0
  BY <1>1, <1>2
<1> HIDE DEF q, r
<1>5. q * Second \in Int /\ (q \in Nat => q * Second \in Nat)
  BY <1>1, <1>2
<1>6. WholePart(n) = q * Second
  BY DEF WholePart, q
<1>7. QED BY <1>1, <1>2, <1>3, <1>4, <1>5, <1>6 DEF WholeSeconds

\* It is the only number of whole seconds in the second that ends at the time.
LEMMA WholePartUnique ==
  ASSUME NEW n \in Int, NEW m \in Int, WholeSeconds(m), m <= n, n < m + Second
  PROVE  m = WholePart(n)
<1>1. Second \in Nat \ {0}
  BY ExifAssumption
<1>2. PICK q \in Int : m = q * Second
  BY <1>1 DEF WholeSeconds
<1>3. n \div Second = q
  BY <1>1, <1>2
<1>4. QED BY <1>2, <1>3 DEF WholePart

\* Sums of whole seconds are whole.
LEMMA WholeSum ==
  ASSUME NEW m \in Int, NEW o \in Int, WholeSeconds(m), WholeSeconds(o)
  PROVE  WholeSeconds(m + o)
<1>1. Second \in Nat \ {0}
  BY ExifAssumption
<1>2. PICK p \in Int : m = p * Second
  BY <1>1 DEF WholeSeconds
<1>3. PICK q \in Int : o = q * Second
  BY <1>1 DEF WholeSeconds
<1>4. m + o = (p + q) * Second
  BY <1>1, <1>2, <1>3
<1>5. ((p + q) * Second) % Second = 0
  BY <1>1
<1>6. QED BY <1>4, <1>5 DEF WholeSeconds

\* The start of the second in which a photo was taken, and what a clock showed.
LEMMA SecondOfPhoto ==
  ASSUME photo.taken \in Nat
  PROVE  LET start == WholePart(photo.taken) IN
           /\ OffsetAt(start) = OffsetAt(photo.taken)
           /\ Original = start + OffsetAt(photo.taken)
           /\ Original \in Int /\ Local(start) = Original
<1> DEFINE taken == photo.taken
           start == WholePart(taken)
           offset == OffsetAt(taken)
<1>1. /\ start \in Nat /\ WholeSeconds(start) /\ start <= taken /\ taken < start + Second
      /\ taken \in Int /\ Second \in Int
  BY WholePartIs, ExifAssumption
<1>2. offset \in Int /\ WholeSeconds(offset)
  BY OffsetAtIsKnown, OffsetsAre
<1> HIDE DEF start
<1>3. ASSUME NEW c \in Changes PROVE c.at <= start <=> c.at <= taken
  <2>1. c.at \in Int /\ WholeSeconds(c.at)
    BY ExifAssumption
  <2>2. ASSUME c.at <= taken, start < c.at PROVE FALSE
    <3>1. taken < c.at + Second
      BY <1>1, <2>1, <2>2
    <3>2. c.at = start
      BY <1>1, <2>1, <2>2, <3>1, WholePartUnique DEF start
    <3>3. QED BY <1>1, <2>2, <3>2
  <2>3. QED BY <1>1, <2>1, <2>2
<1>4. OffsetAt(start) = offset
  <2>1. {c \in Changes : c.at <= start} = {c \in Changes : c.at <= taken}
    BY <1>3
  <2>2. QED BY <2>1 DEF OffsetAt
<1>5. Original = start + offset
  <2>1. Local(taken) = taken + offset
    BY DEF Local
  <2>2. WholeSeconds(start + offset)
    BY <1>1, <1>2, WholeSum
  <2>3. /\ taken + offset \in Int /\ start + offset \in Int
        /\ start + offset <= taken + offset
        /\ taken + offset < (start + offset) + Second
    BY <1>1, <1>2
  <2>4. start + offset = WholePart(taken + offset)
    BY <2>2, <2>3, WholePartUnique
  <2>5. QED BY <2>1, <2>4 DEF Original, WholePart
<1>6. Local(start) = start + offset
  BY <1>4 DEF Local
<1>7. QED BY <1>1, <1>2, <1>4, <1>5, <1>6 DEF start

\* The lookup depends on the set of candidates only.
LookupIn(S) == IF Cardinality(S) = 1 THEN CHOOSE tick \in S : TRUE ELSE Never

LEMMA LookupIs ==
  ASSUME NEW reading \in Int
  PROVE  UnambiguousZonedTime(reading) = LookupIn(Shown(reading))
<1>1. UnambiguousZonedTime(reading) = LookupIn(Candidates(reading))
  BY DEF UnambiguousZonedTime, LookupIn
<1>2. QED BY <1>1, CandidatesAreShown

\* A set with one element is found by choosing from it.
LEMMA OnlyElement ==
  ASSUME NEW S, NEW x \in S, Cardinality(S) = 1, IsFiniteSet(S)
  PROVE  (CHOOSE y \in S : TRUE) = x
<1>1. PICK y : S = {y}
  BY FS_Singleton
<1>2. QED BY <1>1

LEMMA ShownIsFinite == \A reading \in Int : IsFiniteSet(Shown(reading))
<1> SUFFICES ASSUME NEW reading \in Int PROVE IsFiniteSet(Shown(reading))
  OBVIOUS
<1>1. Candidates(reading) \in SUBSET {reading - FoldedOffset(reading, 0), reading - FoldedOffset(reading, 1)}
  BY DEF Candidates
<1>2. IsFiniteSet({reading - FoldedOffset(reading, 0)} \cup {reading - FoldedOffset(reading, 1)})
  BY FS_Singleton, FS_Union
<1>3. {reading - FoldedOffset(reading, 0)} \cup {reading - FoldedOffset(reading, 1)}
        = {reading - FoldedOffset(reading, 0), reading - FoldedOffset(reading, 1)}
  OBVIOUS
<1>4. IsFiniteSet(Candidates(reading))
  BY <1>1, <1>2, <1>3, FS_Subset
<1>5. QED BY <1>4, CandidatesAreShown

\* An IFD gives the second in which the photo was taken, or nothing, and where
\* the zone determines it, it gives it.
LEMMA IFDTellsSecond ==
  ASSUME photo.taken \in Nat, NEW ifd, NEW zone \in BOOLEAN
  PROVE  /\ LocalCaptureTime(ifd, zone) \in {Never, WholePart(photo.taken)}
         /\ \/ ifd = "offset"
            \/ ifd = "bare" /\ zone /\ Cardinality(Shown(Original)) = 1
            => LocalCaptureTime(ifd, zone) = WholePart(photo.taken)
<1> DEFINE start == WholePart(photo.taken)
<1>1. /\ Original = start + OffsetAt(photo.taken)
      /\ Original \in Int /\ Local(start) = Original
      /\ OffsetAt(start) = OffsetAt(photo.taken)
  BY SecondOfPhoto
<1>2. OffsetAt(photo.taken) \in Offsets /\ OffsetAt(photo.taken) \in Int
  BY OffsetAtIsKnown, OffsetsAre
<1>3. start \in Int
  BY WholePartIs
<1> HIDE DEF start
<1>4. Original - OffsetAt(photo.taken) = start
  BY <1>1, <1>2, <1>3
<1>5. start \in Shown(Original)
  BY <1>1, <1>2, <1>4 DEF Shown
<1>6. UnambiguousZonedTime(Original) =
        IF Cardinality(Shown(Original)) = 1 THEN start ELSE Never
  <2>1. UnambiguousZonedTime(Original) = LookupIn(Shown(Original))
    BY <1>1, LookupIs
  <2>2. Cardinality(Shown(Original)) = 1 => (CHOOSE tick \in Shown(Original) : TRUE) = start
    BY <1>1, <1>5, OnlyElement, ShownIsFinite
  <2>3. QED BY <2>1, <2>2 DEF LookupIn
<1>7. CASE ifd = "offset"
  BY <1>4, <1>7 DEF LocalCaptureTime, start
<1>8. CASE ifd = "bare" /\ zone
  BY <1>6, <1>8 DEF LocalCaptureTime, start
<1>9. CASE ifd # "offset" /\ ~(ifd = "bare" /\ zone)
  <2>1. LocalCaptureTime(ifd, zone) = Never
    BY <1>9 DEF LocalCaptureTime
  <2>2. QED BY <1>9, <2>1
<1>10. QED BY <1>7, <1>8, <1>9

-----------------------------------------------------------------------------
(* The invariant.                                                          *)

Photos ==
  [taken : Nat, place : Places, details : IFDs, base : IFDs, gps : Nat \cup {Never}]

TypeOK ==
  /\ now \in Nat
  /\ dd11 \in Nat \cup {Never}
  /\ located \in Places
  /\ fix \in Nat
  /\ photo \in Photos \cup {NoPhoto}
  /\ verdict \in [result : {"none", "verified", "rejected"}, zone : BOOLEAN]

\* No time of a photo is later than the moment it was taken, nor that than now.
NothingFromTheFuture ==
  /\ fix <= now
  /\ photo # NoPhoto => photo.gps <= photo.taken

\* The verdict is that on this photo and this packet.
VerdictStands ==
  verdict.result # "none" =>
    /\ dd11 # Never /\ photo # NoPhoto
    /\ verdict.result = "verified" <=> Verified(verdict.zone)

Inv == TypeOK /\ NothingFromTheFuture /\ VerdictStands

\* A verdict stands as long as photo and packet do.
LEMMA VerdictKept ==
  ASSUME VerdictStands, UNCHANGED <<dd11, photo, verdict>>
  PROVE  VerdictStands'
<1>1. \A zone : CaptureTime(zone)' = CaptureTime(zone)
  BY DEF CaptureTime, LocalCaptureTime, Original, Local, OffsetAt, OffsetAfter,
         UnambiguousZonedTime, Candidates, FoldedOffset, Readings
<1>2. \A zone : Verified(zone)' <=> Verified(zone)
  BY <1>1 DEF Verified
<1>3. QED BY <1>2 DEF VerdictStands

LEMMA InvHolds == Spec => []Inv
<1>1. Init => Inv
  BY DEF Init, Inv, TypeOK, NothingFromTheFuture, VerdictStands, NoPhoto, NoVerdict, Never
<1>2. Inv /\ [Next]_vars => Inv'
  <2> SUFFICES ASSUME Inv, [Next]_vars PROVE Inv'
    OBVIOUS
  <2> USE DEF Inv
  <2>1. CASE Tick
    <3>1. TypeOK' /\ NothingFromTheFuture'
      BY <2>1 DEF Tick, TypeOK, NothingFromTheFuture
    <3>2. QED BY <2>1, <3>1, VerdictKept DEF Tick
  <2>2. CASE SendLocation
    <3>1. TypeOK' /\ NothingFromTheFuture'
      BY <2>2 DEF SendLocation, TypeOK, NothingFromTheFuture, Places
    <3>2. VerdictStands'
      BY <2>2 DEF SendLocation, VerdictStands
    <3>3. QED BY <3>1, <3>2
  <2>3. CASE SendAgain
    <3>1. TypeOK' /\ NothingFromTheFuture'
      BY <2>3 DEF SendAgain, TypeOK, NothingFromTheFuture, Places
    <3>2. QED BY <2>3, <3>1, VerdictKept DEF SendAgain
  <2>4. ASSUME NEW d \in IFDs, NEW b \in IFDs, NEW gps \in BOOLEAN, TakePhoto(d, b, gps)
        PROVE  Inv'
    <3>1. photo' \in Photos /\ photo'.gps \in {fix, Never} /\ photo'.taken = now
      BY <2>4 DEF TakePhoto, TypeOK, Photos
    <3>2. TypeOK'
      BY <2>4, <3>1 DEF TakePhoto, TypeOK
    <3>3. NothingFromTheFuture'
      BY <2>4, <3>1 DEF TakePhoto, TypeOK, NothingFromTheFuture, Never
    <3>4. VerdictStands'
      BY <2>4 DEF TakePhoto, VerdictStands
    <3>5. QED BY <3>2, <3>3, <3>4
  <2>5. ASSUME NEW zone \in BOOLEAN, Verify(zone) PROVE Inv'
    <3>1. verdict'.zone = zone /\ (verdict'.result = "verified" <=> Verified(zone))
      BY <2>5 DEF Verify
    <3>2. TypeOK' /\ NothingFromTheFuture'
      BY <2>5 DEF Verify, TypeOK, NothingFromTheFuture
    <3>3. \A z : CaptureTime(z)' = CaptureTime(z)
      BY <2>5 DEF Verify, CaptureTime, LocalCaptureTime, Original, Local, OffsetAt,
           OffsetAfter, UnambiguousZonedTime, Candidates, FoldedOffset, Readings
    <3>4. Verified(zone)' <=> Verified(zone)
      BY <2>5, <3>3 DEF Verify, Verified
    <3>5. VerdictStands'
      BY <2>5, <3>1, <3>4 DEF Verify, VerdictStands
    <3>6. QED BY <3>2, <3>5
  <2>6. CASE UNCHANGED vars
    <3>1. TypeOK' /\ NothingFromTheFuture'
      BY <2>6 DEF vars, TypeOK, NothingFromTheFuture
    <3>2. QED BY <2>6, <3>1, VerdictKept DEF vars
  <2>7. QED BY <2>1, <2>2, <2>3, <2>4, <2>5, <2>6 DEF Next
<1>3. QED BY <1>1, <1>2, PTL DEF Spec

\* None of the times a photo can have is later than the moment it was taken.
LEMMA CaptureTimeNotLater ==
  ASSUME Inv, photo # NoPhoto, NEW zone \in BOOLEAN
  PROVE  CaptureTime(zone) \in Int /\ CaptureTime(zone) <= photo.taken
<1>1. photo.taken \in Nat /\ photo.gps \in Int /\ photo.gps <= photo.taken
  BY DEF Inv, TypeOK, NothingFromTheFuture, Photos, Never
<1>2. WholePart(photo.taken) \in Int /\ WholePart(photo.taken) <= photo.taken
  BY <1>1, WholePartIs
<1>3. \A ifd : LocalCaptureTime(ifd, zone) \in {Never, WholePart(photo.taken)}
  BY <1>1, IFDTellsSecond
<1>4. CaptureTime(zone) \in {WholePart(photo.taken), photo.gps}
  BY <1>3 DEF CaptureTime
<1>5. QED BY <1>1, <1>2, <1>4

-----------------------------------------------------------------------------
(* The results.                                                            *)

\* A photo that verify-exif accepts was taken after the packet, in every zone
\* and with every resolution of the clock (verify_image_exif).
THEOREM VerifiedIsLater == Spec => []VerifiedIsEvidence
<1>1. Inv => VerifiedIsEvidence
  <2> SUFFICES ASSUME Inv, verdict.result = "verified"
               PROVE  photo.taken > dd11 /\ photo.place = "here"
    BY DEF VerifiedIsEvidence
  <2>1. /\ photo # NoPhoto /\ Verified(verdict.zone) /\ verdict.zone \in BOOLEAN
        /\ dd11 \in Int
    BY DEF Inv, TypeOK, VerdictStands, Never
  <2>2. photo.taken \in Nat
    BY <2>1 DEF Inv, TypeOK, Photos
  <2>3. CaptureTime(verdict.zone) \in Int /\ CaptureTime(verdict.zone) <= photo.taken
    BY <2>1, CaptureTimeNotLater
  <2>4. QED BY <2>1, <2>2, <2>3 DEF Verified
<1>2. QED BY <1>1, InvHolds, PTL

\* A photo with a usable time that verify-exif rejects, though it shows the
\* place, was taken less than a second after the packet (_capture_time).
THEOREM RejectedIsEarly == Spec => []GoodPhotoVerified
<1>1. Inv => GoodPhotoVerified
  <2> SUFFICES ASSUME Inv, verdict.result = "rejected", photo.place = "here",
                      Usable(verdict.zone)
               PROVE  photo.taken < dd11 + Second
    BY DEF GoodPhotoVerified
  <2>1. /\ photo # NoPhoto /\ ~Verified(verdict.zone) /\ verdict.zone \in BOOLEAN
        /\ dd11 \in Int
    BY DEF Inv, TypeOK, VerdictStands, Never
  <2>2. photo.taken \in Nat
    BY <2>1 DEF Inv, TypeOK, Photos
  <2>3. /\ WholePart(photo.taken) \in Nat /\ photo.taken < WholePart(photo.taken) + Second
        /\ Second \in Int
    BY <2>2, WholePartIs, ExifAssumption
  <2>4. LocalCaptureTime(photo.details, verdict.zone) = WholePart(photo.taken)
    BY <2>1, <2>2, IFDTellsSecond DEF Usable
  <2>5. CaptureTime(verdict.zone) = WholePart(photo.taken) /\ CaptureTime(verdict.zone) # Never
    BY <2>3, <2>4 DEF CaptureTime, Never
  <2>6. ~(WholePart(photo.taken) > dd11)
    BY <2>1, <2>5 DEF Verified
  <2>7. QED BY <2>1, <2>2, <2>3, <2>6
<1>2. QED BY <1>1, InvHolds, PTL

\* A reading that the clock shows once is looked up right, one that it shows
\* twice or never is refused (_unambiguous_zoned_time).
THEOREM LookupInverts == Spec => []ZonedTimeInverts
<1>1. Inv => ZonedTimeInverts
  <2> SUFFICES ASSUME Inv PROVE ZonedTimeInverts
    OBVIOUS
  <2>1. now + InitialOffset \in Int
    BY ExifAssumption DEF Inv, TypeOK
  <2>2. UnambiguousZonedTime(now + InitialOffset) = LookupIn(Shown(now + InitialOffset))
    BY <2>1, LookupIs
  <2>3. QED BY <2>2 DEF ZonedTimeInverts, LookupIn
<1>2. QED BY <1>1, InvHolds, PTL
=============================================================================
