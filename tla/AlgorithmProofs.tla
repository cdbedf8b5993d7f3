--------------------------- MODULE AlgorithmProofs ---------------------------
(***************************************************************************)
(* Proofs about the parts of the library that share nothing with a         *)
(* database: the bitset, the codecs of integers, of runs and of the        *)
(* columns of a compressed block, and the serializers.                     *)
(***************************************************************************)
EXTENDS DynamicBitset, Conversions, Serializers, Numbers, SequenceTheorems, FiniteSetTheorems

-----------------------------------------------------------------------------
(* DynamicBitset: positions and words                                      *)

Offsets == 0..(W - 1)
AreWords(words) == \E m \in Nat : words \in [1..m -> SUBSET Offsets]
\* The word of a position, and its place there.
WordAt(p) == p \div W + 1
IsSet(words, p) == WordAt(p) \in DOMAIN words /\ p % W \in words[WordAt(p)]

LEMMA PositionOf ==
    ASSUME NEW k \in Nat \ {0}, NEW o \in Offsets
    PROVE  (k - 1) * W + o \in Nat /\ WordAt((k - 1) * W + o) = k /\ ((k - 1) * W + o) % W = o
  <1> DEFINE q == k - 1
  <1>1. q \in Nat /\ q + 1 = k /\ W \in Nat \ {0} /\ o \in 0..(W - 1)
    BY WordAssumption DEF Offsets
  <1> HIDE DEF q
  <1>2. (q * W + o) \div W = q /\ (q * W + o) % W = o
    BY <1>1, QuotientIs
  <1>3. q * W + o \in Nat
    <2>1. q * W \in Nat
      BY <1>1
    <2> QED BY <1>1, <2>1
  <1>4. WordAt(q * W + o) = k
    BY <1>1, <1>2 DEF WordAt
  <1> QED BY <1>2, <1>3, <1>4 DEF q

LEMMA PlaceOf ==
    ASSUME NEW p \in Nat
    PROVE  WordAt(p) \in Nat \ {0} /\ p % W \in Offsets /\ p = (WordAt(p) - 1) * W + (p % W)
  <1> DEFINE d == p \div W
             r == p % W
  <1>1. W \in Nat \ {0}
    BY WordAssumption
  <1>2. d \in Nat /\ r \in 0..(W - 1)
    BY <1>1, Division
  <1>3. p = W * d + r
    BY <1>1
  <1> HIDE DEF d, r
  <1>4. W * d = d * W /\ (d + 1) - 1 = d /\ d + 1 \in Nat \ {0}
    BY <1>1, <1>2
  <1> QED BY <1>2, <1>3, <1>4 DEF WordAt, Offsets, d, r

\* The positions of words are those whose word holds them.
LEMMA PositionsAre ==
    ASSUME NEW words, AreWords(words)
    PROVE  Positions(words) = {p \in Nat : IsSet(words, p)}
  <1>1. PICK m \in Nat : words \in [1..m -> SUBSET Offsets]
    BY DEF AreWords
  <1>2. Len(words) = m /\ DOMAIN words = 1..m /\ W \in Nat \ {0} /\ m * W \in Nat
    BY <1>1, WordAssumption
  <1>3. ASSUME NEW p \in Nat PROVE p \in 0..m * W - 1 <=> WordAt(p) \in 1..m
    <2> DEFINE k == WordAt(p)
               q == k - 1
    <2>1. k \in Nat \ {0} /\ p % W \in 0..(W - 1) /\ p = q * W + (p % W)
      BY PlaceOf DEF Offsets
    <2> HIDE DEF k
    <2>2. q \in Nat /\ q * W \in Nat
      BY <1>2, <2>1
    <2>3. q < m => q * W + W <= m * W
      BY <1>2, <2>2, Apart
    <2>4. m <= q => m * W <= q * W
      <3>1. m < q => m * W + W <= q * W
        BY <1>2, <2>2, Apart
      <3> HIDE DEF q
      <3> QED BY <1>2, <2>2, <3>1
    <2>5. p \in 0..m * W - 1 <=> q < m
      <3> DEFINE a == q * W
                 b == m * W
                 r == p % W
      <3> HIDE DEF a, b, r, q
      <3> QED BY <1>2, <2>1, <2>2, <2>3, <2>4 DEF a, b, r
    <2> QED BY <2>1, <2>5 DEF k
  <1>4. Positions(words) = {p \in 0..m * W - 1 : p % W \in words[WordAt(p)]}
    BY <1>2 DEF Positions, WordAt
  <1>5. 0..m * W - 1 \subseteq Nat
    <2> DEFINE b == m * W
    <2> HIDE DEF b
    <2> QED BY <1>2 DEF b
  <1>6. {p \in 0..m * W - 1 : p % W \in words[WordAt(p)]} = {p \in Nat : IsSet(words, p)}
    <2> DEFINE T == 0..m * W - 1
    <2> HIDE DEF T
    <2>1. T \subseteq Nat /\ \A p \in Nat : p \in T <=> WordAt(p) \in DOMAIN words
      BY <1>2, <1>3, <1>5 DEF T
    <2>2. {p \in T : p % W \in words[WordAt(p)]} = {p \in Nat : IsSet(words, p)}
      BY <2>1, Zenon DEF IsSet
    <2> QED BY <2>2 DEF T
  <1> QED BY <1>4, <1>6

\* A word shifted, and what it spills: together the word moved by n.
LEMMA UpIs ==
    ASSUME NEW w \in SUBSET Offsets, NEW n \in Offsets, NEW o \in Offsets
    PROVE  /\ o \in Up(w, n) <=> o >= n /\ o - n \in w
           /\ o \in OverUp(w, n) <=> o < n /\ o + W - n \in w
           /\ o \in Down(w, n) <=> o + n < W /\ o + n \in w
           /\ o \in OverDown(w, n) <=> o + n >= W /\ o + n - W \in w
  BY WordAssumption DEF Up, OverUp, Down, OverDown, Offsets

LEMMA ShiftedWords ==
    ASSUME NEW w \in SUBSET Offsets, NEW n \in Offsets
    PROVE  /\ Up(w, n) \in SUBSET Offsets /\ OverUp(w, n) \in SUBSET Offsets
           /\ Down(w, n) \in SUBSET Offsets /\ OverDown(w, n) \in SUBSET Offsets
  <1>1. Up(w, n) \in SUBSET Offsets
    BY WordAssumption DEF Up, Offsets
  <1>2. OverUp(w, n) \in SUBSET Offsets
    BY WordAssumption DEF OverUp, Offsets
  <1>3. Down(w, n) \in SUBSET Offsets
    BY WordAssumption DEF Down, Offsets
  <1>4. OverDown(w, n) \in SUBSET Offsets
    BY WordAssumption DEF OverDown, Offsets
  <1> QED BY <1>1, <1>2, <1>3, <1>4

LEMMA EmptyWord ==
    ASSUME NEW n \in Offsets
    PROVE  Up({}, n) = {} /\ OverUp({}, n) = {} /\ Down({}, n) = {} /\ OverDown({}, n) = {}
  BY DEF Up, OverUp, Down, OverDown

\* A shift by no bits.
LEMMA Unshifted ==
    ASSUME NEW w \in SUBSET Offsets
    PROVE  Up(w, 0) = w /\ OverUp(w, 0) = {} /\ Down(w, 0) = w /\ OverDown(w, 0) = {}
  <1>1. 0 \in Offsets /\ \A o \in Offsets : o >= 0 /\ o - 0 = o /\ ~(o < 0) /\ o + 0 < W /\ o + 0 = o /\ ~(o + 0 >= W)
    BY WordAssumption DEF Offsets
  <1>2. Up(w, 0) \in SUBSET Offsets /\ OverUp(w, 0) \in SUBSET Offsets
        /\ Down(w, 0) \in SUBSET Offsets /\ OverDown(w, 0) \in SUBSET Offsets
    BY <1>1, ShiftedWords
  <1>3. \A o \in Offsets : /\ o \in Up(w, 0) <=> o \in w
                           /\ o \notin OverUp(w, 0)
                           /\ o \in Down(w, 0) <=> o \in w
                           /\ o \notin OverDown(w, 0)
    BY <1>1, UpIs
  <1> QED BY <1>2, <1>3

-----------------------------------------------------------------------------
(* DynamicBitset: shifts                                                   *)

LEMMA ShiftedAreWords ==
    ASSUME NEW words, AreWords(words), NEW s \in Nat
    PROVE  /\ AreWords(ShiftedLeft(words, s)) /\ DOMAIN ShiftedLeft(words, s) = DOMAIN words
           /\ AreWords(ShiftedRight(words, s)) /\ DOMAIN ShiftedRight(words, s) = DOMAIN words
  <1>1. PICK m \in Nat : words \in [1..m -> SUBSET Offsets]
    BY DEF AreWords
  <1> DEFINE b == s \div W
             n == s % W
  <1>2. b \in Nat /\ n \in Offsets /\ DOMAIN words = 1..m /\ Len(words) = m
    BY <1>1, WordAssumption, Division DEF Offsets
  <1> HIDE DEF b, n
  <1>3. \A w \in SUBSET Offsets : /\ Up(w, n) \in SUBSET Offsets /\ OverUp(w, n) \in SUBSET Offsets
                                  /\ Down(w, n) \in SUBSET Offsets /\ OverDown(w, n) \in SUBSET Offsets
    BY <1>2, ShiftedWords
  <1>4. ShiftedLeft(words, s) \in [1..m -> SUBSET Offsets]
    <2>1. ASSUME NEW k \in 1..m
          PROVE  /\ k - b >= 1 => Up(words[k - b], n) \in SUBSET Offsets
                 /\ k - b >= 2 => OverUp(words[(k - b) - 1], n) \in SUBSET Offsets
      <3>1. /\ k - b >= 1 => k - b \in 1..m
            /\ k - b >= 2 => (k - b) - 1 \in 1..m
        BY <1>2
      <3> QED BY <1>1, <1>3, <3>1
    <2>2. ShiftedLeft(words, s) = [k \in 1..m |-> (IF k - b >= 1 THEN Up(words[k - b], n) ELSE {})
                                         \cup (IF k - b >= 2 THEN OverUp(words[(k - b) - 1], n) ELSE {})]
      BY <1>2 DEF ShiftedLeft, b, n
    <2> QED BY <2>1, <2>2
  <1>5. ShiftedRight(words, s) \in [1..m -> SUBSET Offsets]
    <2>1. ASSUME NEW k \in 1..m
          PROVE  /\ k + b <= m => Down(words[k + b], n) \in SUBSET Offsets
                 /\ k + b < m => OverDown(words[(k + b) + 1], n) \in SUBSET Offsets
      <3>1. /\ k + b <= m => k + b \in 1..m
            /\ k + b < m => (k + b) + 1 \in 1..m
        BY <1>2
      <3> QED BY <1>1, <1>3, <3>1
    <2>2. ShiftedRight(words, s) = [k \in 1..m |-> (IF k + b <= m THEN Down(words[k + b], n) ELSE {})
                                         \cup (IF k + b < m THEN OverDown(words[(k + b) + 1], n) ELSE {})]
      BY <1>2 DEF ShiftedRight, b, n
    <2> QED BY <2>1, <2>2
  <1> QED BY <1>2, <1>4, <1>5 DEF AreWords

\* operator<<: the ones at p are those at p - s.
LEMMA LeftHolds ==
    ASSUME NEW words, AreWords(words), NEW s \in Nat, NEW p \in Nat, WordAt(p) \in DOMAIN words
    PROVE  IsSet(ShiftedLeft(words, s), p) <=> p >= s /\ IsSet(words, p - s)
  <1>1. PICK m \in Nat : words \in [1..m -> SUBSET Offsets]
    BY DEF AreWords
  <1> DEFINE b == s \div W
             n == s % W
             k == WordAt(p)
             o == p % W
             i == k - b
  <1>2. b \in Nat /\ n \in Offsets /\ s = b * W + n
    <2>1. WordAt(s) - 1 = b
      BY WordAssumption, Division DEF WordAt
    <2>2. b \in Nat
      BY WordAssumption, Division
    <2> QED BY <2>1, <2>2, PlaceOf
  <1>3. k \in 1..m /\ o \in Offsets /\ p = (k - 1) * W + o /\ W \in Nat \ {0}
    BY <1>1, PlaceOf, WordAssumption
  <1>4. IsSet(ShiftedLeft(words, s), p) <=> \/ i >= 1 /\ o \in Up(words[i], n)
                                            \/ i >= 2 /\ o \in OverUp(words[i - 1], n)
    <2>1. k \in DOMAIN words /\ k \in DOMAIN ShiftedLeft(words, s)
      BY ShiftedAreWords
    <2>2. ShiftedLeft(words, s)[k] = (IF i >= 1 THEN Up(words[i], n) ELSE {})
                                     \cup (IF i >= 2 THEN OverUp(words[i - 1], n) ELSE {})
      BY <2>1 DEF ShiftedLeft
    <2> HIDE DEF i, n
    <2> QED BY <2>1, <2>2 DEF IsSet
  <1> HIDE DEF b, n, k, o
  <1>5. i \in Int /\ p - s = (i - 1) * W + (o - n)
    BY <1>2, <1>3 DEF Offsets
  <1> HIDE DEF i
  <1>6. i <= m
    BY <1>2, <1>3 DEF i
  <1>7. CASE o >= n
    <2>1. o - n \in Offsets
      BY <1>2, <1>3, <1>7 DEF Offsets
    <2>2. CASE i >= 1
      <3>1. i \in 1..m /\ i \in Nat \ {0}
        BY <1>1, <1>5, <1>6, <2>2
      <3>2. p - s \in Nat /\ WordAt(p - s) = i /\ (p - s) % W = o - n
        BY <1>5, <2>1, <3>1, PositionOf
      <3>3. p >= s
        BY <3>2
      <3>4. IsSet(words, p - s) <=> o - n \in words[i]
        BY <1>1, <3>1, <3>2 DEF IsSet
      <3>5. o \in Up(words[i], n) <=> o - n \in words[i]
        BY <1>1, <1>2, <1>3, <1>7, <3>1, UpIs
      <3>6. ASSUME i >= 2 PROVE o \notin OverUp(words[i - 1], n)
        <4>1. i - 1 \in 1..m /\ words[i - 1] \in SUBSET Offsets
          BY <1>1, <3>1, <3>6
        <4>2. ~(o < n)
          BY <1>2, <1>3, <1>7 DEF Offsets
        <4> QED BY <1>2, <1>3, <4>1, <4>2, UpIs
      <3> QED BY <1>4, <2>2, <3>3, <3>4, <3>5, <3>6
    <2>3. CASE ~(i >= 1)
      <3>1. ~(i >= 2) /\ i < 1
        BY <1>5, <2>3
      <3>2. (i - 1) * W + W <= 0 * W
        <4>1. i - 1 \in Int /\ i - 1 < 0 /\ W \in Nat
          BY <1>3, <1>5, <3>1
        <4> QED BY <4>1, Apart
      <3>3. ~(p >= s)
        <4> DEFINE a == (i - 1) * W
        <4>1. a \in Int /\ 0 * W = 0 /\ o - n \in 0..(W - 1)
          BY <1>3, <1>5, <2>1 DEF Offsets
        <4> HIDE DEF a
        <4> QED BY <1>3, <1>5, <3>2, <4>1 DEF a
      <3> QED BY <1>4, <2>3, <3>1, <3>3
    <2> QED BY <2>2, <2>3
  <1>8. CASE ~(o >= n)
    <2>1. o - n + W \in Offsets /\ o < n /\ o + W - n = o - n + W
      BY <1>2, <1>3, <1>8 DEF Offsets
    <2>2. CASE i >= 2
      <3>1. i \in 1..m /\ i - 1 \in 1..m /\ i - 1 \in Nat \ {0}
        BY <1>1, <1>5, <1>6, <2>2
      <3>2. p - s = ((i - 1) - 1) * W + (o - n + W)
        <4>1. ((i - 1) - 1) * W = (i - 1) * W - W /\ (i - 1) * W \in Int
          BY <1>3, <3>1
        <4> DEFINE a == (i - 1) * W
        <4> HIDE DEF a
        <4> QED BY <1>3, <1>5, <1>2, <4>1 DEF a, Offsets
      <3>3. p - s \in Nat /\ WordAt(p - s) = i - 1 /\ (p - s) % W = o - n + W
        BY <2>1, <3>1, <3>2, PositionOf
      <3>4. p >= s
        BY <3>3
      <3>5. IsSet(words, p - s) <=> o + W - n \in words[i - 1]
        BY <1>1, <2>1, <3>1, <3>3 DEF IsSet
      <3>6. o \in OverUp(words[i - 1], n) <=> o + W - n \in words[i - 1]
        BY <1>1, <1>2, <1>3, <2>1, <3>1, UpIs
      <3>7. o \notin Up(words[i], n)
        BY <1>1, <1>2, <1>3, <1>8, <3>1, UpIs
      <3> QED BY <1>4, <2>2, <3>4, <3>5, <3>6, <3>7
    <2>3. CASE ~(i >= 2)
      <3>1. i >= 1 => o \notin Up(words[i], n)
        <4>1. i >= 1 => i \in 1..m
          BY <1>5, <1>6
        <4> QED BY <1>1, <1>2, <1>3, <1>8, <4>1, UpIs
      <3>2. (i - 1) * W <= 0
        <4>1. i - 1 \in Int /\ (i - 1 < 0 \/ i - 1 = 0) /\ W \in Nat
          BY <1>3, <1>5, <2>3
        <4>2. i - 1 < 0 => (i - 1) * W + W <= 0 * W
          BY <4>1, Apart
        <4>3. (i - 1) * W \in Int /\ 0 * W = 0 /\ (i - 1 = 0 => (i - 1) * W = 0)
          BY <4>1
        <4> DEFINE a == (i - 1) * W
        <4> HIDE DEF a
        <4> QED BY <1>3, <4>1, <4>2, <4>3 DEF a
      <3>3. ~(p >= s)
        <4> DEFINE a == (i - 1) * W
        <4>1. a \in Int /\ o - n < 0 /\ o \in Int /\ n \in Int
          BY <1>2, <1>3, <1>5, <2>1 DEF Offsets
        <4> HIDE DEF a
        <4> QED BY <1>5, <3>2, <4>1 DEF a
      <3> QED BY <1>4, <2>3, <3>1, <3>3
    <2> QED BY <2>2, <2>3
  <1> QED BY <1>7, <1>8

\* operator>>: the ones at p are those at p + s.
LEMMA RightHolds ==
    ASSUME NEW words, AreWords(words), NEW s \in Nat, NEW p \in Nat, WordAt(p) \in DOMAIN words
    PROVE  IsSet(ShiftedRight(words, s), p) <=> IsSet(words, p + s)
  <1>1. PICK m \in Nat : words \in [1..m -> SUBSET Offsets]
    BY DEF AreWords
  <1> DEFINE b == s \div W
             n == s % W
             k == WordAt(p)
             o == p % W
             i == k + b
  <1>2. b \in Nat /\ n \in Offsets /\ s = b * W + n
    <2>1. WordAt(s) - 1 = b
      BY WordAssumption, Division DEF WordAt
    <2>2. b \in Nat
      BY WordAssumption, Division
    <2> QED BY <2>1, <2>2, PlaceOf
  <1>3. k \in 1..m /\ o \in Offsets /\ p = (k - 1) * W + o /\ W \in Nat \ {0}
    BY <1>1, PlaceOf, WordAssumption
  <1>4. IsSet(ShiftedRight(words, s), p) <=> \/ i <= m /\ o \in Down(words[i], n)
                                             \/ i < m /\ o \in OverDown(words[i + 1], n)
    <2>1. k \in DOMAIN words /\ k \in DOMAIN ShiftedRight(words, s) /\ Len(words) = m
      BY <1>1, ShiftedAreWords
    <2>2. ShiftedRight(words, s)[k] = (IF i <= m THEN Down(words[i], n) ELSE {})
                                      \cup (IF i < m THEN OverDown(words[i + 1], n) ELSE {})
      BY <2>1 DEF ShiftedRight
    <2> HIDE DEF i, n
    <2> QED BY <2>1, <2>2 DEF IsSet
  <1> HIDE DEF b, n, k, o
  <1>5. i \in Nat \ {0} /\ p + s = (i - 1) * W + (o + n)
    BY <1>2, <1>3 DEF Offsets
  <1> HIDE DEF i
  <1>6. CASE o + n < W
    <2>1. o + n \in Offsets /\ ~(o + n >= W)
      BY <1>2, <1>3, <1>6 DEF Offsets
    <2>2. WordAt(p + s) = i /\ (p + s) % W = o + n
      BY <1>5, <2>1, PositionOf
    <2>3. CASE i <= m
      <3>1. i \in 1..m /\ words[i] \in SUBSET Offsets
        BY <1>1, <1>5, <2>3
      <3>2. o \in Down(words[i], n) <=> o + n \in words[i]
        BY <1>2, <1>3, <1>6, <3>1, UpIs
      <3>3. ASSUME i < m PROVE o \notin OverDown(words[i + 1], n)
        <4>1. words[i + 1] \in SUBSET Offsets
          BY <1>1, <1>5, <3>3
        <4> QED BY <1>2, <1>3, <2>1, <4>1, UpIs
      <3>4. IsSet(words, p + s) <=> o + n \in words[i]
        BY <1>1, <2>2, <3>1 DEF IsSet
      <3> QED BY <1>4, <2>3, <3>2, <3>3, <3>4
    <2>4. CASE ~(i <= m)
      <3>1. ~(i < m) /\ i \notin 1..m
        BY <1>5, <2>4
      <3> QED BY <1>1, <1>4, <2>2, <2>4, <3>1 DEF IsSet
    <2> QED BY <2>3, <2>4
  <1>7. CASE ~(o + n < W)
    <2>1. o + n - W \in Offsets /\ o + n >= W
      BY <1>2, <1>3, <1>7 DEF Offsets
    <2>2. WordAt(p + s) = i + 1 /\ (p + s) % W = o + n - W
      <3>1. p + s = ((i + 1) - 1) * W + (o + n - W)
        <4>1. ((i + 1) - 1) * W = (i - 1) * W + W /\ (i - 1) * W \in Int
          BY <1>3, <1>5
        <4> DEFINE a == (i - 1) * W
        <4> HIDE DEF a
        <4> QED BY <1>3, <1>5, <1>2, <4>1 DEF a, Offsets
      <3> QED BY <1>5, <2>1, <3>1, PositionOf
    <2>3. ASSUME i <= m PROVE o \notin Down(words[i], n)
      <3>1. words[i] \in SUBSET Offsets
        BY <1>1, <1>5, <2>3
      <3> QED BY <1>2, <1>3, <1>7, <3>1, UpIs
    <2>4. CASE i < m
      <3>1. i + 1 \in 1..m /\ words[i + 1] \in SUBSET Offsets
        BY <1>1, <1>5, <2>4
      <3>2. o \in OverDown(words[i + 1], n) <=> o + n - W \in words[i + 1]
        BY <1>2, <1>3, <2>1, <3>1, UpIs
      <3>3. IsSet(words, p + s) <=> o + n - W \in words[i + 1]
        BY <1>1, <2>2, <3>1 DEF IsSet
      <3> QED BY <1>4, <2>3, <2>4, <3>2, <3>3
    <2>5. CASE ~(i < m)
      <3>1. i + 1 \notin 1..m
        BY <1>5, <2>5
      <3> QED BY <1>1, <1>4, <2>2, <2>3, <2>5, <3>1 DEF IsSet
    <2> QED BY <2>4, <2>5
  <1> QED BY <1>6, <1>7

-----------------------------------------------------------------------------
(* DynamicBitset: the shifts in place                                      *)

WordSeqs(m) == [1..m -> SUBSET Offsets]
Passes(m) == [words : WordSeqs(m), carry : SUBSET Offsets]
Pass(s, kept, spilled, k) == [words |-> [s.words EXCEPT ![k] = kept[k] \cup s.carry], carry |-> spilled[k]]

LEMMA PassType ==
    ASSUME NEW m \in Nat, NEW kept \in WordSeqs(m), NEW spilled \in WordSeqs(m), NEW k \in 1..m,
           NEW s \in Passes(m)
    PROVE  Pass(s, kept, spilled, k) \in Passes(m)
  <1>1. s.words \in WordSeqs(m) /\ s.carry \in SUBSET Offsets
    BY DEF Passes
  <1>2. kept[k] \in SUBSET Offsets /\ spilled[k] \in SUBSET Offsets
    BY DEF WordSeqs
  <1>3. [s.words EXCEPT ![k] = kept[k] \cup s.carry] \in WordSeqs(m)
    BY <1>1, <1>2 DEF WordSeqs
  <1> QED BY <1>2, <1>3 DEF Pass, Passes

\* The loop over the words in the given order, as a function of the number of
\* words done.
IsLoop(f, m, kept, spilled, order) ==
    /\ f \in [0..m -> Passes(m)] /\ f[0] = [words |-> kept, carry |-> {}]
    /\ \A n \in 1..m : f[n] = Pass(f[n - 1], kept, spilled, order[n])

LEMMA CarriedLoop ==
    ASSUME NEW m \in Nat, NEW kept \in WordSeqs(m), NEW spilled \in WordSeqs(m),
           NEW order \in [1..m -> 1..m]
    PROVE  \E f : IsLoop(f, m, kept, spilled, order) /\ Carried(kept, spilled, order) = f[m].words
  <1> DEFINE S == Passes(m)
             c == [words |-> kept, carry |-> {}]
             onePass == [x \in S \X (1..m) |-> Pass(x[1], kept, spilled, order[x[2]])]
             pass[n \in 0..Len(order)] ==
                 IF n = 0 THEN [words |-> kept, carry |-> {}]
                 ELSE [words |-> [pass[n - 1].words EXCEPT ![order[n]] = kept[order[n]] \cup pass[n - 1].carry],
                       carry |-> spilled[order[n]]]
             Rec(g) == g = [n \in 0..m |-> IF n = 0 THEN c ELSE Pass(g[n - 1], kept, spilled, order[n])]
  <1>1. c \in S /\ Len(order) = m
    BY DEF Passes
  <1>2. ASSUME NEW s \in S, NEW i \in 1..m PROVE Pass(s, kept, spilled, order[i]) \in S
    BY PassType
  <1>3. Carried(kept, spilled, order) = pass[m].words
    BY <1>1 DEF Carried
  <1>4. pass = CHOOSE g : Rec(g)
    BY <1>1 DEF Pass
  <1> HIDE DEF S, c, pass
  <1>5. IsStep(onePass, m, S)
    <2>1. onePass \in [S \X (1..m) -> S]
      <3>1. ASSUME NEW x \in S \X (1..m) PROVE Pass(x[1], kept, spilled, order[x[2]]) \in S
        BY <1>2
      <3> QED BY <3>1
    <2> QED BY <2>1 DEF IsStep
  <1> HIDE DEF onePass
  <1>6. PICK f : Iterates(f, m, S, c, onePass)
    BY <1>1, <1>5, RecursiveFunction
  <1>7. f \in [0..m -> S] /\ f[0] = c /\ \A n \in 1..m : f[n] = Pass(f[n - 1], kept, spilled, order[n])
    <2>1. f \in [0..m -> S] /\ f[0] = c /\ \A n \in 1..m : f[n] = onePass[<<f[n - 1], n>>]
      BY <1>6 DEF Iterates
    <2>2. ASSUME NEW n \in 1..m PROVE onePass[<<f[n - 1], n>>] = Pass(f[n - 1], kept, spilled, order[n])
      <3> DEFINE x == <<f[n - 1], n>>
      <3>1. x \in S \X (1..m) /\ x[1] = f[n - 1] /\ x[2] = n
        BY <2>1
      <3> HIDE DEF x
      <3>2. onePass[x] = Pass(f[n - 1], kept, spilled, order[n])
        BY <3>1 DEF onePass
      <3> QED BY <3>2 DEF x
    <2> QED BY <2>1, <2>2
  <1>8. Rec(f)
    <2>1. \A n \in 0..m : f[n] = IF n = 0 THEN c ELSE Pass(f[n - 1], kept, spilled, order[n])
      BY <1>7
    <2>2. f = [n \in 0..m |-> f[n]]
      BY <1>7
    <2> QED BY <2>1, <2>2
  <1>9. Rec(pass)
    BY <1>4, <1>8
  <1>10. pass[0] = c /\ \A n \in 1..m : pass[n] = Pass(pass[n - 1], kept, spilled, order[n])
    <2>1. \A n \in 0..m : pass[n] = IF n = 0 THEN c ELSE Pass(pass[n - 1], kept, spilled, order[n])
      BY <1>9
    <2> QED BY <2>1
  <1>11. pass \in [0..m -> S]
    <2> DEFINE T == {n \in 0..m : pass[n] \in S}
    <2>1. 0 \in T
      BY <1>1, <1>10
    <2>2. ASSUME NEW n \in 1..m, n - 1 \in T PROVE n \in T
      <3>1. pass[n] \in S
        BY <1>2, <1>10, <2>2
      <3> QED BY <3>1
    <2> HIDE DEF T
    <2>3. 0..m \subseteq T
      BY <2>1, <2>2, BoundedInduction
    <2>4. pass = [n \in 0..m |-> pass[n]]
      BY <1>9
    <2> QED BY <2>3, <2>4 DEF T
  <1> QED BY <1>3, <1>10, <1>11 DEF IsLoop, S, c

OneToOne(order, m) == \A i, j \in 1..m : order[i] = order[j] => i = j
\* Each word keeps its own bits and takes those the word before it spilled.
IsCarried(out, m, kept, spilled, order) ==
    /\ out \in WordSeqs(m)
    /\ \A n \in 1..m : out[order[n]] = kept[order[n]] \cup (IF n = 1 THEN {} ELSE spilled[order[n - 1]])

LEMMA CarriedIs ==
    ASSUME NEW m \in Nat, NEW kept \in WordSeqs(m), NEW spilled \in WordSeqs(m),
           NEW order \in [1..m -> 1..m], OneToOne(order, m)
    PROVE  IsCarried(Carried(kept, spilled, order), m, kept, spilled, order)
  <1>1. PICK f : IsLoop(f, m, kept, spilled, order) /\ Carried(kept, spilled, order) = f[m].words
    BY CarriedLoop
  <1> DEFINE Result(n) == kept[order[n]] \cup (IF n = 1 THEN {} ELSE spilled[order[n - 1]])
             Done(n) == /\ f[n].carry = IF n = 0 THEN {} ELSE spilled[order[n]]
                        /\ \A j \in 1..n : f[n].words[order[j]] = Result(j)
             T == {n \in 0..m : Done(n)}
  <1>2. f[0] = [words |-> kept, carry |-> {}]
        /\ \A n \in 0..m : f[n].words \in WordSeqs(m) /\ f[n].carry \in SUBSET Offsets
    BY <1>1 DEF IsLoop, Passes
  <1>3. 0 \in T
    BY <1>2
  <1>4. ASSUME NEW n \in 1..m, n - 1 \in T PROVE n \in T
    <2> DEFINE s == f[n - 1]
               k == order[n]
    <2> DEFINE p == n - 1
    <2>0. p \in 0..m /\ (p = 0 <=> n = 1) /\ Done(p)
      <3>1. p \in 0..m /\ (p = 0 <=> n = 1)
        OBVIOUS
      <3> HIDE DEF Done
      <3> QED BY <1>4, <3>1
    <2>1. s.words \in WordSeqs(m) /\ s.carry = (IF n = 1 THEN {} ELSE spilled[order[n - 1]])
          /\ \A j \in 1..(n - 1) : s.words[order[j]] = Result(j)
      <3>1. f[p].words \in WordSeqs(m)
        BY <1>2, <2>0
      <3> HIDE DEF Result
      <3>2. f[p].carry = (IF n = 1 THEN {} ELSE spilled[order[p]])
            /\ \A j \in 1..p : f[p].words[order[j]] = Result(j)
        BY <2>0
      <3> QED BY <3>1, <3>2
    <2>2. f[n] = Pass(s, kept, spilled, k) /\ k \in 1..m
      BY <1>1 DEF IsLoop
    <2> HIDE DEF s
    <2>3. f[n].carry = spilled[k] /\ f[n].words = [s.words EXCEPT ![k] = kept[k] \cup s.carry]
      BY <2>2 DEF Pass
    <2>4. f[n].words[k] = Result(n)
      BY <2>1, <2>2, <2>3 DEF WordSeqs
    <2>5. ASSUME NEW j \in 1..(n - 1) PROVE f[n].words[order[j]] = Result(j)
      <3>1. j \in 1..m /\ j # n /\ order[j] \in 1..m
        OBVIOUS
      <3>2. order[j] # k
        BY <3>1 DEF OneToOne
      <3> QED BY <2>1, <2>3, <3>1, <3>2 DEF WordSeqs
    <2>6. ASSUME NEW j \in 1..n PROVE f[n].words[order[j]] = Result(j)
      <3>1. j = n \/ j \in 1..(n - 1)
        OBVIOUS
      <3> QED BY <2>4, <2>5, <3>1
    <2>7. Done(n)
      <3> HIDE DEF Result
      <3> QED BY <2>3, <2>6
    <2> HIDE DEF Done
    <2> QED BY <2>7
  <1> HIDE DEF T
  <1>5. m \in T
    <2>1. 0..m \subseteq T
      BY <1>3, <1>4, BoundedInduction
    <2> QED BY <2>1
  <1> QED BY <1>1, <1>2, <1>5 DEF T, IsCarried

\* operator<<= computes what operator<< does.
LEMMA AssignedLeftIs ==
    ASSUME NEW words, AreWords(words), NEW s \in Nat
    PROVE  AssignedLeft(words, s) = ShiftedLeft(words, s)
  <1>1. PICK m \in Nat : words \in [1..m -> SUBSET Offsets]
    BY DEF AreWords
  <1> DEFINE b == s \div W
             n == s % W
             moved == [k \in 1..m |-> IF k > b THEN words[k - b] ELSE {}]
             kept == [k \in 1..m |-> Up(moved[k], n)]
             spilled == [k \in 1..m |-> OverUp(moved[k], n)]
             order == [k \in 1..m |-> k]
             Left(k) == (IF k - b >= 1 THEN Up(words[k - b], n) ELSE {})
                        \cup (IF k - b >= 2 THEN OverUp(words[(k - b) - 1], n) ELSE {})
  <1>2. b \in Nat /\ n \in Offsets /\ DOMAIN words = 1..m /\ 0 \in Offsets
    BY <1>1, WordAssumption, Division DEF Offsets
  <1>3. AssignedLeft(words, s) = IF n = 0 THEN moved ELSE Carried(kept, spilled, order)
    BY <1>2 DEF AssignedLeft
  <1>4. ShiftedLeft(words, s) = [k \in 1..m |-> Left(k)]
    BY <1>2 DEF ShiftedLeft
  <1> HIDE DEF b, n
  <1>5. moved \in WordSeqs(m)
    <2>1. ASSUME NEW k \in 1..m, k > b PROVE words[k - b] \in SUBSET Offsets
      <3>1. k - b \in 1..m
        BY <1>2, <2>1
      <3> QED BY <1>1, <3>1
    <2> QED BY <2>1 DEF WordSeqs
  <1>6. \A k \in 1..m : moved[k] = IF k - b >= 1 THEN words[k - b] ELSE {}
    BY <1>2
  <1>7. \A k \in 1..m : k # 1 => moved[k - 1] = IF k - b >= 2 THEN words[(k - b) - 1] ELSE {}
    <2>1. ASSUME NEW k \in 1..m, k # 1 PROVE moved[k - 1] = IF k - b >= 2 THEN words[(k - b) - 1] ELSE {}
      <3> DEFINE j == k - 1
      <3>1. j \in 1..m /\ (j - b >= 1 <=> k - b >= 2) /\ j - b = (k - b) - 1
        BY <1>2, <2>1
      <3>2. moved[j] = IF j - b >= 1 THEN words[j - b] ELSE {}
        BY <1>6, <3>1
      <3> HIDE DEF moved
      <3> QED BY <3>1, <3>2
    <2> QED BY <2>1
  <1> HIDE DEF moved
  <1>8. CASE n = 0
    <2>1. ASSUME NEW k \in 1..m PROVE moved[k] = Left(k)
      <3>1. k - b >= 1 => k - b \in 1..m /\ words[k - b] \in SUBSET Offsets
        BY <1>1, <1>2
      <3>2. k - b >= 2 => k - b >= 1 /\ (k - b) - 1 \in 1..m /\ words[(k - b) - 1] \in SUBSET Offsets
        BY <1>1, <1>2
      <3>3. k - b >= 1 => Up(words[k - b], n) = words[k - b]
        BY <1>8, <3>1, Unshifted
      <3>4. k - b >= 2 => OverUp(words[(k - b) - 1], n) = {}
        BY <1>8, <3>2, Unshifted
      <3> QED BY <1>6, <3>2, <3>3, <3>4
    <2>2. moved = [k \in 1..m |-> moved[k]]
      BY <1>5 DEF WordSeqs
    <2> HIDE DEF Left
    <2> QED BY <1>3, <1>4, <1>8, <2>1, <2>2
  <1>9. CASE n # 0
    <2>1. kept \in WordSeqs(m) /\ spilled \in WordSeqs(m)
      <3>1. \A k \in 1..m : Up(moved[k], n) \in SUBSET Offsets /\ OverUp(moved[k], n) \in SUBSET Offsets
        BY <1>2, <1>5, ShiftedWords DEF WordSeqs
      <3> QED BY <3>1 DEF WordSeqs
    <2>2. order \in [1..m -> 1..m] /\ (\A i, j \in 1..m : order[i] = order[j] => i = j) /\ \A i \in 1..m : order[i] = i
      OBVIOUS
    <2>3. \A k \in 1..m : kept[k] = Up(moved[k], n) /\ spilled[k] = OverUp(moved[k], n)
      OBVIOUS
    <2> DEFINE out == Carried(kept, spilled, order)
    <2> HIDE DEF kept, spilled, order
    <2>4. out \in WordSeqs(m)
          /\ \A k \in 1..m : out[order[k]] = kept[order[k]] \cup (IF k = 1 THEN {} ELSE spilled[order[k - 1]])
      <3>1. order \in [1..m -> 1..m] /\ OneToOne(order, m)
        BY <2>2 DEF OneToOne
      <3>2. IsCarried(Carried(kept, spilled, order), m, kept, spilled, order)
        BY <2>1, <3>1, CarriedIs
      <3> QED BY <3>2 DEF IsCarried
    <2> HIDE DEF out
    <2>5. ASSUME NEW k \in 1..m PROVE out[k] = Left(k)
      <3>1. k # 1 => k - 1 \in 1..m
        OBVIOUS
      <3>2. out[k] = Up(moved[k], n) \cup (IF k = 1 THEN {} ELSE OverUp(moved[k - 1], n))
        <4>1. order[k] = k /\ (k # 1 => order[k - 1] = k - 1 /\ spilled[k - 1] = OverUp(moved[k - 1], n))
          BY <2>2, <2>3, <3>1
        <4>2. out[k] = kept[k] \cup (IF k = 1 THEN {} ELSE spilled[order[k - 1]])
          BY <2>4, <4>1
        <4>3. kept[k] = Up(moved[k], n)
          BY <2>3
        <4> QED BY <4>1, <4>2, <4>3
      <3>3. Up(moved[k], n) = IF k - b >= 1 THEN Up(words[k - b], n) ELSE {}
        BY <1>2, <1>6, EmptyWord
      <3>4. k # 1 => OverUp(moved[k - 1], n) = IF k - b >= 2 THEN OverUp(words[(k - b) - 1], n) ELSE {}
        BY <1>2, <1>7, EmptyWord
      <3>5. k = 1 => ~(k - b >= 2)
        BY <1>2
      <3> QED BY <3>2, <3>3, <3>4, <3>5
    <2>6. out = [k \in 1..m |-> out[k]]
      BY <2>4 DEF WordSeqs
    <2> HIDE DEF Left
    <2> QED BY <1>3, <1>4, <1>9, <2>5, <2>6 DEF out
  <1> QED BY <1>8, <1>9

\* operator>>= computes what operator>> does: its loop starts at the last word.
LEMMA AssignedRightIs ==
    ASSUME NEW words, AreWords(words), NEW s \in Nat
    PROVE  AssignedRight(words, s) = ShiftedRight(words, s)
  <1>1. PICK m \in Nat : words \in [1..m -> SUBSET Offsets]
    BY DEF AreWords
  <1> DEFINE b == s \div W
             n == s % W
             moved == [k \in 1..m |-> IF k + b <= m THEN words[k + b] ELSE {}]
             kept == [k \in 1..m |-> Down(moved[k], n)]
             spilled == [k \in 1..m |-> OverDown(moved[k], n)]
             order == [k \in 1..m |-> m + 1 - k]
             Right(k) == (IF k + b <= m THEN Down(words[k + b], n) ELSE {})
                         \cup (IF k + b < m THEN OverDown(words[(k + b) + 1], n) ELSE {})
  <1>2. b \in Nat /\ n \in Offsets /\ DOMAIN words = 1..m /\ Len(words) = m /\ 0 \in Offsets
    BY <1>1, WordAssumption, Division DEF Offsets
  <1>3. AssignedRight(words, s) = IF n = 0 THEN moved ELSE Carried(kept, spilled, order)
    BY <1>2 DEF AssignedRight
  <1>4. ShiftedRight(words, s) = [k \in 1..m |-> Right(k)]
    BY <1>2 DEF ShiftedRight
  <1> HIDE DEF b, n
  <1>5. moved \in WordSeqs(m)
    <2>1. ASSUME NEW k \in 1..m, k + b <= m PROVE words[k + b] \in SUBSET Offsets
      <3>1. k + b \in 1..m
        BY <1>2, <2>1
      <3> QED BY <1>1, <3>1
    <2> QED BY <2>1 DEF WordSeqs
  <1>6. \A k \in 1..m : moved[k] = IF k + b <= m THEN words[k + b] ELSE {}
    OBVIOUS
  <1>7. \A k \in 1..m : k # m => moved[k + 1] = IF k + b < m THEN words[(k + b) + 1] ELSE {}
    <2>1. ASSUME NEW k \in 1..m, k # m PROVE moved[k + 1] = IF k + b < m THEN words[(k + b) + 1] ELSE {}
      <3> DEFINE j == k + 1
      <3>1. j \in 1..m /\ (j + b <= m <=> k + b < m) /\ j + b = (k + b) + 1
        BY <1>2, <2>1
      <3>2. moved[j] = IF j + b <= m THEN words[j + b] ELSE {}
        BY <1>6, <3>1
      <3> HIDE DEF moved
      <3> QED BY <3>1, <3>2
    <2> QED BY <2>1
  <1> HIDE DEF moved
  <1>8. CASE n = 0
    <2>1. ASSUME NEW k \in 1..m PROVE moved[k] = Right(k)
      <3>1. k + b <= m => k + b \in 1..m /\ words[k + b] \in SUBSET Offsets
        BY <1>1, <1>2
      <3>2. k + b < m => k + b <= m /\ (k + b) + 1 \in 1..m /\ words[(k + b) + 1] \in SUBSET Offsets
        BY <1>1, <1>2
      <3>3. k + b <= m => Down(words[k + b], n) = words[k + b]
        BY <1>8, <3>1, Unshifted
      <3>4. k + b < m => OverDown(words[(k + b) + 1], n) = {}
        BY <1>8, <3>2, Unshifted
      <3> QED BY <1>6, <3>2, <3>3, <3>4
    <2>2. moved = [k \in 1..m |-> moved[k]]
      BY <1>5 DEF WordSeqs
    <2> HIDE DEF Right
    <2> QED BY <1>3, <1>4, <1>8, <2>1, <2>2
  <1>9. CASE n # 0
    <2>1. kept \in WordSeqs(m) /\ spilled \in WordSeqs(m)
      <3>1. \A k \in 1..m : Down(moved[k], n) \in SUBSET Offsets /\ OverDown(moved[k], n) \in SUBSET Offsets
        BY <1>2, <1>5, ShiftedWords DEF WordSeqs
      <3> QED BY <3>1 DEF WordSeqs
    <2>2. order \in [1..m -> 1..m] /\ (\A i, j \in 1..m : order[i] = order[j] => i = j)
          /\ \A i \in 1..m : order[i] = m + 1 - i
      OBVIOUS
    <2>3. \A k \in 1..m : kept[k] = Down(moved[k], n) /\ spilled[k] = OverDown(moved[k], n)
      OBVIOUS
    <2> DEFINE out == Carried(kept, spilled, order)
    <2> HIDE DEF kept, spilled, order
    <2>4. out \in WordSeqs(m)
          /\ \A j \in 1..m : out[order[j]] = kept[order[j]] \cup (IF j = 1 THEN {} ELSE spilled[order[j - 1]])
      <3>1. order \in [1..m -> 1..m] /\ OneToOne(order, m)
        BY <2>2 DEF OneToOne
      <3>2. IsCarried(Carried(kept, spilled, order), m, kept, spilled, order)
        BY <2>1, <3>1, CarriedIs
      <3> QED BY <3>2 DEF IsCarried
    <2> HIDE DEF out
    <2>5. ASSUME NEW k \in 1..m PROVE out[k] = Right(k)
      <3> DEFINE j == m + 1 - k
      <3>1. k # m => k + 1 \in 1..m
        OBVIOUS
      <3>2. out[k] = Down(moved[k], n) \cup (IF k = m THEN {} ELSE OverDown(moved[k + 1], n))
        <4>1. j \in 1..m /\ (j = 1 <=> k = m) /\ m + 1 - j = k /\ (k # m => j - 1 \in 1..m /\ m + 1 - (j - 1) = k + 1)
          OBVIOUS
        <4> HIDE DEF j
        <4>2. order[j] = k /\ (k # m => order[j - 1] = k + 1 /\ spilled[k + 1] = OverDown(moved[k + 1], n))
          BY <2>2, <2>3, <3>1, <4>1
        <4>3. out[k] = kept[k] \cup (IF j = 1 THEN {} ELSE spilled[order[j - 1]])
          BY <2>4, <4>1, <4>2
        <4>4. kept[k] = Down(moved[k], n)
          BY <2>3
        <4> QED BY <4>1, <4>2, <4>3, <4>4
      <3>3. Down(moved[k], n) = IF k + b <= m THEN Down(words[k + b], n) ELSE {}
        BY <1>2, <1>6, EmptyWord
      <3>4. k # m => OverDown(moved[k + 1], n) = IF k + b < m THEN OverDown(words[(k + b) + 1], n) ELSE {}
        BY <1>2, <1>7, EmptyWord
      <3>5. k = m => ~(k + b < m)
        BY <1>2
      <3> QED BY <3>2, <3>3, <3>4, <3>5
    <2>6. out = [k \in 1..m |-> out[k]]
      BY <2>4 DEF WordSeqs
    <2> HIDE DEF Right
    <2> QED BY <1>3, <1>4, <1>9, <2>5, <2>6 DEF out
  <1> QED BY <1>8, <1>9

-----------------------------------------------------------------------------
(* DynamicBitset: every call acts on sets                                  *)

\* The words are those the size asks for.
BitInv == num_bits \in Nat /\ bits \in WordSeqs(Words(num_bits))
Below(n) == 0..(n - 1)

\* There is a word for every position below the size.
LEMMA Capacity ==
    ASSUME NEW n \in Nat
    PROVE  Words(n) \in Nat /\ \A p \in Below(n) : WordAt(p) \in 1..Words(n)
  <1> DEFINE q == Words(n)
  <1>1. W \in Nat \ {0} /\ n + W - 1 \in Nat
    BY WordAssumption
  <1>2. q \in Nat /\ n + W - 1 < q * W + W
    BY <1>1, Division DEF Words
  <1>3. ASSUME NEW p \in Below(n) PROVE WordAt(p) \in 1..q
    <2> DEFINE k == WordAt(p)
    <2>1. p \in Nat /\ p < n
      BY <1>3 DEF Below
    <2>2. k \in Nat \ {0} /\ p % W \in 0..(W - 1) /\ p = (k - 1) * W + (p % W)
      BY <2>1, PlaceOf DEF Offsets
    <2> HIDE DEF k, q
    <2>3. q < k - 1 => q * W + W <= (k - 1) * W
      BY <1>1, <1>2, <2>2, Apart
    <2>4. q = k - 1 => q * W = (k - 1) * W
      OBVIOUS
    <2>5. ~(q <= k - 1)
      <3> DEFINE a == q * W
                 b == (k - 1) * W
                 r == p % W
      <3>1. a \in Int /\ b \in Int
        BY <1>1, <1>2, <2>2
      <3> HIDE DEF a, b, r
      <3> QED BY <1>1, <1>2, <2>1, <2>2, <2>3, <2>4, <3>1 DEF a, b, r
    <2> QED BY <1>2, <2>2, <2>5 DEF k, q
  <1> QED BY <1>2, <1>3

\* The positions in sight.
LEMMA InSight ==
    ASSUME NEW n \in Nat, NEW b \in WordSeqs(Words(n))
    PROVE  /\ AreWords(b) /\ DOMAIN b = 1..Words(n)
           /\ Positions(b) = {p \in Nat : IsSet(b, p)}
           /\ Positions(b) \cap Below(n) = {p \in Below(n) : IsSet(b, p)}
           /\ \A p \in Below(n) : WordAt(p) \in DOMAIN b
  <1>1. AreWords(b) /\ DOMAIN b = 1..Words(n)
    BY Capacity DEF AreWords, WordSeqs
  <1>2. Positions(b) = {p \in Nat : IsSet(b, p)}
    BY <1>1, PositionsAre
  <1>3. Below(n) \subseteq Nat
    BY DEF Below
  <1>4. \A p \in Below(n) : WordAt(p) \in DOMAIN b
    BY <1>1, Capacity
  <1> HIDE DEF Below
  <1>5. Positions(b) \cap Below(n) = {p \in Below(n) : IsSet(b, p)}
    BY <1>2, <1>3, Zenon
  <1> QED BY <1>1, <1>2, <1>4, <1>5

\* The words of a set of positions hold it.
LEMMA WordsOfHold ==
    ASSUME NEW n \in Nat, NEW positions
    PROVE  /\ WordsOf(positions, n) \in WordSeqs(Words(n))
           /\ \A p \in Below(n) : p % W \in WordsOf(positions, n)[WordAt(p)] <=> p \in positions
  <1>1. WordsOf(positions, n) \in WordSeqs(Words(n))
    BY DEF WordsOf, WordSeqs, Offsets
  <1>2. ASSUME NEW p \in Below(n) PROVE p % W \in WordsOf(positions, n)[WordAt(p)] <=> p \in positions
    <2> DEFINE k == WordAt(p)
               r == p % W
    <2>1. k \in 1..Words(n) /\ r \in 0..W - 1 /\ (k - 1) * W + r = p
      <3>1. p \in Nat
        BY <1>2 DEF Below
      <3> QED BY <3>1, <1>2, Capacity, PlaceOf DEF Offsets
    <2> HIDE DEF k, r
    <2>2. WordsOf(positions, n)[k] = {o \in 0..W - 1 : (k - 1) * W + o \in positions}
      BY <2>1 DEF WordsOf
    <2>3. r \in WordsOf(positions, n)[k] <=> p \in positions
      BY <2>1, <2>2
    <2> QED BY <2>3 DEF k, r
  <1> QED BY <1>1, <1>2

LEMMA EmptyHolds ==
    ASSUME NEW n \in Nat
    PROVE  Empty(n) \in WordSeqs(Words(n)) /\ Positions(Empty(n)) \cap Below(n) = {}
  <1>1. Empty(n) \in WordSeqs(Words(n)) /\ \A p \in Below(n) : ~(p % W \in Empty(n)[WordAt(p)])
    BY WordsOfHold DEF Empty
  <1> QED BY <1>1, InSight DEF IsSet

\* What a call leaves, by its name.
Call(name, arg) == [name |-> name, arg |-> arg]

LEMMA CallFields == \A name, a : Call(name, a).name = name /\ Call(name, a).arg = a
  BY DEF Call

LEMMA ExpectedSet ==
    ASSUME NEW before, NEW arg
    PROVE  /\ Expected(before, Call("set", arg)) = before \cup arg
           /\ Expected(before, Call("reset", arg)) = before \ arg
           /\ Expected(before, Call("and", arg)) = before \cap arg
           /\ Expected(before, Call("or", arg)) = before \cup arg
  BY CallFields DEF Expected

LEMMA ExpectedIs ==
    ASSUME NEW before, NEW arg
    PROVE  /\ \A name \in {"reset_all", "clear"} : Expected(before, Call(name, arg)) = {}
           /\ \A name \in {"none", "throws", "resize"} : Expected(before, Call(name, arg)) = before
  BY CallFields DEF Expected

LEMMA ExpectedShift ==
    ASSUME NEW before, NEW s
    PROVE  /\ Expected(before, Call("left", {s})) = {p + s : p \in before}
           /\ Expected(before, Call("right", {s})) = {p - s : p \in {q \in before : q >= s}}
  <1>1. (CHOOSE x \in {s} : TRUE) = s
    <2>1. \E x \in {s} : TRUE
      OBVIOUS
    <2>2. (CHOOSE x \in {s} : TRUE) \in {s}
      BY <2>1, Zenon
    <2> QED BY <2>2
  <1>2. Expected(before, Call("left", {s})) = {p + s : p \in before}
    BY <1>1, CallFields DEF Expected
  <1>3. Expected(before, Call("right", {s})) = {p - s : p \in {q \in before : q >= s}}
    BY <1>1, CallFields DEF Expected
  <1> QED BY <1>2, <1>3

\* The property of a step, and its two cases.
ActsOnSets ==
    LET expected == Expected(visible, step') \cap 0..num_bits' - 1
    IN  IF step'.name \in {"right", "resize"} /\ Stale # {}
        THEN /\ expected \subseteq visible'
             /\ visible' \ expected \subseteq
                   Expected(Positions(bits), step') \cap 0..num_bits' - 1
        ELSE visible' = expected

LEMMA ExactCall ==
    ASSUME NEW name, NEW arg, step' = Call(name, arg), name \notin {"right", "resize"},
           visible' = Expected(visible, Call(name, arg)) \cap Below(num_bits')
    PROVE  ActsOnSets
  <1>1. step'.name \notin {"right", "resize"}
    BY DEF Call
  <1> QED BY <1>1 DEF ActsOnSets, Below

LEMMA CallBringingBack ==
    ASSUME NEW arg, NEW name \in {"right", "resize"}, step' = Call(name, arg),
           visible' = Expected(Positions(bits), Call(name, arg)) \cap Below(num_bits'),
           Expected(visible, Call(name, arg)) \subseteq Expected(Positions(bits), Call(name, arg))
    PROVE  ActsOnSets
  <1> DEFINE expected == Expected(visible, step') \cap 0..num_bits' - 1
  <1>1. visible \subseteq Positions(bits)
    BY DEF visible
  <1>2. expected \subseteq visible'
    BY DEF Below
  <1>3. visible' \subseteq Expected(Positions(bits), step') \cap 0..num_bits' - 1
    BY DEF Below
  <1>4. CASE Stale = {}
    <2>1. visible = Positions(bits)
      BY <1>1, <1>4 DEF Stale
    <2>2. visible' = expected
      BY <2>1 DEF Below
    <2> QED BY <1>4, <2>2 DEF ActsOnSets
  <1>5. CASE Stale # {}
    <2>1. visible' \ expected \subseteq Expected(Positions(bits), step') \cap 0..num_bits' - 1
      BY <1>3
    <2> QED BY <1>2, <1>5, <2>1 DEF ActsOnSets, Call
  <1> QED BY <1>4, <1>5

LEMMA ResizeActs ==
    ASSUME BitInv, NEW n \in Nat, resize(n)
    PROVE  BitInv' /\ ActsOnSets
  <1>1. num_bits \in Nat /\ bits \in WordSeqs(Words(num_bits)) /\ num_bits' = n /\ step' = Call("resize", {n})
    BY DEF BitInv, resize, Did, Call
  <1>2. Words(num_bits) \in Nat /\ Words(n) \in Nat
    BY <1>1, Capacity
  <1>3. Len(bits) = Words(num_bits) /\ DOMAIN bits = 1..Words(num_bits)
    BY <1>1, <1>2 DEF WordSeqs
  <1>4. bits' \in WordSeqs(Words(n)) /\ \A k \in 1..Words(n) : bits'[k] = IF k \in DOMAIN bits THEN bits[k] ELSE {}
    BY <1>1, <1>2, <1>3 DEF resize, WordSeqs
  <1>5. Positions(bits') \cap Below(n) = {p \in Below(n) : IsSet(bits', p)} /\ DOMAIN bits' = 1..Words(n)
        /\ \A p \in Below(n) : WordAt(p) \in DOMAIN bits'
    BY <1>4, InSight
  <1>6. Positions(bits) = {p \in Nat : IsSet(bits, p)}
    BY <1>1, InSight
  <1>7. \A p \in Below(n) : p \in Nat /\ (IsSet(bits', p) <=> IsSet(bits, p))
    <2>1. ASSUME NEW p \in Below(n) PROVE IsSet(bits', p) <=> IsSet(bits, p)
      <3>1. WordAt(p) \in 1..Words(n) /\ WordAt(p) \in DOMAIN bits'
        BY <1>5
      <3>2. bits'[WordAt(p)] = IF WordAt(p) \in DOMAIN bits THEN bits[WordAt(p)] ELSE {}
        BY <1>4, <3>1
      <3> QED BY <3>1, <3>2, Zenon DEF IsSet
    <2> QED BY <2>1 DEF Below
  <1>8. visible' = Positions(bits) \cap Below(num_bits')
    <2>1. visible' = {p \in Below(n) : IsSet(bits', p)}
      BY <1>1, <1>5 DEF visible, Below
    <2> QED BY <1>1, <1>6, <1>7, <2>1
  <1>9. visible \subseteq Positions(bits)
    BY DEF visible
  <1>10. /\ Expected(Positions(bits), Call("resize", {n})) = Positions(bits)
         /\ Expected(visible, Call("resize", {n})) = visible
    BY ExpectedIs
  <1>11. ActsOnSets
    BY <1>1, <1>8, <1>9, <1>10, CallBringingBack
  <1> QED BY <1>1, <1>4, <1>11 DEF BitInv

LEMMA SetActs ==
    ASSUME BitInv, NEW pos \in Nat, NEW value \in BOOLEAN, set(pos, value)
    PROVE  BitInv' /\ ActsOnSets
  <1> DEFINE j == WordAt(pos)
             r == pos % W
             name == IF value THEN "set" ELSE "reset"
  <1>1. num_bits \in Nat /\ bits \in WordSeqs(Words(num_bits)) /\ num_bits' = num_bits /\ step' = Call(name, {pos})
        /\ pos \in Below(num_bits)
    BY DEF BitInv, set, Did, Call, Below
  <1>2. j \in DOMAIN bits /\ DOMAIN bits = 1..Words(num_bits) /\ r \in Offsets
    BY <1>1, InSight, PlaceOf
  <1>3. bits[j] \in SUBSET Offsets
    BY <1>1, <1>2 DEF WordSeqs
  <1>4. bits' = [bits EXCEPT ![j] = IF value THEN bits[j] \cup {r} ELSE bits[j] \ {r}]
    BY DEF set, WordAt
  <1> HIDE DEF j, r
  <1>5. bits' \in WordSeqs(Words(num_bits)) /\ DOMAIN bits' = DOMAIN bits
    BY <1>1, <1>2, <1>3, <1>4 DEF WordSeqs
  <1>6. ASSUME NEW p \in Below(num_bits)
        PROVE  IsSet(bits', p) <=> IF value THEN p = pos \/ IsSet(bits, p) ELSE p # pos /\ IsSet(bits, p)
    <2>1. WordAt(p) \in DOMAIN bits /\ WordAt(p) \in DOMAIN bits' /\ p \in Nat
      BY <1>1, <1>5, InSight DEF Below
    <2>2. bits'[WordAt(p)] = IF WordAt(p) # j THEN bits[WordAt(p)]
                             ELSE IF value THEN bits[j] \cup {r} ELSE bits[j] \ {r}
      BY <1>2, <1>4, <2>1
    <2>3. p = pos <=> WordAt(p) = j /\ p % W = r
      <3>1. p = (WordAt(p) - 1) * W + (p % W) /\ pos = (j - 1) * W + r
        BY <2>1, PlaceOf DEF j, r
      <3> QED BY <3>1 DEF j, r
    <2> QED BY <2>1, <2>2, <2>3 DEF IsSet
  <1>7. visible = {p \in Below(num_bits) : IsSet(bits, p)} /\ visible' = {p \in Below(num_bits) : IsSet(bits', p)}
    BY <1>1, <1>5, InSight DEF visible, Below
  <1>8. visible' = Expected(visible, Call(name, {pos})) \cap Below(num_bits')
    <2>1. CASE value
      <3>1. Expected(visible, Call(name, {pos})) = visible \cup {pos}
        <4>1. name = "set"
          BY <2>1
        <4> HIDE DEF name
        <4>2. Expected(visible, Call("set", {pos})) = visible \cup {pos}
          BY ExpectedSet
        <4> QED BY <4>1, <4>2
      <3> QED BY <1>1, <1>6, <1>7, <2>1, <3>1
    <2>2. CASE ~value
      <3>1. Expected(visible, Call(name, {pos})) = visible \ {pos}
        <4>1. name = "reset"
          BY <2>2
        <4> HIDE DEF name
        <4>2. Expected(visible, Call("reset", {pos})) = visible \ {pos}
          BY ExpectedSet
        <4> QED BY <4>1, <4>2
      <3> QED BY <1>1, <1>6, <1>7, <2>2, <3>1
    <2> QED BY <2>1, <2>2
  <1>9. name \notin {"right", "resize"}
    OBVIOUS
  <1> HIDE DEF name
  <1>10. ActsOnSets
    BY <1>1, <1>8, <1>9, ExactCall
  <1> QED BY <1>1, <1>5, <1>10 DEF BitInv

\* The calls that leave the words as they are, or empty.
LEMMA PlainCallsAct ==
    ASSUME BitInv, (\E pos \in Nat : OutOfRange(pos) \/ DifferentSize(pos)) \/ reset_all \/ clear
    PROVE  BitInv' /\ ActsOnSets
  <1>0. num_bits \in Nat /\ bits \in WordSeqs(Words(num_bits))
    BY DEF BitInv
  <1>1. ASSUME NEW pos \in Nat, OutOfRange(pos) \/ DifferentSize(pos) PROVE BitInv' /\ ActsOnSets
    <2>1. bits' = bits /\ num_bits' = num_bits /\ step' = Call("throws", {pos})
      BY <1>1 DEF OutOfRange, DifferentSize, Did, Call
    <2>2. visible' = visible /\ visible = visible \cap Below(num_bits')
      BY <2>1 DEF visible, Below
    <2>3. Expected(visible, Call("throws", {pos})) = visible
      BY ExpectedIs
    <2>4. ActsOnSets
      BY <2>1, <2>2, <2>3, ExactCall
    <2> QED BY <1>0, <2>1, <2>4 DEF BitInv
  <1>2. ASSUME reset_all PROVE BitInv' /\ ActsOnSets
    <2>1. bits' = Empty(num_bits) /\ num_bits' = num_bits /\ step' = Call("reset_all", {})
      BY <1>2 DEF reset_all, Did, Call
    <2>2. bits' \in WordSeqs(Words(num_bits)) /\ visible' = {}
      BY <1>0, <2>1, EmptyHolds DEF visible, Below
    <2>3. Expected(visible, Call("reset_all", {})) = {}
      BY ExpectedIs
    <2>4. ActsOnSets
      BY <2>1, <2>2, <2>3, ExactCall
    <2> QED BY <1>0, <2>1, <2>2, <2>4 DEF BitInv
  <1>3. ASSUME clear PROVE BitInv' /\ ActsOnSets
    <2>1. bits' = <<>> /\ num_bits' = 0 /\ step' = Call("clear", {})
      BY <1>3 DEF clear, Did, Call
    <2>2. visible' = {}
      BY <2>1 DEF visible
    <2>3. bits' \in WordSeqs(Words(num_bits'))
      <3>1. Words(0) = 0
        BY WordAssumption DEF Words
      <3> QED BY <2>1, <3>1 DEF WordSeqs
    <2>4. Expected(visible, Call("clear", {})) = {}
      BY ExpectedIs
    <2>5. ActsOnSets
      BY <2>1, <2>2, <2>4, ExactCall
    <2> QED BY <2>1, <2>3, <2>5 DEF BitInv
  <1> QED BY <1>1, <1>2, <1>3

LEMMA AndOrAct ==
    ASSUME BitInv, NEW other, bit_and(other) \/ bit_or(other)
    PROVE  BitInv' /\ ActsOnSets
  <1> DEFINE n == num_bits
             mask == WordsOf(other, n)
  <1>1. n \in Nat /\ bits \in WordSeqs(Words(n)) /\ num_bits' = n
    BY DEF BitInv, bit_and, bit_or
  <1>2. DOMAIN bits = 1..Words(n) /\ mask \in WordSeqs(Words(n))
        /\ \A p \in Below(n) : WordAt(p) \in DOMAIN bits /\ (p % W \in mask[WordAt(p)] <=> p \in other)
    BY <1>1, InSight, WordsOfHold
  <1>3. visible = {p \in Below(n) : IsSet(bits, p)}
    BY <1>1, InSight DEF visible, Below
  <1> HIDE DEF n, mask
  <1>4. ASSUME bit_and(other) PROVE BitInv' /\ ActsOnSets
    <2>1. bits' = [k \in DOMAIN bits |-> bits[k] \cap mask[k]] /\ step' = Call("and", other)
      BY <1>4 DEF bit_and, Did, Call, mask, n
    <2>2. bits' \in WordSeqs(Words(n)) /\ DOMAIN bits' = DOMAIN bits
      BY <1>1, <1>2, <2>1 DEF WordSeqs
    <2>3. visible' = {p \in Below(n) : IsSet(bits', p)}
      BY <1>1, <2>2, InSight DEF visible, Below
    <2>4. \A p \in Below(n) : IsSet(bits', p) <=> IsSet(bits, p) /\ p \in other
      BY <1>2, <2>1, <2>2 DEF IsSet
    <2>5. Expected(visible, Call("and", other)) = visible \cap other
      BY ExpectedSet
    <2>6. visible' = Expected(visible, Call("and", other)) \cap Below(num_bits')
      BY <1>1, <1>3, <2>3, <2>4, <2>5
    <2>7. ActsOnSets
      BY <2>1, <2>6, ExactCall
    <2> QED BY <1>1, <2>2, <2>7 DEF BitInv
  <1>5. ASSUME bit_or(other) PROVE BitInv' /\ ActsOnSets
    <2>1. bits' = [k \in DOMAIN bits |-> bits[k] \cup mask[k]] /\ step' = Call("or", other)
      BY <1>5 DEF bit_or, Did, Call, mask, n
    <2>2. bits' \in WordSeqs(Words(n)) /\ DOMAIN bits' = DOMAIN bits
      BY <1>1, <1>2, <2>1 DEF WordSeqs
    <2>3. visible' = {p \in Below(n) : IsSet(bits', p)}
      BY <1>1, <2>2, InSight DEF visible, Below
    <2>4. \A p \in Below(n) : IsSet(bits', p) <=> IsSet(bits, p) \/ p \in other
      BY <1>2, <2>1, <2>2 DEF IsSet
    <2>5. Expected(visible, Call("or", other)) = visible \cup other
      BY ExpectedSet
    <2>6. visible' = Expected(visible, Call("or", other)) \cap Below(num_bits')
      BY <1>1, <1>3, <2>3, <2>4, <2>5
    <2>7. ActsOnSets
      BY <2>1, <2>6, ExactCall
    <2> QED BY <1>1, <2>2, <2>7 DEF BitInv
  <1> QED BY <1>4, <1>5

LEMMA ShiftedKeepSize ==
    ASSUME BitInv, NEW s \in Nat
    PROVE  /\ AreWords(bits) /\ DOMAIN bits = 1..Words(num_bits)
           /\ ShiftedLeft(bits, s) \in WordSeqs(Words(num_bits))
           /\ ShiftedRight(bits, s) \in WordSeqs(Words(num_bits))
  <1>1. num_bits \in Nat /\ bits \in WordSeqs(Words(num_bits)) /\ Words(num_bits) \in Nat
    BY Capacity DEF BitInv
  <1>2. AreWords(bits) /\ DOMAIN bits = 1..Words(num_bits)
    BY <1>1, InSight
  <1>3. ASSUME NEW words, AreWords(words), DOMAIN words = 1..Words(num_bits)
        PROVE  words \in WordSeqs(Words(num_bits))
    <2>1. PICK m \in Nat : words \in [1..m -> SUBSET Offsets]
      BY <1>3 DEF AreWords
    <2>2. 1..m = 1..Words(num_bits)
      BY <1>3, <2>1
    <2> QED BY <2>1, <2>2 DEF WordSeqs
  <1> QED BY <1>2, <1>3, ShiftedAreWords

LEMMA LeftActs ==
    ASSUME BitInv, NEW s \in Nat, shift_left(s) \/ shift_left_assign(s)
    PROVE  BitInv' /\ ActsOnSets
  <1> DEFINE n == num_bits
  <1>1. n \in Nat /\ bits \in WordSeqs(Words(n)) /\ num_bits' = n /\ step' = Call("left", {s})
        /\ AreWords(bits) /\ DOMAIN bits = 1..Words(n)
    BY ShiftedKeepSize DEF BitInv, shift_left, shift_left_assign, Shift, Did, Call
  <1>2. bits' = IF s >= n THEN Empty(n) ELSE ShiftedLeft(bits, s)
    BY <1>1, AssignedLeftIs DEF shift_left, shift_left_assign, Shift
  <1>3. visible = {p \in Below(n) : IsSet(bits, p)}
    BY <1>1, InSight DEF visible, Below
  <1> HIDE DEF n
  <1>4. bits' \in WordSeqs(Words(n))
    BY <1>1, <1>2, EmptyHolds, ShiftedKeepSize DEF n
  <1>5. visible' = Positions(bits') \cap Below(n)
    BY <1>1 DEF visible, Below
  <1>6. Expected(visible, Call("left", {s})) = {p + s : p \in visible}
    BY ExpectedShift
  <1>7. visible' = {p + s : p \in visible} \cap Below(n)
    <2>1. CASE s >= n
      <3>1. visible' = {}
        BY <1>1, <1>2, <1>5, <2>1, EmptyHolds
      <3>2. \A p \in visible : p + s \notin Below(n)
        BY <1>1, <1>3, <2>1 DEF Below
      <3> QED BY <3>1, <3>2
    <2>2. CASE ~(s >= n)
      <3>1. visible' = {p \in Below(n) : IsSet(bits', p)}
        BY <1>1, <1>4, <1>5, InSight
      <3>2. ASSUME NEW p \in Below(n) PROVE IsSet(bits', p) <=> p >= s /\ IsSet(bits, p - s)
        <4>1. p \in Nat
          BY <1>1 DEF Below
        <4>2. WordAt(p) \in DOMAIN bits
          BY <1>1, InSight
        <4> QED BY <1>1, <1>2, <2>2, <4>1, <4>2, LeftHolds
      <3>3. \A p \in Below(n) : p >= s => p - s \in Below(n) /\ (p - s) + s = p
        BY <1>1 DEF Below
      <3>4. \A q \in Below(n) : q + s \in Nat /\ (q + s) - s = q /\ q + s >= s
        BY <1>1 DEF Below
      <3> QED BY <1>3, <3>1, <3>2, <3>3, <3>4
    <2> QED BY <2>1, <2>2
  <1>8. ActsOnSets
    <2>1. visible' = Expected(visible, Call("left", {s})) \cap Below(num_bits')
      BY <1>1, <1>6, <1>7
    <2>2. "left" \notin {"right", "resize"}
      OBVIOUS
    <2> QED BY <1>1, <2>1, <2>2, ExactCall
  <1> QED BY <1>1, <1>4, <1>8 DEF BitInv

LEMMA RightActs ==
    ASSUME BitInv, NEW s \in Nat, shift_right(s) \/ shift_right_assign(s)
    PROVE  BitInv' /\ ActsOnSets
  <1> DEFINE n == num_bits
             Moved(positions) == {p - s : p \in {q \in positions : q >= s}}
  <1>1. n \in Nat /\ bits \in WordSeqs(Words(n)) /\ num_bits' = n /\ step' = Call("right", {s})
        /\ AreWords(bits) /\ DOMAIN bits = 1..Words(n)
    BY ShiftedKeepSize DEF BitInv, shift_right, shift_right_assign, Shift, Did, Call
  <1>2. bits' = IF s >= n THEN Empty(n) ELSE ShiftedRight(bits, s)
    BY <1>1, AssignedRightIs DEF shift_right, shift_right_assign, Shift
  <1>3. visible = {p \in Below(n) : IsSet(bits, p)} /\ Positions(bits) = {p \in Nat : IsSet(bits, p)}
    BY <1>1, InSight DEF visible, Below
  <1> HIDE DEF n
  <1>4. bits' \in WordSeqs(Words(n))
    BY <1>1, <1>2, EmptyHolds, ShiftedKeepSize DEF n
  <1>5. visible' = Positions(bits') \cap Below(n)
    BY <1>1 DEF visible, Below
  <1>6. /\ Expected(visible, Call("right", {s})) = Moved(visible)
        /\ Expected(Positions(bits), Call("right", {s})) = Moved(Positions(bits))
    BY ExpectedShift
  <1>7. CASE s >= n
    <2>1. visible' = {}
      BY <1>1, <1>2, <1>5, <1>7, EmptyHolds
    <2>2. Moved(visible) = {}
      BY <1>1, <1>3, <1>7 DEF Below
    <2> HIDE DEF Moved
    <2>3. ActsOnSets
      BY <1>1, <1>6, <2>1, <2>2 DEF ActsOnSets, Below
    <2> QED BY <1>1, <1>4, <2>3 DEF BitInv
  <1>8. CASE ~(s >= n)
    <2>1. visible' = {p \in Below(n) : IsSet(bits', p)}
      BY <1>1, <1>4, <1>5, InSight
    <2>2. ASSUME NEW p \in Below(n) PROVE IsSet(bits', p) <=> IsSet(bits, p + s)
      <3>1. p \in Nat
        BY <1>1 DEF Below
      <3>2. WordAt(p) \in DOMAIN bits
        BY <1>1, InSight
      <3> QED BY <1>1, <1>2, <1>8, <3>1, <3>2, RightHolds
    <2>3. \A p \in Below(n) : p + s \in Nat /\ p + s >= s /\ (p + s) - s = p
      BY <1>1 DEF Below
    <2>4. \A q \in Nat : q >= s => (q - s) + s = q
      OBVIOUS
    <2>5. visible' = Moved(Positions(bits)) \cap Below(num_bits')
      BY <1>1, <1>3, <2>1, <2>2, <2>3, <2>4
    <2>6. visible \subseteq Positions(bits)
      BY DEF visible
    <2>7. Moved(visible) \subseteq Moved(Positions(bits))
      BY <2>6
    <2> HIDE DEF Moved
    <2>8. ActsOnSets
      BY <1>1, <1>6, <2>5, <2>7, CallBringingBack
    <2> QED BY <1>1, <1>4, <2>8 DEF BitInv
  <1> QED BY <1>7, <1>8

LEMMA BitStep ==
    ASSUME BitInv, [BitNext]_bvars
    PROVE  BitInv' /\ [ActsOnSets]_bvars
  <1>0. 0..MAX_BITS \subseteq Nat /\ num_bits \in Nat /\ 0..num_bits - 1 \subseteq Nat
    BY WordAssumption DEF BitInv
  <1>1. ASSUME NEW n \in 0..MAX_BITS, resize(n) \/ OutOfRange(n) \/ DifferentSize(n)
        PROVE  BitInv' /\ ActsOnSets
    BY <1>0, <1>1, ResizeActs, PlainCallsAct
  <1>2. ASSUME NEW pos \in 0..num_bits - 1, NEW value \in BOOLEAN, set(pos, value) PROVE BitInv' /\ ActsOnSets
    BY <1>0, <1>2, SetActs
  <1>3. ASSUME NEW other \in Operands, bit_and(other) \/ bit_or(other) PROVE BitInv' /\ ActsOnSets
    BY <1>3, AndOrAct
  <1>4. ASSUME NEW n \in 0..MAX_BITS, shift_left(n) \/ shift_left_assign(n) PROVE BitInv' /\ ActsOnSets
    BY <1>0, <1>4, LeftActs
  <1>5. ASSUME NEW n \in 0..MAX_BITS, shift_right(n) \/ shift_right_assign(n) PROVE BitInv' /\ ActsOnSets
    BY <1>0, <1>5, RightActs
  <1>6. ASSUME reset_all \/ clear PROVE BitInv' /\ ActsOnSets
    BY <1>6, PlainCallsAct
  <1>7. CASE UNCHANGED bvars
    BY <1>7 DEF bvars, BitInv
  <1> QED BY <1>1, <1>2, <1>3, <1>4, <1>5, <1>6, <1>7 DEF BitNext

\* A sequence of calls of any length on a bitset of any size, with words of
\* any length, leaves the set of positions that the operations on sets give
\* (DynamicBitset.hpp:28-31, :97-225), up to the stale ones a right shift or a
\* growth brings back.
THEOREM CallsActOnSetsHolds == BitSpec => CallsActOnSets
  <1>1. BitInit => BitInv
    <2>1. Words(0) = 0
      BY WordAssumption DEF Words
    <2> QED BY <2>1 DEF BitInit, BitInv, WordSeqs
  <1>2. BitInv /\ [BitNext]_bvars => BitInv' /\ [ActsOnSets]_bvars
    BY BitStep
  <1> QED BY <1>1, <1>2, PTL DEF BitSpec, CallsActOnSets, ActsOnSets

-----------------------------------------------------------------------------
(* Loops                                                                   *)

\* f has the states of the loop, all in S.
RunsThrough(f, S, body, start, elems) ==
    /\ f \in [0..Len(elems) -> S] /\ f[0] = start
    /\ \A n \in 1..Len(elems) : f[n] = body[<<f[n - 1], elems[n]>>]

\* A loop whose steps keep to a set of states passes through such states only.
LEMMA LoopStatesAre ==
    ASSUME NEW S, NEW E, NEW body \in [S \X E -> S], NEW start \in S, NEW elems \in Seq(E)
    PROVE  RunsThrough(LoopStates(body, start, elems), S, body, start, elems)
  <1> DEFINE N == Len(elems)
             state[n \in 0..Len(elems)] == IF n = 0 THEN start ELSE body[<<state[n - 1], elems[n]>>]
             Rec(g) == g = [n \in 0..N |-> IF n = 0 THEN start ELSE body[<<g[n - 1], elems[n]>>]]
             each == [x \in S \X (1..N) |-> body[<<x[1], elems[x[2]]>>]]
  <1>1. N \in Nat /\ \A n \in 1..N : elems[n] \in E
    OBVIOUS
  <1>2. LoopStates(body, start, elems) = state
    BY DEF LoopStates
  <1>3. state = CHOOSE g : Rec(g)
    OBVIOUS
  <1> HIDE DEF state
  <1>4. IsStep(each, N, S)
    <2>1. ASSUME NEW x \in S \X (1..N) PROVE body[<<x[1], elems[x[2]]>>] \in S
      <3>1. <<x[1], elems[x[2]]>> \in S \X E
        BY <1>1
      <3> QED BY <3>1
    <2> QED BY <2>1 DEF IsStep
  <1>5. ASSUME NEW s \in S, NEW n \in 1..N PROVE each[<<s, n>>] = body[<<s, elems[n]>>]
    OBVIOUS
  <1> HIDE DEF each, N
  <1>6. PICK f : Iterates(f, N, S, start, each)
    BY <1>1, <1>4, RecursiveFunction
  <1>7. f \in [0..N -> S] /\ f[0] = start /\ \A n \in 1..N : f[n] = body[<<f[n - 1], elems[n]>>]
    <2>1. f \in [0..N -> S] /\ f[0] = start /\ \A n \in 1..N : f[n] = each[<<f[n - 1], n>>]
      BY <1>6 DEF Iterates
    <2>2. ASSUME NEW n \in 1..N PROVE f[n] = body[<<f[n - 1], elems[n]>>]
      <3>1. n - 1 \in 0..N
        BY <1>1
      <3>2. f[n - 1] \in S
        BY <2>1, <3>1
      <3>3. each[<<f[n - 1], n>>] = body[<<f[n - 1], elems[n]>>]
        BY <1>5, <3>2
      <3> QED BY <2>1, <3>3
    <2> QED BY <2>1, <2>2
  <1>8. Rec(f)
    <2>1. \A n \in 0..N : f[n] = IF n = 0 THEN start ELSE body[<<f[n - 1], elems[n]>>]
      BY <1>7
    <2>2. f = [n \in 0..N |-> f[n]]
      BY <1>7
    <2> QED BY <2>1, <2>2
  <1>9. Rec(state)
    BY <1>3, <1>8
  <1> HIDE DEF Rec
  <1>10. /\ state = [n \in 0..N |-> state[n]]
         /\ state[0] = start
         /\ \A n \in 1..N : state[n] = body[<<state[n - 1], elems[n]>>]
    <2>1. state = [n \in 0..N |-> IF n = 0 THEN start ELSE body[<<state[n - 1], elems[n]>>]]
      BY <1>9 DEF Rec
    <2>2. \A n \in 0..N : state[n] = IF n = 0 THEN start ELSE body[<<state[n - 1], elems[n]>>]
      BY <2>1
    <2>3. state = [n \in 0..N |-> state[n]]
      BY <2>1, <2>2
    <2>4. 0 \in 0..N /\ \A n \in 1..N : n \in 0..N /\ n # 0
      BY <1>1
    <2> QED BY <2>2, <2>3, <2>4
  <1> DEFINE T == {n \in 0..N : state[n] \in S}
  <1>11. 0 \in T
    BY <1>1, <1>10
  <1>12. ASSUME NEW n \in 1..N, n - 1 \in T PROVE n \in T
    <2>1. <<state[n - 1], elems[n]>> \in S \X E
      BY <1>1, <1>12
    <2>2. body[<<state[n - 1], elems[n]>>] \in S
      BY <2>1
    <2>3. n \in 0..N
      BY <1>1
    <2> QED BY <1>10, <2>2, <2>3
  <1> HIDE DEF T
  <1>13. 0..N \subseteq T
    BY <1>1, <1>11, <1>12, BoundedInduction
  <1>14. state \in [0..N -> S]
    BY <1>10, <1>13 DEF T
  <1> QED BY <1>2, <1>10, <1>14 DEF N, RunsThrough

\* What holds at the start and is kept by every step holds after each; kept is
\* the set of the numbers of steps and the states then allowed.
LEMMA LoopInvariant ==
    ASSUME NEW S, NEW E, NEW body \in [S \X E -> S], NEW start \in S, NEW elems \in Seq(E),
           NEW kept, <<0, start>> \in kept,
           \A n \in 1..Len(elems), s \in S :
               <<n - 1, s>> \in kept => <<n, body[<<s, elems[n]>>]>> \in kept
    PROVE  /\ \A n \in 0..Len(elems) : <<n, LoopStates(body, start, elems)[n]>> \in kept
           /\ <<Len(elems), Loop(body, start, elems)>> \in kept /\ Loop(body, start, elems) \in S
  <1> DEFINE f == LoopStates(body, start, elems)
             N == Len(elems)
             T == {n \in 0..N : <<n, f[n]>> \in kept}
  <1>1. f \in [0..N -> S] /\ f[0] = start /\ \A n \in 1..N : f[n] = body[<<f[n - 1], elems[n]>>]
    <2>1. RunsThrough(LoopStates(body, start, elems), S, body, start, elems)
      BY LoopStatesAre
    <2> QED BY <2>1 DEF RunsThrough
  <1>2. N \in Nat
    OBVIOUS
  <1> HIDE DEF f
  <1>3. 0 \in T
    BY <1>1, <1>2
  <1>4. ASSUME NEW n \in 1..N, n - 1 \in T PROVE n \in T
    <2>1. f[n - 1] \in S /\ <<n - 1, f[n - 1]>> \in kept
      BY <1>1, <1>4
    <2>2. <<n, body[<<f[n - 1], elems[n]>>]>> \in kept
      BY <2>1
    <2>3. n \in 0..N /\ f[n] = body[<<f[n - 1], elems[n]>>]
      BY <1>1, <1>2
    <2> QED BY <2>2, <2>3
  <1> HIDE DEF T, N
  <1>5. 0..N \subseteq T
    BY <1>2, <1>3, <1>4, BoundedInduction
  <1>6. f[N] \in S
    BY <1>1, <1>2
  <1>7. \A n \in 0..N : <<n, f[n]>> \in kept
    BY <1>5 DEF T
  <1>8. N \in 0..N
    BY <1>2
  <1> QED BY <1>6, <1>7, <1>8 DEF f, Loop, N

-----------------------------------------------------------------------------
(* Numbers that differ by a multiple of M; by nothing, if M is 0           *)

Congruent(M, x, y) == \E k \in Int : x = y + k * M

LEMMA CongruentSame == ASSUME NEW M \in Nat, NEW x \in Int PROVE Congruent(M, x, x)
  <1>1. 0 \in Int /\ x = x + 0 * M
    OBVIOUS
  <1> QED BY <1>1 DEF Congruent

LEMMA CongruentSums ==
    ASSUME NEW M \in Nat, NEW x \in Int, NEW y \in Int, NEW a \in Int, NEW b \in Int,
           Congruent(M, x, y), Congruent(M, a, b)
    PROVE  Congruent(M, x + a, y + b)
  <1>1. PICK k \in Int : x = y + k * M
    BY DEF Congruent
  <1>2. PICK l \in Int : a = b + l * M
    BY DEF Congruent
  <1>3. k + l \in Int /\ (k + l) * M = k * M + l * M /\ k * M \in Int /\ l * M \in Int
    OBVIOUS
  <1>4. x + a = (y + b) + (k + l) * M
    BY <1>1, <1>2, <1>3
  <1> QED BY <1>3, <1>4 DEF Congruent

LEMMA CongruentTransitive ==
    ASSUME NEW M \in Nat, NEW x \in Int, NEW y \in Int, NEW z \in Int,
           Congruent(M, x, y), Congruent(M, y, z)
    PROVE  Congruent(M, x, z)
  <1>1. PICK k \in Int : x = y + k * M
    BY DEF Congruent
  <1>2. PICK l \in Int : y = z + l * M
    BY DEF Congruent
  <1>3. k + l \in Int /\ (k + l) * M = k * M + l * M /\ k * M \in Int /\ l * M \in Int
    OBVIOUS
  <1>4. x = z + (k + l) * M
    BY <1>1, <1>2, <1>3
  <1> QED BY <1>3, <1>4 DEF Congruent

\* Congruent numbers less than M apart are the same.
LEMMA CongruentClose ==
    ASSUME NEW M \in Nat, NEW x \in Int, NEW y \in Int, Congruent(M, x, y), x - y < M, y - x < M
    PROVE  x = y
  <1>1. PICK k \in Int : x = y + k * M
    BY DEF Congruent
  <1>2. k * M \in Int
    OBVIOUS
  <1>3. ~(k > 0)
    <2>1. k > 0 => 0 * M + M <= k * M
      BY Apart
    <2> QED BY <1>1, <1>2, <2>1
  <1>4. ~(k < 0)
    <2>1. k < 0 => k * M + M <= 0 * M
      BY Apart
    <2> QED BY <1>1, <1>2, <2>1
  <1>5. k = 0
    BY <1>3, <1>4
  <1> QED BY <1>1, <1>5

LEMMA Remainder ==
    ASSUME NEW M \in Nat \ {0}, NEW x \in Int
    PROVE  x % M \in 0..(M - 1) /\ Congruent(M, x % M, x)
  <1>1. x % M \in 0..(M - 1) /\ x \div M \in Int /\ x = (x \div M) * M + (x % M)
    OBVIOUS
  <1> DEFINE q == x \div M
             r == x % M
  <1>2. -q \in Int /\ (-q) * M = -(q * M) /\ q * M \in Int
    BY <1>1
  <1>3. r = x + (-q) * M
    <2> HIDE DEF q, r
    <2> QED BY <1>1, <1>2 DEF q, r
  <1> QED BY <1>1, <1>2, <1>3 DEF Congruent

\* The two widths.
Widths == {W32, W64}
LEMMA WidthsAre ==
    ASSUME NEW w \in Widths
    PROVE  Half_of(w) \in Nat \ {0} /\ Range_of(w) \in Nat \ {0} /\ Range_of(w) = 2 * Half_of(w)
  BY PowerAssumption DEF Widths

\* A number cut to w bits.
LEMMA UnsignedIs ==
    ASSUME NEW w \in Widths, NEW x \in Int
    PROVE  unsigned(w, x) \in 0..(Range_of(w) - 1) /\ Congruent(Range_of(w), unsigned(w, x), x)
  BY WidthsAre, Remainder DEF unsigned

LEMMA SignedIs ==
    ASSUME NEW w \in Widths, NEW x \in Int
    PROVE  /\ signed(w, x) \in Int /\ fits_signed(w, signed(w, x))
           /\ Congruent(Range_of(w), signed(w, x), x)
  <1> DEFINE M == Range_of(w)
             H == Half_of(w)
             u == unsigned(w, x)
  <1>1. H \in Nat \ {0} /\ M \in Nat \ {0} /\ M = 2 * H
    BY WidthsAre
  <1>2. u \in 0..(M - 1) /\ Congruent(M, u, x)
    BY UnsignedIs
  <1>3. signed(w, x) = IF u < H THEN u ELSE u - M
    BY DEF signed
  <1>4. fits_signed(w, signed(w, x)) <=> (-H <= signed(w, x) /\ signed(w, x) < H)
    BY DEF fits_signed
  <1> HIDE DEF M, H, u
  <1>5. Congruent(M, u - M, u)
    <2>1. -1 \in Int /\ u - M = u + (-1) * M
      BY <1>1, <1>2
    <2> QED BY <2>1 DEF Congruent
  <1>6. Congruent(M, u - M, x)
    <2>1. M \in Nat /\ u \in Int /\ u - M \in Int
      BY <1>1, <1>2
    <2> QED BY <1>2, <1>5, <2>1, CongruentTransitive
  <1>7. signed(w, x) \in Int /\ -H <= signed(w, x) /\ signed(w, x) < H
    BY <1>1, <1>2, <1>3
  <1> QED BY <1>2, <1>3, <1>4, <1>6, <1>7 DEF M

\* It is the number of w bits it is congruent to.
LEMMA UnsignedOf ==
    ASSUME NEW w \in Widths, NEW x \in 0..(Range_of(w) - 1), NEW y \in Int, Congruent(Range_of(w), y, x)
    PROVE  unsigned(w, y) = x
  <1> DEFINE M == Range_of(w)
             u == unsigned(w, y)
  <1>1. M \in Nat \ {0}
    BY WidthsAre
  <1>2. u \in 0..(M - 1) /\ Congruent(M, u, y)
    BY UnsignedIs
  <1>3. x \in 0..(M - 1) /\ Congruent(M, y, x)
    OBVIOUS
  <1> HIDE DEF M, u
  <1>4. M \in Nat /\ u \in Int /\ x \in Int
    BY <1>1, <1>2, <1>3
  <1>5. Congruent(M, u, x)
    BY <1>2, <1>3, <1>4, CongruentTransitive
  <1>6. u - x < M /\ x - u < M
    BY <1>1, <1>2, <1>3
  <1>7. u = x
    BY <1>4, <1>5, <1>6, CongruentClose
  <1> QED BY <1>7 DEF u

LEMMA SignedOf ==
    ASSUME NEW w \in Widths, NEW x \in Int, fits_signed(w, x), NEW y \in Int, Congruent(Range_of(w), y, x)
    PROVE  signed(w, y) = x
  <1> DEFINE M == Range_of(w)
             H == Half_of(w)
             u == signed(w, y)
  <1>1. M \in Nat \ {0} /\ H \in Nat /\ M = 2 * H
    BY WidthsAre
  <1>2. u \in Int /\ -H <= u /\ u < H /\ Congruent(M, u, y)
    <2>1. u \in Int /\ fits_signed(w, u) /\ Congruent(M, u, y)
      BY SignedIs
    <2> QED BY <2>1 DEF fits_signed
  <1>3. -H <= x /\ x < H /\ Congruent(M, y, x)
    BY DEF fits_signed
  <1> HIDE DEF M, u, H
  <1>4. M \in Nat
    BY <1>1
  <1>5. Congruent(M, u, x)
    BY <1>2, <1>3, <1>4, CongruentTransitive
  <1>6. u - x < M /\ x - u < M
    BY <1>1, <1>2, <1>3
  <1>7. u = x
    BY <1>2, <1>4, <1>5, <1>6, CongruentClose
  <1> QED BY <1>7 DEF u

-----------------------------------------------------------------------------
(* Zig-zag codes                                                           *)

LEMMA ZigZag ==
    ASSUME NEW x \in Int
    PROVE  encode_zig_zag_scalar(x) \in Nat /\ decode_zig_zag_scalar(encode_zig_zag_scalar(x)) = x
  <1>1. CASE x < 0
    <2>1. encode_zig_zag_scalar(x) = -2 * x - 1 /\ -2 * x - 1 \in Nat
      BY <1>1 DEF encode_zig_zag_scalar
    <2>2. (-2 * x - 1) % 2 = 1 /\ ((-2 * x - 1) + 1) \div 2 = -x
      BY <1>1
    <2> QED BY <2>1, <2>2 DEF decode_zig_zag_scalar
  <1>2. CASE x >= 0
    <2>1. encode_zig_zag_scalar(x) = 2 * x /\ 2 * x \in Nat
      BY <1>2 DEF encode_zig_zag_scalar
    <2>2. (2 * x) % 2 = 0 /\ (2 * x) \div 2 = x
      BY <1>2
    <2> QED BY <2>1, <2>2 DEF decode_zig_zag_scalar
  <1> QED BY <1>1, <1>2

LEMMA ZigZagFits ==
    ASSUME NEW w \in Widths, NEW x \in Int, fits_signed(w, x)
    PROVE  encode_zig_zag_scalar(x) \in 0..(Range_of(w) - 1)
  <1>1. Half_of(w) \in Nat /\ Range_of(w) = 2 * Half_of(w) /\ -Half_of(w) <= x /\ x < Half_of(w)
    BY WidthsAre DEF fits_signed
  <1> QED BY <1>1 DEF encode_zig_zag_scalar

LEMMA ZigZagAll ==
    ASSUME NEW x \in Seq(Int)
    PROVE  /\ encode_zig_zag(x) \in Seq(Nat) /\ Len(encode_zig_zag(x)) = Len(x)
           /\ decode_zig_zag(encode_zig_zag(x)) = x
  <1> DEFINE e == encode_zig_zag(x)
  <1>1. e = [i \in 1..Len(x) |-> encode_zig_zag_scalar(x[i])] /\ Len(x) \in Nat
    BY DEF encode_zig_zag
  <1>2. \A i \in 1..Len(x) : x[i] \in Int
    OBVIOUS
  <1>3. e \in Seq(Nat) /\ Len(e) = Len(x) /\ \A i \in 1..Len(x) : e[i] = encode_zig_zag_scalar(x[i])
    <2>1. \A i \in 1..Len(x) : encode_zig_zag_scalar(x[i]) \in Nat
      BY <1>2, ZigZag
    <2> QED BY <1>1, <2>1
  <1> HIDE DEF e
  <1>4. decode_zig_zag(e) = [i \in 1..Len(x) |-> decode_zig_zag_scalar(e[i])]
    BY <1>3 DEF decode_zig_zag
  <1>5. \A i \in 1..Len(x) : decode_zig_zag_scalar(e[i]) = x[i]
    BY <1>2, <1>3, ZigZag
  <1>6. decode_zig_zag(e) = [i \in 1..Len(x) |-> x[i]]
    BY <1>4, <1>5
  <1>7. x = [i \in 1..Len(x) |-> x[i]]
    OBVIOUS
  <1> QED BY <1>3, <1>6, <1>7 DEF e

-----------------------------------------------------------------------------
(* Deltas and their sums                                                   *)

LEMMA DeltasAre ==
    ASSUME NEW x \in Seq(Int), NEW b \in Int
    PROVE  /\ Deltas(x, b) \in Seq(Int) /\ Len(Deltas(x, b)) = Len(x)
           /\ \A i \in 1..Len(x) : Deltas(x, b)[i] = x[i] - (IF i = 1 THEN b ELSE x[i - 1])
  <1> DEFINE Before(i) == IF i = 1 THEN b ELSE x[i - 1]
  <1>1. Len(x) \in Nat /\ DOMAIN x = 1..Len(x) /\ \A i \in 1..Len(x) : x[i] \in Int
    OBVIOUS
  <1>2. \A i \in 1..Len(x) : Before(i) \in Int
    <2>1. ASSUME NEW i \in 1..Len(x), i # 1 PROVE i - 1 \in 1..Len(x)
      BY <1>1, <2>1
    <2> QED BY <1>1, <2>1
  <1>3. Deltas(x, b) = [i \in 1..Len(x) |-> x[i] - Before(i)]
    BY <1>1 DEF Deltas
  <1> HIDE DEF Before
  <1>4. \A i \in 1..Len(x) : x[i] - Before(i) \in Int
    BY <1>1, <1>2
  <1> QED BY <1>1, <1>3, <1>4 DEF Before

\* d has the deltas of x, but for multiples of M.
DeltasOf(d, M, x, b) ==
    /\ d \in Seq(Int) /\ Len(d) = Len(x)
    /\ \A i \in 1..Len(x) : Congruent(M, d[i], x[i] - (IF i = 1 THEN b ELSE x[i - 1]))

\* The sums of deltas: they are off by what the initial value is off.
LEMMA SumsAre ==
    ASSUME NEW M \in Nat, NEW x \in Seq(Int), NEW b \in Int, NEW c \in Int, NEW d, DeltasOf(d, M, x, b)
    PROVE  /\ DOMAIN Sums(d, c) = 1..Len(x)
           /\ \A i \in 1..Len(x) : Sums(d, c)[i] \in Int /\ Congruent(M, Sums(d, c)[i], x[i] + (c - b))
  <1> DEFINE N == Len(x)
             Before(i) == IF i = 1 THEN b ELSE x[i - 1]
             f == LoopStates(Add, c, d)
             kept == {p \in (0..N) \X Int : Congruent(M, p[2], (IF p[1] = 0 THEN b ELSE x[p[1]]) + (c - b))}
  <1>1. /\ N \in Nat /\ d \in Seq(Int) /\ Len(d) = N /\ DOMAIN d = 1..N
        /\ \A i \in 1..N : x[i] \in Int /\ d[i] \in Int /\ Congruent(M, d[i], x[i] - Before(i))
    BY DEF DeltasOf
  <1>2. Add \in [Int \X Int -> Int] /\ \A s \in Int, n \in Int : Add[<<s, n>>] = s + n
    BY DEF Add
  <1>3. <<0, c>> \in kept
    <2>1. b + (c - b) = c
      OBVIOUS
    <2>2. Congruent(M, c, c)
      BY CongruentSame
    <2>3. 0 \in 0..N
      BY <1>1
    <2> QED BY <2>1, <2>2, <2>3
  <1>4. ASSUME NEW n \in 1..N, NEW s \in Int, <<n - 1, s>> \in kept
        PROVE  <<n, Add[<<s, d[n]>>]>> \in kept
    <2>1. n - 1 \in 0..N /\ n \in 0..N /\ n # 0 /\ (n - 1 = 0 <=> n = 1)
      BY <1>1
    <2>2. Congruent(M, s, Before(n) + (c - b))
      BY <1>4, <2>1
    <2>3. Before(n) \in Int
      BY <1>1, <2>1
    <2> DEFINE y == Before(n)
    <2>4. Congruent(M, d[n], x[n] - y) /\ y \in Int /\ Congruent(M, s, y + (c - b))
      BY <1>1, <2>2, <2>3
    <2> HIDE DEF y
    <2>5. Congruent(M, s + d[n], (y + (c - b)) + (x[n] - y))
      <3> DEFINE u == y + (c - b)
                 v == x[n] - y
      <3>1. u \in Int /\ v \in Int /\ d[n] \in Int /\ Congruent(M, s, u) /\ Congruent(M, d[n], v)
        BY <1>1, <2>4
      <3> HIDE DEF u, v
      <3>2. Congruent(M, s + d[n], u + v)
        BY <3>1, CongruentSums
      <3> QED BY <3>2 DEF u, v
    <2>6. (y + (c - b)) + (x[n] - y) = x[n] + (c - b)
      BY <1>1, <2>4
    <2>7. Add[<<s, d[n]>>] = s + d[n] /\ s + d[n] \in Int
      BY <1>1, <1>2
    <2>8. Congruent(M, s + d[n], x[n] + (c - b))
      BY <2>5, <2>6
    <2> QED BY <2>1, <2>7, <2>8
  <1> HIDE DEF kept, f, N
  <1>5. \A n \in 0..Len(d) : <<n, f[n]>> \in kept
    <2>1. \A n \in 1..Len(d), s \in Int : <<n - 1, s>> \in kept => <<n, Add[<<s, d[n]>>]>> \in kept
      BY <1>1, <1>4
    <2> QED BY <1>1, <1>2, <1>3, <2>1, LoopInvariant DEF f
  <1>6. Sums(d, c) = [i \in 1..N |-> f[i]]
    BY <1>1 DEF Sums, f
  <1>7. ASSUME NEW i \in 1..N PROVE f[i] \in Int /\ Congruent(M, f[i], x[i] + (c - b))
    <2>1. i \in 0..Len(d) /\ i # 0
      BY <1>1
    <2>2. <<i, f[i]>> \in kept
      BY <1>5, <2>1
    <2> QED BY <2>1, <2>2 DEF kept
  <1> QED BY <1>6, <1>7 DEF N

\* Wrapped sums are the elements, if they fit: the three ways a decoder ends.
LEMMA SumsSigned ==
    ASSUME NEW w \in Widths, NEW x \in Seq(Int), EveryFits(w, x), NEW b \in Int, NEW d,
           DeltasOf(d, Range_of(w), x, b)
    PROVE  signed_all(w, Sums(d, b)) = x
  <1> DEFINE y == Sums(d, b)
  <1>1. DOMAIN y = 1..Len(x)
        /\ \A i \in 1..Len(x) : y[i] \in Int /\ Congruent(Range_of(w), y[i], x[i] + (b - b))
    BY WidthsAre, SumsAre
  <1> HIDE DEF y
  <1>2. ASSUME NEW i \in 1..Len(x) PROVE signed(w, y[i]) = x[i]
    <2>1. x[i] \in Int /\ x[i] + (b - b) = x[i] /\ fits_signed(w, x[i])
      BY DEF EveryFits
    <2> QED BY <1>1, <2>1, SignedOf
  <1>3. signed_all(w, y) = [i \in 1..Len(x) |-> x[i]]
    BY <1>1, <1>2 DEF signed_all
  <1> QED BY <1>3 DEF y

LEMMA SumsUnsigned ==
    ASSUME NEW w \in Widths, NEW x \in Seq(0..(Range_of(w) - 1)), NEW b \in Int, NEW d,
           DeltasOf(d, Range_of(w), x, b)
    PROVE  unsigned_all(w, Sums(d, b)) = x
  <1> DEFINE y == Sums(d, b)
  <1>0. x \in Seq(Int) /\ Range_of(w) \in Nat
    BY WidthsAre
  <1>1. DOMAIN y = 1..Len(x)
        /\ \A i \in 1..Len(x) : y[i] \in Int /\ Congruent(Range_of(w), y[i], x[i] + (b - b))
    BY <1>0, SumsAre
  <1> HIDE DEF y
  <1>2. ASSUME NEW i \in 1..Len(x) PROVE unsigned(w, y[i]) = x[i]
    <2>0. x[i] \in 0..(Range_of(w) - 1) /\ x[i] \in Int
      BY <1>0
    <2>1. x[i] \in 0..(Range_of(w) - 1) /\ x[i] + (b - b) = x[i]
      BY <2>0
    <2> QED BY <1>1, <2>1, UnsignedOf
  <1>3. unsigned_all(w, y) = [i \in 1..Len(x) |-> x[i]]
    BY <1>1, <1>2 DEF unsigned_all
  <1> QED BY <1>0, <1>3 DEF y

LEMMA SumsExact ==
    ASSUME NEW x \in Seq(Int), NEW b \in Int
    PROVE  Sums(Deltas(x, b), b) = x
  <1> DEFINE d == Deltas(x, b)
             y == Sums(d, b)
  <1>1. DeltasOf(d, 0, x, b)
    <2>1. /\ d \in Seq(Int) /\ Len(d) = Len(x)
          /\ \A i \in 1..Len(x) : d[i] = x[i] - (IF i = 1 THEN b ELSE x[i - 1])
      BY DeltasAre
    <2>2. \A i \in 1..Len(x) : d[i] \in Int
      BY <2>1
    <2> HIDE DEF d
    <2>3. \A i \in 1..Len(x) : Congruent(0, d[i], d[i])
      BY <2>2, CongruentSame
    <2> QED BY <2>1, <2>3 DEF DeltasOf
  <1> HIDE DEF d
  <1>2. DOMAIN y = 1..Len(x)
        /\ \A i \in 1..Len(x) : y[i] \in Int /\ Congruent(0, y[i], x[i] + (b - b))
    BY <1>1, SumsAre
  <1>3. y = [i \in DOMAIN d |-> LoopStates(Add, b, d)[i]]
    BY DEF Sums
  <1> HIDE DEF y
  <1>4. ASSUME NEW i \in 1..Len(x) PROVE y[i] = x[i]
    <2>1. PICK k \in Int : y[i] = (x[i] + (b - b)) + k * 0
      BY <1>2 DEF Congruent
    <2>2. x[i] \in Int /\ k * 0 = 0
      OBVIOUS
    <2> QED BY <2>1, <2>2
  <1>5. y = [i \in 1..Len(x) |-> x[i]]
    <2>1. y = [i \in 1..Len(x) |-> y[i]]
      BY <1>2, <1>3
    <2> QED BY <1>4, <2>1
  <1> QED BY <1>5 DEF y, d

\* What encoders make of deltas has the deltas, but for multiples of the range.
LEMMA SignedDeltas ==
    ASSUME NEW w \in Widths, NEW x \in Seq(Int), NEW b \in Int
    PROVE  DeltasOf(signed_all(w, Deltas(x, b)), Range_of(w), x, b)
  <1> DEFINE d == Deltas(x, b)
             s == signed_all(w, d)
  <1>1. /\ d \in Seq(Int) /\ Len(d) = Len(x)
        /\ \A i \in 1..Len(x) : d[i] = x[i] - (IF i = 1 THEN b ELSE x[i - 1])
    BY DeltasAre
  <1> HIDE DEF d
  <1>2. s = [i \in 1..Len(x) |-> signed(w, d[i])]
    BY <1>1 DEF signed_all
  <1>3. \A i \in 1..Len(x) : signed(w, d[i]) \in Int /\ Congruent(Range_of(w), signed(w, d[i]), d[i])
    <2>1. \A i \in 1..Len(x) : d[i] \in Int
      BY <1>1
    <2> QED BY <2>1, SignedIs
  <1>4. s \in Seq(Int) /\ Len(s) = Len(x)
    BY <1>2, <1>3
  <1>5. \A i \in 1..Len(x) : Congruent(Range_of(w), s[i], x[i] - (IF i = 1 THEN b ELSE x[i - 1]))
    BY <1>1, <1>2, <1>3
  <1> QED BY <1>4, <1>5 DEF DeltasOf, d

LEMMA UnsignedDeltas ==
    ASSUME NEW w \in Widths, NEW x \in Seq(Int), NEW b \in Int
    PROVE  DeltasOf(unsigned_all(w, Deltas(x, b)), Range_of(w), x, b)
  <1> DEFINE d == Deltas(x, b)
             s == unsigned_all(w, d)
  <1>1. /\ d \in Seq(Int) /\ Len(d) = Len(x)
        /\ \A i \in 1..Len(x) : d[i] = x[i] - (IF i = 1 THEN b ELSE x[i - 1])
    BY DeltasAre
  <1> HIDE DEF d
  <1>2. s = [i \in 1..Len(x) |-> unsigned(w, d[i])]
    BY <1>1 DEF unsigned_all
  <1>3. \A i \in 1..Len(x) : unsigned(w, d[i]) \in Int /\ Congruent(Range_of(w), unsigned(w, d[i]), d[i])
    <2>1. \A i \in 1..Len(x) : d[i] \in Int
      BY <1>1
    <2>2. \A i \in 1..Len(x) : /\ unsigned(w, d[i]) \in 0..(Range_of(w) - 1)
                               /\ Congruent(Range_of(w), unsigned(w, d[i]), d[i])
      BY <2>1, UnsignedIs
    <2> QED BY <2>2, WidthsAre
  <1>4. s \in Seq(Int) /\ Len(s) = Len(x)
    BY <1>2, <1>3
  <1>5. \A i \in 1..Len(x) : Congruent(Range_of(w), s[i], x[i] - (IF i = 1 THEN b ELSE x[i - 1]))
    BY <1>1, <1>2, <1>3
  <1> QED BY <1>4, <1>5 DEF DeltasOf, d

\* Wrapping a sequence of numbers that fit changes nothing.
LEMMA SignedAllIs ==
    ASSUME NEW w \in Widths, NEW x \in Seq(Int)
    PROVE  /\ signed_all(w, x) \in Seq(Int) /\ Len(signed_all(w, x)) = Len(x)
           /\ EveryFits(w, x) => signed_all(w, x) = x
  <1>1. signed_all(w, x) = [i \in 1..Len(x) |-> signed(w, x[i])] /\ Len(x) \in Nat
    BY DEF signed_all
  <1>2. \A i \in 1..Len(x) : x[i] \in Int /\ signed(w, x[i]) \in Int
    BY SignedIs
  <1>3. ASSUME EveryFits(w, x), NEW i \in 1..Len(x) PROVE signed(w, x[i]) = x[i]
    <2>1. fits_signed(w, x[i])
      BY <1>3 DEF EveryFits
    <2>2. Congruent(Range_of(w), x[i], x[i])
      BY <1>2, WidthsAre, CongruentSame
    <2> QED BY <1>2, <2>1, <2>2, SignedOf
  <1>4. x = [i \in 1..Len(x) |-> x[i]]
    OBVIOUS
  <1>5. EveryFits(w, x) => signed_all(w, x) = x
    BY <1>1, <1>3, <1>4
  <1> QED BY <1>1, <1>2, <1>5

\* Zig-zag coded, wrapped deltas: what two of three encoders write.
LEMMA ZigZagDeltas ==
    ASSUME NEW w \in Widths, NEW x \in Seq(Int), NEW b \in Int
    PROVE  DeltasOf(decode_zig_zag(encode_zig_zag(signed_all(w, Deltas(x, b)))), Range_of(w), x, b)
  <1>1. signed_all(w, Deltas(x, b)) \in Seq(Int)
    BY SignedDeltas DEF DeltasOf
  <1> QED BY <1>1, ZigZagAll, SignedDeltas

LEMMA ZigZagSigned ==
    ASSUME NEW w \in Widths, NEW x \in Seq(Int), NEW b \in Int, EveryFits(w, x)
    PROVE  signed_all(w, Sums(decode_zig_zag(encode_zig_zag(signed_all(w, Deltas(x, b)))), b)) = x
  BY ZigZagDeltas, SumsSigned

LEMMA ZigZagUnsigned ==
    ASSUME NEW w \in Widths, NEW x \in Seq(0..(Range_of(w) - 1)), NEW b \in Int
    PROVE  unsigned_all(w, Sums(decode_zig_zag(encode_zig_zag(signed_all(w, Deltas(x, b)))), b)) = x
  <1>1. x \in Seq(Int)
    BY WidthsAre
  <1> QED BY <1>1, ZigZagDeltas, SumsUnsigned

\* The coders that refuse deltas that do not fit.
LEMMA ZigZagExact ==
    ASSUME NEW x \in Seq(Int), NEW b \in Int
    PROVE  Sums(decode_zig_zag(encode_zig_zag(Deltas(x, b))), b) = x
  <1>1. Deltas(x, b) \in Seq(Int)
    BY DeltasAre
  <1> QED BY <1>1, ZigZagAll, SumsExact

LEMMA UnsignedAllSame ==
    ASSUME NEW w \in Widths, NEW x \in Seq(0..(Range_of(w) - 1))
    PROVE  unsigned_all(w, x) = x
  <1>1. unsigned_all(w, x) = [i \in 1..Len(x) |-> unsigned(w, x[i])]
    BY DEF unsigned_all
  <1>2. ASSUME NEW i \in 1..Len(x) PROVE unsigned(w, x[i]) = x[i]
    <2>1. x[i] \in 0..(Range_of(w) - 1) /\ x[i] \in Int
      BY WidthsAre
    <2>2. Congruent(Range_of(w), x[i], x[i])
      BY <2>1, WidthsAre, CongruentSame
    <2> QED BY <2>1, <2>2, UnsignedOf
  <1>3. x = [i \in 1..Len(x) |-> x[i]]
    OBVIOUS
  <1> QED BY <1>1, <1>2, <1>3

-----------------------------------------------------------------------------
(* Chunked deltas                                                          *)

LEMMA ChunkBaseIs ==
    ASSUME NEW chunk \in Nat \ {0}, NEW i \in Nat \ {0}
    PROVE  ChunkBase(chunk, i) \in 0..(i - 1) /\ ((i - 1) % chunk = 0 <=> ChunkBase(chunk, i) = i - 1)
  <1> DEFINE q == (i - 1) \div chunk
             r == (i - 1) % chunk
  <1>1. i - 1 \in Nat /\ q \in Int /\ r \in 0..(chunk - 1) /\ i - 1 = q * chunk + r
    OBVIOUS
  <1>2. q >= 0
    <2>1. q < 0 => q * chunk + chunk <= 0 * chunk
      BY <1>1, Apart
    <2> HIDE DEF q, r
    <2>2. q < 0 => q * chunk + chunk <= 0
      BY <2>1
    <2>3. q * chunk \in Int
      BY <1>1
    <2> QED BY <1>1, <2>2, <2>3
  <1>3. ChunkBase(chunk, i) = q * chunk
    BY DEF ChunkBase
  <1> HIDE DEF q, r
  <1>4. q * chunk \in Nat
    BY <1>1, <1>2
  <1> QED BY <1>1, <1>3, <1>4 DEF r

\* The element a chunked difference is taken to, for the elements of x.
BaseOf(chunk, x, b, i) == IF ChunkBase(chunk, i) < 1 THEN b ELSE x[ChunkBase(chunk, i)]

LEMMA ChunkedAre ==
    ASSUME NEW w \in Widths, NEW chunk \in Nat \ {0}, NEW x \in Seq(Int), NEW b \in Int
    PROVE  /\ signed_all(w, Chunked(chunk, x, b)) \in Seq(Int)
           /\ Len(signed_all(w, Chunked(chunk, x, b))) = Len(x)
           /\ \A i \in 1..Len(x) :
                /\ BaseOf(chunk, x, b, i) \in Int
                /\ Congruent(Range_of(w), signed_all(w, Chunked(chunk, x, b))[i],
                             x[i] - BaseOf(chunk, x, b, i))
  <1> DEFINE c == Chunked(chunk, x, b)
             s == signed_all(w, c)
  <1>1. Len(x) \in Nat /\ DOMAIN x = 1..Len(x) /\ \A i \in 1..Len(x) : x[i] \in Int
    OBVIOUS
  <1>2. ASSUME NEW i \in 1..Len(x) PROVE BaseOf(chunk, x, b, i) \in Int
    <2>1. ChunkBase(chunk, i) \in 0..(i - 1)
      BY <1>1, ChunkBaseIs
    <2>2. ChunkBase(chunk, i) < 1 \/ ChunkBase(chunk, i) \in 1..Len(x)
      BY <1>1, <2>1
    <2> QED BY <1>1, <2>2 DEF BaseOf
  <1>3. c = [i \in 1..Len(x) |-> x[i] - BaseOf(chunk, x, b, i)]
    BY <1>1 DEF Chunked, BaseOf
  <1>4. \A i \in 1..Len(x) : c[i] = x[i] - BaseOf(chunk, x, b, i) /\ c[i] \in Int
    BY <1>1, <1>2, <1>3
  <1>5. DOMAIN c = 1..Len(x)
    BY <1>3
  <1> HIDE DEF c
  <1>6. s = [i \in 1..Len(x) |-> signed(w, c[i])]
    BY <1>5 DEF signed_all
  <1>7. \A i \in 1..Len(x) : signed(w, c[i]) \in Int /\ Congruent(Range_of(w), signed(w, c[i]), c[i])
    BY <1>4, SignedIs
  <1> HIDE DEF s
  <1>8. s \in Seq(Int) /\ Len(s) = Len(x)
    BY <1>1, <1>6, <1>7
  <1>9. \A i \in 1..Len(x) : Congruent(Range_of(w), s[i], x[i] - BaseOf(chunk, x, b, i))
    BY <1>4, <1>6, <1>7
  <1> QED BY <1>2, <1>8, <1>9 DEF s, c

\* The place a decoder adds to.
AddedTo(chunk, build, i) == IF build = "sse2" THEN ChunkBase(chunk, i) ELSE i - 1

\* Each element of out is its delta and the element it adds to.
Undone(out, w, chunk, build, d, b) ==
    /\ out \in [1..Len(d) -> Int]
    /\ \A i \in 1..Len(d) :
         /\ AddedTo(chunk, build, i) \in 0..(i - 1)
         /\ out[i] = signed(w, d[i] + (IF AddedTo(chunk, build, i) = 0 THEN b
                                       ELSE out[AddedTo(chunk, build, i)]))

\* That is what a chunked decoder writes.
LEMMA UnchunkedIs ==
    ASSUME NEW w \in Widths, NEW chunk \in Nat \ {0}, NEW build, NEW d \in Seq(Int), NEW b \in Int
    PROVE  Undone(Unchunked(w, chunk, build, encode_zig_zag(d), b), w, chunk, build, d, b)
  <1> DEFINE codes == encode_zig_zag(d)
             N == Len(d)
             S == [1..N -> Int]
             to(i) == AddedTo(chunk, build, i)
             Value(out, i) == signed(w, d[i] + (IF to(i) = 0 THEN b ELSE out[to(i)]))
             body == [p \in S \X (1..N) |-> [p[1] EXCEPT ![p[2]] = Value(p[1], p[2])]]
             start == [i \in 1..N |-> 0]
             places == [i \in 1..N |-> i]
             kept == {p \in (0..N) \X S : \A i \in 1..p[1] : p[2][i] = Value(p[2], i)}
  <1>1. codes \in Seq(Nat) /\ Len(codes) = N /\ decode_zig_zag(codes) = d
    BY ZigZagAll
  <1>2. N \in Nat /\ \A i \in 1..N : d[i] \in Int
    OBVIOUS
  <1> HIDE DEF codes
  <1>3. DOMAIN codes = 1..N
    BY <1>1
  <1>4. ASSUME NEW i \in 1..N PROVE to(i) \in 0..(i - 1) /\ to(i) \in 0..N
    <2>1. ChunkBase(chunk, i) \in 0..(i - 1)
      BY <1>2, ChunkBaseIs
    <2> QED BY <1>2, <2>1 DEF AddedTo
  <1>5. Unchunked(w, chunk, build, codes, b) = Loop(body, start, places)
    BY <1>1, <1>3 DEF Unchunked, Places, AddedTo
  <1> HIDE DEF to, N
  <1>6. ASSUME NEW out \in S, NEW i \in 1..N PROVE Value(out, i) \in Int
    <2>1. to(i) = 0 \/ to(i) \in 1..N
      BY <1>2, <1>4
    <2>2. d[i] + (IF to(i) = 0 THEN b ELSE out[to(i)]) \in Int
      BY <1>2, <2>1
    <2> QED BY <2>2, SignedIs
  <1>7. ASSUME NEW out \in S, NEW i \in 1..N
        PROVE  /\ body[<<out, i>>] = [out EXCEPT ![i] = Value(out, i)]
               /\ body[<<out, i>>] \in S
    <2>1. body[<<out, i>>] = [out EXCEPT ![i] = Value(out, i)]
      OBVIOUS
    <2> HIDE DEF Value
    <2> QED BY <1>6, <2>1
  <1>8. body \in [S \X (1..N) -> S]
    <2>1. \A p \in S \X (1..N) : p[1] \in S /\ p[2] \in 1..N /\ p = <<p[1], p[2]>>
      OBVIOUS
    <2>2. ASSUME NEW p \in S \X (1..N) PROVE body[p] \in S
      <3>1. p[1] \in S /\ p[2] \in 1..N /\ p = <<p[1], p[2]>>
        BY <2>1
      <3> HIDE DEF body, S, Value
      <3>2. body[<<p[1], p[2]>>] \in S
        BY <1>7, <3>1
      <3> QED BY <3>1, <3>2
    <2>3. body = [p \in S \X (1..N) |-> body[p]]
      OBVIOUS
    <2> HIDE DEF body
    <2> QED BY <2>2, <2>3
  <1> HIDE DEF body
  <1>9. places \in Seq(1..N) /\ Len(places) = N /\ \A i \in 1..N : places[i] = i
    BY <1>2
  <1>10. start \in S
    OBVIOUS
  <1> HIDE DEF places, start
  <1>11. <<0, start>> \in kept
    BY <1>2, <1>10
  <1>12. ASSUME NEW n \in 1..N, NEW out \in S, <<n - 1, out>> \in kept
         PROVE  <<n, body[<<out, n>>]>> \in kept
    <2> DEFINE new == body[<<out, n>>]
    <2>1. new = [out EXCEPT ![n] = Value(out, n)] /\ new \in S
      BY <1>7
    <2> HIDE DEF new
    <2>2. \A i \in 1..(n - 1) : out[i] = Value(out, i)
      BY <1>12
    <2>3. \A i \in 1..N : i # n => new[i] = out[i]
      BY <2>1
    <2>4. ASSUME NEW i \in 1..n PROVE Value(new, i) = Value(out, i)
      <3>1. i \in 1..N /\ to(i) \in 0..(i - 1)
        BY <1>2, <1>4
      <3>2. to(i) = 0 \/ (to(i) \in 1..N /\ to(i) # n)
        BY <1>2, <3>1
      <3>3. to(i) = 0 \/ new[to(i)] = out[to(i)]
        BY <2>3, <3>2
      <3> QED BY <3>3
    <2>5. ASSUME NEW i \in 1..n PROVE new[i] = Value(new, i)
      <3>1. CASE i = n
        <4>1. new[n] = Value(out, n)
          <5> HIDE DEF Value
          <5> QED BY <2>1
        <4> HIDE DEF Value
        <4> QED BY <2>4, <3>1, <4>1
      <3>2. CASE i # n
        <4>1. i \in 1..(n - 1) /\ i \in 1..N
          BY <1>2, <3>2
        <4> HIDE DEF Value
        <4> QED BY <2>2, <2>3, <2>4, <3>2, <4>1
      <3> QED BY <3>1, <3>2
    <2>6. n \in 0..N
      BY <1>2
    <2> HIDE DEF Value
    <2> QED BY <2>1, <2>5, <2>6 DEF new
  <1> HIDE DEF kept, Value, S
  <1>13. <<Len(places), Loop(body, start, places)>> \in kept /\ Loop(body, start, places) \in S
    <2>1. \A n \in 1..Len(places), s \in S :
               <<n - 1, s>> \in kept => <<n, body[<<s, places[n]>>]>> \in kept
      BY <1>9, <1>12
    <2> QED BY <1>8, <1>9, <1>10, <1>11, <2>1, LoopInvariant
  <1> DEFINE result == Loop(body, start, places)
  <1>14. result \in S /\ \A i \in 1..N : result[i] = Value(result, i)
    <2> HIDE DEF result
    <2>1. <<N, result>> \in kept /\ result \in S
      BY <1>9, <1>13 DEF result
    <2> QED BY <2>1 DEF kept
  <1> QED BY <1>4, <1>5, <1>14 DEF Value, S, N, to, codes, Undone

\* The decoder built with SSE2 gives back what the encoder took.
LEMMA ChunkedSse2 ==
    ASSUME NEW w \in Widths, NEW chunk \in Nat \ {0}, NEW x \in Seq(Int), EveryFits(w, x), NEW b \in Int
    PROVE  Unchunked(w, chunk, "sse2", encode_zig_zag(signed_all(w, Chunked(chunk, x, b))), b) = x
  <1> DEFINE d == signed_all(w, Chunked(chunk, x, b))
             N == Len(x)
             out == Unchunked(w, chunk, "sse2", encode_zig_zag(d), b)
             T == {n \in 0..N : \A i \in 1..n : out[i] = x[i]}
  <1>1. /\ d \in Seq(Int) /\ Len(d) = N
        /\ \A i \in 1..N : /\ BaseOf(chunk, x, b, i) \in Int
                           /\ Congruent(Range_of(w), d[i], x[i] - BaseOf(chunk, x, b, i))
    BY ChunkedAre
  <1>2. N \in Nat /\ x = [i \in 1..N |-> x[i]] /\ Range_of(w) \in Nat
        /\ \A i \in 1..N : x[i] \in Int /\ d[i] \in Int /\ fits_signed(w, x[i])
    BY <1>1, WidthsAre DEF EveryFits
  <1> HIDE DEF d, N
  <1>3. /\ out \in [1..N -> Int]
        /\ \A i \in 1..N : /\ ChunkBase(chunk, i) \in 0..(i - 1)
                           /\ out[i] = signed(w, d[i] + (IF ChunkBase(chunk, i) = 0 THEN b
                                                         ELSE out[ChunkBase(chunk, i)]))
    <2>1. /\ out \in [1..Len(d) -> Int]
          /\ \A i \in 1..Len(d) :
               /\ AddedTo(chunk, "sse2", i) \in 0..(i - 1)
               /\ out[i] = signed(w, d[i] + (IF AddedTo(chunk, "sse2", i) = 0 THEN b
                                             ELSE out[AddedTo(chunk, "sse2", i)]))
      <3>1. Undone(out, w, chunk, "sse2", d, b)
        BY <1>1, UnchunkedIs
      <3> HIDE DEF out
      <3> QED BY <3>1 DEF Undone
    <2>2. \A i : AddedTo(chunk, "sse2", i) = ChunkBase(chunk, i)
      BY DEF AddedTo
    <2> HIDE DEF out
    <2> QED BY <1>1, <2>1, <2>2
  <1> HIDE DEF out
  <1>4. 0 \in T
    BY <1>2
  <1>5. ASSUME NEW n \in 1..N, n - 1 \in T PROVE n \in T
    <2>1. \A i \in 1..(n - 1) : out[i] = x[i]
      BY <1>5
    <2> DEFINE c == BaseOf(chunk, x, b, n)
    <2>2. (IF ChunkBase(chunk, n) = 0 THEN b ELSE out[ChunkBase(chunk, n)]) = c
      <3>1. ChunkBase(chunk, n) \in 0..(n - 1)
        BY <1>3
      <3>2. ChunkBase(chunk, n) < 1 <=> ChunkBase(chunk, n) = 0
        BY <3>1
      <3>3. ChunkBase(chunk, n) # 0 => ChunkBase(chunk, n) \in 1..(n - 1)
        BY <1>2, <3>1
      <3> QED BY <2>1, <3>2, <3>3 DEF BaseOf
    <2>3. c \in Int /\ Congruent(Range_of(w), d[n], x[n] - c)
      BY <1>1
    <2>4. out[n] = signed(w, d[n] + c)
      BY <1>3, <2>2
    <2> HIDE DEF c
    <2>5. Congruent(Range_of(w), d[n] + c, x[n])
      <3>1. Congruent(Range_of(w), c, c)
        BY <1>2, <2>3, CongruentSame
      <3>2. Congruent(Range_of(w), d[n] + c, (x[n] - c) + c)
        <4> DEFINE y == x[n] - c
        <4>1. y \in Int /\ d[n] \in Int /\ Congruent(Range_of(w), d[n], y)
          BY <1>2, <2>3
        <4> HIDE DEF y
        <4>2. Congruent(Range_of(w), d[n] + c, y + c)
          BY <1>2, <2>3, <3>1, <4>1, CongruentSums
        <4> QED BY <4>2 DEF y
      <3>3. (x[n] - c) + c = x[n]
        BY <1>2, <2>3
      <3> QED BY <3>2, <3>3
    <2>6. out[n] = x[n]
      <3>1. d[n] + c \in Int /\ x[n] \in Int /\ fits_signed(w, x[n])
        BY <1>2, <2>3
      <3> QED BY <2>4, <2>5, <3>1, SignedOf
    <2>7. n \in 0..N /\ \A i \in 1..n : i = n \/ i \in 1..(n - 1)
      BY <1>2
    <2>8. \A i \in 1..n : out[i] = x[i]
      BY <2>1, <2>6, <2>7
    <2> QED BY <2>7, <2>8
  <1> HIDE DEF T
  <1>6. 0..N \subseteq T
    BY <1>2, <1>4, <1>5, BoundedInduction
  <1>7. N \in 0..N
    BY <1>2
  <1>8. \A i \in 1..N : out[i] = x[i]
    BY <1>6, <1>7 DEF T
  <1>9. out = [i \in 1..N |-> x[i]]
    BY <1>3, <1>8
  <1> QED BY <1>2, <1>9 DEF out, d, N

\* Each element but the first one of a chunk repeats the one before the chunk.
FlatIn(chunk, x, b) ==
    \A i \in 1..Len(x) : (i - 1) % chunk # 0 => x[i - 1] = BaseOf(chunk, x, b, i)

\* The decoder built without it only what is flat.
LEMMA ChunkedScalar ==
    ASSUME NEW w \in Widths, NEW chunk \in Nat \ {0}, NEW x \in Seq(Int), EveryFits(w, x), NEW b \in Int,
           fits_signed(w, b)
    PROVE  Unchunked(w, chunk, "scalar", encode_zig_zag(signed_all(w, Chunked(chunk, x, b))), b) = x
           <=> FlatIn(chunk, x, b)
  <1> DEFINE d == signed_all(w, Chunked(chunk, x, b))
             N == Len(x)
             out == Unchunked(w, chunk, "scalar", encode_zig_zag(d), b)
             Base(i) == BaseOf(chunk, x, b, i)
             Before(s, i) == IF i - 1 = 0 THEN b ELSE s[i - 1]
  <1>1. /\ d \in Seq(Int) /\ Len(d) = N
        /\ \A i \in 1..N : /\ BaseOf(chunk, x, b, i) \in Int
                           /\ Congruent(Range_of(w), d[i], x[i] - BaseOf(chunk, x, b, i))
    BY ChunkedAre
  <1>2. N \in Nat /\ x = [i \in 1..N |-> x[i]] /\ Range_of(w) \in Nat
        /\ \A i \in 1..N : x[i] \in Int /\ d[i] \in Int /\ fits_signed(w, x[i])
    BY <1>1, WidthsAre DEF EveryFits
  <1> HIDE DEF d, N
  <1>3. /\ out \in [1..N -> Int]
        /\ \A i \in 1..N : out[i] = signed(w, d[i] + Before(out, i))
    <2>1. /\ out \in [1..Len(d) -> Int]
          /\ \A i \in 1..Len(d) :
               /\ AddedTo(chunk, "scalar", i) \in 0..(i - 1)
               /\ out[i] = signed(w, d[i] + (IF AddedTo(chunk, "scalar", i) = 0 THEN b
                                             ELSE out[AddedTo(chunk, "scalar", i)]))
      <3>1. Undone(out, w, chunk, "scalar", d, b)
        BY <1>1, UnchunkedIs
      <3> HIDE DEF out
      <3> QED BY <3>1 DEF Undone
    <2>2. \A i : AddedTo(chunk, "scalar", i) = i - 1
      BY DEF AddedTo
    <2> HIDE DEF out
    <2> QED BY <1>1, <2>1, <2>2
  <1> HIDE DEF out
  <1>4. ASSUME NEW i \in 1..N
        PROVE  /\ Base(i) \in Int /\ fits_signed(w, Base(i))
               /\ Before(x, i) \in Int /\ fits_signed(w, Before(x, i))
    <2>1. ChunkBase(chunk, i) \in 0..(i - 1)
      BY <1>2, ChunkBaseIs
    <2>2. ChunkBase(chunk, i) < 1 \/ ChunkBase(chunk, i) \in 1..N
      BY <1>2, <2>1
    <2>3. i - 1 = 0 \/ i - 1 \in 1..N
      BY <1>2
    <2> QED BY <1>1, <1>2, <2>2, <2>3 DEF BaseOf
  <1>5. FlatIn(chunk, x, b) <=> \A i \in 1..N : Before(x, i) = Base(i)
    <2>1. ASSUME NEW i \in 1..N
          PROVE  Before(x, i) = Base(i) <=> ((i - 1) % chunk # 0 => x[i - 1] = Base(i))
      <3>1. ChunkBase(chunk, i) \in 0..(i - 1) /\ ((i - 1) % chunk = 0 <=> ChunkBase(chunk, i) = i - 1)
        BY <1>2, ChunkBaseIs
      <3>2. CASE (i - 1) % chunk = 0
        <4>1. ChunkBase(chunk, i) = i - 1 /\ (i - 1 < 1 <=> i - 1 = 0)
          BY <1>2, <3>1, <3>2
        <4> QED BY <3>2, <4>1 DEF BaseOf
      <3>3. CASE (i - 1) % chunk # 0
        <4>1. i - 1 # 0
          BY <1>2, <3>1, <3>3
        <4> QED BY <3>3, <4>1
      <3> QED BY <3>2, <3>3
    <2> QED BY <2>1 DEF FlatIn, N
  <1> HIDE DEF Base
  \* What is added to the delta gives the element just if it is its base.
  <1>6. ASSUME NEW i \in 1..N, NEW y \in Int, fits_signed(w, y)
        PROVE  signed(w, d[i] + y) = x[i] <=> y = Base(i)
    <2> DEFINE M == Range_of(w)
               u == d[i]
               v == x[i]
               c == Base(i)
    <2>1. /\ M \in Nat /\ u \in Int /\ v \in Int /\ c \in Int /\ fits_signed(w, v) /\ fits_signed(w, c)
          /\ Congruent(M, u, v - c)
      BY <1>1, <1>2, <1>4 DEF Base
    <2> HIDE DEF u, v, c, M
    <2>2. ASSUME y = c PROVE signed(w, u + y) = v
      <3>1. Congruent(M, u + c, (v - c) + c)
        <4> DEFINE z == v - c
        <4>1. z \in Int /\ Congruent(M, u, z) /\ Congruent(M, c, c)
          BY <2>1, CongruentSame
        <4> HIDE DEF z
        <4>2. Congruent(M, u + c, z + c)
          BY <2>1, <4>1, CongruentSums
        <4> QED BY <4>2 DEF z
      <3>2. (v - c) + c = v /\ u + c \in Int
        BY <2>1
      <3>3. signed(w, u + c) = v
        BY <2>1, <3>1, <3>2, SignedOf DEF M
      <3> QED BY <2>2, <3>3
    <2>3. ASSUME signed(w, u + y) = v PROVE y = c
      <3>1. u + y \in Int
        BY <2>1
      <3>2. Congruent(M, v, u + y)
        BY <2>3, <3>1, SignedIs DEF M
      <3>3. PICK k \in Int : v = (u + y) + k * M
        BY <3>2 DEF Congruent
      <3>4. PICK l \in Int : u = (v - c) + l * M
        BY <2>1 DEF Congruent
      <3>5. -(k + l) \in Int /\ (-(k + l)) * M = -(k * M + l * M) /\ k * M \in Int /\ l * M \in Int
        BY <2>1
      <3>6. y = c + (-(k + l)) * M
        BY <2>1, <3>3, <3>4, <3>5
      <3>7. Congruent(M, y, c)
        BY <3>5, <3>6 DEF Congruent
      <3>8. M = 2 * Half_of(w) /\ Half_of(w) \in Nat
        BY WidthsAre DEF M
      <3>9. y - c < M /\ c - y < M
        BY <1>6, <2>1, <3>8 DEF fits_signed
      <3> QED BY <2>1, <3>7, <3>9, CongruentClose
    <2>4. signed(w, u + y) = v <=> y = c
      BY <2>2, <2>3
    <2> QED BY <2>4 DEF u, v, c
  <1>7. ASSUME \A i \in 1..N : Before(x, i) = Base(i) PROVE out = x
    <2> DEFINE T == {n \in 0..N : \A i \in 1..n : out[i] = x[i]}
    <2>1. 0 \in T
      BY <1>2
    <2>2. ASSUME NEW n \in 1..N, n - 1 \in T PROVE n \in T
      <3>1. \A i \in 1..(n - 1) : out[i] = x[i]
        BY <2>2
      <3>2. Before(out, n) = Before(x, n)
        <4>1. n - 1 = 0 \/ n - 1 \in 1..(n - 1)
          BY <1>2
        <4> QED BY <3>1, <4>1
      <3>3. out[n] = signed(w, d[n] + Before(x, n))
        BY <1>3, <3>2
      <3> HIDE DEF Before
      <3>4. out[n] = x[n]
        BY <1>4, <1>6, <1>7, <3>3
      <3>5. n \in 0..N /\ \A i \in 1..n : i = n \/ i \in 1..(n - 1)
        BY <1>2
      <3> QED BY <3>1, <3>4, <3>5
    <2> HIDE DEF T
    <2>3. 0..N \subseteq T
      BY <1>2, <2>1, <2>2, BoundedInduction
    <2>4. N \in 0..N
      BY <1>2
    <2>5. \A i \in 1..N : out[i] = x[i]
      BY <2>3, <2>4 DEF T
    <2>6. out = [i \in 1..N |-> x[i]]
      BY <1>3, <2>5
    <2> QED BY <1>2, <2>6
  <1>8. ASSUME out = x, NEW i \in 1..N PROVE Before(x, i) = Base(i)
    <2>1. x[i] = signed(w, d[i] + Before(x, i))
      BY <1>3, <1>8
    <2> HIDE DEF Before
    <2> QED BY <1>4, <1>6, <2>1
  <1> HIDE DEF Before
  <1>9. out = x <=> FlatIn(chunk, x, b)
    BY <1>5, <1>7, <1>8
  <1> QED BY <1>9 DEF out, d

-----------------------------------------------------------------------------
(* The coders of integers                                                  *)

LEMMA ElementsIn ==
    ASSUME NEW S, NEW T, NEW x \in Seq(S), \A i \in 1..Len(x) : x[i] \in T
    PROVE  x \in Seq(T)
  OBVIOUS

LEMMA SignedInputs ==
    ASSUME NEW x \in Signed
    PROVE  x \in Seq(Int) /\ EveryFits(W64, x)
  <1>1. x \in Seq(-Half_of(W64)..Half_of(W64) - 1) /\ Half_of(W64) \in Nat
    BY InputAssumption, WidthsAre DEF Widths
  <1> DEFINE H == Half_of(W64)
  <1>2. ASSUME NEW i \in 1..Len(x) PROVE x[i] \in Int /\ -H <= x[i] /\ x[i] < H
    BY <1>1
  <1>3. x \in Seq(Int)
    BY <1>1, <1>2
  <1> QED BY <1>2, <1>3 DEF EveryFits, fits_signed

LEMMA UnsignedInputs ==
    ASSUME NEW x \in Unsigned
    PROVE  /\ x \in Seq(Nat) /\ x \in Seq(Int) /\ x \in Seq(0..(Range_of(W64) - 1))
           /\ Len(x) \in 0..(Half_of(W32) - 1)
           /\ (\A i \in DOMAIN x : x[i] < Range_of(W32)) => x \in Seq(0..(Range_of(W32) - 1))
  <1>1. x \in Seq(0..Range_of(W64) - 1) /\ Len(x) < Half_of(W32)
    BY InputAssumption
  <1>2. Range_of(W64) \in Nat /\ Range_of(W32) \in Nat /\ Half_of(W32) \in Nat
    BY WidthsAre DEF Widths
  <1>3. ASSUME NEW i \in 1..Len(x) PROVE x[i] \in Nat
    BY <1>1, <1>2
  <1>4. x \in Seq(Nat) /\ x \in Seq(Int)
    BY <1>1, <1>3
  <1>5. ASSUME \A i \in DOMAIN x : x[i] < Range_of(W32) PROVE x \in Seq(0..(Range_of(W32) - 1))
    <2>1. \A i \in 1..Len(x) : x[i] \in 0..(Range_of(W32) - 1)
      BY <1>2, <1>3, <1>4, <1>5
    <2> QED BY <1>4, <2>1, ElementsIn
  <1> QED BY <1>1, <1>2, <1>4, <1>5

\* The encoder that takes its first difference to the last element.
LEMMA DeltaInt32 ==
    ASSUME NEW x \in Seq(Int), EveryFits(W32, x), NEW b \in Int, fits_signed(W32, b)
    PROVE  signed_all(W32, Sums(unsigned_all(W32, Deltas(x, Last(x))), b)) = x
           <=> (x # <<>> => b = Last(x))
  <1> DEFINE d == unsigned_all(W32, Deltas(x, Last(x)))
             y == Sums(d, b)
             M == Range_of(W32)
  <1>1. CASE x = <<>>
    <2>1. DOMAIN x = {} /\ DOMAIN Deltas(x, Last(x)) = DOMAIN x
      BY <1>1 DEF Deltas
    <2>2. DOMAIN d = {}
      BY <2>1 DEF unsigned_all
    <2> HIDE DEF d
    <2>3. DOMAIN y = {}
      BY <2>2 DEF Sums
    <2> HIDE DEF y
    <2>4. signed_all(W32, y) = [i \in {} |-> signed(W32, y[i])]
      BY <2>3 DEF signed_all
    <2>5. signed_all(W32, y) = x
      BY <1>1, <2>4
    <2> QED BY <1>1, <2>5 DEF y, d
  <1>2. CASE x # <<>>
    <2> DEFINE c == Last(x)
               N == Len(x)
    <2>1. N \in Nat \ {0} /\ c = x[N] /\ N \in 1..N /\ M \in Nat /\ W32 \in Widths
      BY <1>2, WidthsAre DEF Last, Widths
    <2>2. c \in Int /\ fits_signed(W32, c) /\ \A i \in 1..N : x[i] \in Int /\ fits_signed(W32, x[i])
      BY <2>1 DEF EveryFits
    <2> HIDE DEF c
    <2>3. DeltasOf(d, M, x, c)
      BY <2>1, <2>2, UnsignedDeltas DEF c
    <2> HIDE DEF d
    <2>4. DOMAIN y = 1..N /\ \A i \in 1..N : y[i] \in Int /\ Congruent(M, y[i], x[i] + (b - c))
      BY <2>1, <2>2, <2>3, SumsAre
    <2> HIDE DEF y, M
    <2>5. signed_all(W32, y) = [i \in 1..N |-> signed(W32, y[i])]
      BY <2>4 DEF signed_all
    <2>6. x = [i \in 1..N |-> x[i]]
      OBVIOUS
    <2>7. ASSUME b = c PROVE signed_all(W32, y) = x
      <3>1. ASSUME NEW i \in 1..N PROVE signed(W32, y[i]) = x[i]
        <4>1. x[i] + (b - c) = x[i]
          BY <2>2, <2>7
        <4> QED BY <2>1, <2>2, <2>4, <4>1, SignedOf DEF M
      <3> QED BY <2>5, <2>6, <3>1
    <2>8. ASSUME signed_all(W32, y) = x PROVE b = c
      <3>1. signed(W32, y[N]) = x[N] /\ y[N] \in Int /\ x[N] \in Int /\ Congruent(M, y[N], x[N] + (b - c))
        BY <2>1, <2>2, <2>4, <2>5, <2>8
      <3>2. Congruent(M, x[N], y[N])
        BY <2>1, <3>1, SignedIs DEF M
      <3> DEFINE u == y[N]
                 v == x[N]
      <3>3. PICK k \in Int : v = u + k * M
        BY <3>2 DEF Congruent
      <3>4. PICK l \in Int : u = (v + (b - c)) + l * M
        BY <3>1 DEF Congruent
      <3>5. u \in Int /\ v \in Int
        BY <3>1
      <3> HIDE DEF u, v
      <3>6. -(k + l) \in Int /\ (-(k + l)) * M = -(k * M + l * M) /\ k * M \in Int /\ l * M \in Int
        BY <2>1
      <3>7. b = c + (-(k + l)) * M
        <4> DEFINE p == k * M
                   q == l * M
        <4>1. p \in Int /\ q \in Int /\ v = u + p /\ u = (v + (b - c)) + q /\ c \in Int
          BY <2>2, <3>3, <3>4, <3>6
        <4> HIDE DEF p, q
        <4>2. b = c - (p + q)
          BY <3>5, <4>1
        <4> QED BY <2>2, <3>6, <4>1, <4>2 DEF p, q
      <3>8. Congruent(M, b, c)
        BY <3>6, <3>7 DEF Congruent
      <3>9. M = 2 * Half_of(W32) /\ Half_of(W32) \in Nat
        BY <2>1, WidthsAre DEF M
      <3>10. b - c < M /\ c - b < M
        BY <2>2, <3>9 DEF fits_signed
      <3> QED BY <2>1, <2>2, <3>8, <3>10, CongruentClose
    <2>9. signed_all(W32, y) = x <=> b = c
      BY <2>7, <2>8
    <2> QED BY <1>2, <2>9 DEF y, d, c
  <1> QED BY <1>1, <1>2

\* Times: refused just when one goes back; given back when the steps fit.
LEMMA TimeDelta ==
    ASSUME NEW x \in Seq(Int), NEW b \in Int
    PROVE  LET t == encode_time_delta(x, b)
               back == \E i \in DOMAIN x : Deltas(x, b)[i] < 0
               fit == \A i \in DOMAIN x : Deltas(x, b)[i] < Range_of(W32)
           IN  /\ t.ok = ~back
               /\ t = IF back THEN Refused ELSE Coded(unsigned_all(W32, Deltas(x, b)))
               /\ ~back /\ fit => /\ unsigned_all(W32, Deltas(x, b)) = Deltas(x, b)
                                  /\ Deltas(x, b) \in Seq(0..(Range_of(W32) - 1))
                                  /\ Sums(Deltas(x, b), b) = x
  <1> DEFINE d == Deltas(x, b)
             back == \E i \in DOMAIN x : d[i] < 0
             fit == \A i \in DOMAIN x : d[i] < Range_of(W32)
             t == encode_time_delta(x, b)
  <1>1. d \in Seq(Int) /\ Len(d) = Len(x) /\ DOMAIN d = DOMAIN x /\ DOMAIN x = 1..Len(x)
    BY DeltasAre
  <1>2. Sums(d, b) = x
    BY SumsExact
  <1> HIDE DEF d
  <1>3. t = IF back THEN Refused ELSE Coded(unsigned_all(W32, d))
    BY <1>1 DEF encode_time_delta, d
  <1>4. t.ok = ~back
    <2>1. Refused.ok = FALSE /\ \A o : Coded(o).ok = TRUE
      BY DEF Refused, Coded
    <2>2. CASE back
      BY <1>3, <2>1, <2>2
    <2>3. CASE ~back
      BY <1>3, <2>1, <2>3
    <2> QED BY <2>2, <2>3
  <1>5. ASSUME ~back, fit PROVE d \in Seq(0..(Range_of(W32) - 1)) /\ unsigned_all(W32, d) = d
    <2>1. Range_of(W32) \in Nat /\ W32 \in Widths
      BY WidthsAre DEF Widths
    <2>2. ASSUME NEW i \in 1..Len(d) PROVE d[i] \in 0..(Range_of(W32) - 1)
      <3>1. d[i] \in Int /\ i \in DOMAIN x
        BY <1>1
      <3> QED BY <1>5, <2>1, <3>1
    <2>3. d \in Seq(0..(Range_of(W32) - 1))
      BY <1>1, <2>2, ElementsIn
    <2> QED BY <2>1, <2>3, UnsignedAllSame
  <1> QED BY <1>2, <1>3, <1>4, <1>5 DEF d

-----------------------------------------------------------------------------
(* One call of a coder                                                     *)

\* Coders that refuse nothing.
PlainCoders == {"zig_zag", "delta", "delta_int64", "delta_zig_zag_int32", "delta_zig_zag_int64",
                "last_delta_int64", "delta_sorted_u32", "delta_sorted_u64", "delta_zig_zag_uint64",
                "chunked8_int32_sse2", "chunked4_int32_sse2", "chunked4_int64_sse2"}
LEMMA PlainCoder ==
    ASSUME NEW x, NEW b, NEW name \in PlainCoders, Returns(name, x, b, Coded(x))
    PROVE  CodecsAreLossless'
  <1>1. op' = name /\ input' = x /\ answer'.ok = TRUE /\ answer'.out = x
    BY DEF Returns, Coded
  <1>2. IntegersAreLossless'
    BY <1>1 DEF IntegersAreLossless, PlainCoders, Coders, ScalarChunks, Refusal
  <1>3. RunsAreLossless' /\ ColumnsAreLossless'
    BY <1>1 DEF RunsAreLossless, ColumnsAreLossless, PlainCoders
  <1> QED BY <1>2, <1>3 DEF CodecsAreLossless

\* Coders that refuse a difference that does not fit.
LEMMA FittingCoder ==
    ASSUME NEW x, NEW b, NEW y, NEW name \in {"delta_int32", "last_delta_int32", "delta_zig_zag_uint32"},
           Returns(name, x, b, IF EveryFits(W32, Deltas(x, b)) THEN Coded(y) ELSE Refused),
           EveryFits(W32, Deltas(x, b)) => (y = x <=> (name = "delta_int32" /\ x # <<>> => b = Last(x)))
    PROVE  CodecsAreLossless'
  <1>1. op' = name /\ input' = x /\ base' = b
        /\ answer'.ok = EveryFits(W32, Deltas(x, b)) /\ (answer'.ok => answer'.out = y)
    <2>1. \A o : Coded(o).ok = TRUE /\ Coded(o).out = o
      BY DEF Coded
    <2>2. Refused.ok = FALSE
      BY DEF Refused
    <2> DEFINE fits == EveryFits(W32, Deltas(x, b))
    <2>3. fits \in BOOLEAN
      BY DEF EveryFits
    <2>4. answer' = IF fits THEN Coded(y) ELSE Refused
      BY DEF Returns
    <2> HIDE DEF fits
    <2>5. answer'.ok = fits /\ (answer'.ok => answer'.out = y)
      BY <2>1, <2>2, <2>3, <2>4
    <2> QED BY <2>5 DEF Returns, fits
  <1>2. Refusal' <=> ~EveryFits(W32, Deltas(x, b))
    BY <1>1 DEF Refusal
  <1>3. IntegersAreLossless'
    <2>1. op' \notin DOMAIN ScalarChunks'
      BY <1>1 DEF ScalarChunks
    <2> DEFINE fits == EveryFits(W32, Deltas(x, b))
    <2>2. fits \in BOOLEAN /\ Refusal' \in BOOLEAN
      BY DEF EveryFits, Refusal
    <2>3. Refusal' <=> ~fits
      BY <1>2
    <2>4. answer'.ok = fits
      BY <1>1
    <2> HIDE DEF fits
    <2>5. answer'.ok = ~Refusal'
      BY <2>2, <2>3, <2>4
    <2>6. answer'.ok => (answer'.out = input' <=> (op' = "delta_int32" /\ input' # <<>> => base' = Last(input')))
      BY <1>1, <2>4 DEF fits
    <2> QED BY <2>1, <2>5, <2>6 DEF IntegersAreLossless
  <1>4. RunsAreLossless' /\ ColumnsAreLossless'
    BY <1>1 DEF RunsAreLossless, ColumnsAreLossless
  <1> QED BY <1>3, <1>4 DEF CodecsAreLossless

\* Decoders of chunks without SSE2.
LEMMA ScalarCoder ==
    ASSUME NEW x \in Seq(Int), NEW b, NEW y, NEW name \in DOMAIN ScalarChunks, Returns(name, x, b, Coded(y)),
           y = x <=> FlatIn(ScalarChunks[name], x, b)
    PROVE  CodecsAreLossless'
  <1>1. op' = name /\ input' = x /\ base' = b /\ answer'.ok = TRUE /\ answer'.out = y
    BY DEF Returns, Coded
  <1>2. name \in {"chunked8_int32_scalar", "chunked4_int32_scalar", "chunked4_int64_scalar"}
    BY DEF ScalarChunks
  <1>3. op' \notin Coders
    BY <1>1, <1>2 DEF Coders
  <1>4. FlatChunks(ScalarChunks[name])' <=> FlatIn(ScalarChunks[name], x, b)
    <2> DEFINE chunk == ScalarChunks[name]
    <2>1. DOMAIN x = 1..Len(x)
      OBVIOUS
    <2>2. FlatChunks(chunk)' <=> \A i \in DOMAIN x : (i - 1) % chunk # 0 => x[i - 1] = BaseOf(chunk, x, b, i)
      <3>1. chunk' = chunk
        BY DEF ScalarChunks
      <3> HIDE DEF chunk
      <3> QED BY <1>1, <3>1 DEF FlatChunks, BaseOf
    <2> HIDE DEF chunk
    <2>3. FlatChunks(chunk)' <=> FlatIn(chunk, x, b)
      BY <2>1, <2>2 DEF FlatIn
    <2> QED BY <2>3 DEF chunk
  <1>5. IntegersAreLossless'
    BY <1>1, <1>3, <1>4 DEF IntegersAreLossless
  <1>6. RunsAreLossless' /\ ColumnsAreLossless'
    BY <1>1, <1>2 DEF RunsAreLossless, ColumnsAreLossless
  <1> QED BY <1>5, <1>6 DEF CodecsAreLossless

LEMMA Signed32Step ==
    ASSUME CodeSigned32
    PROVE  CodecsAreLossless'
  <1>1. PICK x \in {s \in Signed : EveryFits(W32, s)}, b \in {c \in Bases : fits_signed(W32, c)} :
    \/ Returns("zig_zag", x, b, Coded(decode_zig_zag(encode_zig_zag(x))))
    \/ Returns("delta", x, b, Coded(decode_delta(encode_delta(x, b), b)))
    \/ Returns("delta_int32", x, b, Then(encode_delta_int32(x, b), LAMBDA d : decode_delta_int32(d, b)))
    \/ Returns("delta_zig_zag_int32", x, b,
               Coded(decode_delta_zig_zag_int32(encode_delta_zig_zag_int32(x, b), b)))
    \/ \E build \in {"sse2", "scalar"} :
        \/ Returns(IF build = "sse2" THEN "chunked8_int32_sse2" ELSE "chunked8_int32_scalar", x, b, Coded(
               decode_delta_zig_zag_chunked8_int32(build, encode_delta_zig_zag_chunked8_int32(x, b), b)))
        \/ Returns(IF build = "sse2" THEN "chunked4_int32_sse2" ELSE "chunked4_int32_scalar", x, b, Coded(
               decode_delta_zig_zag_chunked4_int32(build, encode_delta_zig_zag_chunked4_int32(x, b), b)))
    BY DEF CodeSigned32
  <1>2. /\ x \in Seq(Int) /\ EveryFits(W32, x) /\ b \in Int /\ fits_signed(W32, b) /\ W32 \in Widths
        /\ CHUNK8 \in Nat \ {0} /\ CHUNK4 \in Nat \ {0}
    <2>1. Half_of(W64) \in Nat
      BY WidthsAre DEF Widths
    <2>2. b \in -Half_of(W64)..Half_of(W64) - 1
      BY InputAssumption
    <2> QED BY <2>1, <2>2, SignedInputs, ChunkAssumption DEF Widths
  <1>3. CASE Returns("zig_zag", x, b, Coded(decode_zig_zag(encode_zig_zag(x))))
    BY <1>2, <1>3, ZigZagAll, PlainCoder DEF PlainCoders
  <1>4. CASE Returns("delta", x, b, Coded(decode_delta(encode_delta(x, b), b)))
    <2>1. decode_delta(encode_delta(x, b), b) = x
      BY <1>2, SignedDeltas, SumsSigned DEF encode_delta, decode_delta
    <2> QED BY <1>4, <2>1, PlainCoder DEF PlainCoders
  <1>5. CASE Returns("delta_int32", x, b, Then(encode_delta_int32(x, b), LAMBDA d : decode_delta_int32(d, b)))
    <2> DEFINE y == signed_all(W32, Sums(unsigned_all(W32, Deltas(x, Last(x))), b))
    <2>1. Then(encode_delta_int32(x, b), LAMBDA d : decode_delta_int32(d, b))
             = IF EveryFits(W32, Deltas(x, b)) THEN Coded(y) ELSE Refused
      BY DEF Then, encode_delta_int32, decode_delta_int32, check_deltas_fit_int32, Coded, Refused
    <2>2. y = x <=> (x # <<>> => b = Last(x))
      BY <1>2, DeltaInt32
    <2> HIDE DEF y
    <2> QED BY <1>5, <2>1, <2>2, FittingCoder
  <1>6. CASE Returns("delta_zig_zag_int32", x, b,
               Coded(decode_delta_zig_zag_int32(encode_delta_zig_zag_int32(x, b), b)))
    <2>1. decode_delta_zig_zag_int32(encode_delta_zig_zag_int32(x, b), b) = x
      BY <1>2, ZigZagSigned DEF encode_delta_zig_zag_int32, decode_delta_zig_zag_int32
    <2> QED BY <1>6, <2>1, PlainCoder DEF PlainCoders
  <1> DEFINE Out8(build) == decode_delta_zig_zag_chunked8_int32(build, encode_delta_zig_zag_chunked8_int32(x, b), b)
             Out4(build) == decode_delta_zig_zag_chunked4_int32(build, encode_delta_zig_zag_chunked4_int32(x, b), b)
  <1>7. /\ Out8("sse2") = x /\ Out4("sse2") = x
        /\ Out8("scalar") = x <=> FlatIn(CHUNK8, x, b)
        /\ Out4("scalar") = x <=> FlatIn(CHUNK4, x, b)
    BY <1>2, ChunkedSse2, ChunkedScalar
       DEF decode_delta_zig_zag_chunked8_int32, encode_delta_zig_zag_chunked8_int32,
           decode_delta_zig_zag_chunked4_int32, encode_delta_zig_zag_chunked4_int32
  <1>8. /\ DOMAIN ScalarChunks = {"chunked8_int32_scalar", "chunked4_int32_scalar", "chunked4_int64_scalar"}
        /\ ScalarChunks["chunked8_int32_scalar"] = CHUNK8 /\ ScalarChunks["chunked4_int32_scalar"] = CHUNK4
    BY DEF ScalarChunks
  <1> HIDE DEF Out8, Out4
  <1>9. CASE \/ Returns("chunked8_int32_sse2", x, b, Coded(Out8("sse2")))
             \/ Returns("chunked4_int32_sse2", x, b, Coded(Out4("sse2")))
    BY <1>7, <1>9, PlainCoder DEF PlainCoders
  <1>10. CASE Returns("chunked8_int32_scalar", x, b, Coded(Out8("scalar")))
    BY <1>2, <1>7, <1>8, <1>10, ScalarCoder
  <1>11. CASE Returns("chunked4_int32_scalar", x, b, Coded(Out4("scalar")))
    BY <1>2, <1>7, <1>8, <1>11, ScalarCoder
  <1>12. ASSUME NEW build \in {"sse2", "scalar"},
                \/ Returns(IF build = "sse2" THEN "chunked8_int32_sse2" ELSE "chunked8_int32_scalar",
                           x, b, Coded(Out8(build)))
                \/ Returns(IF build = "sse2" THEN "chunked4_int32_sse2" ELSE "chunked4_int32_scalar",
                           x, b, Coded(Out4(build)))
         PROVE  CodecsAreLossless'
    <2>1. CASE build = "sse2"
      BY <1>9, <1>12, <2>1
    <2>2. CASE build = "scalar"
      <3>1. build # "sse2"
        BY <2>2
      <3> QED BY <1>10, <1>11, <1>12, <2>2, <3>1
    <2> QED BY <2>1, <2>2
  <1> QED BY <1>1, <1>3, <1>4, <1>5, <1>6, <1>12 DEF Out8, Out4

LEMMA Signed64Step ==
    ASSUME CodeSigned64
    PROVE  CodecsAreLossless'
  <1> DEFINE Out4(build, x, b) ==
                 decode_delta_zig_zag_chunked4_int64(build, encode_delta_zig_zag_chunked4_int64(x, b), b)
  <1>1. PICK x \in Signed, b \in Bases :
    \/ Returns("delta_int64", x, b, Coded(decode_delta_int64(encode_delta_int64(x, b), b)))
    \/ Returns("delta_zig_zag_int64", x, b,
               Coded(decode_delta_zig_zag_int64(encode_delta_zig_zag_int64(x, b), b)))
    \/ Returns("last_delta_int32", x, b,
               Then(encode_last_delta_zig_zag_int32(x, b),
                    LAMBDA d : decode_last_delta_zig_zag_int32(d, b)))
    \/ Returns("last_delta_int64", x, b,
               Coded(decode_last_delta_zig_zag_int64(encode_last_delta_zig_zag_int64(x, b), b)))
    \/ \E build \in {"sse2", "scalar"} :
           Returns(IF build = "sse2" THEN "chunked4_int64_sse2" ELSE "chunked4_int64_scalar", x, b,
                   Coded(Out4(build, x, b)))
    BY DEF CodeSigned64
  <1>2. /\ x \in Seq(Int) /\ EveryFits(W64, x) /\ b \in Int /\ fits_signed(W64, b) /\ W64 \in Widths
        /\ W32 \in Widths /\ CHUNK4 \in Nat \ {0}
    <2>1. Half_of(W64) \in Nat
      BY WidthsAre DEF Widths
    <2>2. b \in -Half_of(W64)..Half_of(W64) - 1
      BY InputAssumption
    <2> QED BY <2>1, <2>2, SignedInputs, ChunkAssumption DEF Widths, fits_signed
  <1>3. CASE Returns("delta_int64", x, b, Coded(decode_delta_int64(encode_delta_int64(x, b), b)))
    <2>1. decode_delta_int64(encode_delta_int64(x, b), b) = x
      BY <1>2, UnsignedDeltas, SumsSigned DEF encode_delta_int64, decode_delta_int64
    <2> QED BY <1>3, <2>1, PlainCoder DEF PlainCoders
  <1>4. CASE Returns("delta_zig_zag_int64", x, b,
               Coded(decode_delta_zig_zag_int64(encode_delta_zig_zag_int64(x, b), b)))
    <2>1. decode_delta_zig_zag_int64(encode_delta_zig_zag_int64(x, b), b) = x
      BY <1>2, ZigZagSigned DEF encode_delta_zig_zag_int64, decode_delta_zig_zag_int64
    <2> QED BY <1>4, <2>1, PlainCoder DEF PlainCoders
  <1>5. CASE Returns("last_delta_int32", x, b,
               Then(encode_last_delta_zig_zag_int32(x, b),
                    LAMBDA d : decode_last_delta_zig_zag_int32(d, b)))
    <2> DEFINE y == Sums(decode_zig_zag(encode_zig_zag(Deltas(x, b))), b)
    <2>1. Then(encode_last_delta_zig_zag_int32(x, b), LAMBDA d : decode_last_delta_zig_zag_int32(d, b))
             = IF EveryFits(W32, Deltas(x, b)) THEN Coded(y) ELSE Refused
      BY DEF Then, encode_last_delta_zig_zag_int32, decode_last_delta_zig_zag_int32, Coded, Refused
    <2>2. y = x
      BY <1>2, ZigZagExact
    <2> HIDE DEF y
    <2> QED BY <1>5, <2>1, <2>2, FittingCoder
  <1>6. CASE Returns("last_delta_int64", x, b,
               Coded(decode_last_delta_zig_zag_int64(encode_last_delta_zig_zag_int64(x, b), b)))
    <2>1. decode_last_delta_zig_zag_int64(encode_last_delta_zig_zag_int64(x, b), b) = x
      BY <1>2, ZigZagSigned DEF encode_last_delta_zig_zag_int64, decode_last_delta_zig_zag_int64
    <2> QED BY <1>6, <2>1, PlainCoder DEF PlainCoders
  <1>7. Out4("sse2", x, b) = x /\ (Out4("scalar", x, b) = x <=> FlatIn(CHUNK4, x, b))
    BY <1>2, ChunkedSse2, ChunkedScalar
       DEF decode_delta_zig_zag_chunked4_int64, encode_delta_zig_zag_chunked4_int64
  <1>8. /\ "chunked4_int64_scalar" \in DOMAIN ScalarChunks
        /\ ScalarChunks["chunked4_int64_scalar"] = CHUNK4
    BY DEF ScalarChunks
  <1> HIDE DEF Out4
  <1>9. ASSUME NEW build \in {"sse2", "scalar"},
                Returns(IF build = "sse2" THEN "chunked4_int64_sse2" ELSE "chunked4_int64_scalar", x, b,
                        Coded(Out4(build, x, b)))
        PROVE  CodecsAreLossless'
    <2>1. CASE build = "sse2"
      BY <1>7, <1>9, <2>1, PlainCoder DEF PlainCoders
    <2>2. CASE build = "scalar"
      <3>1. build # "sse2"
        BY <2>2
      <3>2. Returns("chunked4_int64_scalar", x, b, Coded(Out4("scalar", x, b)))
        BY <1>9, <2>2, <3>1
      <3> QED BY <1>2, <1>7, <1>8, <3>2, ScalarCoder
    <2> QED BY <2>1, <2>2
  <1> QED BY <1>1, <1>3, <1>4, <1>5, <1>6, <1>9 DEF Out4

LEMMA Unsigned32Step ==
    ASSUME CodeUnsigned32
    PROVE  CodecsAreLossless'
  <1>1. PICK x \in {s \in Unsigned : \A i \in DOMAIN s : s[i] < Range_of(W32)},
             b \in Bases \cap 0..Range_of(W32) - 1 :
    \/ Returns("delta_sorted_u32", x, b, Coded(decode_delta_sorted(W32, encode_delta_sorted(W32, x))))
    \/ Returns("delta_zig_zag_uint32", x, b,
               Then(encode_delta_zig_zag_uint32(x, b), LAMBDA d : decode_delta_zig_zag_uint32(d, b)))
    BY DEF CodeUnsigned32
  <1>2. /\ x \in Seq(Int) /\ x \in Seq(0..(Range_of(W32) - 1)) /\ b \in Int /\ W32 \in Widths
    <2>1. Range_of(W32) \in Nat
      BY WidthsAre DEF Widths
    <2> QED BY <2>1, UnsignedInputs DEF Widths
  <1>3. CASE Returns("delta_sorted_u32", x, b, Coded(decode_delta_sorted(W32, encode_delta_sorted(W32, x))))
    <2>1. decode_delta_sorted(W32, encode_delta_sorted(W32, x)) = x
      BY <1>2, UnsignedDeltas, SumsUnsigned DEF encode_delta_sorted, decode_delta_sorted
    <2> QED BY <1>3, <2>1, PlainCoder DEF PlainCoders
  <1>4. CASE Returns("delta_zig_zag_uint32", x, b,
               Then(encode_delta_zig_zag_uint32(x, b), LAMBDA d : decode_delta_zig_zag_uint32(d, b)))
    <2> DEFINE y == unsigned_all(W32, Sums(decode_zig_zag(encode_zig_zag(Deltas(x, b))), b))
    <2>1. Then(encode_delta_zig_zag_uint32(x, b), LAMBDA d : decode_delta_zig_zag_uint32(d, b))
             = IF EveryFits(W32, Deltas(x, b)) THEN Coded(y) ELSE Refused
      BY DEF Then, encode_delta_zig_zag_uint32, decode_delta_zig_zag_uint32, Coded, Refused
    <2>2. y = x
      BY <1>2, ZigZagExact, UnsignedAllSame
    <2> HIDE DEF y
    <2> QED BY <1>4, <2>1, <2>2, FittingCoder
  <1> QED BY <1>1, <1>3, <1>4

\* A column of times, and a call of the time coder.
LEMMA TimeCoder ==
    ASSUME NEW x, NEW b, NEW y, NEW name \in {"time_delta", "time"}, Returns(name, x, b, y),
           y.ok = ~\E i \in DOMAIN x : Deltas(x, b)[i] < 0,
           y.ok /\ (\A i \in DOMAIN x : Deltas(x, b)[i] < Range_of(W32)) => y.out = x
    PROVE  CodecsAreLossless'
  <1> DEFINE back == \E i \in DOMAIN x : Deltas(x, b)[i] < 0
             fit == \A i \in DOMAIN x : Deltas(x, b)[i] < Range_of(W32)
  <1>1. op' = name /\ input' = x /\ base' = b /\ answer' = y
    BY DEF Returns
  <1>2. Refusal' <=> back
    BY <1>1 DEF Refusal
  <1>3. TimesFit' <=> fit
    BY <1>1 DEF TimesFit
  <1>4. back \in BOOLEAN /\ fit \in BOOLEAN /\ Refusal' \in BOOLEAN
    BY DEF Refusal
  <1>5. y.ok = ~back /\ (y.ok /\ fit => y.out = x)
    OBVIOUS
  <1> HIDE DEF back, fit
  <1>6. y.ok = ~Refusal' /\ (y.ok /\ TimesFit' => y.out = x)
    BY <1>2, <1>3, <1>4, <1>5
  <1>7. IntegersAreLossless'
    <2>1. op' \notin DOMAIN ScalarChunks' /\ op' # "delta_int32"
      BY <1>1 DEF ScalarChunks
    <2>2. answer'.ok = ~Refusal' /\ (answer'.ok /\ TimesFit' => answer'.out = input')
      BY <1>1, <1>6
    <2> QED BY <2>1, <2>2 DEF IntegersAreLossless
  <1>8. ColumnsAreLossless'
    BY <1>1, <1>6 DEF ColumnsAreLossless
  <1>9. RunsAreLossless'
    BY <1>1 DEF RunsAreLossless
  <1> QED BY <1>7, <1>8, <1>9 DEF CodecsAreLossless

LEMMA Unsigned64Step ==
    ASSUME CodeUnsigned64
    PROVE  CodecsAreLossless'
  <1>1. PICK x \in Unsigned, b \in Bases \cap Nat :
    \/ Returns("delta_sorted_u64", x, b, Coded(decode_delta_sorted(W64, encode_delta_sorted(W64, x))))
    \/ Returns("delta_zig_zag_uint64", x, b,
               Coded(decode_delta_zig_zag_uint64(encode_delta_zig_zag_uint64(x, b), b)))
    \/ Returns("time_delta", x, b,
               Then(encode_time_delta(x, b), LAMBDA d : decode_time_delta(d, b)))
    BY DEF CodeUnsigned64
  <1>2. /\ x \in Seq(Int) /\ x \in Seq(0..(Range_of(W64) - 1)) /\ b \in Int /\ W64 \in Widths
    BY UnsignedInputs DEF Widths
  <1>3. CASE Returns("delta_sorted_u64", x, b, Coded(decode_delta_sorted(W64, encode_delta_sorted(W64, x))))
    <2>1. decode_delta_sorted(W64, encode_delta_sorted(W64, x)) = x
      BY <1>2, UnsignedDeltas, SumsUnsigned DEF encode_delta_sorted, decode_delta_sorted
    <2> QED BY <1>3, <2>1, PlainCoder DEF PlainCoders
  <1>4. CASE Returns("delta_zig_zag_uint64", x, b,
               Coded(decode_delta_zig_zag_uint64(encode_delta_zig_zag_uint64(x, b), b)))
    <2>1. decode_delta_zig_zag_uint64(encode_delta_zig_zag_uint64(x, b), b) = x
      BY <1>2, ZigZagUnsigned DEF encode_delta_zig_zag_uint64, decode_delta_zig_zag_uint64
    <2> QED BY <1>4, <2>1, PlainCoder DEF PlainCoders
  <1>5. CASE Returns("time_delta", x, b, Then(encode_time_delta(x, b), LAMBDA d : decode_time_delta(d, b)))
    <2> DEFINE d == Deltas(x, b)
               u == unsigned_all(W32, d)
               back == \E i \in DOMAIN x : d[i] < 0
               fit == \A i \in DOMAIN x : d[i] < Range_of(W32)
               y == Then(encode_time_delta(x, b), LAMBDA e : decode_time_delta(e, b))
    <2>1. /\ encode_time_delta(x, b) = IF back THEN Refused ELSE Coded(u)
          /\ ~back /\ fit => u = d /\ Sums(d, b) = x
      BY <1>2, TimeDelta
    <2>2. /\ Refused.ok = FALSE /\ \A o : Coded(o).ok = TRUE /\ Coded(o).out = o
      BY DEF Refused, Coded
    <2>3. y = IF encode_time_delta(x, b).ok THEN Coded(Sums(encode_time_delta(x, b).out, b))
              ELSE encode_time_delta(x, b)
      BY DEF Then, decode_time_delta
    <2>4. Returns("time_delta", x, b, y)
      BY <1>5
    <2> HIDE DEF y, u
    <2>5. y.ok = ~back /\ (y.ok /\ fit => y.out = x)
      <3>1. CASE back
        BY <2>1, <2>2, <2>3, <3>1
      <3>2. CASE ~back
        BY <2>1, <2>2, <2>3, <3>2
      <3> QED BY <3>1, <3>2
    <2> QED BY <2>4, <2>5, TimeCoder
  <1> QED BY <1>1, <1>3, <1>4, <1>5

LEMMA ConcatEmpty == ASSUME NEW s \in Seq(Nat) PROVE s \o <<>> = s /\ <<>> \o s = s
  BY ConcatEmptySeq

LEMMA RepeatedIs ==
    ASSUME NEW v \in Nat, NEW n \in Nat
    PROVE  /\ Repeated(v, n) \in Seq(Nat) /\ Len(Repeated(v, n)) = n
           /\ Repeated(v, 0) = <<>> /\ Repeated(v, 1) = <<v>>
           /\ Repeated(v, n + 1) = Append(Repeated(v, n), v)
  <1>1. \A k \in Nat : Repeated(v, k) \in Seq(Nat) /\ Len(Repeated(v, k)) = k
    BY DEF Repeated
  <1>2. Repeated(v, 0) = <<>>
    BY <1>1
  <1>3. Repeated(v, 1) = <<v>>
    BY <1>1 DEF Repeated
  <1>4. Repeated(v, n + 1) = Append(Repeated(v, n), v)
    BY <1>1 DEF Repeated
  <1> QED BY <1>1, <1>2, <1>3, <1>4

\* The first n elements.
First(x, n) == [i \in 1..n |-> x[i]]

LEMMA FirstIs ==
    ASSUME NEW x \in Seq(Nat)
    PROVE  /\ First(x, 0) = <<>> /\ First(x, Len(x)) = x
           /\ \A n \in 1..Len(x) : First(x, n) = Append(First(x, n - 1), x[n])
           /\ \A n \in 0..Len(x) : First(x, n) \in Seq(Nat) /\ Len(First(x, n)) = n
  <1>1. \A n \in 0..Len(x) : First(x, n) \in Seq(Nat) /\ Len(First(x, n)) = n
    BY DEF First
  <1>2. First(x, 0) = <<>>
    BY <1>1
  <1>3. First(x, Len(x)) = x
    BY DEF First
  <1>4. ASSUME NEW n \in 1..Len(x) PROVE First(x, n) = Append(First(x, n - 1), x[n])
    BY <1>1 DEF First
  <1> QED BY <1>1, <1>2, <1>3, <1>4

LEMMA AppendAssociative ==
    ASSUME NEW s \in Seq(Nat), NEW t \in Seq(Nat), NEW e \in Nat
    PROVE  s \o Append(t, e) = Append(s \o t, e)
  OBVIOUS

\* A loop over one element more takes one more step.
LEMMA LoopAppend ==
    ASSUME NEW S, NEW E, NEW body \in [S \X E -> S], NEW start \in S, NEW elems \in Seq(E), NEW e \in E
    PROVE  /\ Loop(body, start, Append(elems, e)) = body[<<Loop(body, start, elems), e>>]
           /\ Loop(body, start, <<>>) = start
           /\ Loop(body, start, elems) \in S
  <1> DEFINE N == Len(elems)
             more == Append(elems, e)
             f == LoopStates(body, start, elems)
             g == LoopStates(body, start, more)
             T == {n \in 0..N : g[n] = f[n]}
  <1>1. /\ N \in Nat /\ more \in Seq(E) /\ Len(more) = N + 1 /\ more[N + 1] = e
        /\ \A n \in 1..N : more[n] = elems[n]
    OBVIOUS
  <1>2. f \in [0..N -> S] /\ f[0] = start /\ \A n \in 1..N : f[n] = body[<<f[n - 1], elems[n]>>]
    <2>1. RunsThrough(LoopStates(body, start, elems), S, body, start, elems)
      BY LoopStatesAre
    <2> QED BY <2>1 DEF RunsThrough
  <1>3. g \in [0..(N + 1) -> S] /\ g[0] = start /\ \A n \in 1..(N + 1) : g[n] = body[<<g[n - 1], more[n]>>]
    <2>1. RunsThrough(LoopStates(body, start, more), S, body, start, more)
      BY <1>1, LoopStatesAre
    <2> HIDE DEF more
    <2> QED BY <1>1, <2>1 DEF RunsThrough
  <1>4. Loop(body, start, elems) = f[N] /\ Loop(body, start, more) = g[N + 1]
    BY <1>1 DEF Loop
  <1> HIDE DEF f, g, N, more
  <1>5. 0 \in T
    BY <1>1, <1>2, <1>3
  <1>6. ASSUME NEW n \in 1..N, n - 1 \in T PROVE n \in T
    <2>1. n \in 0..N /\ n \in 1..(N + 1) /\ g[n - 1] = f[n - 1]
      BY <1>1, <1>6
    <2>2. g[n] = body[<<g[n - 1], elems[n]>>]
      BY <1>1, <1>3, <2>1
    <2>3. f[n] = body[<<f[n - 1], elems[n]>>]
      BY <1>2
    <2> QED BY <2>1, <2>2, <2>3
  <1> HIDE DEF T
  <1>7. 0..N \subseteq T
    BY <1>1, <1>5, <1>6, BoundedInduction
  <1>8. g[N] = f[N] /\ f[N] \in S
    <2>1. N \in 0..N
      BY <1>1
    <2> QED BY <1>2, <1>7, <2>1 DEF T
  <1>9. g[N + 1] = body[<<f[N], e>>]
    <2>1. N + 1 \in 1..(N + 1) /\ (N + 1) - 1 = N
      BY <1>1
    <2>2. g[N + 1] = body[<<g[(N + 1) - 1], more[N + 1]>>]
      BY <1>3, <2>1
    <2> QED BY <1>1, <1>8, <2>1, <2>2
  <1>10. Loop(body, start, <<>>) = start
    <2>1. <<>> \in Seq(E) /\ Len(<<>>) = 0
      OBVIOUS
    <2>2. RunsThrough(LoopStates(body, start, <<>>), S, body, start, <<>>)
      BY <2>1, LoopStatesAre
    <2> QED BY <2>1, <2>2 DEF RunsThrough, Loop
  <1> QED BY <1>4, <1>8, <1>9, <1>10 DEF more

-----------------------------------------------------------------------------
(* Values counted in their word                                            *)

LEMMA RepeatsReadIs ==
    ASSUME NEW low, Range_of(low) \in Nat \ {0}, NEW v \in Nat
    PROVE  /\ RepeatsRead(low, v) \in Seq(Nat)
           /\ RepeatsRead(low, 2 * v) = <<v>>
           /\ \A c \in Nat : v < Range_of(low) =>
                 RepeatsRead(low, 2 * v + 1 + c * (2 * Range_of(low))) = Repeated(v, c)
  <1> DEFINE R == Range_of(low)
  <1>1. RepeatsRead(low, v) \in Seq(Nat)
    <2>1. v \div 2 \in Nat /\ (v \div 2) % R \in Nat /\ v \div (2 * R) \in Nat
      <3>1. R \in Nat \ {0} /\ 2 * R \in Nat \ {0} /\ v \div 2 \in Nat
        OBVIOUS
      <3>2. v \div (2 * R) \in Nat
        <4> DEFINE d == 2 * R
        <4>1. d \in Nat \ {0}
          BY <3>1
        <4> HIDE DEF d
        <4>2. v \div d \in Nat
          BY <4>1, Division
        <4> QED BY <4>2 DEF d
      <3> HIDE DEF R
      <3> QED BY <3>1, <3>2
    <2>2. Repeated((v \div 2) % R, v \div (2 * R)) \in Seq(Nat) /\ <<v \div 2>> \in Seq(Nat)
      <3> DEFINE a == (v \div 2) % R
                 c == v \div (2 * R)
                 h == v \div 2
      <3>1. a \in Nat /\ c \in Nat /\ h \in Nat
        BY <2>1
      <3> HIDE DEF a, c, h
      <3>2. Repeated(a, c) \in Seq(Nat) /\ <<h>> \in Seq(Nat)
        BY <3>1, RepeatedIs
      <3> QED BY <3>2 DEF a, c, h
    <2> QED BY <2>2 DEF RepeatsRead
  <1>2. RepeatsRead(low, 2 * v) = <<v>>
    <2>1. (2 * v) % 2 = 0 /\ (2 * v) \div 2 = v
      OBVIOUS
    <2> QED BY <2>1 DEF RepeatsRead
  <1>3. ASSUME NEW c \in Nat, v < R PROVE RepeatsRead(low, 2 * v + 1 + c * (2 * R)) = Repeated(v, c)
    <2> DEFINE word == 2 * v + 1 + c * (2 * R)
               n == c * R + v
    <2>1. R \in Nat \ {0} /\ 2 * R \in Nat \ {0} /\ v \in 0..(R - 1)
      BY <1>3
    <2>2. c * R \in Nat /\ c * (2 * R) = 2 * (c * R) /\ c * (2 * R) \in Nat
      BY <2>1
    <2>3. n \div R = c /\ n % R = v
      BY <2>1, QuotientIs
    <2>4. word = 2 * n + 1 /\ n \in Nat
      BY <2>2
    <2>5. word \div (2 * R) = c
      <3> DEFINE d == 2 * R
                 r == 2 * v + 1
      <3>1. d \in Nat \ {0} /\ r \in 0..(d - 1)
        BY <2>1
      <3>2. word = c * d + r
        BY <2>2
      <3> HIDE DEF d, r, word
      <3>3. word \div d = c
        BY <3>1, <3>2, QuotientIs
      <3> QED BY <3>3 DEF d
    <2> HIDE DEF word, n
    <2>6. word % 2 = 1 /\ word \div 2 = n
      BY <2>4
    <2>7. RepeatsRead(low, word) = Repeated(n % R, c)
      BY <2>5, <2>6 DEF RepeatsRead, R
    <2> QED BY <2>3, <2>7 DEF word
  <1> QED BY <1>1, <1>2, <1>3

LEMMA DecodeRepeats ==
    ASSUME NEW low, Range_of(low) \in Nat \ {0}, NEW out \in Seq(Nat), NEW word \in Nat
    PROVE  /\ decode_with_repeats(low, Append(out, word))
                 = decode_with_repeats(low, out) \o RepeatsRead(low, word)
           /\ decode_with_repeats(low, out) \in Seq(Nat) /\ decode_with_repeats(low, <<>>) = <<>>
  <1> DEFINE body == [p \in Seq(Nat) \X Nat |-> p[1] \o RepeatsRead(low, p[2])]
             S == Seq(Nat)
  <1>1. body \in [S \X Nat -> S]
    <2>1. \A p \in S \X Nat : p[1] \in S /\ RepeatsRead(low, p[2]) \in S
      BY RepeatsReadIs
    <2>2. \A s \in S, t \in S : s \o t \in S
      OBVIOUS
    <2> QED BY <2>1, <2>2
  <1>2. \A s \in S, v \in Nat : body[<<s, v>>] = s \o RepeatsRead(low, v)
    OBVIOUS
  <1>3. <<>> \in S /\ out \in Seq(Nat) /\ word \in Nat
    OBVIOUS
  <1>4. \A s : decode_with_repeats(low, s) = Loop(body, <<>>, s)
    BY DEF decode_with_repeats
  <1> HIDE DEF body, S
  <1>5. /\ Loop(body, <<>>, Append(out, word)) = body[<<Loop(body, <<>>, out), word>>]
        /\ Loop(body, <<>>, <<>>) = <<>> /\ Loop(body, <<>>, out) \in S
    BY <1>1, <1>3, LoopAppend
  <1>6. Loop(body, <<>>, Append(out, word)) = Loop(body, <<>>, out) \o RepeatsRead(low, word)
    BY <1>2, <1>5
  <1> QED BY <1>4, <1>5, <1>6 DEF S

\* A word that fits is written as it is.
LEMMA WordFits ==
    ASSUME NEW w \in Widths, NEW n \in Nat, n < Range_of(W32)
    PROVE  unsigned(w, n) = n
  <1>1. Range_of(W32) <= Range_of(w) /\ Range_of(w) \in Nat \ {0} /\ Range_of(W32) \in Nat
    <2>1. Half_of(W32) <= Half_of(w)
      BY PowerAssumption DEF Widths
    <2>2. W32 \in Widths
      BY DEF Widths
    <2> QED BY <2>1, <2>2, WidthsAre
  <1>2. n \in 0..(Range_of(w) - 1) /\ Congruent(Range_of(w), n, n)
    BY <1>1, CongruentSame
  <1> QED BY <1>2, UnsignedOf

\* What the loops over x have written, and the run that is pending, make up
\* the elements taken: the values and the counts keep clear of the top bit.
Taken(s, back, x, n) ==
    /\ s \in RunState /\ s.count \in 0..n /\ s.value < Half_of(W32)
    /\ back \in Seq(Nat)
    /\ back \o Repeated(s.value, s.count) = First(x, n)

\* A run goes on.
LEMMA TakenMore ==
    ASSUME NEW x \in Seq(Nat), NEW n \in 1..Len(x), NEW s, NEW back, Taken(s, back, x, n - 1), x[n] = s.value
    PROVE  Taken([s EXCEPT !.count = @ + 1], back, x, n)
  <1> DEFINE t == [s EXCEPT !.count = @ + 1]
             r == Repeated(s.value, s.count)
  <1>1. s \in RunState /\ s.count \in 0..(n - 1) /\ s.value \in Nat /\ back \in Seq(Nat) /\ n \in Nat
    BY DEF Taken, RunState
  <1>2. t \in RunState /\ t.value = s.value /\ t.count = s.count + 1 /\ t.count \in 0..n /\ s.count \in Nat
    <2>1. s = [out |-> s.out, value |-> s.value, count |-> s.count] /\ s.out \in Seq(Nat) /\ s.count \in Nat
      BY <1>1 DEF RunState
    <2>2. t = [out |-> s.out, value |-> s.value, count |-> s.count + 1]
      BY <1>1, <2>1 DEF RunState
    <2> HIDE DEF t
    <2> QED BY <1>1, <2>1, <2>2 DEF RunState
  <1> HIDE DEF t
  <1>3. r \in Seq(Nat) /\ Repeated(s.value, s.count + 1) = Append(r, s.value)
    BY <1>1, <1>2, RepeatedIs
  <1>4. back \o r = First(x, n - 1)
    BY DEF Taken
  <1> HIDE DEF r
  <1>5. back \o Append(r, s.value) = Append(back \o r, s.value)
    BY <1>1, <1>3, AppendAssociative
  <1>6. First(x, n) = Append(First(x, n - 1), x[n])
    BY FirstIs
  <1>7. back \o Repeated(t.value, t.count) = First(x, n)
    BY <1>2, <1>3, <1>4, <1>5, <1>6
  <1>8. t.value < Half_of(W32)
    BY <1>2 DEF Taken
  <1> QED BY <1>1, <1>2, <1>7, <1>8 DEF t, Taken

\* The run is written and the next element behind it.
LEMMA TakenRaw ==
    ASSUME NEW w \in Widths, NEW x \in Seq(Nat), NEW n \in 1..Len(x), x[n] < Half_of(W32),
           NEW s \in RunState, NEW back, back = First(x, n - 1)
    PROVE  /\ Raw(w, s, x[n]).out = Append(s.out, 2 * x[n]) /\ 2 * x[n] \in Nat
           /\ Taken(Raw(w, s, x[n]), back \o <<x[n]>>, x, n)
  <1> DEFINE e == x[n]
             t == Raw(w, s, e)
  <1>1. e \in Nat /\ e < Half_of(W32) /\ n \in Nat
    OBVIOUS
  <1>2. unsigned(w, 2 * e) = 2 * e
    <2>1. W32 \in Widths
      BY DEF Widths
    <2>2. 2 * e \in Nat /\ 2 * e < Range_of(W32)
      BY <1>1, <2>1, WidthsAre
    <2> QED BY <2>2, WordFits
  <1>3. First(x, n) = Append(First(x, n - 1), e) /\ First(x, n - 1) \in Seq(Nat)
    <2>1. n - 1 \in 0..Len(x)
      BY <1>1
    <2> QED BY <2>1, FirstIs
  <1> HIDE DEF e
  <1>4. t = [out |-> Append(s.out, 2 * e), value |-> e, count |-> 0] /\ s.out \in Seq(Nat)
    BY <1>2 DEF Raw, RunState
  <1>5. t \in RunState /\ t.count \in 0..n /\ t.value = e /\ t.count = 0
    BY <1>1, <1>4 DEF RunState
  <1> HIDE DEF t
  <1>6. back \in Seq(Nat) /\ back \o <<e>> = First(x, n) /\ back \o <<e>> \in Seq(Nat)
    BY <1>1, <1>3
  <1>7. Repeated(e, 0) = <<>>
    BY <1>1, RepeatedIs
  <1>8. (back \o <<e>>) \o Repeated(t.value, t.count) = First(x, n)
    BY <1>5, <1>6, <1>7, ConcatEmpty
  <1>9. t.value < Half_of(W32) /\ t.out = Append(s.out, 2 * e) /\ 2 * e \in Nat
    BY <1>1, <1>4, <1>5
  <1>10. Taken(t, back \o <<e>>, x, n)
    BY <1>5, <1>6, <1>8, <1>9 DEF Taken
  <1> QED BY <1>9, <1>10 DEF t, e

\* Nothing is taken at the start, everything at the end.
LEMMA TakenNone ==
    ASSUME NEW x \in Seq(Nat) \ {<<>>}, x[1] < Half_of(W32)
    PROVE  Taken(NoRun(x), <<>>, x, 0) /\ NoRun(x).out = <<>>
  <1>1. x[1] \in Nat
    OBVIOUS
  <1>2. NoRun(x) \in RunState /\ NoRun(x).count = 0 /\ NoRun(x).value = x[1] /\ NoRun(x).out = <<>>
    BY <1>1 DEF NoRun, RunState
  <1>3. Repeated(x[1], 0) = <<>> /\ <<>> \in Seq(Nat) /\ First(x, 0) = <<>>
    BY <1>1, RepeatedIs, FirstIs
  <1>4. <<>> \o <<>> = <<>>
    BY <1>3, ConcatEmpty
  <1> QED BY <1>2, <1>3, <1>4 DEF Taken

LEMMA UnsignedNat == ASSUME NEW w \in Widths, NEW n \in Int PROVE unsigned(w, n) \in Nat
  <1>1. unsigned(w, n) \in 0..(Range_of(w) - 1) /\ Range_of(w) \in Nat
    BY UnsignedIs, WidthsAre
  <1> QED BY <1>1

\* The states a step may lead to.
LEMMA RunStates ==
    ASSUME NEW s \in RunState
    PROVE  /\ s.out \in Seq(Nat) /\ Len(s.out) \in Nat /\ s.value \in Nat /\ s.count \in Nat
           /\ \A w \in Widths, e \in Nat : Raw(w, s, e) \in RunState
           /\ [s EXCEPT !.count = @ + 1] \in RunState
           /\ \A out \in Seq(Nat) : [s EXCEPT !.out = out] \in RunState
           /\ \A out \in Seq(Nat) :
                 LET t == [s EXCEPT !.out = out, !.count = 0]
                 IN  t \in RunState /\ t.out = out /\ t.count = 0 /\ t.value = s.value
  <1>1. /\ s.out \in Seq(Nat) /\ s.value \in Nat /\ s.count \in Nat
        /\ s = [out |-> s.out, value |-> s.value, count |-> s.count]
    BY DEF RunState
  <1>2. ASSUME NEW w \in Widths, NEW e \in Nat PROVE Raw(w, s, e) \in RunState
    <2>1. unsigned(w, 2 * e) \in Nat
      BY UnsignedNat
    <2>2. Append(s.out, unsigned(w, 2 * e)) \in Seq(Nat)
      BY <1>1, <2>1
    <2> QED BY <2>2 DEF Raw, RunState
  <1>3. [s EXCEPT !.count = @ + 1] \in RunState
    <2>1. s.count + 1 \in Nat
      BY <1>1
    <2> QED BY <2>1 DEF RunState
  <1>4. ASSUME NEW out \in Seq(Nat) PROVE [s EXCEPT !.out = out] \in RunState
    BY DEF RunState
  <1>5. ASSUME NEW out \in Seq(Nat)
        PROVE  LET t == [s EXCEPT !.out = out, !.count = 0]
               IN  t \in RunState /\ t.out = out /\ t.count = 0 /\ t.value = s.value
    <2> DEFINE t == [s EXCEPT !.out = out, !.count = 0]
    <2>1. t = [out |-> out, value |-> s.value, count |-> 0]
      <3>1. DOMAIN s = {"out", "value", "count"}
        BY DEF RunState
      <3>2. t = [f \in {"out", "value", "count"} |-> IF f = "count" THEN 0 ELSE IF f = "out" THEN out ELSE s[f]]
        BY <3>1
      <3> HIDE DEF t
      <3> QED BY <3>2
    <2> HIDE DEF t
    <2>2. t \in RunState /\ t.out = out /\ t.count = 0 /\ t.value = s.value
      BY <1>1, <2>1 DEF RunState
    <2> QED BY <2>2 DEF t
  <1>6. Len(s.out) \in Nat
    BY <1>1
  <1> QED BY <1>1, <1>2, <1>3, <1>4, <1>5, <1>6

\* Writing a counted run: all elements taken are then in the output.
LEMMA RunIsWritten ==
    ASSUME NEW w \in Widths, NEW low, Range_of(low) \in Nat \ {0}, NEW x \in Seq(Nat),
           (Len(x) + 1) * Range_of(low) <= Half_of(W32), NEW n \in 0..Len(x), NEW s,
           Taken(s, decode_with_repeats(low, s.out), x, n), s.count > 0 => s.value < Range_of(low)
    PROVE  /\ RepeatsWritten(w, low, s) \in RunState
           /\ decode_with_repeats(low, RepeatsWritten(w, low, s).out) = First(x, n)
  <1> DEFINE R == Range_of(low)
             word == 2 * s.value + 1 + s.count * (2 * R)
             t == RepeatsWritten(w, low, s)
             back == decode_with_repeats(low, s.out)
  <1>1. /\ s \in RunState /\ s.out \in Seq(Nat) /\ s.value \in Nat /\ s.count \in Nat /\ s.count \in 0..n
        /\ back \in Seq(Nat) /\ back \o Repeated(s.value, s.count) = First(x, n)
    BY DEF Taken, RunState
  <1>2. CASE s.count = 0
    <2>1. t = s
      BY <1>2 DEF RepeatsWritten
    <2>2. Repeated(s.value, 0) = <<>>
      BY <1>1, RepeatedIs
    <2> HIDE DEF t, back
    <2>3. back = First(x, n)
      BY <1>1, <1>2, <2>2, ConcatEmpty
    <2> QED BY <1>1, <2>1, <2>3 DEF t, back
  <1>3. CASE s.count # 0
    <2> DEFINE c == s.count
               v == s.value
               N == Len(x)
    <2>1. /\ c \in Nat /\ v \in Nat /\ v < R /\ R \in Nat \ {0} /\ N \in Nat /\ c <= N
          /\ (N + 1) * R <= Half_of(W32)
      BY <1>1, <1>3
    <2>2. word \in Nat /\ word < Range_of(W32)
      <3>1. Half_of(W32) \in Nat /\ Range_of(W32) = 2 * Half_of(W32)
        BY WidthsAre DEF Widths
      <3> HIDE DEF c, v, N, R
      <3>2. (c + 1) * R <= Half_of(W32)
        <4>1. CASE c = N
          <5>1. (c + 1) * R = (N + 1) * R
            BY <4>1
          <5> QED BY <2>1, <5>1
        <4>2. CASE c # N
          <5>1. c + 1 \in Int /\ N + 1 \in Int /\ c + 1 < N + 1
            BY <2>1, <4>2
          <5>2. (c + 1) * R + R <= (N + 1) * R
            BY <2>1, <5>1, Apart
          <5>3. (c + 1) * R \in Nat /\ (N + 1) * R \in Nat
            BY <2>1
          <5> DEFINE p == (c + 1) * R
                     q == (N + 1) * R
          <5>4. p \in Nat /\ q \in Nat /\ p + R <= q /\ q <= Half_of(W32) /\ R \in Nat
            BY <2>1, <5>2, <5>3
          <5> HIDE DEF p, q
          <5>5. p <= Half_of(W32)
            BY <3>1, <5>4
          <5> QED BY <5>5 DEF p
        <4> QED BY <4>1, <4>2
      <3>3. (c + 1) * R = c * R + R /\ c * (2 * R) = 2 * (c * R) /\ c * R \in Nat
        BY <2>1
      <3>4. 2 * v + 1 + c * (2 * R) \in Nat /\ 2 * v + 1 + c * (2 * R) < Range_of(W32)
        BY <2>1, <3>1, <3>2, <3>3
      <3> QED BY <3>4 DEF c, v, R
    <2>3. unsigned(w, word) = word
      BY <2>2, WordFits
    <2>4. t = [s EXCEPT !.out = Append(@, word), !.count = 0]
      BY <1>3, <2>3 DEF RepeatsWritten
    <2> HIDE DEF t
    <2>5. t \in RunState /\ t.out = Append(s.out, word)
      <3> DEFINE longer == Append(s.out, word)
      <3>1. t = [s EXCEPT !.out = longer, !.count = 0]
        BY <2>4
      <3>2. longer \in Seq(Nat)
        <4> HIDE DEF word
        <4> QED BY <1>1, <2>2
      <3> HIDE DEF longer
      <3>3. t \in RunState /\ t.out = longer
        BY <1>1, <3>1, <3>2, RunStates
      <3> QED BY <3>3 DEF longer
    <2>6. decode_with_repeats(low, t.out) = back \o RepeatsRead(low, word)
      <3> HIDE DEF word
      <3> QED BY <1>1, <2>2, <2>5, DecodeRepeats
    <2>7. RepeatsRead(low, word) = Repeated(v, c)
      BY <2>1, RepeatsReadIs
    <2> HIDE DEF word, back
    <2> QED BY <1>1, <2>5, <2>6, <2>7 DEF t
  <1> QED BY <1>2, <1>3

LEMMA RepeatsGivenBack ==
    ASSUME NEW w \in Widths, NEW low, Range_of(low) \in Nat \ {0}, NEW x \in Seq(Nat) \ {<<>>},
           \A i \in 1..Len(x) : x[i] < Half_of(W32), (Len(x) + 1) * Range_of(low) <= Half_of(W32)
    PROVE  decode_with_repeats(low, encode_with_repeats(w, low, x)) = x
  <1> DEFINE N == Len(x)
             R == Range_of(low)
             decode(out) == decode_with_repeats(low, out)
             body == [p \in RunState \X Nat |-> RepeatStep(w, low, p[1], p[2])]
             kept == {p \in (0..N) \X RunState :
                         Taken(p[2], decode(p[2].out), x, p[1]) /\ (p[2].count > 0 => p[2].value < R)}
  <1>1. N \in Nat \ {0} /\ \A i \in 1..N : x[i] \in Nat
    OBVIOUS
  <1>2. \A s \in RunState, e \in Nat : body[<<s, e>>] = RepeatStep(w, low, s, e)
    OBVIOUS
  <1>4. ASSUME NEW s \in RunState, NEW e \in Nat PROVE RepeatStep(w, low, s, e) \in RunState
    <2>1. RepeatsWritten(w, low, s) \in RunState
      <3> DEFINE longer == Append(s.out, unsigned(w, 2 * s.value + 1 + s.count * (2 * R)))
      <3>1. s.out \in Seq(Nat) /\ s.value \in Nat /\ s.count \in Nat
        BY RunStates
      <3>2. 2 * s.value + 1 + s.count * (2 * R) \in Int
        BY <3>1
      <3>3. longer \in Seq(Nat)
        <4> DEFINE u == unsigned(w, 2 * s.value + 1 + s.count * (2 * R))
        <4>1. u \in Nat
          BY <3>2, UnsignedNat
        <4> HIDE DEF u
        <4>2. Append(s.out, u) \in Seq(Nat)
          BY <3>1, <4>1
        <4> QED BY <4>2 DEF u
      <3>4. RepeatsWritten(w, low, s) = IF s.count = 0 THEN s ELSE [s EXCEPT !.out = longer, !.count = 0]
        BY DEF RepeatsWritten
      <3> HIDE DEF longer
      <3>5. [s EXCEPT !.out = longer, !.count = 0] \in RunState
        BY <3>3, RunStates
      <3> QED BY <3>4, <3>5
    <2>2. RepeatStep(w, low, s, e) = IF Repeats(low, s, e) THEN [s EXCEPT !.count = @ + 1]
                                      ELSE Raw(w, RepeatsWritten(w, low, s), e)
      BY DEF RepeatStep
    <2>3. \A t \in RunState : Raw(w, t, e) \in RunState
      BY RunStates
    <2>4. [s EXCEPT !.count = @ + 1] \in RunState
      BY RunStates
    <2> QED BY <2>1, <2>2, <2>3, <2>4
  <1>5. body \in [RunState \X Nat -> RunState]
    <2>1. \A p \in RunState \X Nat : RepeatStep(w, low, p[1], p[2]) \in RunState
      BY <1>4
    <2> QED BY <2>1
  <1> HIDE DEF body
  <1>6. <<0, NoRun(x)>> \in kept
    <2>1. Taken(NoRun(x), <<>>, x, 0) /\ NoRun(x).out = <<>>
      BY <1>1, TakenNone
    <2>2. NoRun(x).count = 0 /\ NoRun(x) \in RunState
      BY <1>1 DEF NoRun, RunState
    <2>3. decode(<<>>) = <<>>
      BY DecodeRepeats
    <2> HIDE DEF decode
    <2> QED BY <1>1, <2>1, <2>2, <2>3
  <1>7. ASSUME NEW n \in 1..N, NEW s \in RunState, <<n - 1, s>> \in kept
        PROVE  <<n, body[<<s, x[n]>>]>> \in kept
    <2>1. Taken(s, decode(s.out), x, n - 1) /\ (s.count > 0 => s.value < R) /\ n - 1 \in 0..N /\ n \in 0..N
      BY <1>1, <1>7
    <2> DEFINE t == RepeatStep(w, low, s, x[n])
    <2>2. body[<<s, x[n]>>] = t /\ t \in RunState
      BY <1>1, <1>2, <1>4
    <2>3. CASE Repeats(low, s, x[n])
      <3>1. x[n] = s.value /\ s.value < R
        BY <2>3 DEF Repeats
      <3>2. t = [s EXCEPT !.count = @ + 1]
        BY <2>3 DEF RepeatStep
      <3>3. t.out = s.out /\ t.value = s.value
        BY <3>2 DEF RunState
      <3> HIDE DEF t, decode
      <3>4. Taken(t, decode(s.out), x, n)
        BY <2>1, <3>1, <3>2, TakenMore
      <3>5. <<n, t>> \in kept
        BY <2>1, <2>2, <3>1, <3>3, <3>4
      <3> QED BY <2>2, <3>5
    <2>4. CASE ~Repeats(low, s, x[n])
      <3> DEFINE r == RepeatsWritten(w, low, s)
      <3>1. r \in RunState /\ decode(r.out) = First(x, n - 1)
        <4> DEFINE m == n - 1
        <4>1. Taken(s, decode(s.out), x, m) /\ m \in 0..Len(x)
          BY <2>1
        <4> HIDE DEF m
        <4>2. r \in RunState /\ decode(r.out) = First(x, m)
          BY <2>1, <4>1, RunIsWritten
        <4> QED BY <4>2 DEF m
      <3>2. t = Raw(w, r, x[n])
        BY <2>4 DEF RepeatStep
      <3> HIDE DEF r
      <3>3. /\ Raw(w, r, x[n]).out = Append(r.out, 2 * x[n]) /\ 2 * x[n] \in Nat
            /\ Taken(Raw(w, r, x[n]), decode(r.out) \o <<x[n]>>, x, n)
        BY <3>1, TakenRaw
      <3>4. decode(Append(r.out, 2 * x[n])) = decode(r.out) \o RepeatsRead(low, 2 * x[n])
        <4>1. r.out \in Seq(Nat)
          BY <3>1 DEF RunState
        <4> QED BY <3>3, <4>1, DecodeRepeats
      <3>5. RepeatsRead(low, 2 * x[n]) = <<x[n]>>
        BY <1>1, RepeatsReadIs
      <3>6. t.count = 0
        BY <3>2 DEF Raw
      <3> HIDE DEF t, decode
      <3>7. Taken(t, decode(t.out), x, n)
        BY <3>2, <3>3, <3>4, <3>5
      <3>8. <<n, t>> \in kept
        BY <2>1, <2>2, <3>6, <3>7
      <3> QED BY <2>2, <3>8
    <2> QED BY <2>3, <2>4
  <1> HIDE DEF kept
  <1> DEFINE end == Loop(body, NoRun(x), x)
  <1>8. <<N, end>> \in kept
    <2>1. \A n \in 1..N, s \in RunState : <<n - 1, s>> \in kept => <<n, body[<<s, x[n]>>]>> \in kept
      BY <1>7
    <2>2. NoRun(x) \in RunState
      BY <1>1 DEF NoRun, RunState
    <2> QED BY <1>5, <1>6, <2>1, <2>2, LoopInvariant
  <1>9. encode_with_repeats(w, low, x) = RepeatsWritten(w, low, end).out
    BY DEF encode_with_repeats, body
  <1> HIDE DEF end
  <1>10. Taken(end, decode(end.out), x, N) /\ (end.count > 0 => end.value < R)
    BY <1>8 DEF kept
  <1>11. decode(RepeatsWritten(w, low, end).out) = First(x, N)
    <2>1. N \in 0..Len(x)
      OBVIOUS
    <2> QED BY <1>10, <2>1, RunIsWritten
  <1>12. First(x, N) = x
    BY FirstIs
  <1> QED BY <1>9, <1>11, <1>12

-----------------------------------------------------------------------------
(* Runs of zeros                                                           *)

LEMMA ZerosReadIs ==
    ASSUME NEW v \in Nat
    PROVE  /\ ZerosRead(v) \in Seq(Nat)
           /\ ZerosRead(2 * v) = <<v>> /\ ZerosRead(2 * v + 1) = Repeated(0, v)
  <1>1. v \div 2 \in Nat /\ (2 * v) % 2 = 0 /\ (2 * v) \div 2 = v
        /\ (2 * v + 1) % 2 = 1 /\ (2 * v + 1) \div 2 = v
    OBVIOUS
  <1>2. Repeated(0, v \div 2) \in Seq(Nat) /\ <<v \div 2>> \in Seq(Nat)
    BY <1>1, RepeatedIs
  <1> QED BY <1>1, <1>2 DEF ZerosRead

LEMMA DecodeZeros ==
    ASSUME NEW out \in Seq(Nat), NEW word \in Nat
    PROVE  /\ decode_zero_with_repeats(Append(out, word)) = decode_zero_with_repeats(out) \o ZerosRead(word)
           /\ decode_zero_with_repeats(out) \in Seq(Nat) /\ decode_zero_with_repeats(<<>>) = <<>>
  <1> DEFINE body == [p \in Seq(Nat) \X Nat |-> p[1] \o ZerosRead(p[2])]
             S == Seq(Nat)
  <1>1. body \in [S \X Nat -> S]
    <2>1. \A p \in S \X Nat : p[1] \in S /\ ZerosRead(p[2]) \in S
      BY ZerosReadIs
    <2>2. \A s \in S, t \in S : s \o t \in S
      OBVIOUS
    <2> QED BY <2>1, <2>2
  <1>2. \A s \in S, v \in Nat : body[<<s, v>>] = s \o ZerosRead(v)
    OBVIOUS
  <1>3. <<>> \in S /\ out \in Seq(Nat) /\ word \in Nat
    OBVIOUS
  <1>4. \A s : decode_zero_with_repeats(s) = Loop(body, <<>>, s)
    BY DEF decode_zero_with_repeats
  <1> HIDE DEF body, S
  <1>5. /\ Loop(body, <<>>, Append(out, word)) = body[<<Loop(body, <<>>, out), word>>]
        /\ Loop(body, <<>>, <<>>) = <<>> /\ Loop(body, <<>>, out) \in S
    BY <1>1, <1>3, LoopAppend
  <1>6. Loop(body, <<>>, Append(out, word)) = Loop(body, <<>>, out) \o ZerosRead(word)
    BY <1>2, <1>5
  <1> QED BY <1>4, <1>5, <1>6 DEF S

\* The output stays behind the input that is still to be read.
Behind(s, n) == Len(s.out) + s.count <= n

LEMMA ZeroRunIsWritten ==
    ASSUME NEW x \in Seq(Nat), Len(x) < Half_of(W32), NEW n \in 0..Len(x), NEW s,
           Taken(s, decode_zero_with_repeats(s.out), x, n), s.count > 0 => s.value = 0, Behind(s, n)
    PROVE  /\ ZerosWritten(s) \in RunState /\ Len(ZerosWritten(s).out) <= n
           /\ decode_zero_with_repeats(ZerosWritten(s).out) = First(x, n)
  <1> DEFINE c == s.count
             word == 2 * c + 1
             t == ZerosWritten(s)
             back == decode_zero_with_repeats(s.out)
  <1>1. /\ s \in RunState /\ s.out \in Seq(Nat) /\ s.value \in Nat /\ c \in Nat /\ c \in 0..n
        /\ back \in Seq(Nat) /\ back \o Repeated(s.value, c) = First(x, n)
        /\ Len(s.out) \in Nat /\ Len(s.out) + c <= n
    BY DEF Taken, RunState, Behind
  <1>2. CASE c = 0
    <2>1. t = s
      BY <1>2 DEF ZerosWritten
    <2>2. Repeated(s.value, 0) = <<>>
      BY <1>1, RepeatedIs
    <2> HIDE DEF t, back
    <2>3. back = First(x, n)
      BY <1>1, <1>2, <2>2, ConcatEmpty
    <2> QED BY <1>1, <1>2, <2>1, <2>3 DEF t, back
  <1>3. CASE c # 0
    <2>1. W32 \in Widths
      BY DEF Widths
    <2>2. word \in Nat /\ word < Range_of(W32)
      BY <1>1, <2>1, WidthsAre
    <2>3. unsigned(W32, word) = word
      BY <2>1, <2>2, WordFits
    <2> DEFINE longer == Append(s.out, word)
    <2>4. t = [s EXCEPT !.out = longer, !.count = 0]
      BY <1>3, <2>3 DEF ZerosWritten
    <2>5. longer \in Seq(Nat) /\ Len(longer) = Len(s.out) + 1
      <3> HIDE DEF word
      <3> QED BY <1>1, <2>2
    <2>6. decode_zero_with_repeats(longer) = back \o ZerosRead(word)
      <3> HIDE DEF word
      <3> QED BY <1>1, <2>2, DecodeZeros
    <2>7. ZerosRead(word) = Repeated(0, c)
      BY <1>1, ZerosReadIs
    <2>8. s.value = 0
      BY <1>1, <1>3
    <2> HIDE DEF word, back, longer, t, c
    <2>9. t \in RunState /\ t.out = longer
      BY <1>1, <2>4, <2>5, RunStates
    <2>10. Len(t.out) <= n
      <3>1. c >= 1 /\ n \in Nat
        BY <1>1, <1>3
      <3> QED BY <1>1, <2>5, <2>9, <3>1
    <2>11. decode_zero_with_repeats(t.out) = First(x, n)
      BY <1>1, <2>6, <2>7, <2>8, <2>9
    <2> QED BY <2>9, <2>10, <2>11 DEF t
  <1> QED BY <1>2, <1>3

LEMMA ZerosGivenBack ==
    ASSUME NEW x \in Seq(Nat) \ {<<>>}, \A i \in 1..Len(x) : x[i] < Half_of(W32), Len(x) < Half_of(W32)
    PROVE  decode_zero_with_repeats(encode_zero_with_repeats(x)) = x
  <1> DEFINE N == Len(x)
             decode(out) == decode_zero_with_repeats(out)
             body == [p \in RunState \X (1..N) |-> ZeroStep(x, p[1], p[2])]
             places == [i \in 1..N |-> i]
             kept == {p \in (0..N) \X RunState :
                         /\ Taken(p[2], decode(p[2].out), x, p[1])
                         /\ p[2].count > 0 => p[2].value = 0
                         /\ Behind(p[2], p[1])}
  <1>1. N \in Nat \ {0} /\ DOMAIN x = 1..N /\ (\A i \in 1..N : x[i] \in Nat) /\ W32 \in Widths
    BY DEF Widths
  <1>2. \A s \in RunState, i \in 1..N : body[<<s, i>>] = ZeroStep(x, s, i)
    OBVIOUS
  <1>3. ASSUME NEW s \in RunState PROVE ZerosWritten(s) \in RunState
    <2> DEFINE longer == Append(s.out, unsigned(W32, 2 * s.count + 1))
    <2>1. s.out \in Seq(Nat) /\ s.count \in Nat
      BY RunStates
    <2>2. longer \in Seq(Nat)
      <3>1. 2 * s.count + 1 \in Int
        BY <2>1
      <3>2. unsigned(W32, 2 * s.count + 1) \in Nat
        BY <1>1, <3>1, UnsignedNat
      <3> QED BY <2>1, <3>2
    <2>3. ZerosWritten(s) = IF s.count = 0 THEN s ELSE [s EXCEPT !.out = longer, !.count = 0]
      BY DEF ZerosWritten
    <2> HIDE DEF longer
    <2>4. [s EXCEPT !.out = longer, !.count = 0] \in RunState
      BY <2>2, RunStates
    <2> QED BY <2>3, <2>4
  <1>4. ASSUME NEW s \in RunState, NEW i \in 1..N PROVE ZeroStep(x, s, i) \in RunState
    <2>1. \A t \in RunState : Read(x, t, i) \in Nat
      <3>1. ASSUME NEW t \in RunState PROVE Read(x, t, i) \in Nat
        <4>1. t.out \in Seq(Nat) /\ Len(t.out) \in Nat /\ (i <= Len(t.out) => i \in 1..Len(t.out))
          BY <1>1 DEF RunState
        <4> QED BY <1>1, <4>1 DEF Read
      <3> QED BY <3>1
    <2>2. \A t \in RunState, e \in Nat : Raw(W32, t, e) \in RunState
      BY <1>1, RunStates
    <2>3. [s EXCEPT !.count = @ + 1] \in RunState
      BY RunStates
    <2> QED BY <1>3, <2>1, <2>2, <2>3 DEF ZeroStep
  <1>5. body \in [RunState \X (1..N) -> RunState]
    <2>1. \A p \in RunState \X (1..N) : ZeroStep(x, p[1], p[2]) \in RunState
      BY <1>4
    <2> QED BY <2>1
  <1> HIDE DEF body
  <1>6. NoRun(x) \in RunState /\ <<0, NoRun(x)>> \in kept
    <2>1. Taken(NoRun(x), <<>>, x, 0) /\ NoRun(x).out = <<>>
      BY <1>1, TakenNone
    <2>2. NoRun(x).count = 0 /\ NoRun(x) \in RunState
      BY <1>1 DEF NoRun, RunState
    <2>3. decode(<<>>) = <<>>
      BY DecodeZeros
    <2>4. Behind(NoRun(x), 0)
      BY <2>1, <2>2 DEF Behind
    <2> HIDE DEF decode
    <2> QED BY <1>1, <2>1, <2>2, <2>3, <2>4
  <1>7. ASSUME NEW n \in 1..N, NEW s \in RunState, <<n - 1, s>> \in kept
        PROVE  <<n, body[<<s, n>>]>> \in kept
    <2> DEFINE m == n - 1
               t == ZeroStep(x, s, n)
               r == ZerosWritten(s)
    <2>1. /\ Taken(s, decode(s.out), x, m) /\ (s.count > 0 => s.value = 0) /\ Behind(s, m)
          /\ m \in 0..N /\ n \in 0..N /\ m = n - 1 /\ m < n
      BY <1>1, <1>7
    <2>2. body[<<s, n>>] = t /\ t \in RunState
      BY <1>2, <1>4
    <2>3. Read(x, s, n) = x[n]
      <3>1. s.count \in Nat /\ Len(s.out) \in Nat
        BY RunStates
      <3>2. Len(s.out) + s.count <= m
        BY <2>1 DEF Behind
      <3> HIDE DEF m
      <3>3. ~(n <= Len(s.out))
        BY <2>1, <3>1, <3>2
      <3> QED BY <3>3 DEF Read
    <2> HIDE DEF m
    <2>4. CASE x[n] = 0 /\ s.value = 0
      <3>1. t = [s EXCEPT !.count = @ + 1]
        BY <2>3, <2>4 DEF ZeroStep
      <3>2. t.out = s.out /\ t.value = s.value /\ t.count = s.count + 1
        BY <3>1 DEF RunState
      <3> HIDE DEF t, decode
      <3>3. Taken(t, decode(s.out), x, n)
        <4>1. Taken(s, decode(s.out), x, n - 1)
          BY <2>1
        <4> QED BY <2>4, <3>1, <4>1, TakenMore
      <3>4. Behind(t, n)
        <4>1. s.count \in Nat /\ Len(s.out) \in Nat
          BY RunStates
        <4>2. Len(s.out) + s.count <= m
          BY <2>1 DEF Behind
        <4> QED BY <2>1, <3>2, <4>1, <4>2 DEF Behind
      <3>5. <<n, t>> \in kept
        BY <2>1, <2>2, <2>4, <3>2, <3>3, <3>4
      <3> QED BY <2>2, <3>5
    <2>5. CASE ~(x[n] = 0 /\ s.value = 0)
      <3>1. r \in RunState /\ decode(r.out) = First(x, m) /\ Len(r.out) <= m
        BY <2>1, ZeroRunIsWritten
      <3>2. r.out \in Seq(Nat) /\ Len(r.out) \in Nat
        <4> HIDE DEF r
        <4> QED BY <3>1, RunStates
      <3>3. Read(x, r, n) = x[n]
        <4>1. ~(n <= Len(r.out))
          BY <2>1, <3>1, <3>2
        <4> QED BY <4>1 DEF Read
      <3>4. t = Raw(W32, r, x[n])
        <4>1. t = Raw(W32, r, Read(x, r, n))
          BY <2>3, <2>5 DEF ZeroStep
        <4> QED BY <3>3, <4>1
      <3> HIDE DEF r
      <3>5. /\ Raw(W32, r, x[n]).out = Append(r.out, 2 * x[n]) /\ 2 * x[n] \in Nat
            /\ Taken(Raw(W32, r, x[n]), decode(r.out) \o <<x[n]>>, x, n)
        <4>1. decode(r.out) = First(x, n - 1)
          BY <2>1, <3>1
        <4> QED BY <1>1, <3>1, <4>1, TakenRaw
      <3>6. decode(Append(r.out, 2 * x[n])) = decode(r.out) \o ZerosRead(2 * x[n])
        BY <3>2, <3>5, DecodeZeros
      <3>7. ZerosRead(2 * x[n]) = <<x[n]>>
        BY <1>1, ZerosReadIs
      <3>8. t.count = 0
        BY <3>4 DEF Raw
      <3> HIDE DEF t, decode
      <3>9. Taken(t, decode(t.out), x, n)
        BY <3>4, <3>5, <3>6, <3>7
      <3>10. Len(t.out) = Len(r.out) + 1
        BY <3>2, <3>4, <3>5
      <3>11. Behind(t, n)
        BY <2>1, <3>1, <3>2, <3>8, <3>10 DEF Behind
      <3>12. <<n, t>> \in kept
        BY <2>1, <2>2, <3>8, <3>9, <3>11
      <3> QED BY <2>2, <3>12
    <2> QED BY <2>4, <2>5
  <1> HIDE DEF kept
  <1>8. places \in Seq(1..N) /\ Len(places) = N /\ \A i \in 1..N : places[i] = i
    BY <1>1
  <1> DEFINE end == Loop(body, NoRun(x), places)
  <1> HIDE DEF places
  <1>9. <<N, end>> \in kept
    <2>1. \A n \in 1..Len(places), s \in RunState : <<n - 1, s>> \in kept => <<n, body[<<s, places[n]>>]>> \in kept
      BY <1>7, <1>8
    <2>2. <<Len(places), Loop(body, NoRun(x), places)>> \in kept
      <3> DEFINE E == 1..N
      <3>1. body \in [RunState \X E -> RunState] /\ places \in Seq(E)
        BY <1>5, <1>8
      <3> HIDE DEF E
      <3> QED BY <1>6, <2>1, <3>1, LoopInvariant
    <2> QED BY <1>8, <2>2
  <1>10. encode_zero_with_repeats(x) = ZerosWritten(end).out
    BY <1>1 DEF encode_zero_with_repeats, body, places, Places
  <1> HIDE DEF end
  <1>11. Taken(end, decode(end.out), x, N) /\ (end.count > 0 => end.value = 0) /\ Behind(end, N)
    BY <1>9 DEF kept
  <1>12. decode(ZerosWritten(end).out) = First(x, N)
    <2>1. N \in 0..Len(x)
      BY <1>1
    <2> QED BY <1>11, <2>1, ZeroRunIsWritten
  <1>13. First(x, N) = x
    BY FirstIs
  <1> QED BY <1>10, <1>12, <1>13

-----------------------------------------------------------------------------
(* Run lengths                                                             *)

\* What decode_run_length knows after the words of out.
RunsRead(out) == Loop([p \in RunReadState \X Nat |-> RunReadStep(p[1], p[2])],
                      [out |-> <<>>, marked |-> FALSE, value |-> 0], out)

LEMMA RunsReadAppend ==
    ASSUME NEW out \in Seq(Nat), NEW word \in Nat
    PROVE  /\ RunsRead(Append(out, word)) = RunReadStep(RunsRead(out), word)
           /\ RunsRead(out) \in RunReadState
           /\ RunsRead(<<>>) = [out |-> <<>>, marked |-> FALSE, value |-> 0]
  <1> DEFINE body == [p \in RunReadState \X Nat |-> RunReadStep(p[1], p[2])]
             start == [out |-> <<>>, marked |-> FALSE, value |-> 0]
  <1>1. ASSUME NEW s \in RunReadState, NEW x \in Nat PROVE RunReadStep(s, x) \in RunReadState
    <2>1. s.out \in Seq(Nat) /\ s.value \in Nat /\ x \div 2 \in Nat
      BY DEF RunReadState
    <2>2. Repeated(s.value, x) \in Seq(Nat)
      BY <2>1, RepeatedIs
    <2>3. [out |-> s.out \o Repeated(s.value, x), marked |-> FALSE, value |-> 0] \in RunReadState
      BY <2>1, <2>2 DEF RunReadState
    <2>4. [s EXCEPT !.out = Append(@, x \div 2)] \in RunReadState
      <3>1. Append(s.out, x \div 2) \in Seq(Nat)
        BY <2>1
      <3> QED BY <3>1 DEF RunReadState
    <2>5. [s EXCEPT !.marked = TRUE, !.value = x \div 2] \in RunReadState
      BY <2>1 DEF RunReadState
    <2> QED BY <2>3, <2>4, <2>5 DEF RunReadStep
  <1>2. body \in [RunReadState \X Nat -> RunReadState]
    <2>1. \A p \in RunReadState \X Nat : RunReadStep(p[1], p[2]) \in RunReadState
      BY <1>1
    <2> QED BY <2>1
  <1>3. \A s \in RunReadState, x \in Nat : body[<<s, x>>] = RunReadStep(s, x)
    OBVIOUS
  <1>4. start \in RunReadState
    BY DEF RunReadState
  <1>5. \A o : RunsRead(o) = Loop(body, start, o)
    BY DEF RunsRead
  <1> HIDE DEF body
  <1> DEFINE begin == start
  <1>6. begin = start /\ begin \in RunReadState
    BY <1>4
  <1> DEFINE S == RunReadState
  <1>8. body \in [S \X Nat -> S] /\ begin \in S
    BY <1>2, <1>6
  <1> HIDE DEF begin, start, S
  <1>7. /\ Loop(body, begin, Append(out, word)) = body[<<Loop(body, begin, out), word>>]
        /\ Loop(body, begin, <<>>) = begin /\ Loop(body, begin, out) \in S
    BY <1>8, LoopAppend
  <1>9. /\ RunsRead(Append(out, word)) = RunReadStep(RunsRead(out), word)
        /\ RunsRead(out) \in RunReadState
    BY <1>3, <1>5, <1>6, <1>7 DEF S
  <1>10. RunsRead(<<>>) = start
    BY <1>5, <1>6, <1>7
  <1> QED BY <1>9, <1>10 DEF start

\* Nothing is pending and the output is y.
RunsGive(out, y) == out \in Seq(Nat) /\ ~RunsRead(out).marked /\ RunsRead(out).out = y /\ y \in Seq(Nat)

LEMMA RunsGiveNone == RunsGive(<<>>, <<>>)
  <1>1. <<>> \in Seq(Nat) /\ 0 \in Nat
    OBVIOUS
  <1>2. RunsRead(<<>>) = [out |-> <<>>, marked |-> FALSE, value |-> 0]
    BY <1>1, RunsReadAppend
  <1> QED BY <1>1, <1>2 DEF RunsGive

LEMMA RunsGiveOne ==
    ASSUME NEW out, NEW y, RunsGive(out, y), NEW v \in Nat
    PROVE  RunsGive(Append(out, 2 * v), Append(y, v))
  <1> DEFINE s == RunsRead(out)
             word == 2 * v
  <1>1. out \in Seq(Nat) /\ ~s.marked /\ s.out = y /\ y \in Seq(Nat) /\ s \in RunReadState
    BY RunsReadAppend DEF RunsGive
  <1>2. word \in Nat /\ word % 2 = 0 /\ word \div 2 = v
    OBVIOUS
  <1> HIDE DEF s, word
  <1>3. RunsRead(Append(out, word)) = RunReadStep(s, word)
    BY <1>1, <1>2, RunsReadAppend DEF s
  <1>4. RunReadStep(s, word) = [s EXCEPT !.out = Append(@, v)]
    <2>1. word % 2 # 1
      BY <1>2
    <2>2. RunReadStep(s, word) = [s EXCEPT !.out = Append(@, word \div 2)]
      BY <1>1, <2>1 DEF RunReadStep
    <2> QED BY <1>2, <2>2
  <1>5. RunReadStep(s, word).marked = s.marked /\ RunReadStep(s, word).out = Append(s.out, v)
    BY <1>1, <1>4 DEF RunReadState
  <1>6. Append(out, word) \in Seq(Nat) /\ Append(y, v) \in Seq(Nat)
    BY <1>1, <1>2
  <1> QED BY <1>1, <1>3, <1>5, <1>6 DEF RunsGive, word

LEMMA RunsGiveMarked ==
    ASSUME NEW out, NEW y, RunsGive(out, y), NEW v \in Nat, NEW c \in Nat
    PROVE  RunsGive(Append(Append(out, 2 * v + 1), c), y \o Repeated(v, c))
  <1> DEFINE s == RunsRead(out)
             word == 2 * v + 1
             longer == Append(out, word)
             t == RunsRead(longer)
  <1>1. out \in Seq(Nat) /\ ~s.marked /\ s.out = y /\ y \in Seq(Nat) /\ s \in RunReadState
    BY RunsReadAppend DEF RunsGive
  <1>2. word \in Nat /\ word % 2 = 1 /\ word \div 2 = v
    OBVIOUS
  <1> HIDE DEF s, word
  <1>3. longer \in Seq(Nat) /\ t = RunReadStep(s, word)
    <2>1. longer \in Seq(Nat)
      BY <1>1, <1>2
    <2>2. RunsRead(Append(out, word)) = RunReadStep(RunsRead(out), word)
      BY <1>1, <1>2, RunsReadAppend
    <2> QED BY <2>1, <2>2 DEF s
  <1> HIDE DEF longer, t
  <1>4. t = [s EXCEPT !.marked = TRUE, !.value = v]
    BY <1>1, <1>2, <1>3 DEF RunReadStep
  <1>5. t.marked /\ t.value = v /\ t.out = y
    <2>1. DOMAIN s = {"out", "marked", "value"}
      BY <1>1 DEF RunReadState
    <2> QED BY <1>1, <1>4, <2>1
  <1>6. RunsRead(Append(longer, c)) = RunReadStep(t, c)
    BY <1>3, RunsReadAppend DEF t
  <1>7. RunReadStep(t, c) = [out |-> y \o Repeated(v, c), marked |-> FALSE, value |-> 0]
    BY <1>5 DEF RunReadStep
  <1>8. Append(longer, c) \in Seq(Nat)
    BY <1>3
  <1>9. y \o Repeated(v, c) \in Seq(Nat)
    <2>1. Repeated(v, c) \in Seq(Nat)
      BY RepeatedIs
    <2> QED BY <1>1, <2>1
  <1> QED BY <1>6, <1>7, <1>8, <1>9 DEF RunsGive, longer, word

LEMMA RunsGiveSeveral ==
    ASSUME NEW out, NEW y, RunsGive(out, y), NEW v \in Nat, NEW c \in Nat
    PROVE  RunsGive(out \o Repeated(2 * v, c), y \o Repeated(v, c))
  <1> DEFINE word == 2 * v
             T == {k \in 0..c : RunsGive(out \o Repeated(word, k), y \o Repeated(v, k))}
  <1>1. out \in Seq(Nat) /\ y \in Seq(Nat) /\ word \in Nat
    BY DEF RunsGive
  <1> HIDE DEF word
  <1>2. 0 \in T
    <2>1. Repeated(word, 0) = <<>> /\ Repeated(v, 0) = <<>>
      BY <1>1, RepeatedIs
    <2>2. out \o <<>> = out /\ y \o <<>> = y
      BY <1>1, ConcatEmpty
    <2>3. RunsGive(out \o Repeated(word, 0), y \o Repeated(v, 0))
      BY <2>1, <2>2
    <2>4. 0 \in 0..c
      OBVIOUS
    <2> QED BY <2>3, <2>4
  <1>3. ASSUME NEW k \in 1..c, k - 1 \in T PROVE k \in T
    <2> DEFINE m == k - 1
    <2>1. m \in Nat /\ k = m + 1 /\ RunsGive(out \o Repeated(word, m), y \o Repeated(v, m))
      BY <1>3
    <2> HIDE DEF m
    <2>2. /\ Repeated(word, m) \in Seq(Nat) /\ Repeated(word, m + 1) = Append(Repeated(word, m), word)
          /\ Repeated(v, m) \in Seq(Nat) /\ Repeated(v, m + 1) = Append(Repeated(v, m), v)
      BY <1>1, <2>1, RepeatedIs
    <2>3. /\ out \o Repeated(word, k) = Append(out \o Repeated(word, m), word)
          /\ y \o Repeated(v, k) = Append(y \o Repeated(v, m), v)
      <3> DEFINE p == Repeated(word, m)
                 q == Repeated(v, m)
      <3>1. p \in Seq(Nat) /\ q \in Seq(Nat) /\ Repeated(word, k) = Append(p, word) /\ Repeated(v, k) = Append(q, v)
        BY <2>1, <2>2
      <3> HIDE DEF p, q
      <3>2. out \o Append(p, word) = Append(out \o p, word)
        BY <1>1, <3>1, AppendAssociative
      <3>3. y \o Append(q, v) = Append(y \o q, v)
        BY <1>1, <3>1, AppendAssociative
      <3> QED BY <3>1, <3>2, <3>3 DEF p, q
    <2>4. RunsGive(Append(out \o Repeated(word, m), word), Append(y \o Repeated(v, m), v))
      BY <2>1, RunsGiveOne DEF word
    <2>5. RunsGive(out \o Repeated(word, k), y \o Repeated(v, k)) /\ k \in 0..c
      BY <2>3, <2>4
    <2> QED BY <2>5
  <1> HIDE DEF T
  <1>4. 0..c \subseteq T
    BY <1>2, <1>3, BoundedInduction
  <1>5. c \in T
    BY <1>4
  <1> QED BY <1>5 DEF T, word

\* A run is written, short or long.
LEMMA LengthIsWritten ==
    ASSUME NEW w \in Widths, NEW shortest \in Nat, NEW s \in RunState, s.value < Half_of(W32), NEW y,
           RunsGive(s.out, y)
    PROVE  /\ RunWritten(w, shortest, s) \in RunState
           /\ RunsGive(RunWritten(w, shortest, s).out, y \o Repeated(s.value, s.count))
  <1> DEFINE v == s.value
             c == s.count
             long == s.out \o <<2 * v + 1, c>>
             short == s.out \o Repeated(2 * v, c)
             more == IF c >= shortest THEN long ELSE short
             t == RunWritten(w, shortest, s)
  <1>1. s.out \in Seq(Nat) /\ v \in Nat /\ c \in Nat /\ v < Half_of(W32)
    BY RunStates
  <1>2. unsigned(w, 2 * v + 1) = 2 * v + 1 /\ unsigned(w, 2 * v) = 2 * v
    <2>1. Half_of(W32) \in Nat /\ Range_of(W32) = 2 * Half_of(W32)
      BY WidthsAre DEF Widths
    <2>2. 2 * v + 1 \in Nat /\ 2 * v + 1 < Range_of(W32) /\ 2 * v \in Nat /\ 2 * v < Range_of(W32)
      BY <1>1, <2>1
    <2> QED BY <2>2, WordFits
  <1>3. t = [s EXCEPT !.out = more]
    BY <1>2 DEF RunWritten
  <1>4. RunsGive(long, y \o Repeated(v, c))
    <2>1. long = Append(Append(s.out, 2 * v + 1), c)
      <3> DEFINE word == 2 * v + 1
      <3>1. word \in Nat
        BY <1>1
      <3> HIDE DEF word
      <3>2. s.out \o <<word, c>> = Append(Append(s.out, word), c)
        BY <1>1, <3>1
      <3> QED BY <3>2 DEF word
    <2>2. RunsGive(Append(Append(s.out, 2 * v + 1), c), y \o Repeated(v, c))
      BY <1>1, RunsGiveMarked
    <2> QED BY <2>1, <2>2
  <1>5. RunsGive(short, y \o Repeated(v, c))
    BY <1>1, RunsGiveSeveral
  <1> HIDE DEF long, short, t
  <1>6. RunsGive(more, y \o Repeated(v, c))
    BY <1>4, <1>5
  <1> HIDE DEF more
  <1>7. more \in Seq(Nat)
    BY <1>6 DEF RunsGive
  <1>8. t \in RunState /\ t.out = more
    BY <1>3, <1>7, RunStates DEF RunState
  <1> QED BY <1>6, <1>8 DEF t

LEMMA RunLengthGivenBack ==
    ASSUME NEW w \in Widths, NEW shortest \in Nat, NEW x \in Seq(Nat) \ {<<>>},
           \A i \in 1..Len(x) : x[i] < Half_of(W32)
    PROVE  decode_run_length(encode_run_length(w, shortest, x)) = x
  <1> DEFINE N == Len(x)
             body == [p \in RunState \X Nat |-> RunStep(w, shortest, p[1], p[2])]
             Back(s) == RunsRead(s.out).out
             kept == {p \in (0..N) \X RunState :
                         Taken(p[2], Back(p[2]), x, p[1]) /\ RunsGive(p[2].out, Back(p[2]))}
  <1>1. N \in Nat \ {0} /\ \A i \in 1..N : x[i] \in Nat
    OBVIOUS
  <1>2. \A s \in RunState, e \in Nat : body[<<s, e>>] = RunStep(w, shortest, s, e)
    OBVIOUS
  <1>3. ASSUME NEW s \in RunState PROVE RunWritten(w, shortest, s) \in RunState
    <2> DEFINE a == unsigned(w, 2 * s.value + 1)
               b == unsigned(w, 2 * s.value)
               more == IF s.count >= shortest THEN s.out \o <<a, s.count>> ELSE s.out \o Repeated(b, s.count)
    <2>1. s.out \in Seq(Nat) /\ s.value \in Nat /\ s.count \in Nat
      BY RunStates
    <2>2. a \in Nat /\ b \in Nat
      <3>1. 2 * s.value + 1 \in Int /\ 2 * s.value \in Int
        BY <2>1
      <3> QED BY <3>1, UnsignedNat
    <2>3. RunWritten(w, shortest, s) = [s EXCEPT !.out = more]
      BY DEF RunWritten
    <2> HIDE DEF a, b
    <2>4. s.out \o <<a, s.count>> \in Seq(Nat)
      BY <2>1, <2>2
    <2>7. Repeated(b, s.count) \in Seq(Nat)
      BY <2>1, <2>2, RepeatedIs
    <2>5. s.out \o Repeated(b, s.count) \in Seq(Nat)
      BY <2>1, <2>7
    <2>6. more \in Seq(Nat)
      BY <2>4, <2>5
    <2> HIDE DEF more
    <2>8. [s EXCEPT !.out = more] \in RunState
      BY <2>6, RunStates
    <2> QED BY <2>3, <2>8
  <1>4. ASSUME NEW s \in RunState, NEW e \in Nat PROVE RunStep(w, shortest, s, e) \in RunState
    <2>1. \A t \in RunState : Raw(w, t, e) \in RunState
      BY RunStates
    <2>2. [s EXCEPT !.count = @ + 1] \in RunState
      BY RunStates
    <2> QED BY <1>3, <2>1, <2>2 DEF RunStep
  <1>5. body \in [RunState \X Nat -> RunState]
    <2>1. \A p \in RunState \X Nat : RunStep(w, shortest, p[1], p[2]) \in RunState
      BY <1>4
    <2> QED BY <2>1
  <1> HIDE DEF body
  <1>6. NoRun(x) \in RunState /\ <<0, NoRun(x)>> \in kept
    <2>1. Taken(NoRun(x), <<>>, x, 0) /\ NoRun(x).out = <<>>
      BY <1>1, TakenNone
    <2>2. NoRun(x) \in RunState
      BY <1>1 DEF NoRun, RunState
    <2>3. RunsGive(<<>>, <<>>) /\ RunsRead(<<>>).out = <<>>
      BY RunsGiveNone DEF RunsGive
    <2>4. Back(NoRun(x)) = <<>>
      BY <2>1, <2>3
    <2> HIDE DEF Back
    <2> QED BY <1>1, <2>1, <2>2, <2>3, <2>4
  <1>7. ASSUME NEW n \in 1..N, NEW s \in RunState, <<n - 1, s>> \in kept
        PROVE  <<n, body[<<s, x[n]>>]>> \in kept
    <2> DEFINE t == RunStep(w, shortest, s, x[n])
               r == RunWritten(w, shortest, s)
    <2>1. Taken(s, Back(s), x, n - 1) /\ RunsGive(s.out, Back(s)) /\ n \in 0..N
      BY <1>1, <1>7
    <2>2. body[<<s, x[n]>>] = t /\ t \in RunState
      BY <1>1, <1>2, <1>4
    <2>3. CASE x[n] = s.value
      <3>1. t = [s EXCEPT !.count = @ + 1]
        BY <2>3 DEF RunStep
      <3>2. t.out = s.out
        BY <3>1 DEF RunState
      <3>3. Back(t) = Back(s)
        BY <3>2
      <3> HIDE DEF t, Back
      <3>4. Taken(t, Back(s), x, n)
        BY <2>1, <2>3, <3>1, TakenMore
      <3>5. <<n, t>> \in kept
        BY <2>1, <2>2, <3>2, <3>3, <3>4
      <3> QED BY <2>2, <3>5
    <2>4. CASE x[n] # s.value
      <3> DEFINE y == First(x, n - 1)
      <3>1. /\ s.value < Half_of(W32) /\ Back(s) \o Repeated(s.value, s.count) = y
        BY <2>1 DEF Taken
      <3>2. r \in RunState /\ RunsGive(r.out, y)
        BY <2>1, <3>1, LengthIsWritten
      <3>3. t = Raw(w, r, x[n])
        BY <2>4 DEF RunStep
      <3> HIDE DEF r
      <3>4. /\ Raw(w, r, x[n]).out = Append(r.out, 2 * x[n]) /\ 2 * x[n] \in Nat
            /\ Taken(Raw(w, r, x[n]), y \o <<x[n]>>, x, n)
        BY <3>2, TakenRaw
      <3>5. RunsGive(Append(r.out, 2 * x[n]), Append(y, x[n]))
        BY <1>1, <3>2, RunsGiveOne
      <3>6. y \o <<x[n]>> = Append(y, x[n])
        <4>1. y \in Seq(Nat)
          BY <3>2 DEF RunsGive
        <4> HIDE DEF y
        <4> QED BY <1>1, <4>1
      <3> HIDE DEF y
      <3>7. RunsGive(t.out, Append(y, x[n])) /\ Back(t) = Append(y, x[n])
        BY <3>3, <3>4, <3>5 DEF RunsGive
      <3> HIDE DEF t, Back
      <3>8. Taken(t, Back(t), x, n) /\ RunsGive(t.out, Back(t))
        BY <3>3, <3>4, <3>6, <3>7
      <3>9. <<n, t>> \in kept
        BY <2>1, <2>2, <3>8
      <3> QED BY <2>2, <3>9
    <2> QED BY <2>3, <2>4
  <1> HIDE DEF kept
  <1> DEFINE end == Loop(body, NoRun(x), x)
  <1>8. <<N, end>> \in kept
    <2>1. \A n \in 1..N, s \in RunState : <<n - 1, s>> \in kept => <<n, body[<<s, x[n]>>]>> \in kept
      BY <1>7
    <2> QED BY <1>5, <1>6, <2>1, LoopInvariant
  <1>9. encode_run_length(w, shortest, x) = RunWritten(w, shortest, end).out
    BY DEF encode_run_length, body
  <1> HIDE DEF end
  <1>10. /\ end \in RunState /\ end.value < Half_of(W32) /\ RunsGive(end.out, Back(end))
         /\ Back(end) \o Repeated(end.value, end.count) = First(x, N)
    BY <1>8 DEF kept, Taken
  <1>11. RunsGive(RunWritten(w, shortest, end).out, First(x, N))
    BY <1>10, LengthIsWritten
  <1>12. First(x, N) = x
    BY FirstIs
  <1>13. decode_run_length(encode_run_length(w, shortest, x)) = RunsRead(encode_run_length(w, shortest, x)).out
    BY DEF decode_run_length, RunsRead
  <1> QED BY <1>9, <1>11, <1>12, <1>13 DEF RunsGive

-----------------------------------------------------------------------------
(* One call of a coder of runs                                             *)

RunCoders == {"repeats_u32", "repeats_u64", "zero_with_repeats", "run_length_u32"}
LEMMA RunCoder ==
    ASSUME NEW x, NEW name \in RunCoders, NEW y, Returns(name, x, 0, Coded(y)), y = x
    PROVE  CodecsAreLossless'
  <1>1. op' = name /\ input' = x /\ answer' = Coded(x)
    BY DEF Returns
  <1>2. IntegersAreLossless'
    BY <1>1 DEF IntegersAreLossless, RunCoders, Coders, ScalarChunks
  <1>3. RunsAreLossless'
    BY <1>1 DEF RunsAreLossless, Coded
  <1>4. ColumnsAreLossless'
    BY <1>1 DEF ColumnsAreLossless, RunCoders
  <1> QED BY <1>2, <1>3, <1>4 DEF CodecsAreLossless

LEMMA RunsStep ==
    ASSUME CodeRuns
    PROVE  CodecsAreLossless'
  <1>1. PICK x \in {s \in Unsigned \ {<<>>} : \A i \in DOMAIN s : s[i] < Half_of(W32)} :
    \/ /\ (Len(x) + 1) * Range_of(RUN_BITS) <= Half_of(W32)
       /\ \/ Returns("repeats_u32", x, 0,
                     Coded(decode_with_repeats_u32(RUN_BITS, encode_with_repeats_u32(RUN_BITS, x))))
          \/ Returns("repeats_u64", x, 0,
                     Coded(decode_with_repeats_u64(RUN_BITS, encode_with_repeats_u64(RUN_BITS, x))))
    \/ Returns("zero_with_repeats", x, 0, Coded(decode_zero_with_repeats(encode_zero_with_repeats(x))))
    \/ Returns("run_length_u32", x, 0, Coded(decode_run_length(encode_run_length_u32(x))))
    BY DEF CodeRuns
  <1>2. /\ x \in Seq(Nat) \ {<<>>} /\ \A i \in 1..Len(x) : x[i] < Half_of(W32)
        /\ Len(x) < Half_of(W32) /\ W32 \in Widths /\ W64 \in Widths
    <2>1. x \in Seq(Nat) /\ Len(x) \in 0..(Half_of(W32) - 1) /\ x # <<>>
      BY UnsignedInputs
    <2>2. Half_of(W32) \in Nat
      BY WidthsAre DEF Widths
    <2> QED BY <2>1, <2>2 DEF Widths
  <1>3. CASE /\ (Len(x) + 1) * Range_of(RUN_BITS) <= Half_of(W32)
             /\ \/ Returns("repeats_u32", x, 0,
                     Coded(decode_with_repeats_u32(RUN_BITS, encode_with_repeats_u32(RUN_BITS, x))))
                \/ Returns("repeats_u64", x, 0,
                     Coded(decode_with_repeats_u64(RUN_BITS, encode_with_repeats_u64(RUN_BITS, x))))
    <2>1. \A w \in Widths : decode_with_repeats(RUN_BITS, encode_with_repeats(w, RUN_BITS, x)) = x
      BY <1>2, <1>3, RepeatsGivenBack, RunAssumption
    <2>2. /\ decode_with_repeats_u32(RUN_BITS, encode_with_repeats_u32(RUN_BITS, x)) = x
          /\ decode_with_repeats_u64(RUN_BITS, encode_with_repeats_u64(RUN_BITS, x)) = x
      BY <1>2, <2>1 DEF decode_with_repeats_u32, encode_with_repeats_u32,
                        decode_with_repeats_u64, encode_with_repeats_u64
    <2> QED BY <1>3, <2>2, RunCoder DEF RunCoders
  <1>4. CASE Returns("zero_with_repeats", x, 0, Coded(decode_zero_with_repeats(encode_zero_with_repeats(x))))
    BY <1>2, <1>4, ZerosGivenBack, RunCoder DEF RunCoders
  <1>6. CASE Returns("run_length_u32", x, 0, Coded(decode_run_length(encode_run_length_u32(x))))
    BY <1>2, <1>6, RunLengthGivenBack, RunCoder DEF RunCoders, encode_run_length_u32
  <1> QED BY <1>1, <1>3, <1>4, <1>6

-----------------------------------------------------------------------------
(* Codes by frequency                                                      *)

\* The values of a sequence are no more than its elements.
LEMMA ValuesAre ==
    ASSUME NEW x \in Seq(Nat)
    PROVE  /\ ToSet(x) \subseteq Nat /\ IsFiniteSet(ToSet(x))
           /\ Cardinality(ToSet(x)) \in 0..Len(x)
           /\ \A i \in 1..Len(x) : x[i] \in ToSet(x)
           /\ \A v \in ToSet(x) : \E i \in 1..Len(x) : x[i] = v
  <1>1. DOMAIN x = 1..Len(x) /\ Len(x) \in Nat /\ \A i \in 1..Len(x) : x[i] \in Nat
    OBVIOUS
  <1>2. ToSet(x) = {x[i] : i \in 1..Len(x)}
    BY <1>1 DEF ToSet
  <1>3. x \in Surjection(1..Len(x), ToSet(x))
    BY <1>1, <1>2 DEF Surjection
  <1>4. IsFiniteSet(1..Len(x)) /\ Cardinality(1..Len(x)) = Len(x)
    BY <1>1, FS_Interval
  <1>5. IsFiniteSet(ToSet(x)) /\ Cardinality(ToSet(x)) <= Len(x)
    BY <1>3, <1>4, FS_Surjection
  <1>6. Cardinality(ToSet(x)) \in Nat
    BY <1>5, FS_CardinalityType
  <1> QED BY <1>1, <1>2, <1>5, <1>6

\* The order of the values is strict and leaves no two of them level.
LEMMA PrecedesOrders ==
    ASSUME NEW x \in Seq(Nat)
    PROVE  \A a, b, c \in Nat :
             /\ ~Precedes(x, a, a)
             /\ Precedes(x, a, b) /\ Precedes(x, b, c) => Precedes(x, a, c)
             /\ a # b => Precedes(x, a, b) \/ Precedes(x, b, a)
  <1>1. ASSUME NEW v \in Nat PROVE Frequency(x, v) \in Nat
    <2>1. IsFiniteSet(1..Len(x)) /\ DOMAIN x = 1..Len(x)
      BY FS_Interval
    <2>2. {i \in DOMAIN x : x[i] = v} \in SUBSET (1..Len(x))
      BY <2>1
    <2>3. IsFiniteSet({i \in DOMAIN x : x[i] = v})
      BY <2>1, <2>2, FS_Subset
    <2> QED BY <2>3, FS_CardinalityType DEF Frequency
  <1> TAKE a, b, c \in Nat
  <1>2. Frequency(x, a) \in Nat /\ Frequency(x, b) \in Nat /\ Frequency(x, c) \in Nat
    BY <1>1
  <1> QED BY <1>2 DEF Precedes

\* The place of a value: one behind those that precede it.
RankOf(x, v) == Cardinality({u \in ToSet(x) : Precedes(x, u, v)}) + 1

LEMMA RanksAre ==
    ASSUME NEW x \in Seq(Nat)
    PROVE  /\ \A v \in ToSet(x) : RankOf(x, v) \in 1..Cardinality(ToSet(x))
           /\ \A u, v \in ToSet(x) : RankOf(x, u) = RankOf(x, v) => u = v
           /\ \A k \in 1..Cardinality(ToSet(x)) : \E v \in ToSet(x) : RankOf(x, v) = k
  <1> DEFINE all == ToSet(x)
             n == Cardinality(all)
             Before(v) == {u \in all : Precedes(x, u, v)}
  <1>1. all \subseteq Nat /\ IsFiniteSet(all) /\ n \in Nat
    BY ValuesAre
  <1>2. \A a, b, c \in all : /\ ~Precedes(x, a, a)
                             /\ Precedes(x, a, b) /\ Precedes(x, b, c) => Precedes(x, a, c)
                             /\ a # b => Precedes(x, a, b) \/ Precedes(x, b, a)
    BY <1>1, PrecedesOrders
  <1>3. \A v \in all : RankOf(x, v) = Cardinality(Before(v)) + 1
    BY DEF RankOf
  <1> HIDE DEF all
  <1>4. ASSUME NEW S \in SUBSET all, NEW T \in SUBSET S, NEW v \in S, v \notin T
        PROVE  /\ Cardinality(S) \in Nat /\ Cardinality(T) \in Nat
               /\ Cardinality(T) < Cardinality(S)
    <2>1. IsFiniteSet(S)
      BY <1>1, FS_Subset
    <2>2. IsFiniteSet(T) /\ Cardinality(T) <= Cardinality(S) /\ (Cardinality(S) = Cardinality(T) => S = T)
      BY <2>1, FS_Subset
    <2>3. Cardinality(S) \in Nat /\ Cardinality(T) \in Nat
      BY <2>1, <2>2, FS_CardinalityType
    <2>4. S # T
      BY <1>4
    <2> QED BY <2>2, <2>3, <2>4
  <1>5. ASSUME NEW v \in all PROVE RankOf(x, v) \in 1..n
    <2>1. Before(v) \in SUBSET all /\ v \notin Before(v)
      BY <1>2
    <2>2. Cardinality(Before(v)) \in Nat /\ Cardinality(Before(v)) < n
      BY <1>4, <2>1
    <2> HIDE DEF Before
    <2> QED BY <1>1, <1>3, <2>2
  <1>6. ASSUME NEW u \in all, NEW v \in all, Precedes(x, u, v) PROVE RankOf(x, u) < RankOf(x, v)
    <2>1. Before(v) \in SUBSET all /\ Before(u) \in SUBSET Before(v) /\ u \in Before(v) /\ u \notin Before(u)
      BY <1>2, <1>6
    <2>2. Cardinality(Before(u)) \in Nat /\ Cardinality(Before(v)) \in Nat
          /\ Cardinality(Before(u)) < Cardinality(Before(v))
      BY <1>4, <2>1
    <2> HIDE DEF Before
    <2> QED BY <1>3, <2>2
  <1>7. ASSUME NEW u \in all, NEW v \in all, RankOf(x, u) = RankOf(x, v) PROVE u = v
    <2>1. RankOf(x, u) \in Int /\ RankOf(x, v) \in Int
      BY <1>5
    <2> QED BY <1>2, <1>6, <1>7, <2>1
  <1>8. ASSUME NEW k \in 1..n PROVE \E v \in all : RankOf(x, v) = k
    <2> DEFINE rank == [v \in all |-> RankOf(x, v)]
    <2>1. rank \in Injection(all, 1..n)
      <3>1. rank \in [all -> 1..n]
        BY <1>5
      <3>2. \A a, b \in all : rank[a] = rank[b] => a = b
        BY <1>7
      <3> HIDE DEF rank
      <3> QED BY <3>1, <3>2 DEF Injection, IsInjective
    <2>2. IsFiniteSet(1..n) /\ Cardinality(1..n) = n
      BY <1>1, FS_Interval
    <2>3. rank \in Surjection(all, 1..n)
      BY <2>1, <2>2, FS_Injection
    <2>4. \A v \in all : rank[v] = RankOf(x, v)
      OBVIOUS
    <2> HIDE DEF rank
    <2> QED BY <2>3, <2>4 DEF Surjection
  <1> QED BY <1>5, <1>7, <1>8 DEF all

\* The table has each value once, at the place its codes name.
FrequencyTable(f, x) ==
    LET n == Cardinality(ToSet(x))
    IN  /\ f.values \in Seq(ToSet(x)) /\ Len(f.values) = n
        /\ \A j, k \in 1..n : f.values[j] = f.values[k] => j = k
        /\ f.index_map = [k \in 1..n |-> k - 1]
        /\ f.codes \in Seq(0..(n - 1)) /\ Len(f.codes) = Len(x)
        /\ \A i \in 1..Len(x) : f.values[f.codes[i] + 1] = x[i]

LEMMA FrequencyIs ==
    ASSUME NEW x \in Seq(Nat)
    PROVE  FrequencyTable(encode_frequency(x), x)
  <1> DEFINE all == ToSet(x)
             n == Cardinality(all)
             values == [k \in 1..n |-> CHOOSE v \in all : RankOf(x, v) = k]
             codes == [i \in DOMAIN x |-> (CHOOSE k \in DOMAIN values : values[k] = x[i]) - 1]
             f == encode_frequency(x)
  <1>1. n \in Nat /\ DOMAIN x = 1..Len(x) /\ (\A i \in 1..Len(x) : x[i] \in all)
    BY ValuesAre
  <1>2. /\ \A v \in all : RankOf(x, v) \in 1..n
        /\ \A u, v \in all : RankOf(x, u) = RankOf(x, v) => u = v
        /\ \A k \in 1..n : \E v \in all : RankOf(x, v) = k
    BY RanksAre
  <1>3. f.values = values /\ f.index_map = [k \in DOMAIN values |-> k - 1] /\ f.codes = codes
    BY DEF encode_frequency, RankOf
  <1> HIDE DEF all, f
  <1>4. \A k \in 1..n : values[k] \in all /\ RankOf(x, values[k]) = k
    <2> TAKE k \in 1..n
    <2>1. \E v \in all : RankOf(x, v) = k
      BY <1>2
    <2>2. values[k] = CHOOSE v \in all : RankOf(x, v) = k
      OBVIOUS
    <2> QED BY <2>1, <2>2, Zenon
  <1>5. DOMAIN values = 1..n /\ values \in Seq(all) /\ Len(values) = n
    <2>1. values \in [1..n -> all]
      BY <1>4
    <2> HIDE DEF values
    <2> QED BY <1>1, <2>1
  <1>6. \A j, k \in 1..n : values[j] = values[k] => j = k
    BY <1>4
  <1> HIDE DEF values
  <1>7. ASSUME NEW i \in 1..Len(x)
        PROVE  codes[i] \in 0..(n - 1) /\ values[codes[i] + 1] = x[i]
    <2> DEFINE k == CHOOSE j \in DOMAIN values : values[j] = x[i]
    <2>1. codes[i] = k - 1
      BY <1>1
    <2>2. RankOf(x, x[i]) \in 1..n /\ x[i] \in all
      BY <1>1, <1>2
    <2>3. values[RankOf(x, x[i])] = x[i]
      BY <1>2, <1>4, <2>2
    <2>4. \E j \in DOMAIN values : values[j] = x[i]
      BY <1>5, <2>2, <2>3
    <2>5. k \in DOMAIN values /\ values[k] = x[i]
      BY <2>4, Zenon
    <2>6. k \in 1..n
      BY <1>5, <2>5
    <2> HIDE DEF k, codes
    <2>7. k - 1 \in 0..(n - 1) /\ (k - 1) + 1 = k
      BY <1>1, <2>6
    <2> QED BY <2>1, <2>5, <2>7
  <1>8. codes \in Seq(0..(n - 1)) /\ Len(codes) = Len(x)
    <2>1. codes \in [1..Len(x) -> 0..(n - 1)]
      <3>1. DOMAIN codes = 1..Len(x) /\ codes = [i \in 1..Len(x) |-> codes[i]]
        BY <1>1
      <3> HIDE DEF codes
      <3> QED BY <1>7, <3>1
    <2> HIDE DEF codes
    <2> QED BY <1>1, <2>1
  <1> HIDE DEF codes
  <1>9. /\ f.values \in Seq(all) /\ Len(f.values) = n
        /\ \A j, k \in 1..n : f.values[j] = f.values[k] => j = k
        /\ f.index_map = [k \in 1..n |-> k - 1]
        /\ f.codes \in Seq(0..(n - 1)) /\ Len(f.codes) = Len(x)
        /\ \A i \in 1..Len(x) : f.values[f.codes[i] + 1] = x[i]
    BY <1>3, <1>5, <1>6, <1>7, <1>8
  <1> QED BY <1>9 DEF FrequencyTable, all, f

LEMMA FrequencyGivenBack ==
    ASSUME NEW x \in Seq(Nat), NEW f, FrequencyTable(f, x)
    PROVE  decode_frequency(f.codes, f.values, f.index_map) = x
  <1> DEFINE n == Cardinality(ToSet(x))
             y == decode_frequency(f.codes, f.values, f.index_map)
  <1>1. /\ f.values \in Seq(ToSet(x)) /\ Len(f.values) = n
        /\ f.index_map = [k \in 1..n |-> k - 1]
        /\ f.codes \in Seq(0..(n - 1)) /\ Len(f.codes) = Len(x)
        /\ \A i \in 1..Len(x) : f.values[f.codes[i] + 1] = x[i]
    BY DEF FrequencyTable
  <1>2. n \in Nat
    BY ValuesAre
  <1> HIDE DEF n
  <1>3. DOMAIN f.codes = 1..Len(x) /\ DOMAIN f.values = 1..n
    BY <1>1
  <1>4. y = [i \in 1..Len(x) |-> f.values[CHOOSE k \in DOMAIN f.values : f.index_map[k] = f.codes[i]]]
    BY <1>3 DEF decode_frequency
  <1>5. ASSUME NEW i \in 1..Len(x) PROVE y[i] = x[i]
    <2> DEFINE c == f.codes[i]
               k == CHOOSE j \in DOMAIN f.values : f.index_map[j] = c
    <2>1. c \in 0..(n - 1)
      BY <1>1
    <2> HIDE DEF c
    <2>2. c + 1 \in 1..n /\ (c + 1) - 1 = c
      BY <1>2, <2>1
    <2>3. \E j \in DOMAIN f.values : f.index_map[j] = c
      BY <1>1, <1>3, <2>2
    <2>4. k \in DOMAIN f.values /\ f.index_map[k] = c
      BY <2>3, Zenon
    <2>5. y[i] = f.values[k]
      BY <1>4 DEF c
    <2> HIDE DEF k
    <2>6. k \in 1..n /\ k - 1 = c
      BY <1>1, <1>3, <2>4
    <2>7. k = c + 1
      BY <1>2, <2>1, <2>6
    <2> QED BY <1>1, <2>5, <2>7 DEF c
  <1> HIDE DEF y
  <1>6. DOMAIN y = 1..Len(x)
    BY <1>4
  <1>7. y = [i \in 1..Len(x) |-> y[i]]
    BY <1>4
  <1>8. x = [i \in 1..Len(x) |-> x[i]]
    OBVIOUS
  <1>9. y = x
    BY <1>5, <1>7, <1>8
  <1> QED BY <1>9 DEF y

\* The index map counts up, so that its differences always fit.
LEMMA IndexMapGivenBack ==
    ASSUME NEW n \in Nat, n < Half_of(W32)
    PROVE  LET map == [k \in 1..n |-> k - 1]
           IN  decode_delta_zig_zag_uint32(encode_delta_zig_zag_uint32(map, 0).out, 0) = map
  <1> DEFINE map == [k \in 1..n |-> k - 1]
             d == Deltas(map, 0)
  <1>1. W32 \in Widths /\ Half_of(W32) \in Nat /\ Range_of(W32) = 2 * Half_of(W32)
    BY WidthsAre DEF Widths
  <1>2. map \in Seq(0..(Range_of(W32) - 1)) /\ Len(map) = n /\ map \in Seq(Int)
    <2>1. \A k \in 1..n : k - 1 \in 0..(Range_of(W32) - 1) /\ k - 1 \in Int
      BY <1>1
    <2>2. map \in [1..n -> 0..(Range_of(W32) - 1)] /\ map \in [1..n -> Int]
      BY <2>1
    <2> QED BY <2>2
  <1>3. \A k \in 1..n : map[k] = k - 1
    OBVIOUS
  <1> HIDE DEF map
  <1>4. d \in Seq(Int) /\ Len(d) = n
        /\ \A i \in 1..n : d[i] = map[i] - (IF i = 1 THEN 0 ELSE map[i - 1])
    <2>1. 0 \in Int /\ map \in Seq(Int)
      BY <1>2
    <2>2. /\ Deltas(map, 0) \in Seq(Int) /\ Len(Deltas(map, 0)) = Len(map)
          /\ \A i \in 1..Len(map) : Deltas(map, 0)[i] = map[i] - (IF i = 1 THEN 0 ELSE map[i - 1])
      BY <2>1, DeltasAre, Zenon
    <2> QED BY <1>2, <2>2
  <1> HIDE DEF d
  <1>5. ASSUME NEW i \in 1..n PROVE fits_signed(W32, d[i])
    <2>1. d[i] = map[i] - (IF i = 1 THEN 0 ELSE map[i - 1]) /\ map[i] = i - 1 /\ i \in Int
      BY <1>3, <1>4
    <2>2. CASE i = 1
      <3>1. d[i] = 0
        BY <2>1, <2>2
      <3> QED BY <1>1, <3>1 DEF fits_signed
    <2>3. CASE i # 1
      <3>1. i - 1 \in 1..n
        BY <2>3
      <3>2. map[i - 1] = (i - 1) - 1
        BY <1>3, <3>1
      <3>3. d[i] = 1
        BY <2>1, <2>3, <3>2
      <3>4. 1 < Half_of(W32)
        BY <1>1, <2>3
      <3> QED BY <1>1, <3>3, <3>4 DEF fits_signed
    <2> QED BY <2>2, <2>3
  <1>6. EveryFits(W32, d)
    BY <1>4, <1>5 DEF EveryFits
  <1>7. encode_delta_zig_zag_uint32(map, 0).out = encode_zig_zag(d)
    BY <1>6 DEF encode_delta_zig_zag_uint32, Coded, d
  <1>8. Sums(decode_zig_zag(encode_zig_zag(d)), 0) = map
    BY <1>2, ZigZagExact DEF d
  <1>9. unsigned_all(W32, map) = map
    BY <1>1, <1>2, UnsignedAllSame
  <1>10. decode_delta_zig_zag_uint32(encode_delta_zig_zag_uint32(map, 0).out, 0) = map
    BY <1>7, <1>8, <1>9 DEF decode_delta_zig_zag_uint32
  <1> QED BY <1>10 DEF map

\* A column of codes is unpacked as it was packed.
LEMMA PackedGivenBack ==
    ASSUME NEW w \in Widths, NEW x \in Seq(0..(Range_of(w) - 1)) \ {<<>>}, Len(x) < Half_of(W32)
    PROVE  Unpacked(w, Packed(w, x)) = x
  <1> DEFINE f == encode_frequency(x)
             n == Cardinality(ToSet(x))
             R == Range_of(w)
  <1>1. R \in Nat \ {0} /\ Half_of(W32) \in Nat
    BY WidthsAre DEF Widths
  <1>2. x \in Seq(Nat) /\ DOMAIN x = 1..Len(x) /\ Len(x) \in Nat \ {0}
        /\ \A i \in 1..Len(x) : x[i] \in 0..(R - 1)
    <2> DEFINE S == 0..(R - 1)
    <2>0. x \in Seq(S) /\ x # <<>>
      OBVIOUS
    <2>1. DOMAIN x = 1..Len(x) /\ Len(x) \in Nat \ {0} /\ \A i \in 1..Len(x) : x[i] \in S
      <3> HIDE DEF S
      <3> QED BY <2>0
    <2>2. \A i \in 1..Len(x) : x[i] \in Nat
      BY <1>1, <2>1
    <2> QED BY <2>1, <2>2
  <1>3. FrequencyTable(f, x)
    BY <1>2, FrequencyIs
  <1>4. /\ f.values \in Seq(ToSet(x)) /\ Len(f.values) = n
        /\ f.index_map = [k \in 1..n |-> k - 1]
        /\ f.codes \in Seq(0..(n - 1)) /\ Len(f.codes) = Len(x)
    BY <1>3 DEF FrequencyTable
  <1>5. n \in 0..Len(x) /\ ToSet(x) \subseteq 0..(R - 1)
    <2>1. n \in 0..Len(x) /\ \A v \in ToSet(x) : \E i \in 1..Len(x) : x[i] = v
      BY <1>2, ValuesAre
    <2> QED BY <1>2, <2>1
  <1> DEFINE values == f.values
             codes == f.codes
             map == f.index_map
  <1>6. /\ Packed(w, x).values = encode_delta_sorted(w, values)
        /\ Packed(w, x).index_map = encode_delta_zig_zag_uint32(map, 0).out
        /\ Packed(w, x).codes = encode_zero_with_repeats(codes)
    BY DEF Packed
  <1>7. decode_frequency(codes, values, map) = x
    BY <1>2, <1>3, FrequencyGivenBack
  <1> HIDE DEF values, codes, map, f
  <1>8. values \in Seq(0..(R - 1)) /\ codes \in Seq(0..(n - 1)) /\ Len(codes) = Len(x)
        /\ map = [k \in 1..n |-> k - 1]
    <2>1. values \in Seq(ToSet(x))
      BY <1>4 DEF values
    <2>2. DOMAIN values = 1..Len(values) /\ \A i \in 1..Len(values) : values[i] \in ToSet(x)
      BY <2>1
    <2>3. \A i \in 1..Len(values) : values[i] \in 0..(R - 1)
      BY <1>5, <2>2
    <2>4. values \in Seq(0..(R - 1))
      BY <2>1, <2>3, ElementsIn
    <2> QED BY <1>4, <2>4 DEF codes, map
  <1>9. decode_delta_sorted(w, encode_delta_sorted(w, values)) = values
    <2>1. values \in Seq(Int)
      <3> DEFINE S == 0..(R - 1)
      <3>1. \A i \in 1..Len(values) : values[i] \in S
        <4>1. values \in Seq(S)
          BY <1>8
        <4> HIDE DEF S
        <4> QED BY <4>1
      <3>2. \A i \in 1..Len(values) : values[i] \in Int
        BY <3>1
      <3> QED BY <1>8, <3>2, ElementsIn
    <2>2. DeltasOf(unsigned_all(w, Deltas(values, 0)), R, values, 0)
      BY <2>1, UnsignedDeltas
    <2> QED BY <1>8, <2>2, SumsUnsigned DEF encode_delta_sorted, decode_delta_sorted
  <1>10. decode_delta_zig_zag_uint32(encode_delta_zig_zag_uint32(map, 0).out, 0) = map
    <2>1. n \in Nat /\ n < Half_of(W32)
      BY <1>1, <1>2, <1>5
    <2> HIDE DEF n
    <2> QED BY <1>8, <2>1, IndexMapGivenBack
  <1>11. decode_zero_with_repeats(encode_zero_with_repeats(codes)) = codes
    <2>1. \A i \in 1..Len(codes) : codes[i] \in 0..(n - 1)
      <3> DEFINE S == 0..(n - 1)
      <3>1. codes \in Seq(S)
        BY <1>8
      <3> HIDE DEF S
      <3>2. \A i \in 1..Len(codes) : codes[i] \in S
        BY <3>1
      <3> QED BY <3>2 DEF S
    <2>2. \A i \in 1..Len(codes) : codes[i] \in Nat /\ codes[i] < Half_of(W32)
      BY <1>1, <1>2, <1>5, <2>1
    <2>3. codes \in Seq(Nat)
      BY <1>8, <2>2, ElementsIn
    <2>4. codes # <<>>
      BY <1>2, <1>8
    <2> QED BY <1>8, <2>2, <2>3, <2>4, ZerosGivenBack
  <1> QED BY <1>6, <1>7, <1>9, <1>10, <1>11 DEF Unpacked

\* The low bit of a column picks the width it was packed with.
WidthOf(wide) == IF wide THEN W64 ELSE W32
LEMMA ColumnGivenBack ==
    ASSUME NEW wide \in BOOLEAN, NEW x \in Seq(0..(Range_of(WidthOf(wide)) - 1)) \ {<<>>}, Len(x) < Half_of(W32)
    PROVE  /\ Column(wide, x).wide = wide
           /\ Unpacked(WidthOf(wide), Column(wide, x).packed) = x
  <1>1. WidthOf(wide) \in Widths
    BY DEF WidthOf, Widths
  <1>2. Column(wide, x).wide = wide /\ Column(wide, x).packed = Packed(WidthOf(wide), x)
    BY DEF Column, WidthOf
  <1> QED BY <1>1, <1>2, PackedGivenBack

LEMMA ZigZagAllFit ==
    ASSUME NEW w \in Widths, NEW d \in Seq(Int), EveryFits(w, d)
    PROVE  encode_zig_zag(d) \in Seq(0..(Range_of(w) - 1)) /\ Len(encode_zig_zag(d)) = Len(d)
  <1>1. encode_zig_zag(d) \in Seq(Nat) /\ Len(encode_zig_zag(d)) = Len(d)
    BY ZigZagAll
  <1>2. ASSUME NEW i \in 1..Len(d) PROVE encode_zig_zag(d)[i] \in 0..(Range_of(w) - 1)
    <2>1. d[i] \in Int /\ fits_signed(w, d[i]) /\ i \in DOMAIN d
      BY DEF EveryFits
    <2>2. encode_zig_zag(d)[i] = encode_zig_zag_scalar(d[i])
      BY <2>1 DEF encode_zig_zag
    <2> QED BY <2>1, <2>2, ZigZagFits
  <1> QED BY <1>1, <1>2, ElementsIn

\* Prices, whichever width their differences need.
LEMMA PriceGivenBack ==
    ASSUME NEW x \in Seq(Int) \ {<<>>}, Len(x) < Half_of(W32), EveryFits(W64, x), NEW b \in Int
    PROVE  decode_price_last(encode_price_last(x, b), b) = x
  <1> DEFINE d == Deltas(x, b)
             narrow == encode_last_delta_zig_zag_int32(x, b)
             c == encode_price_last(x, b)
  <1>1. W32 \in Widths /\ W64 \in Widths /\ WidthOf(TRUE) = W64 /\ WidthOf(FALSE) = W32
    BY DEF Widths, WidthOf
  <1>2. d \in Seq(Int) /\ Len(d) = Len(x) /\ Len(x) # 0
    BY DeltasAre
  <1>3. CASE EveryFits(W32, d)
    <2> DEFINE z == encode_zig_zag(d)
    <2>1. z \in Seq(0..(Range_of(W32) - 1)) \ {<<>>} /\ Len(z) < Half_of(W32)
      <3> HIDE DEF d
      <3>1. z \in Seq(0..(Range_of(W32) - 1)) /\ Len(z) = Len(x)
        BY <1>1, <1>2, <1>3, ZigZagAllFit
      <3> HIDE DEF z
      <3>2. z # <<>>
        BY <1>2, <3>1
      <3> QED BY <3>1, <3>2
    <2>2. narrow = Coded(z)
      BY <1>3 DEF encode_last_delta_zig_zag_int32
    <2>3. c = Column(FALSE, z)
      <3>1. narrow.ok = TRUE /\ narrow.out = z
        BY <2>2 DEF Coded
      <3> QED BY <3>1 DEF encode_price_last
    <2>4. Sums(decode_zig_zag(z), b) = x
      BY ZigZagExact
    <2> HIDE DEF z, c
    <2>5. c.wide = FALSE /\ Unpacked(W32, c.packed) = z
      BY <1>1, <2>1, <2>3, ColumnGivenBack
    <2>6. decode_price_last(c, b) = Sums(decode_zig_zag(z), b)
      BY <2>5 DEF decode_price_last, decode_last_delta_zig_zag_int32
    <2> QED BY <2>4, <2>6 DEF c
  <1>4. CASE ~EveryFits(W32, d)
    <2> DEFINE e == signed_all(W64, d)
               z == encode_zig_zag(e)
    <2>1. e \in Seq(Int) /\ Len(e) = Len(x) /\ EveryFits(W64, e)
      <3>1. e \in Seq(Int) /\ Len(e) = Len(x)
        BY <1>1, <1>2, SignedAllIs
      <3>2. ASSUME NEW i \in DOMAIN e PROVE fits_signed(W64, e[i])
        <4>1. i \in DOMAIN d /\ d[i] \in Int /\ e[i] = signed(W64, d[i])
          BY <1>2 DEF signed_all
        <4> QED BY <1>1, <4>1, SignedIs
      <3> QED BY <3>1, <3>2 DEF EveryFits
    <2>2. z \in Seq(0..(Range_of(W64) - 1)) \ {<<>>} /\ Len(z) < Half_of(W32)
      <3> HIDE DEF e
      <3>1. z \in Seq(0..(Range_of(W64) - 1)) /\ Len(z) = Len(x)
        BY <1>1, <2>1, ZigZagAllFit
      <3> HIDE DEF z
      <3>2. z # <<>>
        BY <1>2, <3>1
      <3> QED BY <3>1, <3>2
    <2>3. c = Column(TRUE, z)
      <3>1. narrow = Refused
        BY <1>4 DEF encode_last_delta_zig_zag_int32
      <3>2. narrow.ok = FALSE
        BY <3>1 DEF Refused
      <3>3. encode_last_delta_zig_zag_int64(x, b) = z
        BY DEF encode_last_delta_zig_zag_int64
      <3> QED BY <3>2, <3>3 DEF encode_price_last
    <2>4. signed_all(W64, Sums(decode_zig_zag(z), b)) = x
      BY <1>1, ZigZagSigned
    <2> HIDE DEF z, c
    <2>5. c.wide = TRUE /\ Unpacked(W64, c.packed) = z
      BY <1>1, <2>2, <2>3, ColumnGivenBack
    <2>6. decode_price_last(c, b) = signed_all(W64, Sums(decode_zig_zag(z), b))
      BY <2>5 DEF decode_price_last, decode_last_delta_zig_zag_int64
    <2> QED BY <2>4, <2>6 DEF c
  <1> QED BY <1>3, <1>4

\* Volumes, whichever width the largest one needs.
LEMMA VolumeGivenBack ==
    ASSUME NEW x \in Seq(0..(Range_of(W64) - 1)) \ {<<>>}, Len(x) < Half_of(W32)
    PROVE  decode_volume(encode_volume(x)) = x
  <1> DEFINE big == \E i \in DOMAIN x : x[i] >= Range_of(W32)
             c == encode_volume(x)
  <1>1. W32 \in Widths /\ W64 \in Widths /\ WidthOf(TRUE) = W64 /\ WidthOf(FALSE) = W32
        /\ Range_of(W32) \in Nat /\ Range_of(W64) \in Nat
    BY WidthsAre DEF Widths, WidthOf
  <1>2. CASE ~big
    <2>1. x \in Seq(0..(Range_of(W32) - 1)) \ {<<>>}
      <3> DEFINE S == 0..(Range_of(W64) - 1)
      <3>1. x \in Seq(S) /\ x # <<>>
        OBVIOUS
      <3>2. \A i \in 1..Len(x) : x[i] \in S /\ i \in DOMAIN x
        <4> HIDE DEF S
        <4> QED BY <3>1
      <3>3. \A i \in 1..Len(x) : x[i] \in 0..(Range_of(W32) - 1)
        BY <1>1, <1>2, <3>2
      <3> HIDE DEF S
      <3> QED BY <3>1, <3>3, ElementsIn
    <2>2. scale_volume_int32(x) = Coded(x)
      BY <1>1, <1>2, <2>1, UnsignedAllSame DEF scale_volume_int32
    <2>3. c = Column(FALSE, x)
      BY <2>2 DEF encode_volume, Coded
    <2> HIDE DEF c
    <2>4. c.wide = FALSE /\ Unpacked(W32, c.packed) = x
      BY <1>1, <2>1, <2>3, ColumnGivenBack
    <2> QED BY <2>4 DEF decode_volume, c
  <1>3. CASE big
    <2>1. scale_volume_int32(x) = Refused
      BY <1>3 DEF scale_volume_int32
    <2>2. scale_volume_int64(x) = x
      BY <1>1, UnsignedAllSame DEF scale_volume_int64
    <2>3. c = Column(TRUE, x)
      BY <2>1, <2>2 DEF encode_volume, Refused
    <2> HIDE DEF c
    <2>4. c.wide = TRUE /\ Unpacked(W64, c.packed) = x
      BY <1>1, <2>3, ColumnGivenBack
    <2> QED BY <2>4 DEF decode_volume, c
  <1> QED BY <1>2, <1>3

\* Times: refused just when one goes back; given back when the steps fit.
LEMMA TimesGivenBack ==
    ASSUME NEW x \in Seq(Int) \ {<<>>}, Len(x) < Half_of(W32), NEW b \in Int
    PROVE  /\ encode_time(x, b).ok = ~\E i \in DOMAIN x : Deltas(x, b)[i] < 0
           /\ encode_time(x, b).ok /\ (\A i \in DOMAIN x : Deltas(x, b)[i] < Range_of(W32)) =>
                 decode_time(encode_time(x, b).out[1], b) = x
  <1> DEFINE d == Deltas(x, b)
             u == unsigned_all(W32, d)
             back == \E i \in DOMAIN x : d[i] < 0
             fit == \A i \in DOMAIN x : d[i] < Range_of(W32)
             t == encode_time_delta(x, b)
             c == encode_time(x, b)
  <1>1. /\ t.ok = ~back
        /\ t = IF back THEN Refused ELSE Coded(u)
        /\ ~back /\ fit => /\ u = d
                           /\ d \in Seq(0..(Range_of(W32) - 1))
                           /\ Sums(d, b) = x
    BY TimeDelta
  <1>2. c.ok = t.ok /\ (t.ok => c.out = <<Column(FALSE, t.out)>>)
    BY DEF encode_time
  <1>3. Len(d) = Len(x) /\ Len(x) \in Nat \ {0} /\ d \in Seq(Int)
    BY DeltasAre
  <1>4. WidthOf(FALSE) = W32
    BY DEF WidthOf
  <1>5. ASSUME ~back, fit PROVE decode_time(c.out[1], b) = x
    <2>1. t.out = d /\ d \in Seq(0..(Range_of(W32) - 1)) /\ Sums(d, b) = x /\ t.ok
      <3>1. t = Coded(u) /\ u = d /\ t.ok
        BY <1>1, <1>5
      <3>2. t.out = d
        BY <3>1 DEF Coded
      <3> QED BY <1>1, <1>5, <3>1, <3>2
    <2> HIDE DEF d, t, c
    <2>2. c.out[1] = Column(FALSE, d)
      <3>1. c.out = <<Column(FALSE, d)>>
        BY <1>2, <2>1
      <3> QED BY <3>1
    <2>3. d \in Seq(0..(Range_of(W32) - 1)) \ {<<>>} /\ Len(d) < Half_of(W32)
      BY <1>3, <2>1
    <2>4. Unpacked(W32, Column(FALSE, d).packed) = d
      BY <1>4, <2>3, ColumnGivenBack
    <2> QED BY <2>1, <2>2, <2>4 DEF decode_time, decode_time_delta
  <1>6. c.ok = ~back
    BY <1>1, <1>2
  <1>7. back \in BOOLEAN
    OBVIOUS
  <1> HIDE DEF c, back, fit
  <1>8. c.ok /\ fit => decode_time(c.out[1], b) = x
    BY <1>5, <1>6, <1>7
  <1> QED BY <1>6, <1>8 DEF c, back, fit

\* A column of which nothing is refused.
LEMMA FullColumn ==
    ASSUME NEW x, NEW b, NEW y, NEW name \in {"frequency", "price", "volume"},
           Returns(name, x, b, Coded(y)), y = x
    PROVE  CodecsAreLossless'
  <1>1. op' = name /\ input' = x /\ answer' = Coded(x)
    BY DEF Returns
  <1>2. IntegersAreLossless'
    BY <1>1 DEF IntegersAreLossless, Coders, ScalarChunks
  <1>3. RunsAreLossless'
    BY <1>1 DEF RunsAreLossless
  <1>4. ColumnsAreLossless'
    <2>1. answer'.ok = TRUE /\ answer'.out = input'
      BY <1>1 DEF Coded
    <2>2. ~Refusal'
      BY <1>1 DEF Refusal
    <2> QED BY <2>1, <2>2 DEF ColumnsAreLossless
  <1> QED BY <1>2, <1>3, <1>4 DEF CodecsAreLossless

LEMMA ColumnsStep ==
    ASSUME CodeColumns
    PROVE  CodecsAreLossless'
  <1> DEFINE Frequencies(x) == LET f == encode_frequency(x)
                               IN  Returns("frequency", x, 0, Coded(decode_frequency(f.codes, f.values, f.index_map)))
             CodedTime(x) == LET t == encode_time(x, 0)
                         IN  Returns("time", x, 0, [ok |-> t.ok, out |-> IF t.ok THEN decode_time(t.out[1], 0) ELSE <<>>])
  <1>1. PICK x \in Unsigned \ {<<>>} :
    \/ Frequencies(x)
    \/ /\ \A i \in DOMAIN x : x[i] < Half_of(W64)
       /\ Returns("price", x, x[1], Coded(decode_price_last(encode_price_last(x, x[1]), x[1])))
    \/ Returns("volume", x, 0, Coded(decode_volume(encode_volume(x))))
    \/ CodedTime(x)
    BY DEF CodeColumns
  <1>2. /\ x \in Seq(Nat) /\ x \in Seq(Int) /\ x \in Seq(0..(Range_of(W64) - 1)) /\ x # <<>>
        /\ Len(x) < Half_of(W32) /\ Half_of(W64) \in Nat
    <2>1. Half_of(W32) \in Nat /\ Half_of(W64) \in Nat /\ Len(x) \in 0..(Half_of(W32) - 1)
      BY UnsignedInputs, WidthsAre DEF Widths
    <2>2. x \in Seq(Nat) /\ x \in Seq(Int) /\ x \in Seq(0..(Range_of(W64) - 1)) /\ x # <<>>
      BY UnsignedInputs
    <2> QED BY <2>1, <2>2
  <1>3. CASE Frequencies(x)
    <2> DEFINE f == encode_frequency(x)
               y == decode_frequency(f.codes, f.values, f.index_map)
    <2>1. FrequencyTable(f, x)
      BY <1>2, FrequencyIs
    <2>2. y = x
      <3> HIDE DEF f
      <3> QED BY <1>2, <2>1, FrequencyGivenBack
    <2>3. Returns("frequency", x, 0, Coded(y))
      BY <1>3
    <2> HIDE DEF y
    <2> QED BY <2>2, <2>3, FullColumn
  <1>4. CASE /\ \A i \in DOMAIN x : x[i] < Half_of(W64)
             /\ Returns("price", x, x[1], Coded(decode_price_last(encode_price_last(x, x[1]), x[1])))
    <2>1. EveryFits(W64, x) /\ x[1] \in Int
      <3>1. \A i \in DOMAIN x : x[i] \in Nat
        BY <1>2
      <3>2. 1 \in DOMAIN x
        BY <1>2
      <3> QED BY <1>2, <1>4, <3>1, <3>2 DEF EveryFits, fits_signed
    <2>2. decode_price_last(encode_price_last(x, x[1]), x[1]) = x
      BY <1>2, <2>1, PriceGivenBack
    <2> QED BY <1>4, <2>2, FullColumn
  <1>5. CASE Returns("volume", x, 0, Coded(decode_volume(encode_volume(x))))
    <2>1. decode_volume(encode_volume(x)) = x
      BY <1>2, VolumeGivenBack
    <2> QED BY <1>5, <2>1, FullColumn
  <1>6. CASE CodedTime(x)
    <2> DEFINE t == encode_time(x, 0)
               y == [ok |-> t.ok, out |-> IF t.ok THEN decode_time(t.out[1], 0) ELSE <<>>]
    <2>1. /\ t.ok = ~\E i \in DOMAIN x : Deltas(x, 0)[i] < 0
          /\ t.ok /\ (\A i \in DOMAIN x : Deltas(x, 0)[i] < Range_of(W32)) => decode_time(t.out[1], 0) = x
      BY <1>2, TimesGivenBack
    <2>2. Returns("time", x, 0, y)
      BY <1>6
    <2> HIDE DEF t
    <2>3. y.ok = t.ok /\ (t.ok => y.out = decode_time(t.out[1], 0))
      OBVIOUS
    <2> HIDE DEF y
    <2>4. y.ok = ~\E i \in DOMAIN x : Deltas(x, 0)[i] < 0
      BY <2>1, <2>3
    <2>5. y.ok /\ (\A i \in DOMAIN x : Deltas(x, 0)[i] < Range_of(W32)) => y.out = x
      BY <2>1, <2>3
    <2> QED BY <2>2, <2>4, <2>5, TimeCoder
  <1> QED BY <1>1, <1>3, <1>4, <1>5, <1>6

-----------------------------------------------------------------------------
(* The specification                                                       *)

CodecNames == Coders \cup DOMAIN ScalarChunks \cup RunCoders \cup {"frequency", "price", "volume", "time"}

\* The calls of other functions.
LEMMA OtherCalls ==
    ASSUME op' \notin CodecNames
    PROVE  CodecsAreLossless'
  <1>1. op' \notin Coders' /\ op' \notin DOMAIN ScalarChunks'
    BY DEF CodecNames, Coders, ScalarChunks
  <1>2. IntegersAreLossless'
    BY <1>1 DEF IntegersAreLossless
  <1>3. RunsAreLossless' /\ ColumnsAreLossless'
    BY DEF CodecNames, RunCoders, RunsAreLossless, ColumnsAreLossless
  <1> QED BY <1>2, <1>3 DEF CodecsAreLossless

\* The calls of the functions that are neither codecs nor transforms.
PlainNames == {"symbol_key", "lower_interval", "frame", "name", "account_name", "name_view", "record",
               "packed", "packed_size", "zstd", "metadata", "fixed", "futures", "spot", "bybit"}
LEMMA PlainCalls ==
    ASSUME \/ MakeKeys \/ LookUpFrames
           \/ NameValues \/ WriteRecords \/ PackArrays \/ CompressBytes \/ StoreMetadata
           \/ RoundNumbers \/ ParseTrades
    PROVE  op' \in PlainNames
  <1>1. ASSUME MakeKeys PROVE op' \in PlainNames
    BY <1>1 DEF MakeKeys, Returns, PlainNames
  <1>2. ASSUME LookUpFrames PROVE op' \in PlainNames
    BY <1>2 DEF LookUpFrames, Returns, PlainNames
  <1>5. ASSUME NameValues PROVE op' \in PlainNames
    BY <1>5 DEF NameValues, Returns, PlainNames
  <1>6. ASSUME WriteRecords PROVE op' \in PlainNames
    BY <1>6 DEF WriteRecords, Returns, PlainNames
  <1>7. ASSUME PackArrays PROVE op' \in PlainNames
    BY <1>7 DEF PackArrays, Returns, PlainNames
  <1>8. ASSUME CompressBytes PROVE op' \in PlainNames
    <2>1. PICK data, before \in {<<>>, <<2, 1>>}, dictionary, other \in Dictionaries, n \in {0, 1, 40} :
             \E back \in decompress_zstd_data(FrameBehind(data, before, dictionary), other, before) :
                Returns("zstd", [data |-> data, before |-> before, n |-> n], <<dictionary, other>>,
                        Framed(data, before, dictionary, n, back))
      BY <1>8 DEF CompressBytes
    <2>2. op' = "zstd"
      BY <2>1 DEF Returns
    <2> QED BY <2>2 DEF PlainNames
  <1>9. ASSUME StoreMetadata PROVE op' \in PlainNames
    BY <1>9 DEF StoreMetadata, Returns, PlainNames
  <1>10. ASSUME RoundNumbers PROVE op' \in PlainNames
    BY <1>10 DEF RoundNumbers, Returns, PlainNames
  <1>11. ASSUME ParseTrades PROVE op' \in PlainNames
    BY <1>11 DEF ParseTrades, Returns, PlainNames
  <1> QED BY <1>1, <1>2, <1>5, <1>6, <1>7, <1>8, <1>9, <1>10, <1>11

\* None of the other calls has the name of a codec.
LEMMA OtherNames ==
    ASSUME \/ MakeKeys \/ LookUpFrames \/ TransformBars \/ SplitBars
           \/ NameValues \/ WriteRecords \/ PackArrays \/ CompressBytes \/ StoreMetadata
           \/ RoundNumbers \/ ParseTrades
    PROVE  op' \notin CodecNames
  <1> DEFINE transforms == {"crop", "resample", "fill", "fill_inplace", "split"}
  <1>1. CASE TransformBars
    <2>1. op' \in transforms
      BY <1>1 DEF TransformBars, Returns
    <2> QED BY <2>1 DEF CodecNames, Coders, ScalarChunks, RunCoders
  <1>2. CASE SplitBars
    <2>1. op' \in transforms
      BY <1>2 DEF SplitBars, Returns
    <2> QED BY <2>1 DEF CodecNames, Coders, ScalarChunks, RunCoders
  <1>3. CASE ~(TransformBars \/ SplitBars)
    <2>1. op' \in PlainNames
      BY <1>3, PlainCalls
    <2> QED BY <2>1 DEF PlainNames, CodecNames, Coders, ScalarChunks, RunCoders
  <1> QED BY <1>1, <1>2, <1>3

\* Every codec gives back what it took, for integers of any width and for
\* sequences of any length: zig_zag.hpp, zig_zag_delta.hpp,
\* repeat_encoding.hpp, frequency_encoding.hpp and the columns of
\* TickCompressorV1.
THEOREM CodecsAreLosslessHolds == AlgSpec => []CodecsAreLossless
  <1>1. AlgInit => CodecsAreLossless
    BY DEF AlgInit, CodecsAreLossless, IntegersAreLossless, RunsAreLossless, ColumnsAreLossless,
           Coders, ScalarChunks
  <1>2. ASSUME CodecsAreLossless, [AlgNext \/ ConvNext]_avars PROVE CodecsAreLossless'
    <2>1. CASE UNCHANGED avars
      <3>1. op' = op /\ input' = input /\ base' = base /\ answer' = answer
        BY <2>1 DEF avars
      <3> QED BY <1>2, <3>1 DEF CodecsAreLossless, IntegersAreLossless, RunsAreLossless, ColumnsAreLossless,
                 Coders, ScalarChunks, Refusal, TimesFit, FlatChunks
    <2>2. CASE AlgNext
      BY <2>2, Signed32Step, Signed64Step, Unsigned32Step, Unsigned64Step, RunsStep, ColumnsStep,
         OtherNames, OtherCalls DEF AlgNext
    <2>3. CASE ConvNext
      BY <2>3, OtherNames, OtherCalls DEF ConvNext
    <2> QED BY <1>2, <2>1, <2>2, <2>3
  <1> QED BY <1>1, <1>2, PTL DEF AlgSpec

-----------------------------------------------------------------------------
(* Serializers                                                             *)

\* The configurations a block is written with.
RawConfigs == {c \in CodecConfig : "STORE_RAW_BINARY" \in c.flags /\ c.digits <= MAX_DIGITS}
BarFrameConfigs == {c \in RawConfigs : is_segmentable_timeframe(c.time_frame)}
PackConfigs == {c \in CodecConfig : /\ {"ENABLE_TICK_FLAGS", "TRADE_BASED"} \subseteq c.flags
                                    /\ c.digits <= MAX_DIGITS}
TickLists == TickInputs \ {<<>>}
TimedLists == {ticks \in TickLists : TimeColumn(ticks).ok}

\* What the three formats write.
RawTicks(ticks, c) == Block("raw", ticks, c, c.flags \cap TickHeaderFlags, ticks)
PackedTicks(ticks, c) == Block("compressor", ticks, c, c.flags \cap TickHeaderFlags, Compressed(ticks, c))
RawBars(bars, c) == Block("raw", bars, c, c.flags \ {"STORE_RAW_BINARY"}, bars)
WrittenBlocks == IF kind = "bars" THEN {RawBars(p[1], p[2]) : p \in (BarInputs \ {<<>>}) \X BarFrameConfigs}
          ELSE {RawTicks(p[1], p[2]) : p \in TickLists \X RawConfigs}
               \cup {PackedTicks(p[1], p[2]) : p \in TimedLists \X PackConfigs}

\* A configuration of the compressor that keeps flags is one of trades: no
\* other one selects the compressor.
TradesOnly(c) == "ENABLE_TICK_FLAGS" \in c.flags => "TRADE_BASED" \in c.flags

SInv ==
    /\ kind \in {"ticks", "bars"}
    /\ m_serializer \in Formats \cup {"none"} /\ (kind = "bars" => m_serializer # "compressor")
    /\ m_config \in [Formats -> CodecConfig] /\ TradesOnly(m_config["compressor"])
    /\ output \in Seq(WrittenBlocks)

LEMMA IntervalsAre ==
    ASSUME NEW frame, kind # "ticks" => is_segmentable_timeframe(frame)
    PROVE  base_interval(frame) \in Nat \ {0}
  <1>1. CASE kind = "ticks"
    BY <1>1, IntervalAssumption DEF base_interval
  <1>2. CASE kind # "ticks"
    <2>1. frame \in HourSegmented \cup DaySegmented \cup WeekSegmented
      BY <1>2 DEF is_segmentable_timeframe, Segmentable
    <2>2. get_segment_duration_sec(frame) \in {3600, 86400, 604800}
      BY <2>1 DEF get_segment_duration_sec, HourSegmented, DaySegmented, WeekSegmented
    <2> DEFINE q == get_segment_duration_sec(frame)
    <2>3. q \in Nat \ {0} /\ MS_PER_SEC \in Nat \ {0}
      BY <2>2, MsAssumption
    <2>4. base_interval(frame) = q * MS_PER_SEC
      BY <1>2 DEF base_interval, get_segment_duration_ms, to_ms
    <2> HIDE DEF q
    <2> QED BY <2>3, <2>4
  <1> QED BY <1>1, <1>2

\* A block gives back when its items expire, whatever interval it starts with.
LEMMA BlockIs ==
    ASSUME NEW signature, NEW x, NEW c, NEW flags, NEW fields,
           x[1].time \in Nat, c.expiration \in Int, kind # "ticks" => is_segmentable_timeframe(c.time_frame)
    PROVE  LET b == Block(signature, x, c, flags, fields)
               hour == base_interval(c.time_frame)
           IN  /\ b.signature = signature /\ b.digits = c.digits /\ b.flags = flags
               /\ b.time_frame = c.time_frame /\ b.fields = fields
               /\ b.origin.input = x /\ b.origin.config = c
               /\ base_time(b) = (x[1].time \div hour) * hour /\ base_time(b) \in Int
               /\ base_time(b) + decode_zig_zag_scalar(b.expiration) = c.expiration
  <1> DEFINE b == Block(signature, x, c, flags, fields)
             hour == base_interval(c.time_frame)
             n == x[1].time \div hour
             start == n * hour
  <1>1. hour \in Nat \ {0} /\ x[1].time \in Nat
    BY IntervalsAre
  <1>2. n \in Int /\ start \in Int
    <2> DEFINE t == x[1].time
    <2>1. t \in Nat
      OBVIOUS
    <2> HIDE DEF hour, t
    <2>2. t \div hour \in Int
      BY <1>1, <2>1
    <2> DEFINE m == t \div hour
    <2> HIDE DEF m
    <2>3. m \in Int
      BY <2>2 DEF m
    <2>4. m * hour \in Int
      BY <1>1, <2>3
    <2> QED BY <2>3, <2>4 DEF m, t
  <1>3. b = [signature |-> signature, digits |-> c.digits, flags |-> flags, time_frame |-> c.time_frame,
             base |-> n, fields |-> fields, origin |-> [input |-> x, config |-> c],
             expiration |-> encode_zig_zag_scalar(c.expiration - start)]
    BY DEF Block
  <1> HIDE DEF b, start
  <1>4. base_time(b) = start
    BY <1>3 DEF base_time, start
  <1>5. decode_zig_zag_scalar(encode_zig_zag_scalar(c.expiration - start)) = c.expiration - start
    BY <1>2, ZigZag
  <1>6. base_time(b) + decode_zig_zag_scalar(b.expiration) = c.expiration
    BY <1>2, <1>3, <1>4, <1>5
  <1>7. /\ b.signature = signature /\ b.digits = c.digits /\ b.flags = flags
        /\ b.time_frame = c.time_frame /\ b.fields = fields
        /\ b.origin.input = x /\ b.origin.config = c
    BY <1>3
  <1> QED BY <1>2, <1>4, <1>6, <1>7 DEF b, start

\* The ticks of one call.
LEMMA TickListsAre ==
    ASSUME NEW ticks \in TickLists
    PROVE  /\ ticks \in Seq(MarketTick) /\ Len(ticks) < Half_of(W32) /\ Len(ticks) \in Nat \ {0}
           /\ DOMAIN ticks = 1..Len(ticks)
           /\ \A i \in 1..Len(ticks) :
                /\ ticks[i] \in MarketTick
                /\ ticks[i].last < Half_of(W64) /\ ticks[i].volume < Range_of(W64)
                /\ ticks[i].time - (IF i = 1 THEN (ticks[1].time \div INTERVAL) * INTERVAL
                                    ELSE ticks[i - 1].time) < Range_of(W32)
           /\ ticks[1] \in MarketTick /\ ticks[1].time \in Nat
  <1>1. /\ ticks \in Seq(MarketTick) /\ Len(ticks) < Half_of(W32) /\ ticks # <<>>
        /\ \A i \in DOMAIN ticks :
                /\ ticks[i].last < Half_of(W64) /\ ticks[i].volume < Range_of(W64)
                /\ ticks[i].time - (IF i = 1 THEN (ticks[1].time \div INTERVAL) * INTERVAL
                                    ELSE ticks[i - 1].time) < Range_of(W32)
    BY SerializedAssumption DEF TickLists
  <1>2. DOMAIN ticks = 1..Len(ticks) /\ Len(ticks) \in Nat \ {0} /\ \A i \in 1..Len(ticks) : ticks[i] \in MarketTick
    BY <1>1
  <1>3. ticks[1] \in MarketTick
    BY <1>2
  <1>4. ticks[1].time \in Nat
    BY <1>3 DEF MarketTick
  <1> QED BY <1>1, <1>2, <1>3, <1>4

\* The columns of a block read back.
LEMMA ColumnsReadBack ==
    ASSUME NEW ticks \in TickLists
    PROVE  LET hour == (ticks[1].time \div INTERVAL) * INTERVAL
           IN  /\ decode_price_last(encode_price_last(Column_of(ticks, "last"), ticks[1].last), ticks[1].last)
                     = Column_of(ticks, "last")
               /\ decode_volume(encode_volume(Column_of(ticks, "volume"))) = Column_of(ticks, "volume")
               /\ TimeColumn(ticks).ok =>
                     decode_time(TimeColumn(ticks).out[1], hour) = Column_of(ticks, "time")
  <1> DEFINE n == Len(ticks)
             hour == (ticks[1].time \div INTERVAL) * INTERVAL
             lasts == Column_of(ticks, "last")
             volumes == Column_of(ticks, "volume")
             times == Column_of(ticks, "time")
  <1>1. /\ n < Half_of(W32) /\ n \in Nat \ {0} /\ DOMAIN ticks = 1..n
        /\ \A i \in 1..n : ticks[i] \in MarketTick
        /\ \A i \in 1..n : ticks[i].last < Half_of(W64) /\ ticks[i].volume < Range_of(W64)
        /\ \A i \in 1..n : ticks[i].time - (IF i = 1 THEN hour ELSE ticks[i - 1].time) < Range_of(W32)
        /\ ticks[1].time \in Nat
    BY TickListsAre
  <1>2. \A i \in 1..n : ticks[i].last \in Nat /\ ticks[i].volume \in Nat /\ ticks[i].time \in Nat
    BY <1>1 DEF MarketTick
  <1>3. Half_of(W64) \in Nat /\ Range_of(W64) \in Nat
    BY WidthsAre DEF Widths
  <1>4. hour \in Int
    <2> DEFINE t == ticks[1].time
    <2>1. t \in Nat /\ INTERVAL \in Nat \ {0}
      BY <1>1, IntervalAssumption
    <2> HIDE DEF t
    <2> DEFINE m == t \div INTERVAL
    <2>2. m \in Int
      BY <2>1
    <2> HIDE DEF m
    <2>3. m * INTERVAL \in Int
      BY <2>1, <2>2
    <2> QED BY <2>3 DEF m, t
  <1>5. /\ lasts = [i \in 1..n |-> ticks[i].last]
        /\ volumes = [i \in 1..n |-> ticks[i].volume]
        /\ times = [i \in 1..n |-> ticks[i].time]
    BY <1>1 DEF Column_of
  <1> HIDE DEF lasts, volumes, times, hour
  <1>6. decode_price_last(encode_price_last(lasts, ticks[1].last), ticks[1].last) = lasts
    <2>1. lasts \in Seq(Int) /\ Len(lasts) = n /\ DOMAIN lasts = 1..n
      <3>1. lasts \in [1..n -> Int]
        BY <1>2, <1>5
      <3> QED BY <1>1, <3>1
    <2>2. ASSUME NEW i \in 1..n PROVE fits_signed(W64, lasts[i])
      <3>1. lasts[i] = ticks[i].last
        BY <1>5
      <3>2. lasts[i] \in Nat /\ lasts[i] < Half_of(W64)
        BY <1>1, <1>2, <3>1
      <3> QED BY <1>3, <3>2 DEF fits_signed
    <2>3. EveryFits(W64, lasts)
      BY <2>1, <2>2 DEF EveryFits
    <2>4. lasts # <<>> /\ ticks[1].last \in Int
      BY <1>1, <1>2, <2>1
    <2> QED BY <1>1, <2>1, <2>3, <2>4, PriceGivenBack
  <1>7. decode_volume(encode_volume(volumes)) = volumes
    <2>1. volumes \in Seq(Nat) /\ Len(volumes) = n
      <3>1. volumes \in [1..n -> Nat]
        BY <1>2, <1>5
      <3> QED BY <1>1, <3>1
    <2>2. ASSUME NEW i \in 1..Len(volumes) PROVE volumes[i] \in 0..(Range_of(W64) - 1)
      <3>1. volumes[i] = ticks[i].volume /\ i \in 1..n
        BY <1>5, <2>1
      <3>2. volumes[i] \in Nat /\ volumes[i] < Range_of(W64)
        BY <1>1, <1>2, <3>1
      <3> QED BY <1>3, <3>2
    <2>3. volumes \in Seq(0..(Range_of(W64) - 1))
      BY <2>1, <2>2, ElementsIn
    <2>4. volumes # <<>>
      BY <1>1, <2>1
    <2> QED BY <1>1, <2>1, <2>3, <2>4, VolumeGivenBack
  <1>8. ASSUME TimeColumn(ticks).ok PROVE decode_time(TimeColumn(ticks).out[1], hour) = times
    <2>1. TimeColumn(ticks) = encode_time(times, hour)
      BY DEF TimeColumn, times, hour
    <2>2. times \in Seq(Int) /\ Len(times) = n /\ DOMAIN times = 1..n
      <3>1. times \in [1..n -> Int]
        BY <1>2, <1>5
      <3> QED BY <1>1, <3>1
    <2>3. times # <<>>
      BY <1>1, <2>2
    <2>4. \A i \in DOMAIN times : Deltas(times, hour)[i] < Range_of(W32)
      <3>1. ASSUME NEW i \in 1..n PROVE Deltas(times, hour)[i] < Range_of(W32)
        <4>1. Deltas(times, hour)[i] = times[i] - (IF i = 1 THEN hour ELSE times[i - 1])
          BY <2>2 DEF Deltas
        <4>2. times[i] = ticks[i].time /\ (i # 1 => i - 1 \in 1..n /\ times[i - 1] = ticks[i - 1].time)
          BY <1>1, <1>5
        <4>3. Deltas(times, hour)[i] = ticks[i].time - (IF i = 1 THEN hour ELSE ticks[i - 1].time)
          BY <4>1, <4>2
        <4> QED BY <1>1, <4>3
      <3> QED BY <2>2, <3>1
    <2>5. encode_time(times, hour).ok => decode_time(encode_time(times, hour).out[1], hour) = times
      BY <1>1, <1>4, <2>2, <2>3, <2>4, TimesGivenBack
    <2> QED BY <1>8, <2>1, <2>5
  <1> QED BY <1>6, <1>7, <1>8 DEF lasts, volumes, times, hour

\* What a compressed block gives is what is visible of its ticks.
LEMMA VisibleIs ==
    ASSUME kind = "ticks", NEW ticks \in TimedLists, NEW c \in PackConfigs
    PROVE  Decompressed(PackedTicks(ticks, c)) = Visible(ticks, c)
  <1> DEFINE n == Len(ticks)
             flags == c.flags \cap TickHeaderFlags
             b == Block("compressor", ticks, c, flags, Compressed(ticks, c))
             hour == (ticks[1].time \div INTERVAL) * INTERVAL
             f == b.fields
             sides == Column_of(ticks, "flags")
             last == decode_price_last(f.price, f.initial_price)
             time == decode_time(f.time[1], base_time(b))
             side == decode_side_flags(f.side)
             volume == IF f.volume = <<>> THEN [i \in DOMAIN last |-> 0] ELSE decode_volume(f.volume[1])
             marks(i) == (IF i = 1 /\ f.last_updated THEN {"LAST_UPDATED"} ELSE {})
                         \cup (IF f.volume = <<>> THEN {} ELSE {"VOLUME_UPDATED"})
             seen(i) == IF "ENABLE_TICK_FLAGS" \in b.flags THEN side[i] \cup marks(i) ELSE {}
  <1>1. /\ ticks \in TickLists /\ TimeColumn(ticks).ok
        /\ n \in Nat \ {0} /\ DOMAIN ticks = 1..n /\ ticks[1].time \in Nat
    BY TickListsAre DEF TimedLists
  <1>2. c.expiration \in Int /\ "ENABLE_TICK_FLAGS" \in c.flags
    BY DEF PackConfigs, CodecConfig
  <1>3. base_interval(c.time_frame) = INTERVAL
    BY DEF base_interval
  <1>4. b.flags = flags /\ b.fields = Compressed(ticks, c) /\ base_time(b) = hour
    BY <1>1, <1>2, <1>3, BlockIs
  <1>5. Decompressed(b) = [i \in DOMAIN last |-> [time |-> time[i], last |-> last[i], volume |-> volume[i],
                                                  flags |-> seen(i)]]
    BY DEF Decompressed
  <1>6. PackedTicks(ticks, c) = b
    BY DEF PackedTicks
  <1> HIDE DEF b, flags, hour
  <1>7. /\ f.price = encode_price_last(Column_of(ticks, "last"), ticks[1].last)
        /\ f.initial_price = ticks[1].last
        /\ f.volume = IF "ENABLE_VOLUME" \in c.flags THEN <<encode_volume(Column_of(ticks, "volume"))>> ELSE <<>>
        /\ f.time = TimeColumn(ticks).out
        /\ f.side = encode_side_flags(sides)
        /\ f.last_updated = ("LAST_UPDATED" \in ticks[1].flags)
    BY <1>4 DEF Compressed
  <1>8. last = Column_of(ticks, "last") /\ time = Column_of(ticks, "time")
        /\ decode_volume(encode_volume(Column_of(ticks, "volume"))) = Column_of(ticks, "volume")
    BY <1>1, <1>4, <1>7, ColumnsReadBack DEF hour
  <1>9. DOMAIN last = 1..n /\ \A i \in 1..n : last[i] = ticks[i].last /\ time[i] = ticks[i].time
    <2> HIDE DEF last, time
    <2> QED BY <1>1, <1>8 DEF Column_of
  <1>10. ASSUME NEW i \in 1..n
         PROVE  volume[i] = IF "ENABLE_VOLUME" \in c.flags THEN ticks[i].volume ELSE 0
    <2>1. CASE "ENABLE_VOLUME" \in c.flags
      <3>1. f.volume # <<>> /\ f.volume[1] = encode_volume(Column_of(ticks, "volume"))
        <4> DEFINE v == encode_volume(Column_of(ticks, "volume"))
        <4>1. f.volume = <<v>>
          BY <1>7, <2>1
        <4> HIDE DEF v, f
        <4>2. f.volume # <<>> /\ f.volume[1] = v
          BY <4>1
        <4> QED BY <4>2 DEF v
      <3>2. volume = Column_of(ticks, "volume")
        BY <1>8, <3>1
      <3>3. Column_of(ticks, "volume")[i] = ticks[i].volume
        BY <1>1 DEF Column_of
      <3> QED BY <2>1, <3>2, <3>3
    <2>2. CASE "ENABLE_VOLUME" \notin c.flags
      <3>1. f.volume = <<>>
        BY <1>7, <2>2
      <3> HIDE DEF f, last
      <3>2. volume = [j \in DOMAIN last |-> 0]
        BY <3>1
      <3> QED BY <1>9, <2>2, <3>2
    <2> QED BY <2>1, <2>2
  <1>11. ASSUME NEW i \in 1..n
         PROVE  seen(i) = (IF "TICK_FROM_BUY" \in ticks[i].flags THEN {"TICK_FROM_BUY"} ELSE {"TICK_FROM_SELL"})
                          \cup (IF i = 1 THEN ticks[i].flags \cap {"LAST_UPDATED"} ELSE {})
                          \cup (IF "ENABLE_VOLUME" \in c.flags THEN {"VOLUME_UPDATED"} ELSE {})
    <2>1. "ENABLE_TICK_FLAGS" \in b.flags
      BY <1>2, <1>4 DEF flags, TickHeaderFlags
    <2>2. side[i] = IF "TICK_FROM_BUY" \in ticks[i].flags THEN {"TICK_FROM_BUY"} ELSE {"TICK_FROM_SELL"}
      <3>1. side = decode_side_flags(encode_side_flags(sides))
        BY <1>7
      <3>2. DOMAIN sides = 1..n /\ sides[i] = ticks[i].flags
        BY <1>1 DEF Column_of
      <3> HIDE DEF side, sides
      <3> QED BY <3>1, <3>2 DEF decode_side_flags, encode_side_flags
    <2>3. marks(i) = (IF i = 1 THEN ticks[i].flags \cap {"LAST_UPDATED"} ELSE {})
                     \cup (IF "ENABLE_VOLUME" \in c.flags THEN {"VOLUME_UPDATED"} ELSE {})
      <3> DEFINE v == encode_volume(Column_of(ticks, "volume"))
      <3>1. f.volume = IF "ENABLE_VOLUME" \in c.flags THEN <<v>> ELSE <<>>
        BY <1>7
      <3>2. f.last_updated = ("LAST_UPDATED" \in ticks[1].flags)
        BY <1>7
      <3> HIDE DEF v, f
      <3>3. (f.volume = <<>>) <=> "ENABLE_VOLUME" \notin c.flags
        BY <3>1
      <3>4. (IF i = 1 /\ f.last_updated THEN {"LAST_UPDATED"} ELSE {})
             = (IF i = 1 THEN ticks[i].flags \cap {"LAST_UPDATED"} ELSE {})
        BY <3>2
      <3> QED BY <3>3, <3>4
    <2> HIDE DEF side, marks
    <2> QED BY <2>1, <2>2, <2>3
  <1> DEFINE read(i) == [time |-> time[i], last |-> last[i], volume |-> volume[i], flags |-> seen(i)]
             shown(i) == [time |-> ticks[i].time, last |-> ticks[i].last,
                          volume |-> IF "ENABLE_VOLUME" \in c.flags THEN ticks[i].volume ELSE 0,
                          flags |-> (IF "TICK_FROM_BUY" \in ticks[i].flags THEN {"TICK_FROM_BUY"} ELSE {"TICK_FROM_SELL"})
                                    \cup (IF i = 1 THEN ticks[i].flags \cap {"LAST_UPDATED"} ELSE {})
                                    \cup (IF "ENABLE_VOLUME" \in c.flags THEN {"VOLUME_UPDATED"} ELSE {})]
  <1>12. ASSUME NEW i \in 1..n PROVE read(i) = shown(i)
    <2> HIDE DEF last, time, volume, seen
    <2> QED BY <1>9, <1>10, <1>11
  <1>13. Visible(ticks, c) = [i \in 1..n |-> shown(i)]
    BY <1>1 DEF Visible
  <1>14. Decompressed(b) = [i \in 1..n |-> read(i)]
    <2> HIDE DEF last, time, volume, seen
    <2> QED BY <1>5, <1>9
  <1> HIDE DEF read, shown
  <1> QED BY <1>6, <1>12, <1>13, <1>14

LEMMA SerializedIs ==
    ASSUME SInv, NEW f \in Formats, NEW x \in Inputs, NEW c \in CodecConfig,
           f = "compressor" => TradesOnly(c), NEW buffer \in Seq(WrittenBlocks)
    PROVE  LET r == Serialized(f, x, c, buffer)
           IN  r.out \in Seq(WrittenBlocks) /\ (~r.ok => r.out = buffer)
  <1> DEFINE r == Serialized(f, x, c, buffer)
             Good(s) == s.out \in Seq(WrittenBlocks) /\ (~s.ok => s.out = buffer)
  <1>1. Good(Wrote(buffer)) /\ Good(Threw(buffer))
    BY DEF Wrote, Threw
  <1>2. ASSUME NEW b \in WrittenBlocks PROVE Good(Wrote(<<b>>)) /\ Good(Wrote(Append(buffer, b)))
    <2> HIDE DEF WrittenBlocks
    <2>1. <<b>> \in Seq(WrittenBlocks) /\ Append(buffer, b) \in Seq(WrittenBlocks)
      OBVIOUS
    <2> QED BY <2>1 DEF Wrote
  <1>0. (c.digits > MAX_DIGITS) <=> ~(c.digits <= MAX_DIGITS)
    <2>1. c.digits \in Nat
      BY DEF CodecConfig
    <2> QED BY <2>1, IntervalAssumption
  <1>3. CASE kind = "bars"
    <2>1. r = SerializeRawBars(x, c, buffer)
      BY <1>3 DEF Serialized
    <2>2. CASE x # <<>> /\ c \in BarFrameConfigs
      <3>1. RawBars(x, c) \in WrittenBlocks
        <4>1. x \in BarInputs \ {<<>>} /\ <<x, c>> \in (BarInputs \ {<<>>}) \X BarFrameConfigs
          BY <1>3, <2>2 DEF Inputs
        <4> DEFINE p == <<x, c>>
        <4>2. p[1] = x /\ p[2] = c
          OBVIOUS
        <4> HIDE DEF p
        <4>3. RawBars(p[1], p[2]) \in WrittenBlocks
          BY <1>3, <4>1 DEF WrittenBlocks, p
        <4> QED BY <4>2, <4>3
      <3> HIDE DEF Good
      <3>2. r = Wrote(<<RawBars(x, c)>>)
        BY <1>0, <2>1, <2>2 DEF SerializeRawBars, RawBars, BarFrameConfigs, RawConfigs
      <3> QED BY <1>2, <3>1, <3>2 DEF Good
    <2>3. CASE ~(x # <<>> /\ c \in BarFrameConfigs)
      <3>1. r = Wrote(buffer) \/ r = Threw(buffer)
        BY <1>0, <2>1, <2>3 DEF SerializeRawBars, BarFrameConfigs, RawConfigs
      <3> QED BY <1>1, <3>1
    <2> QED BY <2>2, <2>3
  <1>4. CASE kind = "ticks" /\ f = "raw"
    <2>1. r = SerializeRawTicks(x, c, buffer)
      BY <1>4 DEF Serialized
    <2>2. CASE x # <<>> /\ c \in RawConfigs
      <3>1. RawTicks(x, c) \in WrittenBlocks
        <4>1. <<x, c>> \in TickLists \X RawConfigs
          BY <1>4, <2>2 DEF Inputs, TickLists
        <4> DEFINE p == <<x, c>>
        <4>2. p[1] = x /\ p[2] = c
          OBVIOUS
        <4> HIDE DEF p
        <4>3. RawTicks(p[1], p[2]) \in WrittenBlocks
          BY <1>4, <4>1 DEF WrittenBlocks, p
        <4> QED BY <4>2, <4>3
      <3>2. r = Wrote(<<RawTicks(x, c)>>)
        BY <1>0, <2>1, <2>2 DEF SerializeRawTicks, RawTicks, RawConfigs
      <3> QED BY <1>2, <3>1, <3>2
    <2>3. CASE ~(x # <<>> /\ c \in RawConfigs)
      <3>1. r = Wrote(buffer) \/ r = Threw(buffer)
        BY <1>0, <2>1, <2>3 DEF SerializeRawTicks, RawConfigs
      <3> QED BY <1>1, <3>1
    <2> QED BY <2>2, <2>3
  <1>5. CASE kind = "ticks" /\ f = "compressor"
    <2>1. r = compress(x, c, buffer)
      BY <1>5 DEF Serialized
    <2>2. CASE x # <<>> /\ TimeColumn(x).ok /\ c \in PackConfigs
      <3>1. PackedTicks(x, c) \in WrittenBlocks
        <4>1. <<x, c>> \in TimedLists \X PackConfigs
          BY <1>5, <2>2 DEF Inputs, TickLists, TimedLists
        <4> DEFINE p == <<x, c>>
        <4>2. p[1] = x /\ p[2] = c
          OBVIOUS
        <4> HIDE DEF p
        <4>3. PackedTicks(p[1], p[2]) \in WrittenBlocks
          BY <1>5, <4>1 DEF WrittenBlocks, p
        <4> QED BY <4>2, <4>3
      <3>2. r = Wrote(Append(buffer, PackedTicks(x, c)))
        BY <1>0, <2>1, <2>2 DEF compress, PackedTicks, PackConfigs
      <3> QED BY <1>2, <3>1, <3>2
    <2>3. CASE ~(x # <<>> /\ TimeColumn(x).ok /\ c \in PackConfigs)
      <3>1. r = Wrote(buffer) \/ r = Threw(buffer)
        BY <1>0, <1>5, <2>1, <2>3 DEF compress, PackConfigs, TradesOnly
      <3> QED BY <1>1, <3>1
    <2> QED BY <2>2, <2>3
  <1>6. kind \in {"ticks", "bars"} /\ f \in {"raw", "compressor"}
    BY DEF SInv, Formats
  <1> QED BY <1>3, <1>4, <1>5, <1>6

\* What a read of a block gives.
ReadsBack(b, r, into) ==
    LET origin == b.origin
    IN  /\ r.config \in CodecConfig
        /\ b.signature \in Formats /\ (kind = "bars" => b.signature = "raw")
        /\ b.signature = "compressor" => TradesOnly(r.config)
        /\ r.items = IF b.signature = "raw" THEN origin.input
                     ELSE into \o Visible(origin.input, origin.config)
        /\ r.config.digits = origin.config.digits /\ r.config.expiration = origin.config.expiration
        /\ kind = "bars" => r.config.time_frame = origin.config.time_frame
        /\ b.signature = "compressor" => r.config.tick_size = origin.config.tick_size
        /\ kind = "ticks" => /\ select_serializer(r.config) = b.signature
                             /\ Serialized(b.signature, origin.input, r.config, <<>>).ok

LEMMA HeaderIs ==
    ASSUME NEW signature, NEW x, NEW k \in CodecConfig, NEW flags \in SUBSET k.flags, NEW fields, NEW c \in CodecConfig,
           x[1].time \in Nat, kind # "ticks" => is_segmentable_timeframe(k.time_frame)
    PROVE  LET b == Block(signature, x, k, flags, fields)
               h == FromHeader(b, c)
           IN  /\ h \in CodecConfig /\ h.flags = flags /\ h.digits = k.digits
               /\ h.expiration = k.expiration /\ h.tick_size = c.tick_size
  <1> DEFINE b == Block(signature, x, k, flags, fields)
             h == FromHeader(b, c)
             e == base_time(b) + decode_zig_zag_scalar(b.expiration)
  <1>1. k.flags \in SUBSET (TickStorageFlags \cup BarStorageFlags) /\ k.digits \in Nat /\ k.expiration \in Int
    BY DEF CodecConfig
  <1>2. b.flags = flags /\ b.digits = k.digits /\ e = k.expiration
    BY <1>1, BlockIs
  <1>3. h = [c EXCEPT !.flags = b.flags, !.digits = b.digits, !.expiration = e]
    BY DEF FromHeader
  <1> HIDE DEF b, h, e
  <1>4. h = [c EXCEPT !.flags = flags, !.digits = k.digits, !.expiration = k.expiration]
    BY <1>2, <1>3
  <1>5. h \in CodecConfig /\ h.flags = flags /\ h.digits = k.digits
        /\ h.expiration = k.expiration /\ h.tick_size = c.tick_size
    BY <1>1, <1>4 DEF CodecConfig
  <1> QED BY <1>5 DEF b, h

LEMMA BarsReadBack ==
    ASSUME kind = "bars", NEW x \in BarInputs \ {<<>>}, NEW k \in BarFrameConfigs, NEW c \in CodecConfig, NEW into
    PROVE  ReadsBack(RawBars(x, k), Deserialized(RawBars(x, k), c, into), into)
  <1> DEFINE flags == k.flags \ {"STORE_RAW_BINARY"}
             b == Block("raw", x, k, flags, x)
             h == FromHeader(b, c)
             r == DeserializeRawBars(b, c, into)
  <1>1. /\ k \in CodecConfig /\ is_segmentable_timeframe(k.time_frame) /\ x[1].time \in Nat
        /\ k.expiration \in Int /\ k.time_frame \in Nat /\ flags \in SUBSET k.flags
    BY SerializedAssumption DEF BarFrameConfigs, RawConfigs, CodecConfig
  <1>2. RawBars(x, k) = b /\ Deserialized(b, c, into) = r
    BY DEF RawBars, Deserialized
  <1>3. /\ b.signature = "raw" /\ b.time_frame = k.time_frame /\ b.fields = x
        /\ b.origin.input = x /\ b.origin.config = k
    BY <1>1, BlockIs
  <1>4. h \in CodecConfig /\ h.digits = k.digits /\ h.expiration = k.expiration
    <2> HIDE DEF flags
    <2> QED BY <1>1, HeaderIs
  <1>5. r = [config |-> [h EXCEPT !.time_frame = b.time_frame], items |-> b.fields]
    BY DEF DeserializeRawBars
  <1> HIDE DEF b, h, r
  <1>6. /\ r.config \in CodecConfig /\ r.items = x /\ r.config.digits = k.digits
        /\ r.config.expiration = k.expiration /\ r.config.time_frame = k.time_frame
    BY <1>1, <1>3, <1>4, <1>5 DEF CodecConfig
  <1>7. ReadsBack(b, r, into)
    BY <1>3, <1>6 DEF ReadsBack, Formats
  <1> QED BY <1>2, <1>7

LEMMA RawTicksReadBack ==
    ASSUME kind = "ticks", NEW x \in TickLists, NEW k \in RawConfigs, NEW c \in CodecConfig, NEW into
    PROVE  ReadsBack(RawTicks(x, k), Deserialized(RawTicks(x, k), c, into), into)
  <1> DEFINE flags == k.flags \cap TickHeaderFlags
             b == Block("raw", x, k, flags, x)
             h == FromHeader(b, c)
             r == DeserializeRawTicks(b, c, into)
  <1>1. /\ k \in CodecConfig /\ x[1].time \in Nat /\ k.digits \in Nat /\ k.digits <= MAX_DIGITS
        /\ k.expiration \in Int /\ flags \in SUBSET k.flags
    BY TickListsAre DEF RawConfigs, CodecConfig
  <1>2. RawTicks(x, k) = b /\ b.signature = "raw" /\ b.fields = x
        /\ b.origin.input = x /\ b.origin.config = k
    BY <1>1, BlockIs DEF RawTicks
  <1>3. Deserialized(b, c, into) = r
    BY <1>2 DEF Deserialized
  <1>4. h \in CodecConfig /\ h.digits = k.digits /\ h.expiration = k.expiration
    <2> HIDE DEF flags
    <2> QED BY <1>1, HeaderIs
  <1>5. r = [config |-> [h EXCEPT !.flags = @ \cup {"STORE_RAW_BINARY"}], items |-> b.fields]
    BY DEF DeserializeRawTicks
  <1> HIDE DEF b, h, r
  <1>6. /\ r.config \in CodecConfig /\ r.items = x /\ r.config.digits = k.digits
        /\ r.config.expiration = k.expiration /\ "STORE_RAW_BINARY" \in r.config.flags
    <2> DEFINE kept == h.flags \cup {"STORE_RAW_BINARY"}
    <2>1. kept \in SUBSET (TickStorageFlags \cup BarStorageFlags) /\ "STORE_RAW_BINARY" \in kept
      BY <1>4 DEF CodecConfig, TickStorageFlags
    <2>2. r.config = [h EXCEPT !.flags = kept] /\ r.items = x
      BY <1>2, <1>4, <1>5 DEF CodecConfig
    <2> HIDE DEF kept
    <2>3. r.config \in CodecConfig
      BY <1>4, <2>1, <2>2 DEF CodecConfig
    <2>4. r.config.flags = kept /\ r.config.digits = h.digits /\ r.config.expiration = h.expiration
      BY <1>4, <2>2 DEF CodecConfig
    <2> QED BY <1>4, <2>1, <2>2, <2>3, <2>4
  <1>7. select_serializer(r.config) = "raw"
    BY <1>6 DEF select_serializer, SelectTicks
  <1>8. Serialized("raw", x, r.config, <<>>).ok
    <2>1. Serialized("raw", x, r.config, <<>>) = SerializeRawTicks(x, r.config, <<>>)
      BY DEF Serialized
    <2>2. ~(r.config.digits > MAX_DIGITS)
      BY <1>1, <1>6, IntervalAssumption
    <2>3. SerializeRawTicks(x, r.config, <<>>).ok
      BY <1>6, <2>2 DEF SerializeRawTicks, Wrote
    <2> QED BY <2>1, <2>3
  <1>9. ReadsBack(b, r, into)
    BY <1>2, <1>6, <1>7, <1>8 DEF ReadsBack, Formats
  <1> QED BY <1>2, <1>3, <1>9

LEMMA PackedTicksReadBack ==
    ASSUME kind = "ticks", NEW x \in TimedLists, NEW k \in PackConfigs, NEW c \in CodecConfig, NEW into
    PROVE  ReadsBack(PackedTicks(x, k), Deserialized(PackedTicks(x, k), c, into), into)
  <1> DEFINE flags == k.flags \cap TickHeaderFlags
             fields == Compressed(x, k)
             b == Block("compressor", x, k, flags, fields)
             h == FromHeader(b, c)
             r == decompress(b, c, into)
  <1>1. /\ k \in CodecConfig /\ x \in TickLists /\ TimeColumn(x).ok
        /\ x[1].time \in Nat /\ k.digits \in Nat /\ k.digits <= MAX_DIGITS /\ k.tick_size \in Nat
        /\ k.expiration \in Int /\ flags \in SUBSET k.flags
        /\ {"ENABLE_TICK_FLAGS", "TRADE_BASED"} \subseteq flags /\ "STORE_RAW_BINARY" \notin flags
    BY TickListsAre DEF PackConfigs, CodecConfig, TimedLists, TickHeaderFlags
  <1>2. PackedTicks(x, k) = b /\ b.signature = "compressor" /\ b.fields = fields
        /\ b.origin.input = x /\ b.origin.config = k
    <2> HIDE DEF fields
    <2>1. /\ b.signature = "compressor" /\ b.fields = fields
          /\ b.origin.input = x /\ b.origin.config = k
      BY <1>1, BlockIs
    <2> QED BY <2>1 DEF PackedTicks, fields
  <1>3. Deserialized(b, c, into) = r
    BY <1>2 DEF Deserialized
  <1>4. h \in CodecConfig /\ h.digits = k.digits /\ h.expiration = k.expiration /\ h.flags = flags
    <2> HIDE DEF flags, fields
    <2> QED BY <1>1, HeaderIs
  <1>5. fields.tick_size = k.tick_size
    BY DEF Compressed
  <1>6. r = [config |-> [h EXCEPT !.tick_size = b.fields.tick_size], items |-> into \o Decompressed(b)]
    BY DEF decompress
  <1> HIDE DEF b, h, r, fields, flags
  <1>7. Decompressed(b) = Visible(x, k)
    BY <1>2, VisibleIs
  <1>8. r.config = [h EXCEPT !.tick_size = k.tick_size] /\ r.items = into \o Visible(x, k)
    BY <1>2, <1>5, <1>6, <1>7
  <1>9. /\ r.config \in CodecConfig /\ r.config.digits = k.digits /\ r.config.tick_size = k.tick_size
        /\ r.config.expiration = k.expiration /\ r.config.flags = flags
    BY <1>1, <1>4, <1>8 DEF CodecConfig
  <1>10. select_serializer(r.config) = "compressor" /\ TradesOnly(r.config)
    BY <1>1, <1>9 DEF select_serializer, SelectTicks, TradesOnly
  <1>11. Serialized("compressor", x, r.config, <<>>).ok
    <2>1. Serialized("compressor", x, r.config, <<>>) = compress(x, r.config, <<>>)
      BY DEF Serialized
    <2>2. ~(r.config.digits > MAX_DIGITS)
      BY <1>1, <1>9, IntervalAssumption
    <2>3. compress(x, r.config, <<>>).ok
      BY <1>1, <1>9, <2>2 DEF compress, Wrote
    <2> QED BY <2>1, <2>3
  <1>12. ReadsBack(b, r, into)
    BY <1>2, <1>8, <1>9, <1>10, <1>11 DEF ReadsBack, Formats
  <1> QED BY <1>2, <1>3, <1>12

LEMMA DeserializedIs ==
    ASSUME kind \in {"ticks", "bars"}, NEW b \in WrittenBlocks, NEW c \in CodecConfig, NEW into
    PROVE  ReadsBack(b, Deserialized(b, c, into), into)
  <1>1. CASE kind = "bars"
    <2>1. PICK p \in (BarInputs \ {<<>>}) \X BarFrameConfigs : b = RawBars(p[1], p[2])
      BY <1>1 DEF WrittenBlocks
    <2> QED BY <1>1, <2>1, BarsReadBack
  <1>2. CASE kind = "ticks"
    <2>1. \/ \E p \in TickLists \X RawConfigs : b = RawTicks(p[1], p[2])
          \/ \E p \in TimedLists \X PackConfigs : b = PackedTicks(p[1], p[2])
      BY <1>2 DEF WrittenBlocks
    <2>2. ASSUME NEW p \in TickLists \X RawConfigs, b = RawTicks(p[1], p[2])
          PROVE  ReadsBack(b, Deserialized(b, c, into), into)
      BY <1>2, <2>2, RawTicksReadBack
    <2>3. ASSUME NEW p \in TimedLists \X PackConfigs, b = PackedTicks(p[1], p[2])
          PROVE  ReadsBack(b, Deserialized(b, c, into), into)
      BY <1>2, <2>3, PackedTicksReadBack
    <2> QED BY <2>1, <2>2, <2>3
  <1> QED BY <1>1, <1>2

\* WrittenBlocks of one kind stay blocks: what one is depends on the kind alone.
LEMMA BlocksStay ==
    ASSUME kind' = kind
    PROVE  WrittenBlocks' = WrittenBlocks
  <1>1. CASE kind = "bars"
    <2>1. \A p \in (BarInputs \ {<<>>}) \X BarFrameConfigs : RawBars(p[1], p[2])' = RawBars(p[1], p[2])
      BY DEF RawBars, Block, base_interval
    <2> QED BY <1>1, <2>1 DEF WrittenBlocks
  <1>2. CASE kind # "bars"
    <2>1. \A p \in TickLists \X RawConfigs : RawTicks(p[1], p[2])' = RawTicks(p[1], p[2])
      BY DEF RawTicks, Block, base_interval
    <2>2. \A p \in TimedLists \X PackConfigs : PackedTicks(p[1], p[2])' = PackedTicks(p[1], p[2])
      BY DEF PackedTicks, Block, base_interval
    <2> QED BY <1>2, <2>1, <2>2 DEF WrittenBlocks
  <1> QED BY <1>1, <1>2

\* What is kept: the promises, and a read leaves a format selected.
Exact == SerializersAreExact /\ (call.name = "deserialize" /\ call.ok => m_serializer \in Formats)

\* The calls of serialize() for ticks that return.
Writable(f, ticks, c) ==
    \/ ticks = <<>>
    \/ /\ ~(c.digits > MAX_DIGITS)
       /\ f = "raw" => "STORE_RAW_BINARY" \in c.flags
       /\ f = "compressor" => "ENABLE_TICK_FLAGS" \in c.flags /\ TimeColumn(ticks).ok

LEMMA WritableIs ==
    ASSUME kind = "ticks", NEW f \in Formats, NEW ticks, NEW c
    PROVE  Serialized(f, ticks, c, <<>>).ok <=> Writable(f, ticks, c)
  BY DEF Serialized, SerializeRawTicks, compress, Writable, Wrote, Threw, Formats

LEMMA ConfigsAre ==
    ASSUME SInv
    PROVE  /\ Configs \subseteq CodecConfig /\ DefaultConfig \in CodecConfig
           /\ \A c \in CodecConfig :
                /\ select_serializer(c) \in Formats \cup {"none"}
                /\ select_serializer(c) = "compressor" => TradesOnly(c)
                /\ kind = "bars" => select_serializer(c) # "compressor"
  <1>1. Configs \subseteq CodecConfig
    BY SerializedAssumption DEF Configs
  <1>2. DefaultConfig \in CodecConfig
    BY DEF DefaultConfig, CodecConfig
  <1>3. ASSUME NEW c \in CodecConfig
        PROVE  /\ select_serializer(c) \in Formats \cup {"none"}
               /\ select_serializer(c) = "compressor" => TradesOnly(c)
               /\ kind = "bars" => select_serializer(c) # "compressor"
    BY DEF select_serializer, SelectTicks, SelectBars, Formats, TradesOnly, SInv
  <1> QED BY <1>1, <1>2, <1>3

\* The serializer that f and the configuration c leave behind.
LEMMA Selected ==
    ASSUME SInv, NEW c \in CodecConfig, kind' = kind,
           m_serializer' = IF select_serializer(c) = "none" THEN m_serializer ELSE select_serializer(c),
           m_config' = IF select_serializer(c) = "none" THEN m_config
                       ELSE [m_config EXCEPT ![select_serializer(c)] = c],
           output' \in Seq(WrittenBlocks)
    PROVE  SInv'
  <1> DEFINE f == select_serializer(c)
  <1>1. /\ f \in Formats \cup {"none"} /\ (f = "compressor" => TradesOnly(c))
        /\ (kind = "bars" => f # "compressor")
    BY ConfigsAre
  <1>2. /\ m_serializer' = IF f = "none" THEN m_serializer ELSE f
        /\ m_config' = IF f = "none" THEN m_config ELSE [m_config EXCEPT ![f] = c]
    OBVIOUS
  <1> HIDE DEF f
  <1>3. /\ kind' \in {"ticks", "bars"}
        /\ m_serializer' \in Formats \cup {"none"} /\ (kind' = "bars" => m_serializer' # "compressor")
    BY <1>1, <1>2 DEF SInv
  <1>4. m_config' \in [Formats -> CodecConfig]
    BY <1>1, <1>2 DEF SInv
  <1>5. TradesOnly(m_config'["compressor"])
    <2>1. m_config'["compressor"] \in {m_config["compressor"], c}
          /\ (m_config'["compressor"] # m_config["compressor"] => f = "compressor")
      <3>1. "compressor" \in Formats /\ m_config \in [Formats -> CodecConfig]
        BY DEF Formats, SInv
      <3> QED BY <1>1, <1>2, <3>1
    <2>2. TradesOnly(m_config["compressor"])
      BY DEF SInv
    <2>3. CASE m_config'["compressor"] = m_config["compressor"]
      BY <2>2, <2>3 DEF TradesOnly
    <2>4. CASE m_config'["compressor"] # m_config["compressor"]
      BY <1>1, <2>1, <2>4 DEF TradesOnly
    <2> QED BY <2>3, <2>4
  <1>6. output' \in Seq(WrittenBlocks')
    BY BlocksStay
  <1> QED BY <1>3, <1>4, <1>5, <1>6 DEF SInv, TradesOnly

LEMMA WriteStep ==
    ASSUME SInv, NEW f \in Formats \cup {"none"}, NEW x \in Inputs, NEW c \in CodecConfig,
           f = "compressor" => TradesOnly(c), NEW buffer \in {<<>>, output},
           Write(f, x, c, buffer)
    PROVE  output' \in Seq(WrittenBlocks) /\ kind' = kind /\ Exact'
  <1> DEFINE r == IF f = "none" THEN Threw(buffer) ELSE Serialized(f, x, c, buffer)
  <1>1. buffer \in Seq(WrittenBlocks)
    <2> HIDE DEF WrittenBlocks
    <2>1. <<>> \in Seq(WrittenBlocks) /\ output \in Seq(WrittenBlocks)
      BY DEF SInv
    <2> QED BY <2>1
  <1>2. r.out \in Seq(WrittenBlocks) /\ (~r.ok => r.out = buffer)
    <2>1. CASE f = "none"
      BY <1>1, <2>1 DEF Threw
    <2>2. CASE f # "none"
      BY <1>1, <2>2, SerializedIs
    <2> QED BY <2>1, <2>2
  <1>3. output' = r.out /\ kind' = kind /\ call' = [name |-> "serialize", ok |-> r.ok, input |-> x, before |-> buffer]
    BY DEF Write, Called
  <1> HIDE DEF r
  <1>4. Exact'
    BY <1>2, <1>3 DEF Exact, SerializersAreExact, ReadGivesBackTheItems, ReadGivesBackTheConfig, ReadTicksCanBeWritten,
                      FailedCallsKeepTheBuffer
  <1> QED BY <1>2, <1>3, <1>4

LEMMA SetConfigStep ==
    ASSUME SInv, NEW c \in CodecConfig, set_codec_config(c)
    PROVE  SInv' /\ Exact'
  <1>1. output' \in Seq(WrittenBlocks) /\ kind' = kind
    BY DEF set_codec_config, SInv
  <1>2. SInv'
    BY <1>1, Selected DEF set_codec_config
  <1>3. call'.name = "set_codec_config"
    BY DEF set_codec_config, Called
  <1>4. Exact'
    BY <1>3 DEF Exact, SerializersAreExact, ReadGivesBackTheItems, ReadGivesBackTheConfig, ReadTicksCanBeWritten,
                FailedCallsKeepTheBuffer
  <1> QED BY <1>2, <1>4

LEMMA SerializeStep ==
    ASSUME SInv, NEW x \in Inputs, NEW buffer \in {<<>>, output}, serialize(x, buffer)
    PROVE  SInv' /\ Exact'
  <1> DEFINE c == IF m_serializer = "none" THEN DefaultConfig ELSE m_config[m_serializer]
  <1>1. Write(m_serializer, x, c, buffer) /\ UNCHANGED <<m_serializer, m_config>>
    BY DEF serialize
  <1>2. m_serializer \in Formats \cup {"none"} /\ c \in CodecConfig /\ (m_serializer = "compressor" => TradesOnly(c))
    BY ConfigsAre DEF SInv
  <1> HIDE DEF c
  <1>3. output' \in Seq(WrittenBlocks) /\ kind' = kind /\ Exact'
    BY <1>1, <1>2, WriteStep
  <1>4. output' \in Seq(WrittenBlocks')
    BY <1>3, BlocksStay
  <1>5. SInv'
    BY <1>1, <1>3, <1>4 DEF SInv, TradesOnly
  <1> QED BY <1>3, <1>5

LEMMA SerializeWithStep ==
    ASSUME SInv, NEW x \in Inputs, NEW c \in CodecConfig, NEW buffer \in {<<>>, output},
           serialize_with(x, c, buffer)
    PROVE  SInv' /\ Exact'
  <1> DEFINE f == select_serializer(c)
  <1>1. f \in Formats \cup {"none"} /\ (f = "compressor" => TradesOnly(c))
    BY ConfigsAre
  <1>2. Write(f, x, c, buffer)
    BY DEF serialize_with
  <1> HIDE DEF f
  <1>3. output' \in Seq(WrittenBlocks) /\ kind' = kind /\ Exact'
    BY <1>1, <1>2, WriteStep
  <1>4. SInv'
    BY <1>3, Selected DEF serialize_with
  <1> QED BY <1>3, <1>4

LEMMA DeserializeStep ==
    ASSUME SInv, NEW into, deserialize(into)
    PROVE  SInv' /\ Exact'
  <1> DEFINE f == select_by_signature(output)
             refused == f = "none" \/ (f = "compressor" /\ Len(output) > 1)
             b == output[1]
             r == Deserialized(b, m_config[f], into)
  <1>1. /\ m_serializer' = IF f = "none" THEN m_serializer ELSE f
        /\ m_config' = IF refused THEN m_config ELSE [m_config EXCEPT ![f] = r.config]
        /\ items' = IF refused THEN into ELSE r.items
        /\ call' = [name |-> "deserialize", ok |-> ~refused, input |-> into, before |-> <<>>]
        /\ kind' = kind /\ output' = output
    BY DEF deserialize, Called
  <1>2. output # <<>> => b \in WrittenBlocks
    <2> HIDE DEF WrittenBlocks
    <2>1. output \in Seq(WrittenBlocks)
      BY DEF SInv
    <2> QED BY <2>1
  <1>3. output # <<>> =>
            ReadsBack(b, Deserialized(b, m_config[b.signature], into), into)
    <2>1. ASSUME output # <<>> PROVE ReadsBack(b, Deserialized(b, m_config[b.signature], into), into)
      <3>1. b \in WrittenBlocks /\ kind \in {"ticks", "bars"} /\ DefaultConfig \in CodecConfig
        BY <1>2, <2>1, ConfigsAre DEF SInv
      <3>2. ReadsBack(b, Deserialized(b, DefaultConfig, into), into)
        BY <3>1, DeserializedIs
      <3>3. b.signature \in Formats
        BY <3>2 DEF ReadsBack
      <3>4. m_config[b.signature] \in CodecConfig
        BY <3>3 DEF SInv
      <3> HIDE DEF b
      <3> QED BY <3>1, <3>4, DeserializedIs
    <2> QED BY <2>1
  <1>4. f = IF output = <<>> THEN "none" ELSE b.signature
    BY DEF select_by_signature
  <1>5. CASE output = <<>>
    <2>1. f = "none" /\ refused
      BY <1>4, <1>5
    <2>2. /\ m_serializer' = m_serializer /\ m_config' = m_config
          /\ call' = [name |-> "deserialize", ok |-> FALSE, input |-> into, before |-> <<>>]
      BY <1>1, <2>1
    <2>3. output' \in Seq(WrittenBlocks')
      BY <1>1, BlocksStay DEF SInv
    <2>4. SInv'
      BY <1>1, <2>2, <2>3 DEF SInv, TradesOnly
    <2>5. Exact'
      BY <2>2 DEF Exact, SerializersAreExact, ReadGivesBackTheItems, ReadGivesBackTheConfig, ReadTicksCanBeWritten,
                  FailedCallsKeepTheBuffer
    <2> QED BY <2>4, <2>5
  <1>6. CASE output # <<>>
    <2>1. f = b.signature /\ ReadsBack(b, r, into)
      BY <1>3, <1>4, <1>6
    <2>2. output' \in Seq(WrittenBlocks') /\ b' = b
      BY <1>1, BlocksStay DEF SInv
    <2> HIDE DEF f, r, b
    <2>3. f \in Formats /\ (kind = "bars" => f # "compressor") /\ r.config \in CodecConfig
          /\ (f = "compressor" => TradesOnly(r.config))
      BY <2>1 DEF ReadsBack, Formats
    <2>4. f # "none"
      BY <2>3 DEF Formats
    <2>5. m_serializer' = f
      BY <1>1, <2>4
    <2>6. SInv'
      <3>1. m_config' \in [Formats -> CodecConfig]
        BY <1>1, <2>3 DEF SInv
      <3>2. TradesOnly(m_config'["compressor"])
        <4>1. TradesOnly(m_config["compressor"]) /\ "compressor" \in Formats /\ m_config \in [Formats -> CodecConfig]
          BY DEF SInv, Formats
        <4>2. m_config'["compressor"] = m_config["compressor"]
              \/ (f = "compressor" /\ m_config'["compressor"] = r.config)
          BY <1>1, <2>3, <4>1
        <4>3. CASE m_config'["compressor"] = m_config["compressor"]
          BY <4>1, <4>3 DEF TradesOnly
        <4>4. CASE f = "compressor" /\ m_config'["compressor"] = r.config
          BY <2>3, <4>4 DEF TradesOnly
        <4> QED BY <4>2, <4>3, <4>4
      <3> QED BY <1>1, <2>2, <2>3, <2>5, <3>1, <3>2 DEF SInv, TradesOnly
    <2>7. CASE refused
      <3>1. call' = [name |-> "deserialize", ok |-> FALSE, input |-> into, before |-> <<>>]
        BY <1>1, <2>7
      <3>2. Exact'
        BY <3>1 DEF Exact, SerializersAreExact, ReadGivesBackTheItems, ReadGivesBackTheConfig, ReadTicksCanBeWritten,
                    FailedCallsKeepTheBuffer
      <3> QED BY <2>6, <3>2
    <2>8. CASE ~refused
      <3>1. /\ call' = [name |-> "deserialize", ok |-> TRUE, input |-> into, before |-> <<>>]
            /\ items' = r.items /\ m_config' = [m_config EXCEPT ![f] = r.config]
        BY <1>1, <2>8
      <3>2. m_config'[m_serializer'] = r.config
        BY <2>3, <2>5, <3>1 DEF SInv
      <3>3. output'[1] = b
        BY <1>1 DEF b
      <3>4. (ReadGivesBackTheItems)'
        BY <2>1, <3>1, <3>3 DEF ReadGivesBackTheItems, ReadsBack, Visible
      <3>5. (ReadGivesBackTheConfig)'
        BY <1>1, <2>1, <2>5, <3>2, <3>3 DEF ReadGivesBackTheConfig, ReadsBack
      <3>6. (ReadTicksCanBeWritten)'
        <4> DEFINE x == b.origin.input
                   c == r.config
        <4>1. CASE kind = "bars"
          BY <1>1, <4>1 DEF ReadTicksCanBeWritten
        <4>2. CASE kind = "ticks"
          <5>1. select_serializer(c) = f /\ Serialized(f, x, c, <<>>).ok
            BY <2>1, <4>2 DEF ReadsBack
          <5>2. Writable(f, x, c) /\ SelectTicks(c) = f
            BY <2>3, <4>2, <5>1, WritableIs DEF select_serializer
          <5>3. output'[1].origin.input = x
            BY <3>3
          <5> HIDE DEF x, c
          <5>4. Writable(m_serializer, output[1].origin.input, m_config[m_serializer])'
            BY <2>5, <3>2, <5>2, <5>3 DEF c
          <5>5. (SelectTicks(m_config[m_serializer]) = m_serializer)'
            BY <2>5, <3>2, <5>2 DEF c
          <5>6. kind' = "ticks" /\ m_serializer' \in Formats
            BY <1>1, <2>3, <2>5, <4>2
          <5> QED BY <5>4, <5>5, <5>6 DEF ReadTicksCanBeWritten, select_serializer, Serialized, SerializeRawTicks, compress,
                                     Writable, Wrote, Threw, Formats
        <4> QED BY <4>1, <4>2 DEF SInv
      <3>7. FailedCallsKeepTheBuffer'
        BY <3>1 DEF FailedCallsKeepTheBuffer
      <3> QED BY <2>3, <2>5, <2>6, <3>4, <3>5, <3>6, <3>7 DEF Exact, SerializersAreExact
    <2> QED BY <2>7, <2>8
  <1> QED BY <1>5, <1>6

\* SerializersAreExact (a property of run codecs): through any calls of a
\* serializer with one buffer, a read gives back the items and the
\* configuration, ticks can be written again, and a call that throws costs
\* nothing (TickSerializer.hpp:23-111, BarSerializer.hpp:23-105).
THEOREM SerializersAreExactHolds == SerSpec => []SerializersAreExact
  <1> DEFINE Ind == SInv /\ Exact
  <1>1. SerInit => Ind
    <2> SUFFICES ASSUME SerInit PROVE Ind
      OBVIOUS
    <2>1. call = [name |-> "none", ok |-> TRUE, input |-> <<>>, before |-> <<>>]
      BY DEF SerInit
    <2>2. Exact
      BY <2>1 DEF Exact, SerializersAreExact, ReadGivesBackTheItems, ReadGivesBackTheConfig, ReadTicksCanBeWritten,
                  FailedCallsKeepTheBuffer
    <2>3. m_config \in [Formats -> CodecConfig] /\ TradesOnly(m_config["compressor"])
      <3>1. DefaultConfig \in CodecConfig /\ DefaultConfig.flags = {}
        BY DEF DefaultConfig, CodecConfig
      <3>2. m_config = [f \in Formats |-> DefaultConfig] /\ "compressor" \in Formats
        BY DEF SerInit, Formats
      <3> QED BY <3>1, <3>2 DEF TradesOnly
    <2>4. output \in Seq(WrittenBlocks)
      <3> HIDE DEF WrittenBlocks
      <3> QED BY DEF SerInit
    <2> QED BY <2>2, <2>3, <2>4 DEF SInv, SerInit
  <1>2. Ind /\ [SerNext]_svars => Ind'
    <2> SUFFICES ASSUME Ind, [SerNext]_svars PROVE Ind'
      OBVIOUS
    <2>1. Configs \subseteq CodecConfig
      BY ConfigsAre
    <2>2. ASSUME NEW c \in Configs, set_codec_config(c) PROVE Ind'
      BY <2>1, <2>2, SetConfigStep
    <2>3. ASSUME NEW x \in Inputs, NEW buffer \in {<<>>, output}, serialize(x, buffer) PROVE Ind'
      BY <2>3, SerializeStep
    <2>4. ASSUME NEW x \in Inputs, NEW c \in Configs, NEW buffer \in {<<>>, output}, serialize_with(x, c, buffer)
          PROVE  Ind'
      BY <2>1, <2>4, SerializeWithStep
    <2>5. ASSUME NEW into \in {<<>>, items}, deserialize(into) PROVE Ind'
      BY <2>5, DeserializeStep
    <2>6. CASE UNCHANGED svars
      <3>1. kind' = kind /\ m_serializer' = m_serializer /\ m_config' = m_config /\ output' = output
            /\ items' = items /\ call' = call
        BY <2>6 DEF svars
      <3>2. WrittenBlocks' = WrittenBlocks
        BY <3>1, BlocksStay
      <3>3. SInv'
        BY <3>1, <3>2 DEF SInv, TradesOnly
      <3>4. (ReadGivesBackTheItems)' /\ (ReadGivesBackTheConfig)' /\ FailedCallsKeepTheBuffer'
        BY <3>1 DEF Exact, SerializersAreExact, ReadGivesBackTheItems, ReadGivesBackTheConfig, FailedCallsKeepTheBuffer, Visible
      <3>5. (ReadTicksCanBeWritten)'
        <4> DEFINE f == m_serializer
                   x == output[1].origin.input
                   c == m_config[f]
        <4>1. CASE ~(kind = "ticks" /\ call.name = "deserialize" /\ call.ok)
          BY <3>1, <4>1 DEF ReadTicksCanBeWritten
        <4>2. CASE kind = "ticks" /\ call.name = "deserialize" /\ call.ok
          <5>1. select_serializer(c) = f /\ Serialized(f, x, c, <<>>).ok
            BY <4>2 DEF Exact, SerializersAreExact, ReadTicksCanBeWritten
          <5>2. SelectTicks(c) = f /\ f \in Formats
            BY <4>2, <5>1 DEF Exact, select_serializer
          <5>3. Writable(f, x, c)
            BY <4>2, <5>1, <5>2, WritableIs
          <5> QED BY <3>1, <4>2, <5>2, <5>3 DEF ReadTicksCanBeWritten, select_serializer, SelectTicks, Serialized,
                     SerializeRawTicks, compress, Writable, Wrote, Threw, Formats
        <4> QED BY <4>1, <4>2
      <3>6. (call.name = "deserialize" /\ call.ok => m_serializer \in Formats)'
        BY <3>1 DEF Exact
      <3> QED BY <3>3, <3>4, <3>5, <3>6 DEF Exact, SerializersAreExact
    <2> QED BY <2>2, <2>3, <2>4, <2>5, <2>6 DEF SerNext
  <1>3. Ind => SerializersAreExact
    BY DEF Exact
  <1> QED BY <1>1, <1>2, <1>3, PTL DEF SerSpec
=============================================================================
