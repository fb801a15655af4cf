--------------------------- MODULE RuleOrder_proofs ---------------------------
(***************************************************************************)
(* Proofs about RuleOrder and the keys of Indexing, for every alphabet,    *)
(* every set of rules and every number of operations.                      *)
(*                                                                         *)
(* The keys come first.  The order on them is strict and total, an integer *)
(* part has a next and a previous one, _midpoint is between the fractions  *)
(* it is given, and so generateKeyBetween is between the keys it is given  *)
(* and valid (KeyBetweenIsBetween), with one exception: the step below the *)
(* last integer part but one is smallestInteger, which _validateOrderKey   *)
(* refuses.                                                                *)
(*                                                                         *)
(* A finite set has one arrangement along a strict order, so the list _get *)
(* returns is known from what is in it (SortedInOrder, InOrderIsSorted).   *)
(* The typing invariant has the set of keys for its parameter: with all    *)
(* keys it gives TypeCorrect and KeysValidSafe.  On a settled list a drop  *)
(* finds distinct neighbours, generateKeyBetween accepts them, and the new *)
(* key puts the row where it was dropped (OrderSticksSafe).                *)
(*                                                                         *)
(* Both hold as long as the smallest key is not reached.  Every operation  *)
(* makes at most one step down, so with more keys at the bottom than       *)
(* operations it is not (AboveBottomSafe): the typing invariant again,     *)
(* with the keys Room(n) that n operations can have made.                  *)
(***************************************************************************)
EXTENDS RuleOrder, FiniteSetTheorems, SequenceTheorems, WellFoundedInduction,
        TLAPS

-----------------------------------------------------------------------------
(* Natural numbers and order.                                              *)

\* A set of naturals that is not empty has a least member.
LEMMA LeastNat ==
  ASSUME NEW T \in SUBSET Nat, T # {}
  PROVE  \E m \in T : \A k \in T : m <= k
<1> DEFINE Lower == {pair \in Nat \X Nat : pair[1] < pair[2]}
<1>1. IsWellFoundedOn(Lower, Nat)
  BY NatLessThanWellFounded DEF OpToRel
<1>2. PICK m \in T : \A k \in T : <<k, m>> \notin Lower
  BY <1>1, WFMin
<1>3. ASSUME NEW k \in T
      PROVE  m <= k
  <2>1. k \in Nat /\ m \in Nat /\ <<k, m>> \notin Lower
    BY <1>2
  <2>2. QED  BY <2>1
<1>4. QED  BY <1>3

\* And one that is bounded a greatest.
LEMMA GreatestNat ==
  ASSUME NEW n \in Nat, NEW T \in SUBSET (0 .. n), T # {}
  PROVE  \E m \in T : \A k \in T : k <= m
<1> DEFINE U == {n - k : k \in T}
<1>1. U \in SUBSET Nat /\ U # {}
  <2>1. \A k \in T : k \in 0 .. n /\ n - k \in Nat
    OBVIOUS
  <2>2. PICK k \in T : TRUE
    OBVIOUS
  <2>3. n - k \in U
    OBVIOUS
  <2>4. QED  BY <2>1, <2>3
<1>2. PICK u \in U : \A k \in U : u <= k
  BY <1>1, LeastNat
<1>3. PICK m \in T : u = n - m
  BY <1>2
<1>4. ASSUME NEW k \in T
      PROVE  k <= m
  <2>1. n - k \in U /\ k \in 0 .. n /\ m \in 0 .. n
    OBVIOUS
  <2>2. n - m <= n - k
    BY <2>1, <1>2, <1>3
  <2>3. QED  BY <2>1, <2>2
<1>5. QED  BY <1>4

\* What it takes for a to be below b, position by position.
LessAt(a, b, n) ==
  /\ n \in 0 .. Len(b) - 1
  /\ n <= Len(a)
  /\ \A i \in 1 .. n : a[i] = b[i]
  /\ n < Len(a) => a[n + 1] < b[n + 1]

\* The order on keys, read position by position.
LEMMA LessPositions ==
  ASSUME NEW a \in Seq(Int), NEW b \in Seq(Int)
  PROVE  Less(a, b) <=> \E n \in Nat : LessAt(a, b, n)
<1>1. \A n \in Nat : n <= Len(a) /\ n <= Len(b) =>
        (SubSeq(a, 1, n) = SubSeq(b, 1, n) <=> \A i \in 1 .. n : a[i] = b[i])
  <2> SUFFICES ASSUME NEW n \in Nat, n <= Len(a), n <= Len(b)
               PROVE  SubSeq(a, 1, n) = SubSeq(b, 1, n)
                      <=> \A i \in 1 .. n : a[i] = b[i]
    OBVIOUS
  <2>1. /\ SubSeq(a, 1, n) \in Seq(Int) /\ Len(SubSeq(a, 1, n)) = n
        /\ \A i \in 1 .. n : SubSeq(a, 1, n)[i] = a[i]
    BY SubSeqProperties, ElementOfSeq
  <2>2. /\ SubSeq(b, 1, n) \in Seq(Int) /\ Len(SubSeq(b, 1, n)) = n
        /\ \A i \in 1 .. n : SubSeq(b, 1, n)[i] = b[i]
    BY SubSeqProperties, ElementOfSeq
  <2>3. ASSUME \A i \in 1 .. n : a[i] = b[i]
        PROVE  SubSeq(a, 1, n) = SubSeq(b, 1, n)
    BY <2>1, <2>2, <2>3, SeqEqual
  <2>4. ASSUME SubSeq(a, 1, n) = SubSeq(b, 1, n)
        PROVE  \A i \in 1 .. n : a[i] = b[i]
    BY <2>1, <2>2, <2>4
  <2>5. QED  BY <2>3, <2>4
<1>2. Len(a) \in Nat /\ Len(b) \in Nat
  BY LenProperties
<1>3. QED  BY <1>1, <1>2 DEF Less, LessAt

\* No key is below itself.
LEMMA LessIrreflexive ==
  ASSUME NEW a \in Seq(Int)
  PROVE  ~Less(a, a)
<1>1. \A n \in 0 .. Len(a) - 1 : a[n + 1] \in Int
  BY ElementOfSeq, LenProperties
<1>2. QED  BY <1>1, LessPositions, LenProperties DEF LessAt

\* What is below a key is below the keys above that.
LEMMA LessTransitive ==
  ASSUME NEW a \in Seq(Int), NEW b \in Seq(Int), NEW c \in Seq(Int),
         Less(a, b), Less(b, c)
  PROVE  Less(a, c)
<1>1. PICK m \in Nat : LessAt(a, b, m)
  BY LessPositions
<1>2. PICK n \in Nat : LessAt(b, c, n)
  BY LessPositions
<1>3. /\ Len(a) \in Nat /\ Len(b) \in Nat /\ Len(c) \in Nat
      /\ \A i \in 1 .. Len(a) : a[i] \in Int
      /\ \A i \in 1 .. Len(b) : b[i] \in Int
      /\ \A i \in 1 .. Len(c) : c[i] \in Int
  BY ElementOfSeq, LenProperties
<1>4. CASE m <= n
  <2>1. LessAt(a, c, m)
    <3>1. \A i \in 1 .. m : a[i] = c[i]
      BY <1>1, <1>2, <1>4 DEF LessAt
    <3>2. m < Len(a) => a[m + 1] < c[m + 1]
      <4>1. CASE m = n
        BY SMTT(30), <4>1, <1>1, <1>2, <1>3 DEF LessAt
      <4>2. CASE m < n
        BY <4>2, <1>1, <1>2, <1>3 DEF LessAt
      <4>3. QED  BY <4>1, <4>2, <1>4
    <3>3. QED  BY <3>1, <3>2, <1>1, <1>2, <1>3, <1>4 DEF LessAt
  <2>2. QED  BY <2>1, LessPositions
<1>5. CASE n < m
  <2>1. LessAt(a, c, n)
    <3>1. n < Len(a) /\ a[n + 1] = b[n + 1] /\ n \in 0 .. Len(c) - 1
      BY <1>1, <1>2, <1>3, <1>5 DEF LessAt
    <3>2. b[n + 1] < c[n + 1]
      BY <1>1, <1>2, <1>3, <1>5 DEF LessAt
    <3>3. \A i \in 1 .. n : a[i] = c[i]
      BY <1>1, <1>2, <1>5 DEF LessAt
    <3>4. QED  BY <3>1, <3>2, <3>3 DEF LessAt
  <2>2. QED  BY <2>1, LessPositions
<1>6. QED  BY <1>4, <1>5

\* Of two keys one is below the other.
LEMMA LessTotal ==
  ASSUME NEW a \in Seq(Int), NEW b \in Seq(Int), a # b
  PROVE  Less(a, b) \/ Less(b, a)
<1> DEFINE T == {n \in Nat : \/ n = Len(a) \/ n = Len(b)
                             \/ a[n + 1] # b[n + 1]}
<1>1. /\ Len(a) \in Nat /\ Len(b) \in Nat
      /\ \A i \in 1 .. Len(a) : a[i] \in Int
      /\ \A i \in 1 .. Len(b) : b[i] \in Int
  BY ElementOfSeq, LenProperties
<1>2. PICK n \in T : \A k \in T : n <= k
  <2>1. T \in SUBSET Nat /\ T # {}
    BY <1>1
  <2>2. QED  BY <2>1, LeastNat
<1>3. /\ n \in Nat /\ n <= Len(a) /\ n <= Len(b)
      /\ \A i \in 1 .. n : a[i] = b[i]
  <2>1. \A i \in 1 .. n : i - 1 \in Nat /\ ~(n <= i - 1)
    OBVIOUS
  <2>2. \A i \in 1 .. n : a[(i - 1) + 1] = b[(i - 1) + 1]
    BY <2>1, <1>2
  <2>3. \A i \in 1 .. n : (i - 1) + 1 = i
    OBVIOUS
  <2>4. QED  BY <2>2, <2>3, <1>1, <1>2
<1>4. CASE n = Len(a) /\ n = Len(b)
  BY <1>3, <1>4, SeqEqual
<1>5. CASE n = Len(a) /\ n # Len(b)
  <2>1. LessAt(a, b, n)
    BY <1>1, <1>3, <1>5 DEF LessAt
  <2>2. QED  BY <2>1, <1>3, LessPositions
<1>6. CASE n # Len(a) /\ n = Len(b)
  <2>1. LessAt(b, a, n)
    BY <1>1, <1>3, <1>6 DEF LessAt
  <2>2. QED  BY <2>1, <1>3, LessPositions
<1>7. CASE n # Len(a) /\ n # Len(b)
  <2>1. a[n + 1] # b[n + 1] /\ a[n + 1] \in Int /\ b[n + 1] \in Int
    BY <1>1, <1>2, <1>3, <1>7
  <2>2. LessAt(a, b, n) \/ LessAt(b, a, n)
    BY <2>1, <1>1, <1>3, <1>7 DEF LessAt
  <2>3. QED  BY <2>2, <1>3, LessPositions
<1>8. QED  BY <1>4, <1>5, <1>6, <1>7

-----------------------------------------------------------------------------
(* Digits, integer parts and fractions.                                    *)

Digits == 0 .. Base - 1

\* A function on 1 .. n is a sequence of n.
LEMMA FunctionIsSeq ==
  ASSUME NEW S, NEW n \in Nat, NEW f \in [1 .. n -> S]
  PROVE  f \in Seq(S) /\ Len(f) = n
<1>1. f \in Seq(S)
  BY SeqDef
<1>2. Len(f) \in Nat /\ 1 .. n = 1 .. Len(f)
  BY <1>1, LenProperties
<1>3. QED  BY <1>1, <1>2

\* What a run of the least or of the greatest digit holds.
LEMMA ZerosAndNines ==
  ASSUME NEW n \in Nat
  PROVE  /\ Zeros(n) \in Seq(Digits) /\ Len(Zeros(n)) = n
         /\ \A i \in 1 .. n : Zeros(n)[i] = 0
         /\ Nines(n) \in Seq(Digits) /\ Len(Nines(n)) = n
         /\ \A i \in 1 .. n : Nines(n)[i] = Base - 1
<1>1. 0 \in Digits /\ Base - 1 \in Digits
  BY IndexingAssumption DEF Digits
<1>2. Zeros(n) \in [1 .. n -> Digits] /\ Nines(n) \in [1 .. n -> Digits]
  BY <1>1 DEF Zeros, Nines
<1>3. QED  BY <1>2, FunctionIsSeq DEF Zeros, Nines

\* A sequence of digits is one of integers.
LEMMA DigitsAreInts ==
  ASSUME NEW x \in Seq(Digits)
  PROVE  /\ x \in Seq(Int) /\ Len(x) \in Nat
         /\ \A i \in 1 .. Len(x) : x[i] \in Digits /\ x[i] \in Int
<1>1. Digits \subseteq Int
  BY IndexingAssumption DEF Digits
<1>2. QED  BY <1>1, SeqMonotonic, LenProperties, ElementOfSeq

\* A key is a sequence of a letter and digits.
LEMMA KeyFacts ==
  ASSUME NEW key, IsKey(key)
  PROVE  /\ key \in Seq(Int) /\ Len(key) \in Nat /\ Len(key) >= 1
         /\ \A i \in 1 .. Len(key) : key[i] \in Int
         /\ key[1] \in -Heads .. Heads - 1
         /\ \A i \in 2 .. Len(key) : key[i] \in Digits
<1>1. key \in Seq(Int) /\ key # <<>>
  BY DEF IsKey, NoKey
<1>2. Len(key) \in Nat /\ Len(key) >= 1
  BY <1>1, EmptySeq
<1>3. QED  BY <1>1, <1>2, ElementOfSeq DEF IsKey, Digits

\* getIntegerLength leaves room for a letter and a digit at least.
LEMMA IntegerLengthType ==
  ASSUME NEW h \in Int
  PROVE  IntegerLength(h) \in Nat /\ IntegerLength(h) >= 2
BY DEF IntegerLength

\* A key without a fraction.
Whole(x) == IsKey(x) /\ Len(x) = IntegerLength(x[1])

\* What a letter and digits that follow it make.
LEMMA HeadAndDigits ==
  ASSUME NEW h \in -Heads .. Heads - 1, NEW x \in Seq(Digits)
  PROVE  /\ IsKey(<<h>> \o x)
         /\ Len(<<h>> \o x) = Len(x) + 1
         /\ (<<h>> \o x)[1] = h
         /\ \A i \in 1 .. Len(x) : (<<h>> \o x)[i + 1] = x[i]
<1> DEFINE k == <<h>> \o x
<1>1. h \in Int
  BY IndexingAssumption
<1>2. /\ x \in Seq(Int) /\ Len(x) \in Nat
      /\ \A i \in 1 .. Len(x) : x[i] \in Digits /\ x[i] \in Int
  BY DigitsAreInts
<1>3. <<h>> \in Seq(Int) /\ Len(<<h>>) = 1 /\ <<h>>[1] = h
  BY <1>1
<1>4. /\ k \in Seq(Int) /\ Len(k) = Len(x) + 1
      /\ \A i \in 1 .. Len(x) + 1 : k[i] = IF i <= 1 THEN <<h>>[i] ELSE x[i - 1]
  BY <1>2, <1>3, ConcatProperties
<1> HIDE DEF k
<1>5. k[1] = h
  BY <1>2, <1>3, <1>4
<1>6. \A i \in 2 .. Len(k) : k[i] = x[i - 1] /\ i - 1 \in 1 .. Len(x)
  BY <1>2, <1>4
<1>7. \A i \in 1 .. Len(x) : k[i + 1] = x[i]
  BY SMTT(30), <1>2, <1>4
<1>8. k # <<>>
  BY <1>2, <1>4
<1>9. IsKey(k)
  BY <1>2, <1>4, <1>5, <1>6, <1>8 DEF IsKey, NoKey, Digits
<1>10. QED  BY <1>4, <1>5, <1>7, <1>9 DEF k

\* smallestInteger is the lowest letter and zeros alone.
LEMMA SmallestIsWhole ==
  /\ Whole(Smallest)
  /\ Smallest[1] = -Heads
  /\ \A i \in 2 .. Len(Smallest) : Smallest[i] = 0
<1> DEFINE n == IntegerLength(-Heads) - 1
<1>1. n \in Nat /\ -Heads \in -Heads .. Heads - 1
  BY IndexingAssumption, IntegerLengthType
<1>2. /\ Zeros(n) \in Seq(Digits) /\ Len(Zeros(n)) = n
      /\ \A i \in 1 .. n : Zeros(n)[i] = 0
  BY <1>1, ZerosAndNines
<1>3. Smallest = <<-Heads>> \o Zeros(n)
  BY DEF Smallest
<1> HIDE DEF n
<1>4. /\ IsKey(Smallest) /\ Len(Smallest) = n + 1 /\ Smallest[1] = -Heads
      /\ \A i \in 1 .. n : Smallest[i + 1] = Zeros(n)[i]
  BY <1>1, <1>2, <1>3, HeadAndDigits
<1>5. \A i \in 2 .. Len(Smallest) : Smallest[i] = 0
  <2> TAKE i \in 2 .. Len(Smallest)
  <2>1. i - 1 \in 1 .. n /\ (i - 1) + 1 = i
    BY <1>1, <1>4
  <2>2. QED  BY <2>1, <1>2, <1>4
<1>6. Len(Smallest) = IntegerLength(-Heads)
  BY <1>4, IntegerLengthType, IndexingAssumption DEF n
<1>7. QED  BY <1>4, <1>5, <1>6 DEF Whole

\* The two parts of a key that is long enough for its head.
LEMMA Parts ==
  ASSUME NEW key, IsKey(key), IntegerLength(key[1]) <= Len(key)
  PROVE  /\ Whole(IntegerPart(key))
         /\ Len(IntegerPart(key)) = IntegerLength(key[1])
         /\ Len(IntegerPart(key)) <= Len(key)
         /\ \A i \in 1 .. Len(IntegerPart(key)) : IntegerPart(key)[i] = key[i]
         /\ Fraction(key) \in Seq(Digits)
         /\ Len(Fraction(key)) = Len(key) - Len(IntegerPart(key))
         /\ \A i \in 1 .. Len(Fraction(key)) :
              Fraction(key)[i] = key[Len(IntegerPart(key)) + i]
         /\ key = IntegerPart(key) \o Fraction(key)
<1> DEFINE n == IntegerLength(key[1])
           ip == IntegerPart(key)
           fr == Fraction(key)
<1>1. /\ key \in Seq(Int) /\ Len(key) \in Nat /\ Len(key) >= 1
      /\ \A i \in 1 .. Len(key) : key[i] \in Int
      /\ key[1] \in -Heads .. Heads - 1
      /\ \A i \in 2 .. Len(key) : key[i] \in Digits
  BY KeyFacts
<1>2. n \in Nat /\ n >= 2 /\ n <= Len(key)
  <2>1. key[1] \in Int
    BY <1>1
  <2>2. QED  BY <2>1, IntegerLengthType
<1>3. ip = SubSeq(key, 1, n) /\ fr = SubSeq(key, n + 1, Len(key))
  BY DEF IntegerPart, Fraction
<1> HIDE DEF n, ip, fr
<1>4. /\ ip \in Seq(Int) /\ Len(ip) = n
      /\ \A i \in 1 .. n : ip[i] = key[i]
  <2>1. \A i \in 1 .. n : key[i] \in Int
    BY <1>1, <1>2
  <2>2. QED  BY <2>1, <1>2, <1>3, SubSeqProperties
<1>5. /\ fr \in Seq(Digits) /\ Len(fr) = Len(key) - n
      /\ \A i \in 1 .. Len(fr) : fr[i] = key[n + i]
  <2>1. \A i \in n + 1 .. Len(key) : key[i] \in Digits
    BY <1>1, <1>2
  <2>2. /\ fr \in Seq(Digits)
        /\ Len(fr) = IF n + 1 <= Len(key) THEN Len(key) - (n + 1) + 1 ELSE 0
        /\ \A i \in 1 .. Len(key) - (n + 1) + 1 : fr[i] = key[(n + 1) + i - 1]
    BY <2>1, <1>1, <1>2, <1>3, SubSeqProperties
  <2>3. Len(fr) = Len(key) - n
    BY <2>2, <1>1, <1>2
  <2>4. \A i \in 1 .. Len(fr) : (n + 1) + i - 1 = n + i
    BY <2>3, <1>1, <1>2
  <2>5. QED  BY SMTT(30), <2>2, <2>3, <2>4, <1>1, <1>2
<1>6. key = ip \o fr
  <2>1. SubSeq(key, 1, n) \o SubSeq(key, n + 1, Len(key)) = SubSeq(key, 1, Len(key))
    <3>1. /\ 1 \in 1 .. Len(key) + 1 /\ n \in 1 - 1 .. Len(key)
          /\ Len(key) \in n .. Len(key)
      BY <1>1, <1>2
    <3>2. QED  BY <3>1, <1>1, ConcatAdjacentSubSeq
  <2>2. QED  BY <2>1, <1>1, <1>3, SubSeqFull
<1>7. IsKey(ip) /\ ip[1] = key[1]
  <2>1. ip # <<>> /\ ip[1] = key[1]
    BY <1>2, <1>4
  <2>2. \A i \in 2 .. Len(ip) : ip[i] \in Digits
    BY SMTT(30), <1>1, <1>2, <1>4
  <2>3. QED  BY <2>1, <2>2, <1>1, <1>4 DEF IsKey, NoKey, Digits
<1>8. QED  BY <1>2, <1>4, <1>5, <1>6, <1>7 DEF Whole, n, ip, fr

\* What _validateOrderKey asks, position by position.
LEMMA ValidPositions ==
  ASSUME NEW key, IsKey(key)
  PROVE  Valid(key) <=>
           /\ key # Smallest
           /\ IntegerLength(key[1]) <= Len(key)
           /\ IntegerLength(key[1]) < Len(key) => key[Len(key)] # 0
<1>1. key # NoKey /\ Len(key) \in Nat /\ key[1] \in Int
  BY KeyFacts, IndexingAssumption DEF IsKey
<1>2. CASE IntegerLength(key[1]) <= Len(key)
  <2>1. /\ Fraction(key) \in Seq(Digits)
        /\ Len(Fraction(key)) = Len(key) - IntegerLength(key[1])
    BY <1>2, Parts
  <2>2. IntegerLength(key[1]) \in Nat
    BY <1>1, IntegerLengthType
  <2>3. Fraction(key) # <<>> <=> IntegerLength(key[1]) < Len(key)
    BY <2>1, <2>2, <1>1, <1>2, EmptySeq
  <2>4. QED  BY <2>3, <1>1, <1>2 DEF Valid
<1>3. CASE ~(IntegerLength(key[1]) <= Len(key))
  BY <1>3 DEF Valid
<1>4. QED  BY <1>2, <1>3

\* An integer part and a fraction that does not end with a zero.
LEMMA Joined ==
  ASSUME NEW x, Whole(x), NEW m \in Seq(Digits), m # <<>>, m[Len(m)] # 0
  PROVE  /\ IsKey(x \o m)
         /\ Valid(x \o m)
         /\ Len(x \o m) = Len(x) + Len(m)
         /\ \A i \in 1 .. Len(x) : (x \o m)[i] = x[i]
<1> DEFINE k == x \o m
<1>1. /\ x \in Seq(Int) /\ Len(x) \in Nat /\ Len(x) >= 1
      /\ x[1] \in -Heads .. Heads - 1
      /\ \A i \in 2 .. Len(x) : x[i] \in Digits
  BY KeyFacts DEF Whole
<1>2. /\ m \in Seq(Int) /\ Len(m) \in Nat /\ Len(m) > 0
      /\ \A i \in 1 .. Len(m) : m[i] \in Digits
  BY DigitsAreInts, EmptySeq
<1>3. /\ k \in Seq(Int) /\ Len(k) = Len(x) + Len(m)
      /\ \A i \in 1 .. Len(x) + Len(m) :
           k[i] = IF i <= Len(x) THEN x[i] ELSE m[i - Len(x)]
  BY <1>1, <1>2, ConcatProperties
<1> HIDE DEF k
<1>4. \A i \in 1 .. Len(x) : k[i] = x[i]
  BY SMTT(30), <1>1, <1>2, <1>3
<1>5. \A i \in 2 .. Len(k) : k[i] \in Digits
  <2> TAKE i \in 2 .. Len(k)
  <2>1. CASE i <= Len(x)
    <3>1. i \in 2 .. Len(x) /\ k[i] = x[i]
      BY <2>1, <1>1, <1>2, <1>3, <1>4
    <3>2. QED  BY <3>1, <1>1
  <2>2. CASE i > Len(x)
    <3>1. i - Len(x) \in 1 .. Len(m) /\ k[i] = m[i - Len(x)]
      BY SMTT(30), <2>2, <1>1, <1>2, <1>3
    <3>2. QED  BY <3>1, <1>2
  <2>3. QED  BY <2>1, <2>2, <1>1
<1>6. k # <<>> /\ k[1] = x[1]
  BY <1>1, <1>2, <1>3, <1>4
<1>7. IsKey(k)
  BY <1>1, <1>3, <1>5, <1>6 DEF IsKey, NoKey, Digits
<1>8. k[Len(k)] = m[Len(m)]
  <2>1. Len(k) \in 1 .. Len(x) + Len(m) /\ ~(Len(k) <= Len(x))
    BY <1>1, <1>2, <1>3
  <2>2. Len(k) - Len(x) = Len(m)
    BY <1>1, <1>2, <1>3
  <2>3. QED  BY <2>1, <2>2, <1>3
<1>9. Len(x) = IntegerLength(k[1])
  BY <1>6 DEF Whole
<1>10. k # Smallest
  <2>1. SUFFICES ASSUME k = Smallest
                 PROVE  FALSE
    OBVIOUS
  <2>2. Len(k) = Len(x)
    BY <2>1, <1>9, SmallestIsWhole DEF Whole
  <2>3. QED  BY <2>2, <1>1, <1>2, <1>3
<1>11. Valid(k)
  BY SMTT(30), <1>1, <1>2, <1>3, <1>7, <1>8, <1>9, <1>10, ValidPositions
<1>12. QED  BY <1>3, <1>4, <1>7, <1>11 DEF k

-----------------------------------------------------------------------------
(* Incrementing and decrementing an integer part.                          *)

\* The place where a carry or a borrow stops.
LEMMA StopPosition ==
  ASSUME NEW x \in Seq(Int), x # <<>>, NEW d
  PROVE  /\ Stop(x, d) \in 1 .. Len(x)
         /\ Stop(x, d) = 1 \/ x[Stop(x, d)] # d
         /\ \A j \in Stop(x, d) + 1 .. Len(x) : x[j] = d
<1> DEFINE T == {i \in 1 .. Len(x) : i = 1 \/ x[i] # d}
<1>1. Len(x) \in Nat /\ 1 \in T
  BY EmptySeq
<1>2. T \in SUBSET (0 .. Len(x)) /\ T # {}
  BY <1>1
<1>3. PICK m \in T : \A k \in T : k <= m
  BY <1>1, <1>2, GreatestNat
<1>4. \A j \in m + 1 .. Len(x) : x[j] = d
  <2> TAKE j \in m + 1 .. Len(x)
  <2>1. j \in 1 .. Len(x) /\ ~(j <= m)
    BY <1>1
  <2>2. j \notin T
    BY <2>1, <1>3
  <2>3. QED  BY <2>1, <2>2
<1>5. \E i \in 1 .. Len(x) : /\ i = 1 \/ x[i] # d
                             /\ \A j \in i + 1 .. Len(x) : x[j] = d
  BY <1>4
<1>6. QED  BY <1>5 DEF Stop

\* A key whose i-th digit is set to v and the later ones to those of z.
LEMMA Changed ==
  ASSUME NEW x, IsKey(x), NEW i \in 2 .. Len(x), NEW v \in Digits,
         NEW z \in Seq(Digits), Len(z) = Len(x) - i,
         NEW y, y = SubSeq(x, 1, i - 1) \o <<v>> \o z
  PROVE  /\ IsKey(y) /\ Len(y) = Len(x)
         /\ \A j \in 1 .. i - 1 : y[j] = x[j]
         /\ y[i] = v
         /\ \A j \in i + 1 .. Len(x) : y[j] = z[j - i]
<1> DEFINE p == SubSeq(x, 1, i - 1)
           q == p \o <<v>>
<1>0. y = q \o z
  OBVIOUS
<1>1. /\ x \in Seq(Int) /\ Len(x) \in Nat /\ Len(x) >= 1
      /\ \A j \in 1 .. Len(x) : x[j] \in Int
      /\ x[1] \in -Heads .. Heads - 1
      /\ \A j \in 2 .. Len(x) : x[j] \in Digits
  BY KeyFacts
<1>2. /\ z \in Seq(Int) /\ Len(z) \in Nat
      /\ \A j \in 1 .. Len(z) : z[j] \in Digits
  BY DigitsAreInts
<1>3. /\ p \in Seq(Int) /\ Len(p) = i - 1
      /\ \A j \in 1 .. i - 1 : p[j] = x[j]
  <2>1. \A j \in 1 .. i - 1 : x[j] \in Int
    BY <1>1
  <2>2. i - 1 \in Int /\ 1 <= i - 1
    OBVIOUS
  <2>3. /\ p \in Seq(Int)
        /\ Len(p) = IF 1 <= i - 1 THEN (i - 1) - 1 + 1 ELSE 0
        /\ \A j \in 1 .. (i - 1) - 1 + 1 : p[j] = x[1 + j - 1]
    BY <2>1, <2>2, SubSeqProperties
  <2>4. (i - 1) - 1 + 1 = i - 1 /\ \A j \in 1 .. i - 1 : 1 + j - 1 = j
    OBVIOUS
  <2>5. QED  BY <2>2, <2>3, <2>4
<1> HIDE DEF p
<1>4. v \in Int /\ <<v>> \in Seq(Int) /\ Len(<<v>>) = 1 /\ <<v>>[1] = v
  BY IndexingAssumption DEF Digits
<1>5. /\ q \in Seq(Int) /\ Len(q) = i
      /\ \A j \in 1 .. i - 1 : q[j] = x[j]
      /\ q[i] = v
  <2>1. /\ q \in Seq(Int) /\ Len(q) = (i - 1) + 1
        /\ \A j \in 1 .. (i - 1) + 1 :
             q[j] = IF j <= i - 1 THEN p[j] ELSE <<v>>[j - (i - 1)]
    BY <1>3, <1>4, ConcatProperties
  <2>2. (i - 1) + 1 = i /\ i - (i - 1) = 1 /\ ~(i <= i - 1) /\ i \in 1 .. i
    OBVIOUS
  <2>3. QED  BY <2>1, <2>2, <1>3, <1>4
<1> HIDE DEF q
<1>6. /\ y \in Seq(Int) /\ Len(y) = Len(x)
      /\ \A j \in 1 .. Len(x) : y[j] = IF j <= i THEN q[j] ELSE z[j - i]
  <2>1. /\ y \in Seq(Int) /\ Len(y) = Len(q) + Len(z)
        /\ \A j \in 1 .. Len(q) + Len(z) :
             y[j] = IF j <= Len(q) THEN q[j] ELSE z[j - Len(q)]
    BY <1>0, <1>2, <1>5, ConcatProperties
  <2>2. Len(q) + Len(z) = Len(x)
    BY <1>1, <1>2, <1>5
  <2>3. QED  BY <2>1, <2>2, <1>5
<1>7. /\ \A j \in 1 .. i - 1 : y[j] = x[j]
      /\ y[i] = v
      /\ \A j \in i + 1 .. Len(x) : y[j] = z[j - i]
  <2>1. \A j \in 1 .. i - 1 : j \in 1 .. Len(x) /\ j <= i
    BY <1>1
  <2>2. i \in 1 .. Len(x) /\ i <= i
    BY <1>1
  <2>3. \A j \in i + 1 .. Len(x) : j \in 1 .. Len(x) /\ ~(j <= i)
    BY <1>1
  <2>4. QED  BY <2>1, <2>2, <2>3, <1>5, <1>6
<1>8. \A j \in 2 .. Len(y) : y[j] \in Digits
  <2> TAKE j \in 2 .. Len(y)
  <2>1. CASE j < i
    BY <2>1, <1>1, <1>6, <1>7
  <2>2. CASE j = i
    BY <2>2, <1>7
  <2>3. CASE j > i
    <3>1. j \in i + 1 .. Len(x) /\ j - i \in 1 .. Len(z)
      BY <2>3, <1>1, <1>2, <1>6
    <3>2. QED  BY <3>1, <1>2, <1>7
  <2>4. QED  BY <2>1, <2>2, <2>3, <1>6, <1>1
<1>9. y # <<>> /\ y[1] = x[1]
  BY <1>1, <1>6, <1>7
<1>10. IsKey(y)
  BY <1>1, <1>6, <1>8, <1>9 DEF IsKey, NoKey, Digits
<1>11. QED  BY <1>6, <1>7, <1>10

\* The two keys agree on their first k places and differ at the next, which
\* both have, where x has the smaller.
PartsAt(x, y, k) ==
  /\ k \in 0 .. Len(x) - 1 /\ k < Len(y)
  /\ \A i \in 1 .. k : x[i] = y[i]
  /\ x[k + 1] < y[k + 1]

\* The next integer part is one, it is above, and it is not the smallest.
\* There is none above z and nines alone.
LEMMA Incremented ==
  ASSUME NEW x, Whole(x)
  PROVE  /\ Increment(x) # NoKey =>
              /\ Whole(Increment(x))
              /\ Increment(x) # Smallest
              /\ \E k \in Nat : PartsAt(x, Increment(x), k)
         /\ Increment(x) = NoKey =>
              /\ x[1] = Heads - 1
              /\ \A j \in 2 .. Len(x) : x[j] = Base - 1
<1> DEFINE i == Stop(x, Base - 1)
           h == x[1] + 1
           y == Increment(x)
<1>1. /\ x \in Seq(Int) /\ x # <<>> /\ Len(x) \in Nat /\ Len(x) >= 1
      /\ x[1] \in -Heads .. Heads - 1 /\ x[1] \in Int
      /\ \A j \in 2 .. Len(x) : x[j] \in Digits
      /\ IsKey(x) /\ Len(x) = IntegerLength(x[1])
  BY KeyFacts, IndexingAssumption DEF Whole, IsKey, NoKey
<1>2. /\ i \in 1 .. Len(x)
      /\ i = 1 \/ x[i] # Base - 1
      /\ \A j \in i + 1 .. Len(x) : x[j] = Base - 1
  BY <1>1, StopPosition
<1>3. y = IF i > 1
          THEN SubSeq(x, 1, i - 1) \o <<x[i] + 1>> \o Zeros(Len(x) - i)
          ELSE IF h = Heads THEN NoKey ELSE <<h>> \o Zeros(IntegerLength(h) - 1)
  BY DEF Increment
<1> HIDE DEF i, y
<1>4. CASE i > 1
  <2>1. /\ Len(x) - i \in Nat /\ i \in 2 .. Len(x)
        /\ x[i] + 1 \in Digits /\ x[i] \in Digits
    BY <1>1, <1>2, <1>4, IndexingAssumption DEF Digits
  <2> DEFINE v == x[i] + 1
             z == Zeros(Len(x) - i)
  <2>2. z \in Seq(Digits) /\ Len(z) = Len(x) - i /\ v \in Digits
    BY <2>1, ZerosAndNines
  <2>def. y = SubSeq(x, 1, i - 1) \o <<v>> \o z /\ v = x[i] + 1
    BY <1>3, <1>4
  <2> HIDE DEF v, z
  <2>3. /\ IsKey(y) /\ Len(y) = Len(x) /\ y[i] = x[i] + 1
        /\ \A j \in 1 .. i - 1 : y[j] = x[j]
    <3>1. IsKey(x) /\ i \in 2 .. Len(x)
      BY <2>1, <1>1
    <3>2. IsKey(y)
      BY ZenonT(60), <3>1, <2>2, <2>def, Changed
    <3>3. Len(y) = Len(x)
      BY <3>1, <2>2, <2>def, Changed
    <3>4. y[i] = v
      BY <3>1, <2>2, <2>def, Changed
    <3>5. \A j \in 1 .. i - 1 : y[j] = x[j]
      BY <3>1, <2>2, <2>def, Changed
    <3>6. QED  BY <3>2, <3>3, <3>4, <3>5, <2>def
  <2>4. y[1] = x[1] /\ y # NoKey
    BY <2>1, <2>3 DEF IsKey
  <2>5. Whole(y)
    BY <2>3, <2>4, <1>1 DEF Whole
  <2>6. PartsAt(x, y, i - 1) /\ i - 1 \in Nat
    <3>1. (i - 1) + 1 = i /\ x[i] < x[i] + 1 /\ i - 1 \in 0 .. Len(x) - 1
      BY SMTT(30), <2>1, <1>1, IndexingAssumption DEF Digits
    <3>2. QED  BY SMTT(30), <3>1, <2>1, <2>3, <1>1 DEF PartsAt
  <2>7. y # Smallest
    <3>1. y[i] # 0 /\ i \in 2 .. Len(y)
      BY <2>1, <2>3, IndexingAssumption DEF Digits
    <3>2. QED  BY <3>1, SmallestIsWhole
  <2>8. QED  BY <2>4, <2>5, <2>6, <2>7 DEF y
<1>5. CASE i = 1 /\ h = Heads
  <2>1. y = NoKey /\ x[1] = Heads - 1
    BY <1>1, <1>3, <1>5, IndexingAssumption
  <2>2. QED  BY <2>1, <1>2, <1>5 DEF y
<1>6. CASE i = 1 /\ h # Heads
  <2>1. h \in -Heads .. Heads - 1 /\ h \in Int /\ h # -Heads /\ x[1] < h
    BY <1>1, <1>6, IndexingAssumption
  <2> DEFINE n == IntegerLength(h) - 1
  <2>2. n \in Nat /\ n + 1 = IntegerLength(h)
    BY <2>1, IntegerLengthType
  <2> HIDE DEF h, n
  <2>3. Zeros(n) \in Seq(Digits) /\ Len(Zeros(n)) = n
    BY <2>2, ZerosAndNines
  <2>4. y = <<h>> \o Zeros(n)
    BY <1>3, <1>6 DEF n
  <2>5. IsKey(y) /\ Len(y) = n + 1 /\ y[1] = h
    BY <2>1, <2>3, <2>4, HeadAndDigits
  <2>6. Whole(y) /\ y # NoKey
    BY <2>2, <2>5 DEF Whole, IsKey
  <2>7. PartsAt(x, y, 0)
    BY <2>1, <2>2, <2>5, <1>1 DEF PartsAt
  <2>8. y # Smallest
    BY <2>1, <2>5, SmallestIsWhole
  <2>9. QED  BY <2>6, <2>7, <2>8 DEF y
<1>7. QED  BY <1>2, <1>4, <1>5, <1>6

\* y is x with the digit at i, or the head, one less and nines behind it,
\* as many as the head of y asks for; behind i, x has zeros.
BorrowAt(x, y, i) ==
  /\ i \in 1 .. Len(x) /\ i <= Len(y)
  /\ \A j \in 1 .. i - 1 : y[j] = x[j]
  /\ y[i] = x[i] - 1
  /\ \A j \in i + 1 .. Len(x) : x[j] = 0
  /\ \A j \in i + 1 .. Len(y) : y[j] = Base - 1

\* The integer part before one that is not the smallest.
LEMMA DecrementBorrows ==
  ASSUME NEW x, Whole(x), x # Smallest
  PROVE  /\ Whole(Decrement(x))
         /\ \E i \in Nat : BorrowAt(x, Decrement(x), i)
<1> DEFINE i == Stop(x, 0)
           h == x[1] - 1
           y == Decrement(x)
<1>1. /\ x \in Seq(Int) /\ x # <<>> /\ Len(x) \in Nat /\ Len(x) >= 1
      /\ x[1] \in -Heads .. Heads - 1 /\ x[1] \in Int
      /\ \A j \in 2 .. Len(x) : x[j] \in Digits
      /\ IsKey(x) /\ Len(x) = IntegerLength(x[1])
  BY KeyFacts, IndexingAssumption DEF Whole, IsKey, NoKey
<1>2. /\ i \in 1 .. Len(x)
      /\ i = 1 \/ x[i] # 0
      /\ \A j \in i + 1 .. Len(x) : x[j] = 0
  BY <1>1, StopPosition
<1>3. y = IF i > 1
          THEN SubSeq(x, 1, i - 1) \o <<x[i] - 1>> \o Nines(Len(x) - i)
          ELSE IF h < -Heads THEN NoKey ELSE <<h>> \o Nines(IntegerLength(h) - 1)
  BY DEF Decrement
<1> HIDE DEF i, y
<1>4. CASE i > 1
  <2>1. /\ Len(x) - i \in Nat /\ i \in 2 .. Len(x)
        /\ x[i] - 1 \in Digits /\ x[i] \in Digits
    BY <1>1, <1>2, <1>4, IndexingAssumption DEF Digits
  <2> DEFINE v == x[i] - 1
             z == Nines(Len(x) - i)
  <2>2. z \in Seq(Digits) /\ Len(z) = Len(x) - i /\ v \in Digits
    BY <2>1, ZerosAndNines
  <2>3. \A j \in 1 .. Len(x) - i : z[j] = Base - 1
    BY <2>1, ZerosAndNines
  <2>4. y = SubSeq(x, 1, i - 1) \o <<v>> \o z /\ v = x[i] - 1
    BY <1>3, <1>4
  <2> HIDE DEF v, z
  <2>5. IsKey(x) /\ i \in 2 .. Len(x)
    BY <2>1, <1>1
  <2>6. IsKey(y)
    BY ZenonT(60), <2>2, <2>4, <2>5, Changed
  <2>7. Len(y) = Len(x)
    BY <2>2, <2>4, <2>5, Changed
  <2>8. y[i] = v
    BY <2>2, <2>4, <2>5, Changed
  <2>9. \A j \in 1 .. i - 1 : y[j] = x[j]
    BY <2>2, <2>4, <2>5, Changed
  <2>10. \A j \in i + 1 .. Len(x) : y[j] = z[j - i]
    BY <2>2, <2>4, <2>5, Changed
  <2>11. \A j \in i + 1 .. Len(y) : y[j] = Base - 1
    <3> TAKE j \in i + 1 .. Len(y)
    <3>1. j \in i + 1 .. Len(x) /\ j - i \in 1 .. Len(x) - i
      BY <2>1, <2>7, <1>1
    <3>2. QED  BY <3>1, <2>3, <2>10
  <2>12. Whole(y)
    <3>1. y[1] = x[1]
      BY <2>1, <2>9
    <3>2. QED  BY <3>1, <2>6, <2>7, <1>1 DEF Whole
  <2>13. BorrowAt(x, y, i) /\ i \in Nat
    <3>1. i <= Len(y) /\ i \in Nat
      BY <2>7, <1>1, <1>2
    <3>2. QED  BY <3>1, <2>4, <2>8, <2>9, <2>11, <1>2 DEF BorrowAt
  <2>14. QED  BY <2>12, <2>13 DEF y
<1>5. CASE i = 1
  <2>1. x[1] # -Heads
    <3>1. SUFFICES ASSUME x[1] = -Heads
                   PROVE  FALSE
      OBVIOUS
    <3>2. Len(Smallest) = Len(x) /\ Smallest \in Seq(Int)
      BY <3>1, <1>1, SmallestIsWhole DEF Whole, IsKey
    <3>3. \A j \in 1 .. Len(x) : x[j] = Smallest[j]
      <4> TAKE j \in 1 .. Len(x)
      <4>1. CASE j = 1
        BY <4>1, <3>1, SmallestIsWhole
      <4>2. CASE j > 1
        BY <4>2, <3>2, <1>1, <1>2, <1>5, SmallestIsWhole
      <4>3. QED  BY <4>1, <4>2, <1>1
    <3>4. QED  BY <3>2, <3>3, <1>1, SeqEqual
  <2>2. h \in -Heads .. Heads - 1 /\ h \in Int /\ ~(h < -Heads) /\ h < x[1]
    BY <2>1, <1>1, IndexingAssumption
  <2> DEFINE n == IntegerLength(h) - 1
  <2>3. n \in Nat /\ n + 1 = IntegerLength(h)
    BY <2>2, IntegerLengthType
  <2> HIDE DEF h, n
  <2>4. Nines(n) \in Seq(Digits) /\ Len(Nines(n)) = n
    BY <2>3, ZerosAndNines
  <2>5. y = <<h>> \o Nines(n)
    BY <2>2, <1>3, <1>5 DEF n
  <2>6. IsKey(y) /\ Len(y) = n + 1 /\ y[1] = h
    BY <2>2, <2>4, <2>5, HeadAndDigits
  <2>7. Whole(y)
    BY <2>3, <2>6 DEF Whole
  <2>8. \A j \in 2 .. Len(y) : y[j] = Base - 1
    <3>1. \A j \in 1 .. n : y[j + 1] = Nines(n)[j] /\ Nines(n)[j] = Base - 1
      <4>1. \A j \in 1 .. n : Nines(n)[j] = Base - 1
        BY <2>3, ZerosAndNines
      <4>2. \A j \in 1 .. Len(Nines(n)) : (<<h>> \o Nines(n))[j + 1] = Nines(n)[j]
        BY <2>2, <2>4, HeadAndDigits
      <4>3. QED  BY <4>1, <4>2, <2>4, <2>5
    <3> TAKE j \in 2 .. Len(y)
    <3>2. j - 1 \in 1 .. n /\ (j - 1) + 1 = j
      BY <2>3, <2>6
    <3>3. QED  BY <3>1, <3>2
  <2>9. BorrowAt(x, y, 1)
    <3>1. 1 <= Len(y) /\ 1 \in 1 .. Len(x) /\ 1 + 1 = 2
      BY <2>3, <2>6, <1>1
    <3>2. y[1] = x[1] - 1
      BY <2>6 DEF h
    <3>3. QED  BY <3>1, <3>2, <2>8, <1>2, <1>5 DEF BorrowAt
  <2>10. QED  BY <2>7, <2>9 DEF y
<1>6. QED  BY <1>2, <1>4, <1>5

\* It is below.
LEMMA Decremented ==
  ASSUME NEW x, Whole(x), x # Smallest
  PROVE  /\ Whole(Decrement(x))
         /\ \E k \in Nat : PartsAt(Decrement(x), x, k)
<1> DEFINE y == Decrement(x)
<1>1. Whole(y) /\ \E i \in Nat : BorrowAt(x, y, i)
  BY DecrementBorrows
<1>2. PICK i \in Nat : BorrowAt(x, y, i)
  BY <1>1
<1> HIDE DEF y
<1>3. /\ Len(x) \in Nat /\ Len(y) \in Nat
      /\ \A j \in 1 .. Len(x) : x[j] \in Int
  BY <1>1, KeyFacts DEF Whole
<1>4. /\ i \in 1 .. Len(x) /\ i <= Len(y)
      /\ \A j \in 1 .. i - 1 : y[j] = x[j]
      /\ y[i] = x[i] - 1
  BY <1>2 DEF BorrowAt
<1>5. i - 1 \in Nat /\ i - 1 \in 0 .. Len(y) - 1 /\ i - 1 < Len(x) /\ (i - 1) + 1 = i
  BY <1>3, <1>4
<1>6. y[i] < x[i]
  BY <1>3, <1>4
<1>7. PartsAt(y, x, i - 1)
  BY <1>4, <1>5, <1>6 DEF PartsAt
<1>8. QED  BY <1>1, <1>5, <1>7 DEF y
-----------------------------------------------------------------------------
(* Fractions between two fractions.                                        *)

\* The fraction of a key _validateOrderKey lets pass.
IsFraction(x) == x \in Seq(Digits) /\ (x # <<>> => x[Len(x)] # 0)

\* A digit of a fraction is a digit, past its end too.
LEMMA DigitType ==
  ASSUME NEW x \in Seq(Digits), NEW n \in Nat, n >= 1
  PROVE  Digit(x, n) \in Digits
<1>1. 0 \in Digits
  BY IndexingAssumption DEF Digits
<1>2. n <= Len(x) => n \in 1 .. Len(x)
  BY DigitsAreInts
<1>3. QED  BY <1>1, <1>2, DigitsAreInts DEF Digit

\* x agrees with y on n digits, those it does not have being zeros, and has
\* less at the next.
PaddedAt(x, y, n) ==
  /\ n \in Nat /\ n < Len(y)
  /\ \A i \in 1 .. n : Digit(x, i) = y[i]
  /\ Digit(x, n + 1) < y[n + 1]

\* A fraction below another by its padded digits is below it.
LEMMA PaddedLess ==
  ASSUME NEW x \in Seq(Digits), NEW y \in Seq(Digits), NEW n, PaddedAt(x, y, n)
  PROVE  Less(x, y)
<1>1. /\ n \in Nat /\ n < Len(y)
      /\ \A i \in 1 .. n : Digit(x, i) = y[i]
      /\ Digit(x, n + 1) < y[n + 1]
  BY DEF PaddedAt
<1>2. x \in Seq(Int) /\ y \in Seq(Int) /\ Len(x) \in Nat /\ Len(y) \in Nat
  BY DigitsAreInts
<1>3. CASE n < Len(x)
  <2>1. \A i \in 1 .. n : x[i] = y[i]
    BY <1>1, <1>2, <1>3 DEF Digit
  <2>2. x[n + 1] < y[n + 1]
    BY <1>1, <1>2, <1>3 DEF Digit
  <2>3. LessAt(x, y, n)
    BY <2>1, <2>2, <1>1, <1>2, <1>3 DEF LessAt
  <2>4. QED  BY <2>3, <1>1, <1>2, LessPositions
<1>4. CASE ~(n < Len(x))
  <2>1. \A i \in 1 .. Len(x) : x[i] = y[i]
    BY <1>1, <1>2, <1>4 DEF Digit
  <2>2. LessAt(x, y, Len(x))
    BY <2>1, <1>1, <1>2, <1>4 DEF LessAt
  <2>3. QED  BY <2>2, <1>2, LessPositions
<1>5. QED  BY <1>3, <1>4

\* Half way up from a digit that can grow.
LEMMA HalfWay ==
  ASSUME NEW d \in Digits, NEW e \in 1 .. Base, e - d > 1
  PROVE  /\ (d + e + 1) \div 2 \in Digits
         /\ d < (d + e + 1) \div 2
         /\ (d + e + 1) \div 2 < e
<1>1. d \in Int /\ e \in Int /\ Base \in Int /\ 0 <= d /\ d < Base /\ e <= Base
  BY IndexingAssumption DEF Digits
<1>2. \A m \in Int : m >= 0 =>
        /\ m \div 2 \in Int /\ 2 * (m \div 2) <= m /\ m < 2 * (m \div 2) + 2
  OBVIOUS
<1>3. d + e + 1 \in Int /\ d + e + 1 >= 0
  BY <1>1
<1> DEFINE h == (d + e + 1) \div 2
<1>4. h \in Int /\ 2 * h <= d + e + 1 /\ d + e + 1 < 2 * h + 2
  BY <1>2, <1>3
<1> HIDE DEF h
<1>5. h \in Int /\ d < h /\ h < e
  BY <1>1, <1>4
<1>6. h \in Digits
  BY <1>1, <1>5 DEF Digits
<1>7. QED  BY <1>5, <1>6 DEF h

\* Above(a) is a fraction above a, which is not empty.
LEMMA AboveFacts ==
  ASSUME NEW a \in Seq(Digits)
  PROVE  /\ IsFraction(Above(a)) /\ Above(a) # <<>>
         /\ \E n \in Nat : PaddedAt(a, Above(a), n)
<1> DEFINE First(i) == /\ Digit(a, i) # Base - 1
                       /\ \A j \in 1 .. i - 1 : Digit(a, j) = Base - 1
           n == CHOOSE i \in 1 .. Len(a) + 1 : First(i)
           v == (Digit(a, n) + Base + 1) \div 2
           up == Above(a)
<1>1. Len(a) \in Nat
  BY DigitsAreInts
<1>2. n \in 1 .. Len(a) + 1 /\ First(n)
  <2> DEFINE T == {i \in 1 .. Len(a) + 1 : Digit(a, i) # Base - 1}
  <2>1. Len(a) + 1 \in T
    BY <1>1, IndexingAssumption DEF Digit
  <2>2. T \in SUBSET Nat /\ T # {}
    BY <2>1, <1>1
  <2>3. PICK m \in T : \A k \in T : m <= k
    BY <2>2, LeastNat
  <2>4. \A j \in 1 .. m - 1 : Digit(a, j) = Base - 1
    <3> TAKE j \in 1 .. m - 1
    <3>1. j \in 1 .. Len(a) + 1 /\ ~(m <= j)
      BY <1>1
    <3>2. j \notin T
      BY <3>1, <2>3
    <3>3. QED  BY <3>1, <3>2
  <2>5. \E i \in 1 .. Len(a) + 1 : First(i)
    BY <2>4
  <2> HIDE DEF First
  <2>6. QED  BY <2>5
<1>3. up = Nines(n - 1) \o <<v>>
  BY DEF Above
<1>4. /\ Digit(a, n) # Base - 1
      /\ \A j \in 1 .. n - 1 : Digit(a, j) = Base - 1
  BY <1>2
<1> HIDE DEF First, n, up
<1>5. n \in Nat /\ n >= 1 /\ n - 1 \in Nat
  BY <1>1, <1>2
<1>6. Digit(a, n) \in Digits /\ Base \in 1 .. Base /\ Base - Digit(a, n) > 1
  <2>1. Digit(a, n) \in Digits
    BY <1>5, DigitType
  <2>2. QED  BY <2>1, <1>4, IndexingAssumption DEF Digits
<1>7. v \in Digits /\ Digit(a, n) < v
  BY <1>6, HalfWay
<1> HIDE DEF v
<1>8. v # 0
  BY <1>6, <1>7, IndexingAssumption DEF Digits
<1>9. /\ Nines(n - 1) \in Seq(Digits) /\ Len(Nines(n - 1)) = n - 1
      /\ \A i \in 1 .. n - 1 : Nines(n - 1)[i] = Base - 1
  BY <1>5, ZerosAndNines
<1>10. <<v>> \in Seq(Digits) /\ Len(<<v>>) = 1 /\ <<v>>[1] = v
  BY <1>7
<1>11. /\ up \in Seq(Digits) /\ Len(up) = n
       /\ \A i \in 1 .. n - 1 : up[i] = Base - 1
       /\ up[n] = v
  <2>1. /\ up \in Seq(Digits) /\ Len(up) = (n - 1) + 1
        /\ \A i \in 1 .. (n - 1) + 1 :
             up[i] = IF i <= n - 1 THEN Nines(n - 1)[i] ELSE <<v>>[i - (n - 1)]
    BY <1>3, <1>9, <1>10, ConcatProperties
  <2>2. (n - 1) + 1 = n /\ n - (n - 1) = 1 /\ ~(n <= n - 1) /\ n \in 1 .. n
    BY <1>5
  <2>3. QED  BY <2>1, <2>2, <1>5, <1>9, <1>10
<1>12. IsFraction(up) /\ up # <<>>
  BY <1>5, <1>8, <1>11 DEF IsFraction
<1>13. PaddedAt(a, up, n - 1)
  <2>1. (n - 1) + 1 = n
    BY <1>5
  <2>2. QED  BY <2>1, <1>4, <1>5, <1>7, <1>11 DEF PaddedAt
<1>14. QED  BY <1>5, <1>12, <1>13 DEF up

\* The digits of b that agree with a's, then one more of a's or between:
\* what the three outcomes of Midpoint have in common.
LEMMA Agreeing ==
  ASSUME NEW a \in Seq(Digits), NEW b, IsFraction(b), b # <<>>, Less(a, b)
  PROVE  LET same == CHOOSE i \in 0 .. Len(b) :
                       /\ \A j \in 1 .. i : Digit(a, j) = b[j]
                       /\ i < Len(b) => Digit(a, i + 1) # b[i + 1]
         IN  /\ same \in Nat /\ same < Len(b)
             /\ \A j \in 1 .. same : Digit(a, j) = b[j]
             /\ Digit(a, same + 1) < b[same + 1]
<1> DEFINE Agree(i) == /\ \A j \in 1 .. i : Digit(a, j) = b[j]
                       /\ i < Len(b) => Digit(a, i + 1) # b[i + 1]
           same == CHOOSE i \in 0 .. Len(b) : Agree(i)
<1>1. /\ a \in Seq(Int) /\ Len(a) \in Nat
      /\ \A i \in 1 .. Len(a) : a[i] \in Digits
      /\ b \in Seq(Digits) /\ b \in Seq(Int) /\ Len(b) \in Nat /\ Len(b) >= 1
      /\ \A i \in 1 .. Len(b) : b[i] \in Digits
      /\ b[Len(b)] # 0
  BY DigitsAreInts, EmptySeq DEF IsFraction
<1>2. same \in 0 .. Len(b) /\ Agree(same)
  <2> DEFINE T == {i \in 0 .. Len(b) : i < Len(b) => Digit(a, i + 1) # b[i + 1]}
  <2>1. T \in SUBSET Nat /\ T # {}
    <3>1. Len(b) \in T
      BY <1>1
    <3>2. QED  BY <3>1
  <2>2. PICK m \in T : \A k \in T : m <= k
    BY <2>1, LeastNat
  <2>3. \A j \in 1 .. m : Digit(a, j) = b[j]
    <3> TAKE j \in 1 .. m
    <3>1. j - 1 \in 0 .. Len(b) /\ ~(m <= j - 1) /\ (j - 1) + 1 = j
      BY <1>1
    <3>2. j - 1 \notin T
      BY <3>1, <2>2
    <3>3. QED  BY <3>1, <3>2
  <2>4. \E i \in 0 .. Len(b) : Agree(i)
    BY <2>3
  <2> HIDE DEF Agree
  <2>5. QED  BY <2>4
<1>3. /\ \A j \in 1 .. same : Digit(a, j) = b[j]
      /\ same < Len(b) => Digit(a, same + 1) # b[same + 1]
  BY <1>2
<1> HIDE DEF same
<1>4. PICK n \in Nat : LessAt(a, b, n)
  BY <1>1, LessPositions
<1>5. /\ n \in 0 .. Len(b) - 1 /\ n <= Len(a)
      /\ \A i \in 1 .. n : a[i] = b[i]
      /\ n < Len(a) => a[n + 1] < b[n + 1]
  BY <1>4 DEF LessAt
<1>6. same < Len(b)
  <2> SUFFICES ASSUME same = Len(b)
               PROVE  FALSE
    BY <1>1, <1>2
  <2>1. CASE n < Len(a)
    <3>1. n + 1 \in 1 .. same /\ n + 1 <= Len(a)
      BY <2>1, <1>1, <1>5
    <3>2. Digit(a, n + 1) = a[n + 1] /\ Digit(a, n + 1) = b[n + 1]
      BY <3>1, <1>3 DEF Digit
    <3>3. a[n + 1] \in Int /\ b[n + 1] \in Int
      BY <3>1, <1>1, IndexingAssumption DEF Digits
    <3>4. QED  BY <3>2, <3>3, <2>1, <1>5
  <2>2. CASE n = Len(a)
    <3>1. Len(b) \in 1 .. same /\ ~(Len(b) <= Len(a))
      BY <2>2, <1>1, <1>5
    <3>2. Digit(a, Len(b)) = 0 /\ Digit(a, Len(b)) = b[Len(b)]
      BY <3>1, <1>3 DEF Digit
    <3>3. QED  BY <3>2, <1>1
  <2>3. QED  BY <2>1, <2>2, <1>1, <1>5
<1>7. same \in Nat /\ same + 1 \in 1 .. Len(b) /\ Digit(a, same + 1) \in Digits
  BY <1>1, <1>2, <1>6, DigitType
<1>8. b[same + 1] \in Digits /\ Digit(a, same + 1) # b[same + 1]
  BY <1>1, <1>3, <1>6, <1>7
<1>9. Digit(a, same + 1) < b[same + 1]
  <2>1. CASE n < same
    <3>1. n + 1 \in 1 .. same
      BY <2>1, <1>7
    <3>2. CASE n < Len(a)
      <4>1. Digit(a, n + 1) = a[n + 1] /\ Digit(a, n + 1) = b[n + 1]
        BY <3>1, <3>2, <1>1, <1>3 DEF Digit
      <4>2. a[n + 1] \in Int /\ b[n + 1] \in Int
        BY <3>2, <1>1, <1>5, IndexingAssumption DEF Digits
      <4>3. QED  BY <4>1, <4>2, <3>2, <1>5
    <3>3. CASE n = Len(a)
      <4>1. Digit(a, same + 1) = 0
        BY <3>3, <2>1, <1>1, <1>7 DEF Digit
      <4>2. QED  BY <4>1, <1>8, IndexingAssumption DEF Digits
    <3>4. QED  BY <3>2, <3>3, <1>1, <1>5
  <2>2. CASE n = same
    <3>1. CASE n < Len(a)
      BY <3>1, <2>2, <1>1, <1>5 DEF Digit
    <3>2. CASE n = Len(a)
      <4>1. Digit(a, same + 1) = 0
        BY <3>2, <2>2, <1>1, <1>7 DEF Digit
      <4>2. QED  BY <4>1, <1>8, IndexingAssumption DEF Digits
    <3>3. QED  BY <3>1, <3>2, <1>1, <1>5
  <2>3. CASE same < n
    <3>1. same + 1 \in 1 .. n /\ same + 1 <= Len(a)
      BY <2>3, <1>1, <1>5, <1>7
    <3>2. Digit(a, same + 1) = b[same + 1]
      BY <3>1, <1>5 DEF Digit
    <3>3. QED  BY <3>2, <1>8
  <2>4. QED  BY <2>1, <2>2, <2>3, <1>5, <1>7
<1>10. QED  BY <1>3, <1>6, <1>7, <1>9 DEF same

\* _midpoint is a fraction strictly between the two it is given.
LEMMA MidpointBetween ==
  ASSUME NEW a, IsFraction(a), NEW b, IsFraction(b), b # <<>> => Less(a, b)
  PROVE  /\ IsFraction(Midpoint(a, b)) /\ Midpoint(a, b) # <<>>
         /\ Less(a, Midpoint(a, b))
         /\ b # <<>> => Less(Midpoint(a, b), b)
<1> DEFINE same == CHOOSE i \in 0 .. Len(b) :
                     /\ \A j \in 1 .. i : Digit(a, j) = b[j]
                     /\ i < Len(b) => Digit(a, i + 1) # b[i + 1]
           low == Digit(a, same + 1)
           high == b[same + 1]
           rest == SubSeq(a, same + 2, Len(a))
           p == SubSeq(b, 1, same)
           tail == IF high - low > 1 THEN <<(low + high + 1) \div 2>>
                   ELSE IF Len(b) > same + 1 THEN <<high>>
                   ELSE <<low>> \o Above(rest)
           mid == Midpoint(a, b)
<1>1. mid = IF b = <<>> THEN Above(a) ELSE p \o tail
  BY DEF Midpoint
<1>2. /\ a \in Seq(Digits) /\ a \in Seq(Int) /\ Len(a) \in Nat
      /\ \A i \in 1 .. Len(a) : a[i] \in Digits
      /\ b \in Seq(Digits) /\ b \in Seq(Int) /\ Len(b) \in Nat
      /\ \A i \in 1 .. Len(b) : b[i] \in Digits
      /\ b # <<>> => b[Len(b)] # 0
  BY DigitsAreInts DEF IsFraction
<1>3. CASE b = <<>>
  <2>1. /\ IsFraction(Above(a)) /\ Above(a) # <<>>
        /\ \E n \in Nat : PaddedAt(a, Above(a), n)
    BY <1>2, AboveFacts
  <2>2. Less(a, Above(a))
    BY <2>1, <1>2, PaddedLess DEF IsFraction
  <2>3. QED  BY <2>1, <2>2, <1>1, <1>3
<1>4. CASE b # <<>>
  <2>1. /\ same \in Nat /\ same < Len(b)
        /\ \A j \in 1 .. same : Digit(a, j) = b[j]
        /\ low < high
    BY ZenonT(60), <1>2, <1>4, Agreeing
  <2>2. mid = p \o tail
    BY <1>1, <1>4
  <2> HIDE DEF same, mid
  <2>3. low \in Digits /\ high \in Digits /\ high \in 1 .. Base
    <3>1. same + 1 \in 1 .. Len(b) /\ same + 1 \in Nat /\ same + 1 >= 1
      BY <2>1, <1>2
    <3>2. low \in Digits /\ high \in Digits
      BY <3>1, <1>2, DigitType
    <3>3. QED  BY <3>2, <2>1, IndexingAssumption DEF Digits
  <2>4. /\ p \in Seq(Digits) /\ Len(p) = same
        /\ \A i \in 1 .. same : p[i] = b[i]
    <3>1. \A i \in 1 .. same : b[i] \in Digits
      BY <2>1, <1>2
    <3>2. /\ p \in Seq(Digits)
          /\ Len(p) = IF 1 <= same THEN same - 1 + 1 ELSE 0
          /\ \A i \in 1 .. same - 1 + 1 : p[i] = b[1 + i - 1]
      BY <3>1, <2>1, SubSeqProperties
    <3>3. same - 1 + 1 = same /\ \A i \in 1 .. same : 1 + i - 1 = i
      BY <2>1
    <3>4. QED  BY <3>2, <3>3, <2>1
  <2> DEFINE Fits ==
        /\ tail \in Seq(Digits) /\ Len(tail) \in Nat /\ Len(tail) >= 1
        /\ tail[Len(tail)] # 0
        /\ \E n \in Nat : /\ n < Len(tail)
                          /\ \A i \in 1 .. n : Digit(a, same + i) = tail[i]
                          /\ Digit(a, same + n + 1) < tail[n + 1]
        /\ \/ tail[1] < high
           \/ tail = <<high>> /\ Len(b) > same + 1
  <2>5. Fits
    <3>1. CASE high - low > 1
      <4> DEFINE v == (low + high + 1) \div 2
      <4>1. v \in Digits /\ low < v /\ v < high
        BY <3>1, <2>3, HalfWay
      <4>2. tail = <<v>>
        BY <3>1
      <4> HIDE DEF v, tail, high
      <4>3. /\ tail \in Seq(Digits) /\ Len(tail) = 1 /\ tail[1] = v
        BY <4>1, <4>2
      <4>4. v # 0
        BY <4>1, <2>3, IndexingAssumption DEF Digits
      <4>5. same + 0 + 1 = same + 1 /\ 0 + 1 = 1
        BY <2>1
      <4>6. QED  BY <4>1, <4>3, <4>4, <4>5
    <3>2. CASE ~(high - low > 1) /\ Len(b) > same + 1
      <4>1. tail = <<high>>
        BY <3>2
      <4>2. high # 0
        BY <2>1, <2>3, IndexingAssumption DEF Digits
      <4> HIDE DEF tail, high
      <4>3. /\ tail \in Seq(Digits) /\ Len(tail) = 1 /\ tail[1] = high
        BY <4>1, <2>3
      <4>4. same + 0 + 1 = same + 1 /\ 0 + 1 = 1
        BY <2>1
      <4>5. QED  BY <4>1, <4>2, <4>3, <4>4, <3>2, <2>1
    <3>3. CASE ~(high - low > 1) /\ ~(Len(b) > same + 1)
      <4> DEFINE up == Above(rest)
      <4>1. /\ rest \in Seq(Digits)
            /\ \A i \in Nat : i >= 1 => Digit(rest, i) = Digit(a, same + 1 + i)
        <5>1. \A i \in same + 2 .. Len(a) : a[i] \in Digits
          BY <2>1, <1>2
        <5>2. /\ rest \in Seq(Digits)
              /\ Len(rest) = IF same + 2 <= Len(a) THEN Len(a) - (same + 2) + 1 ELSE 0
              /\ \A i \in 1 .. Len(a) - (same + 2) + 1 : rest[i] = a[(same + 2) + i - 1]
          BY <5>1, <2>1, <1>2, SubSeqProperties
        <5> HIDE DEF rest
        <5>3. ASSUME NEW i \in Nat, i >= 1
              PROVE  Digit(rest, i) = Digit(a, same + 1 + i)
          <6>1. CASE same + 1 + i <= Len(a)
            <7>1. /\ i \in 1 .. Len(a) - (same + 2) + 1
                  /\ (same + 2) + i - 1 = same + 1 + i
                  /\ i <= Len(rest)
              BY <6>1, <5>2, <5>3, <2>1, <1>2
            <7>2. QED  BY <7>1, <6>1, <5>2 DEF Digit
          <6>2. CASE ~(same + 1 + i <= Len(a))
            <7>1. ~(i <= Len(rest))
              BY <6>2, <5>2, <5>3, <2>1, <1>2
            <7>2. QED  BY <7>1, <6>2 DEF Digit
          <6>3. QED  BY <6>1, <6>2
        <5>4. QED  BY <5>2, <5>3
      <4>2. /\ IsFraction(up) /\ up # <<>>
            /\ \E n \in Nat : PaddedAt(rest, up, n)
        BY <4>1, AboveFacts
      <4>3. tail = <<low>> \o up
        BY <3>3
      <4> HIDE DEF up, rest, tail, high
      <4>4. /\ up \in Seq(Digits) /\ Len(up) \in Nat /\ Len(up) >= 1
            /\ up[Len(up)] # 0
        BY <4>2, EmptySeq DEF IsFraction
      <4>5. <<low>> \in Seq(Digits) /\ Len(<<low>>) = 1 /\ <<low>>[1] = low
        BY <2>3
      <4>6. /\ tail \in Seq(Digits) /\ Len(tail) = 1 + Len(up)
            /\ \A i \in 1 .. 1 + Len(up) :
                 tail[i] = IF i <= 1 THEN <<low>>[i] ELSE up[i - 1]
        BY <4>3, <4>4, <4>5, ConcatProperties
      <4> HIDE DEF low
      <4>7. /\ tail[1] = low
            /\ \A i \in 1 .. Len(up) : tail[i + 1] = up[i]
        BY <4>4, <4>5, <4>6
      <4>8. PICK n \in Nat : PaddedAt(rest, up, n)
        BY <4>2
      <4>9. /\ n + 1 < Len(tail)
            /\ \A i \in 1 .. n + 1 : Digit(a, same + i) = tail[i]
            /\ Digit(a, same + (n + 1) + 1) < tail[(n + 1) + 1]
        <5>1. /\ n < Len(up)
              /\ \A i \in 1 .. n : Digit(rest, i) = up[i]
              /\ Digit(rest, n + 1) < up[n + 1]
          BY <4>8 DEF PaddedAt
        <5>2. \A i \in 1 .. n + 1 : Digit(a, same + i) = tail[i]
          <6> TAKE i \in 1 .. n + 1
          <6>1. CASE i = 1
            BY <6>1, <4>7 DEF low
          <6>2. CASE i > 1
            <7>1. /\ i - 1 \in 1 .. n /\ i - 1 \in Nat /\ i - 1 >= 1
                  /\ (i - 1) + 1 = i /\ same + 1 + (i - 1) = same + i
                  /\ i - 1 \in 1 .. Len(up)
              BY <6>2, <5>1, <4>4, <2>1
            <7>2. Digit(rest, i - 1) = Digit(a, same + i)
              BY <7>1, <4>1
            <7>3. tail[i] = up[i - 1]
              BY <7>1, <4>7
            <7>4. QED  BY <7>1, <7>2, <7>3, <5>1
          <6>3. QED  BY <6>1, <6>2
        <5>3. Digit(a, same + (n + 1) + 1) < tail[(n + 1) + 1]
          <6>1. /\ n + 1 \in Nat /\ n + 1 >= 1 /\ n + 1 \in 1 .. Len(up)
                /\ same + 1 + (n + 1) = same + (n + 1) + 1
            BY <5>1, <4>4, <2>1
          <6>2. Digit(rest, n + 1) = Digit(a, same + (n + 1) + 1)
            BY <6>1, <4>1
          <6>3. tail[(n + 1) + 1] = up[n + 1]
            BY <6>1, <4>7
          <6>4. QED  BY <6>2, <6>3, <5>1
        <5>4. QED  BY <5>1, <5>2, <5>3, <4>4, <4>6
      <4>10. tail[Len(tail)] # 0
        BY <4>4, <4>6, <4>7
      <4>11. n + 1 \in Nat /\ Len(tail) \in Nat /\ Len(tail) >= 1
        BY <4>4, <4>6
      <4>12. QED  BY <4>6, <4>7, <4>9, <4>10, <4>11, <2>1
    <3>4. QED  BY <3>1, <3>2, <3>3
  <2>6. /\ tail \in Seq(Digits) /\ Len(tail) \in Nat /\ Len(tail) >= 1
        /\ tail[Len(tail)] # 0
        /\ \/ tail[1] < high
           \/ tail = <<high>> /\ Len(b) > same + 1
    BY <2>5
  <2>7. PICK n \in Nat : /\ n < Len(tail)
                         /\ \A i \in 1 .. n : Digit(a, same + i) = tail[i]
                         /\ Digit(a, same + n + 1) < tail[n + 1]
    BY <2>5
  <2> HIDE DEF Fits, tail, p, high
  <2>8. /\ mid \in Seq(Digits) /\ Len(mid) = same + Len(tail)
        /\ \A i \in 1 .. same : mid[i] = b[i]
        /\ \A i \in 1 .. Len(tail) : mid[same + i] = tail[i]
    <3>1. /\ mid \in Seq(Digits) /\ Len(mid) = Len(p) + Len(tail)
          /\ \A i \in 1 .. Len(p) + Len(tail) :
               mid[i] = IF i <= Len(p) THEN p[i] ELSE tail[i - Len(p)]
      <4>1. p \in Seq(Digits) /\ tail \in Seq(Digits)
        BY <2>4, <2>6
      <4>2. QED  BY <4>1, <2>2, ConcatProperties
    <3>2. \A i \in 1 .. same : mid[i] = b[i]
      BY <3>1, <2>1, <2>4, <2>6
    <3>3. \A i \in 1 .. Len(tail) : mid[same + i] = tail[i]
      <4> TAKE i \in 1 .. Len(tail)
      <4>1. /\ same + i \in 1 .. same + Len(tail)
            /\ ~(same + i <= same) /\ same + i - same = i
        BY <2>1, <2>6
      <4>2. QED  BY <4>1, <3>1, <2>4
    <3>4. QED  BY <3>1, <3>2, <3>3, <2>4
  <2>9. IsFraction(mid) /\ mid # <<>>
    <3>1. mid[Len(mid)] = tail[Len(tail)] /\ Len(mid) >= 1
      BY <2>1, <2>6, <2>8
    <3>2. QED  BY <3>1, <2>6, <2>8 DEF IsFraction
  <2>10. Less(a, mid)
    <3>1. \A i \in 1 .. same + n : Digit(a, i) = mid[i]
      <4> TAKE i \in 1 .. same + n
      <4>1. CASE i <= same
        BY <4>1, <2>1, <2>8
      <4>2. CASE i > same
        <5>1. /\ i - same \in 1 .. n /\ same + (i - same) = i
              /\ i - same \in 1 .. Len(tail)
          BY <4>2, <2>1, <2>6, <2>7
        <5>2. Digit(a, same + (i - same)) = tail[i - same]
          BY <5>1, <2>7
        <5>3. mid[same + (i - same)] = tail[i - same]
          BY <5>1, <2>8
        <5>4. QED  BY <5>1, <5>2, <5>3
      <4>3. QED  BY <4>1, <4>2, <2>1
    <3>2. Digit(a, same + n + 1) < mid[same + n + 1]
      <4>1. n + 1 \in 1 .. Len(tail) /\ same + (n + 1) = same + n + 1
        BY <2>1, <2>6, <2>7
      <4>2. mid[same + (n + 1)] = tail[n + 1]
        BY <4>1, <2>8
      <4>3. QED  BY <4>1, <4>2, <2>7
    <3>3. PaddedAt(a, mid, same + n)
      BY <3>1, <3>2, <2>1, <2>6, <2>7, <2>8 DEF PaddedAt
    <3>4. QED  BY <3>3, <1>2, <2>8, PaddedLess
  <2>11. Less(mid, b)
    <3>0. mid \in Seq(Int) /\ mid[same + 1] = tail[1] /\ same + 1 \in 1 .. Len(mid)
      BY <2>1, <2>6, <2>8, DigitsAreInts
    <3>1. CASE tail[1] < high
      <4>1. LessAt(mid, b, same)
        BY SMTT(30), <3>0, <3>1, <2>1, <2>6, <2>8, <1>2 DEF LessAt, high
      <4>2. QED  BY <4>1, <3>0, <2>1, <1>2, LessPositions
    <3>2. CASE tail = <<high>> /\ Len(b) > same + 1
      <4>1. Len(tail) = 1 /\ tail[1] = high
        BY <3>2
      <4>2. Len(mid) = same + 1 /\ mid[same + 1] = b[same + 1]
        BY <4>1, <3>0, <2>8 DEF high
      <4>3. \A i \in 1 .. same + 1 : mid[i] = b[i]
        BY <4>2, <2>1, <2>8
      <4>4. LessAt(mid, b, same + 1)
        BY <4>2, <4>3, <3>2, <2>1, <1>2 DEF LessAt
      <4>5. QED  BY <4>4, <3>0, <2>1, <1>2, LessPositions
    <3>3. QED  BY <3>1, <3>2, <2>6
  <2>12. QED  BY <2>9, <2>10, <2>11 DEF mid
<1>5. QED  BY <1>3, <1>4

-----------------------------------------------------------------------------
(* The key between two keys.                                               *)

\* A common prefix leaves the order as it is, whichever way it is read.
LEMMA PrefixLess ==
  ASSUME NEW p \in Seq(Int), NEW x \in Seq(Int), NEW y \in Seq(Int), Less(x, y)
  PROVE  Less(p \o x, p \o y)
<1>1. PICK n \in Nat : LessAt(x, y, n)
  BY LessPositions
<1>2. /\ n \in 0 .. Len(y) - 1 /\ n <= Len(x)
      /\ \A i \in 1 .. n : x[i] = y[i]
      /\ n < Len(x) => x[n + 1] < y[n + 1]
  BY <1>1 DEF LessAt
<1>3. Len(p) \in Nat /\ Len(x) \in Nat /\ Len(y) \in Nat
  BY LenProperties
<1> DEFINE a == p \o x
           b == p \o y
<1>4. /\ a \in Seq(Int) /\ Len(a) = Len(p) + Len(x)
      /\ \A i \in 1 .. Len(p) + Len(x) : a[i] = IF i <= Len(p) THEN p[i] ELSE x[i - Len(p)]
  BY ConcatProperties
<1>5. /\ b \in Seq(Int) /\ Len(b) = Len(p) + Len(y)
      /\ \A i \in 1 .. Len(p) + Len(y) : b[i] = IF i <= Len(p) THEN p[i] ELSE y[i - Len(p)]
  BY ConcatProperties
<1> HIDE DEF a, b
<1>6. \A i \in 1 .. Len(p) + n : a[i] = b[i]
  <2> TAKE i \in 1 .. Len(p) + n
  <2>1. i \in 1 .. Len(p) + Len(x) /\ i \in 1 .. Len(p) + Len(y)
    BY <1>2, <1>3
  <2>2. CASE i <= Len(p)
    BY <2>1, <2>2, <1>4, <1>5
  <2>3. CASE ~(i <= Len(p))
    <3>1. i - Len(p) \in 1 .. n
      BY <2>3, <1>3
    <3>2. QED  BY <3>1, <2>1, <2>3, <1>2, <1>4, <1>5
  <2>4. QED  BY <2>2, <2>3
<1>7. ASSUME Len(p) + n < Len(a)
      PROVE  a[Len(p) + n + 1] < b[Len(p) + n + 1]
  <2>1. n < Len(x) /\ n < Len(y)
    <3>1. Len(p) + n < Len(p) + Len(x)
      BY <1>4, <1>7
    <3>2. QED  BY <3>1, <1>2, <1>3
  <2> DEFINE q == Len(p) + n + 1
  <2>2. /\ q - Len(p) = n + 1 /\ ~(q <= Len(p))
        /\ q \in 1 .. Len(p) + Len(x) /\ q \in 1 .. Len(p) + Len(y)
    BY <2>1, <1>3
  <2> HIDE DEF q
  <2>3. a[q] = x[n + 1] /\ b[q] = y[n + 1]
    BY <2>2, <1>4, <1>5
  <2>4. QED  BY <2>1, <2>3, <1>2 DEF q
<1>8. LessAt(a, b, Len(p) + n)
  BY SMTT(30), <1>2, <1>3, <1>4, <1>5, <1>6, <1>7 DEF LessAt
<1>9. QED
  <2>1. Len(p) + n \in Nat
    BY <1>3
  <2>2. Less(a, b)
    BY <2>1, <1>4, <1>5, <1>8, LessPositions
  <2>3. QED  BY <2>2 DEF a, b

\* The same in the other direction: the prefix can be taken away.
LEMMA SamePrefixLess ==
  ASSUME NEW p \in Seq(Int), NEW x \in Seq(Int), NEW y \in Seq(Int),
         Less(p \o x, p \o y)
  PROVE  Less(x, y)
<1>1. p \o x \in Seq(Int) /\ p \o y \in Seq(Int)
  BY ConcatProperties
<1>2. x # y
  BY <1>1, LessIrreflexive
<1>3. ~Less(y, x)
  <2> SUFFICES ASSUME Less(y, x)
               PROVE  FALSE
    OBVIOUS
  <2>1. Less(p \o y, p \o x)
    BY PrefixLess
  <2>2. Less(p \o y, p \o y)
    BY <2>1, <1>1, LessTransitive
  <2>3. QED  BY <2>2, <1>1, LessIrreflexive
<1>4. QED  BY <1>2, <1>3, LessTotal

Begins(x, a) == Len(x) <= Len(a) /\ \A i \in 1 .. Len(x) : a[i] = x[i]

\* Keys are ordered as their integer parts where those differ.
LEMMA PartsLess ==
  ASSUME NEW x \in Seq(Int), NEW y \in Seq(Int), NEW k, PartsAt(x, y, k),
         NEW a \in Seq(Int), Begins(x, a),
         NEW b \in Seq(Int), Begins(y, b)
  PROVE  Less(a, b)
<1>1. /\ k \in 0 .. Len(x) - 1 /\ k < Len(y)
      /\ \A i \in 1 .. k : x[i] = y[i]
      /\ x[k + 1] < y[k + 1]
  BY DEF PartsAt
<1>2. Len(x) \in Nat /\ Len(y) \in Nat /\ Len(a) \in Nat /\ Len(b) \in Nat
  BY LenProperties
<1>3. /\ k \in Nat /\ k < Len(x) /\ k < Len(y)
      /\ k + 1 \in 1 .. Len(x) /\ k + 1 \in 1 .. Len(y)
  BY <1>1, <1>2
<1>4. \A i \in 1 .. k : a[i] = b[i]
  <2> TAKE i \in 1 .. k
  <2>1. i \in 1 .. Len(x) /\ i \in 1 .. Len(y)
    BY <1>2, <1>3
  <2>2. QED  BY <2>1, <1>1 DEF Begins
<1>5. a[k + 1] < b[k + 1]
  BY <1>1, <1>3 DEF Begins
<1>6. LessAt(a, b, k)
  <2>1. Len(x) <= Len(a) /\ Len(y) <= Len(b)
    BY DEF Begins
  <2>2. k \in 0 .. Len(b) - 1 /\ k <= Len(a)
    <3>1. k <= Len(a)
      BY <2>1, <1>2, <1>3
    <3>2. k < Len(b)
      BY <2>1, <1>2, <1>3
    <3>3. QED  BY <3>1, <3>2, <1>2, <1>3
  <2>3. QED  BY <2>2, <1>4, <1>5 DEF LessAt
<1>7. QED  BY <1>3, <1>6, LessPositions

\* An integer part alone passes _validateOrderKey, but for the smallest.
LEMMA WholeIsValid ==
  ASSUME NEW x, Whole(x), x # Smallest
  PROVE  Valid(x)
<1>1. Len(x) \in Nat
  BY KeyFacts DEF Whole
<1>2. QED  BY <1>1, ValidPositions DEF Whole

\* What a key that _validateOrderKey lets pass is made of.
LEMMA ValidParts ==
  ASSUME NEW key, IsKey(key), Valid(key)
  PROVE  /\ Whole(IntegerPart(key))
         /\ Len(IntegerPart(key)) = IntegerLength(key[1])
         /\ Len(IntegerPart(key)) <= Len(key)
         /\ \A i \in 1 .. Len(IntegerPart(key)) : IntegerPart(key)[i] = key[i]
         /\ IsFraction(Fraction(key))
         /\ key = IntegerPart(key) \o Fraction(key)
<1>1. /\ key # Smallest
      /\ IntegerLength(key[1]) <= Len(key)
      /\ IntegerLength(key[1]) < Len(key) => key[Len(key)] # 0
  BY ValidPositions
<1> DEFINE ip == IntegerPart(key)
           fr == Fraction(key)
<1>2. /\ Whole(ip) /\ Len(ip) = IntegerLength(key[1]) /\ Len(ip) <= Len(key)
      /\ \A i \in 1 .. Len(ip) : ip[i] = key[i]
      /\ fr \in Seq(Digits)
      /\ Len(fr) = Len(key) - Len(ip)
      /\ \A i \in 1 .. Len(fr) : fr[i] = key[Len(ip) + i]
      /\ key = ip \o fr
  BY <1>1, Parts
<1> HIDE DEF ip, fr
<1>3. ASSUME fr # <<>>
      PROVE  fr[Len(fr)] # 0
  <2>1. Len(key) \in Nat /\ Len(ip) \in Nat
    BY <1>2, KeyFacts DEF Whole
  <2>2. Len(fr) \in Nat /\ Len(fr) >= 1
    BY <1>2, <1>3, EmptySeq
  <2>3. Len(ip) + Len(fr) = Len(key) /\ Len(fr) \in 1 .. Len(fr) /\ Len(ip) < Len(key)
    <3>1. Len(fr) = Len(key) - Len(ip)
      BY <1>2
    <3>2. QED  BY <3>1, <2>1, <2>2
  <2>4. fr[Len(fr)] = key[Len(key)]
    BY <2>3, <1>2
  <2>5. QED  BY <2>3, <2>4, <1>1, <1>2
<1>4. QED  BY <1>2, <1>3 DEF IsFraction, ip, fr

\* An integer part with a fraction put behind it lies above every key with
\* the same part and a lower fraction.
LEMMA JoinedAbove ==
  ASSUME NEW x, Whole(x), NEW f, IsFraction(f), NEW m, IsFraction(m), m # <<>>
  PROVE  /\ IsKey(x \o m) /\ Valid(x \o m)
         /\ Less(f, m) => Less(x \o f, x \o m)
         /\ Less(m, f) => Less(x \o m, x \o f)
<1>1. /\ x \in Seq(Int) /\ f \in Seq(Int) /\ m \in Seq(Int) /\ m \in Seq(Digits)
      /\ m[Len(m)] # 0
  BY KeyFacts, DigitsAreInts DEF Whole, IsFraction
<1>2. QED  BY <1>1, Joined, PrefixLess

KeyOrNone(key) == key = NoKey \/ IsKey(key)

\* What generateKeyBetween returns when it does not throw is a key, strictly
\* between its arguments, and one it will accept itself unless it is the
\* smallest of all: the step below the last key but one.
LEMMA KeyBetweenIsBetween ==
  ASSUME NEW a, KeyOrNone(a), NEW b, KeyOrNone(b), ~Rejects(a, b)
  PROVE  /\ IsKey(KeyBetween(a, b))
         /\ Valid(KeyBetween(a, b)) \/ KeyBetween(a, b) = Smallest
         /\ a # NoKey => Less(a, KeyBetween(a, b))
         /\ b # NoKey => Less(KeyBetween(a, b), b)
<1> DEFINE c == KeyBetween(a, b)
<1>1. /\ a # NoKey => IsKey(a) /\ Valid(a) /\ a \in Seq(Int)
      /\ b # NoKey => IsKey(b) /\ Valid(b) /\ b \in Seq(Int)
      /\ a # NoKey /\ b # NoKey => Less(a, b)
  BY KeyFacts DEF KeyOrNone, Rejects, Unordered
<1>2. CASE a = NoKey /\ b = NoKey
  <2>1. c = <<0, 0>>
    BY <1>2 DEF KeyBetween, IntegerZero
  <2>2. /\ <<0, 0>> \in Seq(Int) /\ Len(<<0, 0>>) = 2 /\ <<0, 0>> # <<>>
        /\ <<0, 0>>[1] = 0 /\ <<0, 0>>[2] = 0
    OBVIOUS
  <2>3. IsKey(<<0, 0>>)
    BY <2>2, IndexingAssumption DEF IsKey, NoKey
  <2>4. Whole(<<0, 0>>)
    BY <2>2, <2>3 DEF Whole, IntegerLength
  <2>5. <<0, 0>> # Smallest
    BY <2>2, SmallestIsWhole, IndexingAssumption
  <2>6. QED  BY <2>1, <2>3, <2>4, <2>5, <1>2, WholeIsValid
<1>3. CASE a = NoKey /\ b # NoKey
  <2> DEFINE ib == IntegerPart(b)
             fb == Fraction(b)
  <2>1. /\ Whole(ib) /\ Len(ib) <= Len(b)
        /\ \A i \in 1 .. Len(ib) : ib[i] = b[i]
        /\ IsFraction(fb) /\ b = ib \o fb
    BY <1>1, <1>3, ValidParts
  <2>2. c = IF ib = Smallest THEN ib \o Midpoint(<<>>, fb)
            ELSE IF Less(ib, b) THEN ib ELSE Decrement(ib)
    BY <1>3 DEF KeyBetween
  <2>3. /\ ib \in Seq(Int) /\ fb \in Seq(Int) /\ fb \in Seq(Digits) /\ IsKey(ib)
    BY <2>1, KeyFacts, DigitsAreInts DEF Whole, IsFraction
  <2> HIDE DEF ib, fb, c
  <2>4. CASE ib = Smallest
    <3>1. fb # <<>>
      <4>1. b # Smallest
        BY <1>1, <1>3, ValidPositions
      <4>2. QED  BY <4>1, <2>1, <2>3, <2>4, ConcatEmptySeq
    <3>2. IsFraction(<<>>)
      BY EmptySeq DEF IsFraction
    <3>3. Less(<<>>, fb)
      <4>1. Len(fb) \in Nat /\ Len(fb) >= 1 /\ Len(<<>>) = 0 /\ <<>> \in Seq(Int)
        BY <3>1, <2>3, EmptySeq
      <4>2. LessAt(<<>>, fb, 0)
        BY <4>1 DEF LessAt
      <4>3. QED  BY <4>1, <4>2, <2>3, LessPositions
    <3> DEFINE m == Midpoint(<<>>, fb)
    <3>4. IsFraction(m) /\ m # <<>> /\ Less(m, fb)
      BY <3>1, <3>2, <3>3, <2>1, MidpointBetween
    <3>5. c = ib \o m
      BY <2>2, <2>4
    <3> HIDE DEF m
    <3>6. QED  BY <3>4, <3>5, <2>1, <1>3, JoinedAbove DEF c
  <2>5. CASE ib # Smallest /\ Less(ib, b)
    BY <2>1, <2>2, <2>3, <2>5, <1>3, WholeIsValid DEF c
  <2>6. CASE ib # Smallest /\ ~Less(ib, b)
    <3>1. c = Decrement(ib)
      BY <2>2, <2>6
    <3>2. Whole(c) /\ \E k \in Nat : PartsAt(c, ib, k)
      BY <3>1, <2>1, <2>6, Decremented
    <3>3. PICK k \in Nat : PartsAt(c, ib, k)
      BY <3>2
    <3>4. IsKey(c) /\ c \in Seq(Int) /\ Len(c) \in Nat
      BY <3>2, KeyFacts DEF Whole
    <3>5. Less(c, b)
      <4>1. Begins(c, c) /\ Begins(ib, b) /\ b \in Seq(Int)
        BY <3>4, <2>1, <1>1, <1>3 DEF Begins
      <4>2. QED  BY <4>1, <3>3, <3>4, <2>1, <2>3, PartsLess
    <3>6. QED  BY <3>2, <3>4, <3>5, <1>3, WholeIsValid DEF c
  <2>7. QED  BY <2>4, <2>5, <2>6
<1>4. ASSUME a # NoKey
      PROVE  /\ Whole(IntegerPart(a)) /\ IntegerPart(a) \in Seq(Int)
             /\ Len(IntegerPart(a)) = IntegerLength(a[1])
             /\ Len(IntegerPart(a)) <= Len(a)
             /\ \A i \in 1 .. Len(IntegerPart(a)) : IntegerPart(a)[i] = a[i]
             /\ IsFraction(Fraction(a)) /\ a = IntegerPart(a) \o Fraction(a)
  <2>1. IsKey(a) /\ Valid(a)
    BY <1>1, <1>4
  <2>2. QED  BY <2>1, ValidParts, KeyFacts DEF Whole
<1>5. ASSUME a # NoKey, Increment(IntegerPart(a)) # NoKey
      PROVE  /\ IsKey(Increment(IntegerPart(a))) /\ Valid(Increment(IntegerPart(a)))
             /\ Less(a, Increment(IntegerPart(a)))
  <2> DEFINE ia == IntegerPart(a)
             i == Increment(ia)
  <2>1. Whole(i) /\ i # Smallest /\ \E k \in Nat : PartsAt(ia, i, k)
    BY <1>4, <1>5, Incremented
  <2>2. Begins(ia, a) /\ ia \in Seq(Int) /\ a \in Seq(Int)
    BY <1>1, <1>4, <1>5 DEF Begins
  <2> HIDE DEF ia, i
  <2>3. IsKey(i) /\ Valid(i) /\ i \in Seq(Int) /\ Len(i) \in Nat
    BY <2>1, WholeIsValid, KeyFacts DEF Whole
  <2>4. PICK k \in Nat : PartsAt(ia, i, k)
    BY <2>1
  <2>5. Less(a, i)
    <3>1. Begins(i, i)
      BY <2>3 DEF Begins
    <3>2. QED  BY <3>1, <2>2, <2>3, <2>4, PartsLess
  <2>6. QED  BY <2>3, <2>5 DEF i, ia
\* Above a within a's integer part.
<1>6. ASSUME a # NoKey
      PROVE  LET d == IntegerPart(a) \o Midpoint(Fraction(a), <<>>)
             IN  IsKey(d) /\ Valid(d) /\ Less(a, d)
  <2> DEFINE ia == IntegerPart(a)
             fa == Fraction(a)
             m == Midpoint(fa, <<>>)
  <2>1. Whole(ia) /\ IsFraction(fa) /\ a = ia \o fa
    BY <1>4, <1>6
  <2>2. IsFraction(<<>>)
    BY EmptySeq DEF IsFraction
  <2>3. IsFraction(m) /\ m # <<>> /\ Less(fa, m)
    BY <2>1, <2>2, MidpointBetween
  <2> HIDE DEF m, ia, fa
  <2>4. IsKey(ia \o m) /\ Valid(ia \o m) /\ Less(a, ia \o m)
    BY <2>1, <2>3, JoinedAbove
  <2>5. QED  BY <2>4 DEF m, ia, fa
<1>7. CASE a # NoKey /\ b = NoKey
  <2>1. c = LET ia == IntegerPart(a)
            IN IF Increment(ia) # NoKey THEN Increment(ia)
               ELSE ia \o Midpoint(Fraction(a), <<>>)
    BY <1>7 DEF KeyBetween
  <2>2. CASE Increment(IntegerPart(a)) # NoKey
    BY <2>1, <2>2, <1>5, <1>7
  <2>3. CASE Increment(IntegerPart(a)) = NoKey
    BY <2>1, <2>3, <1>6, <1>7
  <2>4. QED  BY <2>2, <2>3
<1>8. CASE a # NoKey /\ b # NoKey
  <2> DEFINE ia == IntegerPart(a)
             fa == Fraction(a)
             ib == IntegerPart(b)
             fb == Fraction(b)
             i == Increment(ia)
  <2>1. c = IF ia = ib THEN ia \o Midpoint(fa, fb)
            ELSE IF i = NoKey \/ Less(i, b) THEN i
            ELSE ia \o Midpoint(fa, <<>>)
    BY <1>8 DEF KeyBetween
  <2>2. /\ Whole(ia) /\ ia \in Seq(Int) /\ Len(ia) = IntegerLength(a[1])
        /\ Len(ia) <= Len(a)
        /\ \A j \in 1 .. Len(ia) : ia[j] = a[j]
        /\ IsFraction(fa) /\ a = ia \o fa
    BY <1>4, <1>8
  <2>3. /\ Whole(ib) /\ ib \in Seq(Int) /\ Len(ib) = IntegerLength(b[1])
        /\ Len(ib) <= Len(b)
        /\ \A j \in 1 .. Len(ib) : ib[j] = b[j]
        /\ IsFraction(fb) /\ b = ib \o fb
    <3>1. IsKey(b) /\ Valid(b)
      BY <1>1, <1>8
    <3>2. QED  BY <3>1, ValidParts, KeyFacts DEF Whole
  <2>4. /\ IsKey(a) /\ a \in Seq(Int) /\ IsKey(b) /\ b \in Seq(Int) /\ Less(a, b)
    BY <1>1, <1>8
  <2> HIDE DEF ia, fa, ib, fb, i, c
  <2>5. CASE ia = ib
    <3>1. fa \in Seq(Int) /\ fb \in Seq(Int) /\ fb \in Seq(Digits)
      BY <2>2, <2>3, DigitsAreInts DEF IsFraction
    <3>2. Less(ia \o fa, ia \o fb)
      BY <2>2, <2>3, <2>4, <2>5
    <3>3. Less(fa, fb)
      BY <3>1, <3>2, <2>2, SamePrefixLess
    <3> DEFINE m == Midpoint(fa, fb)
    <3>4. IsFraction(m) /\ m # <<>> /\ Less(fa, m) /\ (fb # <<>> => Less(m, fb))
      BY <3>3, <2>2, <2>3, MidpointBetween
    <3>5. c = ia \o m
      BY <2>1, <2>5
    <3>6. fb # <<>>
      <4>1. PICK n \in Nat : LessAt(fa, fb, n)
        BY <3>1, <3>3, LessPositions
      <4>2. Len(fb) # 0
        BY <4>1, <3>1 DEF LessAt
      <4>3. QED  BY <4>2
    <3> HIDE DEF m
    <3>7. IsKey(c) /\ Valid(c) /\ Less(a, c)
      BY <3>4, <3>5, <2>2, JoinedAbove
    <3>8. Less(c, b)
      BY <3>4, <3>5, <3>6, <2>2, <2>3, <2>5, JoinedAbove
    <3>9. QED  BY <3>7, <3>8 DEF c
  <2>6. CASE ia # ib
    <3>1. PICK n \in Nat : LessAt(a, b, n)
      BY <2>4, LessPositions
    <3>2. /\ n \in 0 .. Len(b) - 1 /\ n <= Len(a)
          /\ \A j \in 1 .. n : a[j] = b[j]
          /\ n < Len(a) => a[n + 1] < b[n + 1]
      BY <3>1 DEF LessAt
    <3>3. /\ Len(a) \in Nat /\ Len(b) \in Nat /\ Len(ia) \in Nat /\ Len(ia) >= 1
          /\ a[1] \in -Heads .. Heads - 1 /\ b[1] \in -Heads .. Heads - 1
          /\ \A j \in 2 .. Len(b) : b[j] \in Digits
          /\ \A j \in 1 .. Len(a) : a[j] \in Int
      BY <2>2, <2>4, KeyFacts DEF Whole
    <3>4. n < Len(ia)
      <4> SUFFICES ASSUME n >= Len(ia)
                   PROVE  FALSE
        BY <3>3
      <4>1. a[1] = b[1]
        BY <3>2, <3>3
      <4>2. Len(ib) = Len(ia)
        BY <4>1, <2>2, <2>3
      <4>3. \A j \in 1 .. Len(ia) : ia[j] = ib[j]
        <5> TAKE j \in 1 .. Len(ia)
        <5>1. j \in 1 .. n /\ j \in 1 .. Len(ib)
          BY <4>2, <3>2, <3>3
        <5>2. QED  BY <5>1, <3>2, <2>2, <2>3
      <4>4. QED  BY <4>2, <4>3, <2>2, <2>3, <2>6, SeqEqual
    <3>5. /\ a[n + 1] < b[n + 1]
          /\ n + 1 \in 1 .. Len(ia) /\ n + 1 \in 1 .. Len(a) /\ n + 1 \in 1 .. Len(b)
      <4>1. /\ n + 1 \in 1 .. Len(ia) /\ n + 1 \in 1 .. Len(b)
        BY <3>2, <3>3, <3>4
      <4>2. n < Len(a) /\ n + 1 \in 1 .. Len(a)
        <5>1. Len(ia) <= Len(a)
          BY <2>2
        <5>2. QED  BY <5>1, <3>2, <3>3, <3>4
      <4>3. QED  BY <4>1, <4>2, <3>2
    <3>6. i # NoKey
      <4> SUFFICES ASSUME i = NoKey
                   PROVE  FALSE
        OBVIOUS
      <4>1. /\ ia[1] = Heads - 1
            /\ \A j \in 2 .. Len(ia) : ia[j] = Base - 1
        BY <2>2, Incremented DEF i
      <4>2. CASE n = 0
        <5>1. a[1] = Heads - 1 /\ a[1] < b[1]
          BY <4>1, <4>2, <3>3, <3>5, <2>2
        <5>2. QED  BY <5>1, <3>3, IndexingAssumption
      <4>3. CASE n > 0
        <5>1. n + 1 \in 2 .. Len(ia) /\ n + 1 \in 2 .. Len(b)
          BY <4>3, <3>5
        <5>2. a[n + 1] = Base - 1 /\ b[n + 1] \in Digits
          BY <5>1, <4>1, <3>3, <3>5, <2>2
        <5>3. QED  BY <5>2, <3>5, IndexingAssumption DEF Digits
      <4>4. QED  BY <4>2, <4>3
    <3>7. CASE Less(i, b)
      <4>1. c = i
        BY <3>7, <2>1, <2>6
      <4>2. IsKey(i) /\ Valid(i) /\ Less(a, i)
        BY <3>6, <1>5, <1>8 DEF i, ia
      <4>3. QED  BY <4>1, <4>2, <3>7 DEF c
    <3>8. CASE ~Less(i, b)
      <4> DEFINE m == Midpoint(fa, <<>>)
      <4>1. c = ia \o m
        BY <3>6, <3>8, <2>1, <2>6
      <4>2. IsKey(c) /\ Valid(c) /\ Less(a, c)
        BY <4>1, <1>6, <1>8 DEF ia, fa
      <4>3. Less(c, b)
        <5>1. IsFraction(<<>>)
          BY EmptySeq DEF IsFraction
        <5>2. IsFraction(m) /\ m # <<>>
          BY <5>1, <2>2, MidpointBetween
        <5> HIDE DEF m
        <5>3. m \in Seq(Digits) /\ m[Len(m)] # 0 /\ Len(m) \in Nat
          BY <5>2, DigitsAreInts DEF IsFraction
        <5>4. Len(c) = Len(ia) + Len(m) /\ \A j \in 1 .. Len(ia) : c[j] = ia[j]
          BY <5>2, <5>3, <4>1, <2>2, Joined
        <5>5. \A j \in 1 .. n : c[j] = b[j]
          BY SMTT(30), <5>4, <3>2, <3>3, <3>4, <2>2
        <5>6. c[n + 1] < b[n + 1]
          BY <5>4, <3>5, <2>2
        <5>7. LessAt(c, b, n)
          BY <5>3, <5>4, <5>5, <5>6, <3>2, <3>3, <3>4 DEF LessAt
        <5>8. c \in Seq(Int)
          BY <4>2, KeyFacts
        <5>9. QED  BY <5>7, <5>8, <2>4, LessPositions
      <4>4. QED  BY <4>2, <4>3 DEF c
    <3>9. QED  BY <3>7, <3>8
  <2>7. QED  BY <2>5, <2>6
<1>9. QED  BY <1>2, <1>3, <1>7, <1>8

-----------------------------------------------------------------------------
(* Arranging a finite set: by counting what goes ahead of each member.     *)

\* R puts the members of S into one order.
StrictOrder(R, S) ==
  /\ \A x \in S : <<x, x>> \notin R
  /\ \A x, y, z \in S : <<x, y>> \in R /\ <<y, z>> \in R => <<x, z>> \in R
  /\ \A x, y \in S : x # y => <<x, y>> \in R \/ <<y, x>> \in R

Along(R, f) == \A i, j \in DOMAIN f : i < j => <<f[i], f[j]>> \in R

\* A finite set has an arrangement along a strict order on it.
LEMMA ArrangementExists ==
  ASSUME NEW S, IsFiniteSet(S), NEW R, StrictOrder(R, S)
  PROVE  \E f \in [1 .. Cardinality(S) -> S] : Along(R, f)
<1> DEFINE n == Cardinality(S)
           Ahead(x) == {y \in S : <<y, x>> \in R}
           rank == [x \in S |-> Cardinality(Ahead(x)) + 1]
<1>1. n \in Nat
  BY FS_CardinalityType
<1>2. ASSUME NEW x \in S
      PROVE  /\ IsFiniteSet(Ahead(x)) /\ Cardinality(Ahead(x)) \in Nat
             /\ rank[x] \in 1 .. n
  <2>1. /\ IsFiniteSet(S \ {x}) /\ Cardinality(S \ {x}) = n - 1
    BY FS_RemoveElement
  <2>2. Ahead(x) \in SUBSET (S \ {x})
    BY DEF StrictOrder
  <2>3. rank[x] = Cardinality(Ahead(x)) + 1
    OBVIOUS
  <2> HIDE DEF Ahead, rank, n
  <2>4. IsFiniteSet(Ahead(x))
    BY <2>1, <2>2, FS_Subset
  <2>5. Cardinality(Ahead(x)) <= Cardinality(S \ {x})
    BY <2>1, <2>2, FS_Subset
  <2>6. Cardinality(Ahead(x)) \in Nat
    BY <2>4, FS_CardinalityType
  <2>7. QED  BY <2>1, <2>3, <2>4, <2>5, <2>6, <1>1
<1>3. ASSUME NEW x \in S, NEW y \in S, <<x, y>> \in R
      PROVE  rank[x] < rank[y]
  <2>1. x \notin Ahead(x)
    BY DEF StrictOrder
  <2>2. Ahead(x) \cup {x} \in SUBSET Ahead(y)
    BY <1>3 DEF StrictOrder
  <2>3. Cardinality(Ahead(x) \cup {x}) = Cardinality(Ahead(x)) + 1
    BY <1>2, <2>1, FS_AddElement
  <2>4. Cardinality(Ahead(x) \cup {x}) <= Cardinality(Ahead(y))
    BY <1>2, <2>2, FS_Subset
  <2>5. /\ rank[x] = Cardinality(Ahead(x)) + 1
        /\ rank[y] = Cardinality(Ahead(y)) + 1
        /\ Cardinality(Ahead(x)) \in Nat /\ Cardinality(Ahead(y)) \in Nat
    BY <1>2
  <2> HIDE DEF Ahead, rank
  <2>6. QED  BY <2>3, <2>4, <2>5
<1> HIDE DEF Ahead
<1>4. rank \in [S -> 1 .. n]
  BY <1>2
<1> HIDE DEF rank, n
<1>5. rank \in Injection(S, 1 .. n)
  <2>1. ASSUME NEW x \in S, NEW y \in S, rank[x] = rank[y], x # y
        PROVE  FALSE
    <3>1. rank[x] \in Int /\ rank[y] \in Int
      BY <1>4, <1>1
    <3>2. <<x, y>> \in R \/ <<y, x>> \in R
      BY <2>1 DEF StrictOrder
    <3>3. rank[x] < rank[y] \/ rank[y] < rank[x]
      BY <3>2, <1>3
    <3>4. QED  BY <3>1, <3>3, <2>1
  <2>2. QED  BY <2>1, <1>4 DEF Injection, IsInjective
<1>6. IsFiniteSet(1 .. n) /\ Cardinality(1 .. n) = n
  <2>1. IsFiniteSet(1 .. n) /\ Cardinality(1 .. n) = IF 1 > n THEN 0 ELSE n - 1 + 1
    BY <1>1, FS_Interval
  <2>2. QED  BY <2>1, <1>1
<1>7. rank \in Surjection(S, 1 .. n)
  BY <1>5, <1>6, FS_Injection DEF n
<1>8. \A i \in 1 .. n : \E x \in S : rank[x] = i
  BY <1>7 DEF Surjection
<1> DEFINE f == [i \in 1 .. n |-> CHOOSE x \in S : rank[x] = i]
<1>9. \A i \in 1 .. n : f[i] \in S /\ rank[f[i]] = i
  BY <1>8
<1>10. f \in [1 .. n -> S]
  BY <1>9
<1> HIDE DEF f
<1>11. ASSUME NEW i \in 1 .. n, NEW j \in 1 .. n, i < j
       PROVE  <<f[i], f[j]>> \in R
  <2>1. f[i] # f[j]
    BY <1>9, <1>11
  <2>2. ASSUME <<f[j], f[i]>> \in R
        PROVE  FALSE
    <3>1. rank[f[j]] < rank[f[i]]
      BY <2>2, <1>3, <1>9
    <3>2. QED  BY <3>1, <1>1, <1>9, <1>11
  <2>3. QED  BY <2>1, <2>2, <1>9 DEF StrictOrder
<1>12. Along(R, f)
  BY <1>10, <1>11 DEF Along
<1>13. QED  BY <1>10, <1>12 DEF n

\* An arrangement of all has every member in it.
LEMMA ArrangementCovers ==
  ASSUME NEW S, IsFiniteSet(S), NEW R, StrictOrder(R, S),
         NEW f \in [1 .. Cardinality(S) -> S], Along(R, f)
  PROVE  \A x \in S : \E i \in 1 .. Cardinality(S) : f[i] = x
<1> DEFINE n == Cardinality(S)
<1>1. n \in Nat
  BY FS_CardinalityType
<1>2. f \in [1 .. n -> S]
  OBVIOUS
<1>3. n = Cardinality(S)
  OBVIOUS
<1> HIDE DEF n
<1>4. f \in Injection(1 .. n, S)
  <2>1. ASSUME NEW i \in 1 .. n, NEW j \in 1 .. n, f[i] = f[j], i # j
        PROVE  FALSE
    <3>1. i < j \/ j < i
      BY <2>1, <1>1
    <3>2. <<f[i], f[j]>> \in R \/ <<f[j], f[i]>> \in R
      BY <3>1, <1>2 DEF Along
    <3>3. QED  BY <3>2, <2>1, <1>2 DEF StrictOrder
  <2>2. QED  BY <2>1, <1>2 DEF Injection, IsInjective
<1>5. IsFiniteSet(1 .. n) /\ Cardinality(1 .. n) = n
  <2>1. IsFiniteSet(1 .. n) /\ Cardinality(1 .. n) = IF 1 > n THEN 0 ELSE n - 1 + 1
    BY <1>1, FS_Interval
  <2>2. QED  BY <2>1, <1>1
<1>6. f \in Surjection(1 .. n, S)
  BY <1>3, <1>4, <1>5, FS_Injection
<1>7. QED  BY <1>3, <1>6 DEF Surjection

\* There is only one.
LEMMA ArrangementUnique ==
  ASSUME NEW S, IsFiniteSet(S), NEW R, StrictOrder(R, S),
         NEW f \in [1 .. Cardinality(S) -> S], Along(R, f),
         NEW g \in [1 .. Cardinality(S) -> S], Along(R, g)
  PROVE  f = g
<1> DEFINE n == Cardinality(S)
           T == {i \in 1 .. n : f[i] # g[i]}
<1>1. n \in Nat /\ f \in [1 .. n -> S] /\ g \in [1 .. n -> S]
  BY FS_CardinalityType
<1>2. /\ \A x \in S : \E i \in 1 .. n : f[i] = x
      /\ \A x \in S : \E i \in 1 .. n : g[i] = x
  BY ArrangementCovers
<1> HIDE DEF n
<1>3. ASSUME T # {}
      PROVE  FALSE
  <2>1. T \in SUBSET Nat
    BY <1>1
  <2>2. PICK i \in T : \A k \in T : i <= k
    BY <2>1, <1>3, LeastNat
  <2>3. \A k \in 1 .. n : k < i => f[k] = g[k]
    BY <2>2, <1>1
  <2>4. i \in 1 .. n /\ f[i] # g[i]
    BY <2>2
  <2>5. PICK j \in 1 .. n : g[j] = f[i]
    BY <2>4, <1>1, <1>2
  <2>6. PICK k \in 1 .. n : f[k] = g[i]
    BY <2>4, <1>1, <1>2
  <2>7. <<g[i], f[i]>> \in R
    <3>1. j # i
      BY <2>4, <2>5
    <3>2. ~(j < i)
      <4> SUFFICES ASSUME j < i
                   PROVE  FALSE
        OBVIOUS
      <4>1. f[j] = f[i]
        BY <2>3, <2>5
      <4>2. <<f[j], f[i]>> \in R
        BY <2>4, <1>1 DEF Along
      <4>3. QED  BY <4>1, <4>2, <2>4, <1>1 DEF StrictOrder
    <3>3. i < j
      BY <3>1, <3>2, <2>4, <1>1
    <3>4. QED  BY <3>3, <2>4, <2>5, <1>1 DEF Along
  <2>8. <<f[i], g[i]>> \in R
    <3>1. k # i
      BY <2>4, <2>6
    <3>2. ~(k < i)
      <4> SUFFICES ASSUME k < i
                   PROVE  FALSE
        OBVIOUS
      <4>1. g[k] = g[i]
        BY <2>3, <2>6
      <4>2. <<g[k], g[i]>> \in R
        BY <2>4, <1>1 DEF Along
      <4>3. QED  BY <4>1, <4>2, <2>4, <1>1 DEF StrictOrder
    <3>3. i < k
      BY <3>1, <3>2, <2>4, <1>1
    <3>4. QED  BY <3>3, <2>4, <2>6, <1>1 DEF Along
  <2>9. <<f[i], f[i]>> \in R
    BY <2>4, <2>7, <2>8, <1>1 DEF StrictOrder
  <2>10. QED  BY <2>4, <2>9, <1>1 DEF StrictOrder
<1>4. \A i \in 1 .. n : f[i] = g[i]
  BY <1>3
<1> HIDE DEF T
<1>5. f = [i \in 1 .. n |-> f[i]] /\ g = [i \in 1 .. n |-> g[i]]
  BY <1>1
<1>6. QED  BY <1>4, <1>5, Zenon


-----------------------------------------------------------------------------
(* The rows of a database, in the order the query gives them.              *)

\* A rule with a key; for the order any identifiers and keys will do.
Row == [id : Int, key : Seq(Int)]

BeforeIn(S) == {pair \in S \X S : Before(pair[1], pair[2])}

\* ORDER BY order DESC, id DESC leaves no two rows unordered.
LEMMA BeforeIsStrict ==
  ASSUME NEW S \in SUBSET Row
  PROVE  StrictOrder(BeforeIn(S), S)
<1>1. \A x, y \in S : <<x, y>> \in BeforeIn(S) <=> Before(x, y)
  BY DEF BeforeIn
<1>2. \A x \in S : x.id \in Int /\ x.key \in Seq(Int)
  BY DEF Row
<1>3. ASSUME NEW x \in S
      PROVE  ~Before(x, x)
  BY <1>2, LessIrreflexive DEF Before
<1>4. ASSUME NEW x \in S, NEW y \in S, NEW z \in S, Before(x, y), Before(y, z)
      PROVE  Before(x, z)
  <2>1. /\ x.key \in Seq(Int) /\ y.key \in Seq(Int) /\ z.key \in Seq(Int)
        /\ x.id \in Int /\ y.id \in Int /\ z.id \in Int
    BY <1>2
  <2>2. CASE Less(y.key, x.key) /\ Less(z.key, y.key)
    <3>1. Less(z.key, x.key)
      BY <2>1, <2>2, LessTransitive
    <3>2. QED  BY <3>1 DEF Before
  <2>3. CASE Less(y.key, x.key) /\ z.key = y.key
    BY <2>3 DEF Before
  <2>4. CASE x.key = y.key /\ Less(z.key, y.key)
    BY <2>4 DEF Before
  <2>5. CASE x.key = y.key /\ x.id > y.id /\ y.key = z.key /\ y.id > z.id
    <3>1. x.key = z.key /\ x.id > z.id
      BY <2>1, <2>5
    <3>2. QED  BY <3>1 DEF Before
  <2>6. QED  BY <2>2, <2>3, <2>4, <2>5, <1>4 DEF Before
<1>5. ASSUME NEW x \in S, NEW y \in S, x # y
      PROVE  Before(x, y) \/ Before(y, x)
  <2>1. x.id # y.id \/ x.key # y.key
    BY <1>5 DEF Row
  <2>2. CASE x.key = y.key
    <3>1. x.id > y.id \/ y.id > x.id
      BY <2>1, <2>2, <1>2
    <3>2. QED  BY <3>1, <2>2 DEF Before
  <2>3. CASE x.key # y.key
    <3>1. Less(x.key, y.key) \/ Less(y.key, x.key)
      BY <2>3, <1>2, LessTotal
    <3>2. QED  BY <3>1 DEF Before
  <2>4. QED  BY <2>2, <2>3
<1> HIDE DEF BeforeIn
<1>6. QED
  <2>1. \A x \in S : <<x, x>> \notin BeforeIn(S)
    BY <1>1, <1>3
  <2>2. \A x, y, z \in S : <<x, y>> \in BeforeIn(S) /\ <<y, z>> \in BeforeIn(S)
                           => <<x, z>> \in BeforeIn(S)
    BY <1>1, <1>4
  <2>3. \A x, y \in S : x # y => <<x, y>> \in BeforeIn(S) \/ <<y, x>> \in BeforeIn(S)
    BY <1>1, <1>5
  <2>4. QED  BY <2>1, <2>2, <2>3 DEF StrictOrder

\* A database: some rules, each with a key.
IsDb(db) == \E D \in SUBSET RuleIds : db \in [D -> Seq(Int)]

\* The rows of a database: one for each rule, with its key.
LEMMA RowsFacts ==
  ASSUME NEW db, IsDb(db)
  PROVE  /\ Rows(db) \in SUBSET Row
         /\ IsFiniteSet(Rows(db))
         /\ Cardinality(Rows(db)) = Cardinality(DOMAIN db)
         /\ DOMAIN db \in SUBSET RuleIds
         /\ \A r \in DOMAIN db : db[r] \in Seq(Int)
<1>1. DOMAIN db \in SUBSET RuleIds /\ \A r \in DOMAIN db : db[r] \in Seq(Int)
  BY DEF IsDb
<1>2. RuleIds \subseteq Int /\ IsFiniteSet(RuleIds)
  <2>1. IsFiniteSet(1 .. MaxRules)
    BY RuleOrderAssumption, FS_Interval
  <2>2. QED  BY <2>1 DEF RuleIds
<1>3. IsFiniteSet(DOMAIN db)
  BY <1>1, <1>2, FS_Subset
<1>4. Rows(db) \in SUBSET Row
  <2>1. ASSUME NEW r \in DOMAIN db
        PROVE  [id |-> r, key |-> db[r]] \in Row
    <3>1. r \in Int /\ db[r] \in Seq(Int)
      BY <1>1, <1>2
    <3>2. QED  BY <3>1 DEF Row
  <2>2. QED  BY <2>1 DEF Rows
<1> DEFINE f == [r \in DOMAIN db |-> [id |-> r, key |-> db[r]]]
<1>5. f \in Bijection(DOMAIN db, Rows(db))
  <2>1. f \in [DOMAIN db -> Rows(db)]
    BY DEF Rows
  <2>2. \A r \in DOMAIN db : f[r].id = r
    OBVIOUS
  <2>3. \A x \in Rows(db) : \E r \in DOMAIN db : f[r] = x
    BY DEF Rows
  <2> HIDE DEF f
  <2>4. \A r, s \in DOMAIN db : f[r] = f[s] => r = s
    BY <2>2
  <2>5. f \in Injection(DOMAIN db, Rows(db))
    BY <2>1, <2>4 DEF Injection, IsInjective
  <2>6. f \in Surjection(DOMAIN db, Rows(db))
    BY <2>1, <2>3 DEF Surjection
  <2>7. QED  BY <2>5, <2>6 DEF Bijection
<1>6. ExistsBijection(DOMAIN db, Rows(db))
  BY <1>5 DEF ExistsBijection
<1>7. IsFiniteSet(Rows(db)) /\ Cardinality(Rows(db)) = Cardinality(DOMAIN db)
  BY <1>3, <1>6, FS_Bijection
<1>8. QED  BY <1>1, <1>4, <1>7

\* The list gives every row once, each before those that follow.
InOrder(list, S) ==
  /\ list \in [1 .. Cardinality(S) -> S]
  /\ \A i, j \in 1 .. Cardinality(S) : i < j => Before(list[i], list[j])

\* What _get returns lists every row, in the order of the query.
LEMMA SortedInOrder ==
  ASSUME NEW db, IsDb(db)
  PROVE  InOrder(Sorted(db), Rows(db))
<1> DEFINE S == Rows(db)
           n == Cardinality(S)
<1>1. S \in SUBSET Row /\ IsFiniteSet(S)
  BY RowsFacts
<1>2. StrictOrder(BeforeIn(S), S)
  BY <1>1, BeforeIsStrict
<1>3. \E f \in [1 .. Cardinality(S) -> S] : Along(BeforeIn(S), f)
  BY <1>1, <1>2, ArrangementExists
<1>4. PICK f \in [1 .. n -> S] : Along(BeforeIn(S), f)
  BY <1>3
<1>5. \A i, j \in DOMAIN f : i < j => Before(f[i], f[j])
  BY <1>4 DEF Along, BeforeIn
<1>6. Sorted(db) = CHOOSE list \in [1 .. n -> S] :
                     \A i, j \in DOMAIN list : i < j => Before(list[i], list[j])
  BY DEF Sorted, Arranged
<1> HIDE DEF S, n
<1>7. /\ Sorted(db) \in [1 .. n -> S]
      /\ \A i, j \in DOMAIN Sorted(db) : i < j => Before(Sorted(db)[i], Sorted(db)[j])
  BY <1>4, <1>5, <1>6
<1>8. QED  BY <1>7 DEF InOrder, S, n

\* And a list that does is what _get returns.
LEMMA InOrderIsSorted ==
  ASSUME NEW db, IsDb(db), NEW list, InOrder(list, Rows(db))
  PROVE  list = Sorted(db)
<1>1. InOrder(Sorted(db), Rows(db))
  BY SortedInOrder
<1>2. Rows(db) \in SUBSET Row /\ IsFiniteSet(Rows(db))
  BY RowsFacts
<1>3. StrictOrder(BeforeIn(Rows(db)), Rows(db))
  BY <1>2, BeforeIsStrict
<1>4. ASSUME NEW l, InOrder(l, Rows(db))
      PROVE  l \in [1 .. Cardinality(Rows(db)) -> Rows(db)] /\ Along(BeforeIn(Rows(db)), l)
  <2>1. l \in [1 .. Cardinality(Rows(db)) -> Rows(db)]
    BY <1>4 DEF InOrder
  <2>2. QED  BY <2>1, <1>4 DEF InOrder, Along, BeforeIn
<1>5. QED  BY <1>1, <1>2, <1>3, <1>4, ArrangementUnique

-----------------------------------------------------------------------------
(* A list with one member moved.                                           *)

\* A slice of a list, by position.
LEMMA SubSeqAt ==
  ASSUME NEW S, NEW s \in Seq(S), NEW m \in Nat, NEW n \in Nat,
         m >= 1, n <= Len(s), m <= n + 1
  PROVE  /\ SubSeq(s, m, n) \in Seq(S)
         /\ Len(SubSeq(s, m, n)) = n - m + 1
         /\ \A i \in 1 .. n - m + 1 : SubSeq(s, m, n)[i] = s[m + i - 1]
<1>1. \A i \in m .. n : s[i] \in S
  <2>1. \A i \in m .. n : i \in 1 .. Len(s)
    BY LenProperties
  <2>2. QED  BY <2>1, ElementOfSeq
<1>2. /\ SubSeq(s, m, n) \in Seq(S)
      /\ Len(SubSeq(s, m, n)) = IF m <= n THEN n - m + 1 ELSE 0
      /\ \A i \in 1 .. n - m + 1 : SubSeq(s, m, n)[i] = s[m + i - 1]
  <2>1. m \in Int /\ n \in Int
    OBVIOUS
  <2>2. QED  BY <1>1, <2>1, SubSeqProperties
<1>3. QED  BY <1>2

\* removeAt, by position.
LEMMA RemovedAt ==
  ASSUME NEW S, NEW s \in Seq(S), NEW k \in 1 .. Len(s)
  PROVE  /\ RemoveAt(s, k) \in Seq(S)
         /\ Len(RemoveAt(s, k)) = Len(s) - 1
         /\ \A i \in 1 .. Len(s) - 1 :
              RemoveAt(s, k)[i] = IF i < k THEN s[i] ELSE s[i + 1]
<1> DEFINE x == SubSeq(s, 1, k - 1)
           y == SubSeq(s, k + 1, Len(s))
<1>1. Len(s) \in Nat /\ k \in Nat /\ k - 1 \in Nat /\ k + 1 \in Nat
  BY LenProperties
<1>2. /\ x \in Seq(S) /\ Len(x) = k - 1
      /\ \A i \in 1 .. k - 1 : x[i] = s[i]
  <2>1. /\ x \in Seq(S) /\ Len(x) = (k - 1) - 1 + 1
        /\ \A i \in 1 .. (k - 1) - 1 + 1 : x[i] = s[1 + i - 1]
    BY <1>1, SubSeqAt
  <2> HIDE DEF x
  <2>2. QED  BY <2>1, <1>1
<1>3. /\ y \in Seq(S) /\ Len(y) = Len(s) - k
      /\ \A i \in 1 .. Len(s) - k : y[i] = s[k + i]
  <2>1. /\ y \in Seq(S) /\ Len(y) = Len(s) - (k + 1) + 1
        /\ \A i \in 1 .. Len(s) - (k + 1) + 1 : y[i] = s[(k + 1) + i - 1]
    BY <1>1, SubSeqAt
  <2> HIDE DEF y
  <2>2. QED  BY SMTT(30), <2>1, <1>1
<1>4. RemoveAt(s, k) = x \o y
  BY DEF RemoveAt
<1> HIDE DEF x, y
<1>5. /\ x \o y \in Seq(S) /\ Len(x \o y) = Len(x) + Len(y)
      /\ \A i \in 1 .. Len(x) + Len(y) :
           (x \o y)[i] = IF i <= Len(x) THEN x[i] ELSE y[i - Len(x)]
  BY <1>2, <1>3, ConcatProperties
<1>6. Len(x) + Len(y) = Len(s) - 1
  BY <1>1, <1>2, <1>3
<1>7. ASSUME NEW i \in 1 .. Len(s) - 1
      PROVE  (x \o y)[i] = IF i < k THEN s[i] ELSE s[i + 1]
  <2>1. (x \o y)[i] = IF i <= Len(x) THEN x[i] ELSE y[i - Len(x)]
    BY <1>5, <1>6
  <2>2. CASE i < k
    BY <2>1, <2>2, <1>1, <1>2
  <2>3. CASE ~(i < k)
    <3>1. i - Len(x) \in 1 .. Len(s) - k /\ k + (i - Len(x)) = i + 1 /\ ~(i <= Len(x))
      BY <2>3, <1>1, <1>2
    <3>2. QED  BY <3>1, <2>1, <2>3, <1>3
  <2>4. QED  BY <2>2, <2>3
<1>8. QED  BY <1>4, <1>5, <1>6, <1>7

\* insert, by position.
LEMMA InsertedAt ==
  ASSUME NEW S, NEW s \in Seq(S), NEW k \in 1 .. Len(s) + 1, NEW e \in S
  PROVE  /\ InsertAt(s, k, e) \in Seq(S)
         /\ Len(InsertAt(s, k, e)) = Len(s) + 1
         /\ \A i \in 1 .. Len(s) + 1 :
              InsertAt(s, k, e)[i] = IF i < k THEN s[i] ELSE IF i = k THEN e ELSE s[i - 1]
<1> DEFINE x == SubSeq(s, 1, k - 1)
           y == SubSeq(s, k, Len(s))
           xe == x \o <<e>>
<1>1. Len(s) \in Nat /\ k \in Nat /\ k - 1 \in Nat
  BY LenProperties
<1>2. /\ x \in Seq(S) /\ Len(x) = k - 1
      /\ \A i \in 1 .. k - 1 : x[i] = s[i]
  <2>1. /\ x \in Seq(S) /\ Len(x) = (k - 1) - 1 + 1
        /\ \A i \in 1 .. (k - 1) - 1 + 1 : x[i] = s[1 + i - 1]
    BY <1>1, SubSeqAt
  <2> HIDE DEF x
  <2>2. QED  BY <2>1, <1>1
<1>3. /\ y \in Seq(S) /\ Len(y) = Len(s) - k + 1
      /\ \A i \in 1 .. Len(s) - k + 1 : y[i] = s[k + i - 1]
  <2>1. k <= Len(s) + 1
    BY <1>1
  <2>2. QED  BY <2>1, <1>1, SubSeqAt
<1>4. <<e>> \in Seq(S) /\ Len(<<e>>) = 1 /\ <<e>>[1] = e
  OBVIOUS
<1>5. InsertAt(s, k, e) = xe \o y
  BY DEF InsertAt
<1> HIDE DEF x, y
<1>6. /\ xe \in Seq(S) /\ Len(xe) = Len(x) + Len(<<e>>)
      /\ \A i \in 1 .. Len(x) + Len(<<e>>) :
           xe[i] = IF i <= Len(x) THEN x[i] ELSE <<e>>[i - Len(x)]
  BY <1>2, <1>4, ConcatProperties
<1> HIDE DEF xe
<1>7. Len(xe) = k /\ \A i \in 1 .. k : xe[i] = IF i < k THEN s[i] ELSE e
  <2>1. Len(xe) = k
    BY <1>1, <1>2, <1>4, <1>6
  <2>2. ASSUME NEW i \in 1 .. k
        PROVE  xe[i] = IF i < k THEN s[i] ELSE e
    <3>1. xe[i] = IF i <= Len(x) THEN x[i] ELSE <<e>>[i - Len(x)]
      BY <2>1, <1>6
    <3>2. CASE i < k
      BY <3>1, <3>2, <1>1, <1>2
    <3>3. CASE i = k
      <4>1. i - Len(x) = 1 /\ ~(i <= Len(x))
        BY <3>3, <1>1, <1>2
      <4>2. QED  BY <4>1, <3>1, <3>3, <1>1, <1>4
    <3>4. QED  BY <3>2, <3>3, <1>1
  <2>3. QED  BY <2>1, <2>2
<1>8. /\ xe \o y \in Seq(S) /\ Len(xe \o y) = Len(xe) + Len(y)
      /\ \A i \in 1 .. Len(xe) + Len(y) :
           (xe \o y)[i] = IF i <= Len(xe) THEN xe[i] ELSE y[i - Len(xe)]
  <2>1. xe \in Seq(S) /\ y \in Seq(S)
    BY <1>3, <1>6
  <2>2. QED  BY <2>1, ConcatProperties
<1>9. Len(xe) + Len(y) = Len(s) + 1
  BY <1>1, <1>3, <1>7
<1>10. ASSUME NEW i \in 1 .. Len(s) + 1
       PROVE  (xe \o y)[i] = IF i < k THEN s[i] ELSE IF i = k THEN e ELSE s[i - 1]
  <2>1. (xe \o y)[i] = IF i <= Len(xe) THEN xe[i] ELSE y[i - Len(xe)]
    BY <1>8, <1>9
  <2>2. CASE i <= k
    <3>1. i \in 1 .. k
      BY <2>2, <1>1
    <3>2. QED  BY <3>1, <2>1, <2>2, <1>1, <1>7
  <2>3. CASE ~(i <= k)
    <3>1. i - k \in 1 .. Len(s) - k + 1 /\ k + (i - k) - 1 = i - 1
      BY <2>3, <1>1
    <3>2. QED  BY <3>1, <2>1, <2>3, <1>1, <1>3, <1>7
  <2>4. QED  BY <2>2, <2>3
<1>11. QED  BY <1>5, <1>8, <1>9, <1>10

\* Where the member at i of the list after the move was before it.
Source(from, to, i) ==
  IF i = to THEN from
  ELSE LET j == IF i < to THEN i ELSE i - 1
       IN IF j < from THEN j ELSE j + 1

\* The others keep their order.
LEMMA SourceAscends ==
  ASSUME NEW n \in Nat, NEW from \in 1 .. n, NEW to \in 1 .. n
  PROVE  /\ \A i \in 1 .. n : Source(from, to, i) \in 1 .. n
         /\ \A i \in 1 .. n : i # to => Source(from, to, i) # from
         /\ \A i, j \in 1 .. n : i < j /\ i # to /\ j # to
                                 => Source(from, to, i) < Source(from, to, j)
<1>1. \A i \in 1 .. n : Source(from, to, i) \in 1 .. n
  BY DEF Source
<1>2. \A i \in 1 .. n : i # to => Source(from, to, i) # from
  BY DEF Source
<1>3. \A i, j \in 1 .. n : i < j /\ i # to /\ j # to
                           => Source(from, to, i) < Source(from, to, j)
  BY DEF Source
<1>4. QED  BY <1>1, <1>2, <1>3

\* A drop moves one row and shifts those between, and loses none.
LEMMA MovedAt ==
  ASSUME NEW S, shown \in Seq(S), NEW from \in 1 .. Len(shown), NEW to \in 1 .. Len(shown)
  PROVE  /\ Moved(from, to) \in Seq(S)
         /\ Len(Moved(from, to)) = Len(shown)
         /\ \A i \in 1 .. Len(shown) : Moved(from, to)[i] = shown[Source(from, to, i)]
<1> DEFINE r == RemoveAt(shown, from)
           e == shown[from]
           m == InsertAt(r, to, e)
           n == Len(shown)
<1>1. n \in Nat /\ e \in S
  BY LenProperties, ElementOfSeq
<1>2. /\ r \in Seq(S) /\ Len(r) = n - 1
      /\ \A i \in 1 .. n - 1 : r[i] = IF i < from THEN shown[i] ELSE shown[i + 1]
  BY RemovedAt
<1>3. Moved(from, to) = m
  BY DEF Moved
<1> HIDE DEF r, e
<1>4. n - 1 + 1 = n
  BY <1>1
<1>5. to \in 1 .. Len(r) + 1 /\ Len(r) + 1 = n
  BY <1>1, <1>2, <1>4
<1>6. /\ m \in Seq(S) /\ Len(m) = Len(r) + 1
      /\ \A i \in 1 .. Len(r) + 1 :
           m[i] = IF i < to THEN r[i] ELSE IF i = to THEN e ELSE r[i - 1]
  <2>1. r \in Seq(S) /\ to \in 1 .. Len(r) + 1 /\ e \in S
    BY <1>1, <1>2, <1>5
  <2>2. m \in Seq(S) /\ Len(m) = Len(r) + 1
    BY <2>1, InsertedAt
  <2>3. \A i \in 1 .. Len(r) + 1 :
          m[i] = IF i < to THEN r[i] ELSE IF i = to THEN e ELSE r[i - 1]
    BY <2>1, InsertedAt
  <2>4. QED  BY <2>2, <2>3
<1> HIDE DEF m
<1>7. ASSUME NEW i \in 1 .. n
      PROVE  m[i] = shown[Source(from, to, i)]
  <2>1. m[i] = IF i < to THEN r[i] ELSE IF i = to THEN e ELSE r[i - 1]
    BY <1>5, <1>6
  <2>2. CASE i < to
    <3>1. i \in 1 .. n - 1 /\ i # to
      BY <2>2, <1>1
    <3>2. r[i] = IF i < from THEN shown[i] ELSE shown[i + 1]
      BY <3>1, <1>2
    <3>3. Source(from, to, i) = IF i < from THEN i ELSE i + 1
      BY <2>2, <3>1 DEF Source
    <3>4. QED  BY <3>2, <3>3, <2>1, <2>2
  <2>3. CASE i = to
    BY <2>1, <2>3, <1>1 DEF Source, e
  <2>4. CASE i > to
    <3>1. i - 1 \in 1 .. n - 1 /\ i # to /\ ~(i < to) /\ (i - 1) + 1 = i
      BY <2>4, <1>1
    <3>2. r[i - 1] = IF i - 1 < from THEN shown[i - 1] ELSE shown[i]
      BY <3>1, <1>2
    <3>3. Source(from, to, i) = IF i - 1 < from THEN i - 1 ELSE i
      BY <3>1 DEF Source
    <3>4. QED  BY <3>1, <3>2, <3>3, <2>1
  <2>5. QED  BY <2>2, <2>3, <2>4, <1>1
<1>8. QED  BY <1>3, <1>5, <1>6, <1>7

-----------------------------------------------------------------------------
(* Types.                                                                  *)

\* Keys, with which what follows is typed.
KeySet(K) == K \subseteq Seq(Int) /\ NoKey \in K

Entry(K) == [id : RuleIds, key : K]
Lists(K) == Seq(Entry(K))
Dbs(K) == UNION {[D -> K] : D \in SUBSET RuleIds}

Puts == [op : {"put"}, id : RuleIds]
Dels == [op : {"del"}, ids : SUBSET RuleIds]
Orders(K) == [op : {"order"}, id : RuleIds, key : K \ {NoKey}]
Writes(K) == Puts \union Dels \union Orders(K)

Typed(K) ==
  /\ newest \in 0 .. MaxRules
  /\ link \in Dbs(K)
  /\ shown \in Lists(K)
  /\ answer = NoAnswer \/ answer \in Lists(K)
  /\ writes \in Seq(Writes(K))
  /\ due \in BOOLEAN /\ refused \in BOOLEAN
  /\ calls \in 0 .. MaxCalls

\* A key that is in the database or on its way there: none, or one that
\* generateKeyBetween returned or that was there before.
StoredKeys == {k \in Seq(Int) : k = NoKey \/ (IsKey(k) /\ (Valid(k) \/ k = Smallest))}

\* The type invariant.
TypeOK == Typed(StoredKeys)

\* A database is a function from some rules to keys.
LEMMA DbFacts ==
  ASSUME NEW K, NEW db
  PROVE  db \in Dbs(K) <=> /\ db = [r \in DOMAIN db |-> db[r]]
                        /\ DOMAIN db \in SUBSET RuleIds
                        /\ \A r \in DOMAIN db : db[r] \in K
BY DEF Dbs

\* And its keys are sequences, so that its rows can be sorted.
LEMMA DbsAreDbs ==
  ASSUME NEW K, KeySet(K), NEW db \in Dbs(K)
  PROVE  IsDb(db)
<1>1. /\ db = [r \in DOMAIN db |-> db[r]]
      /\ DOMAIN db \in SUBSET RuleIds
      /\ \A r \in DOMAIN db : db[r] \in K
  BY DbFacts
<1>2. \A r \in DOMAIN db : db[r] \in Seq(Int)
  BY <1>1 DEF KeySet
<1>3. db \in [DOMAIN db -> Seq(Int)]
  BY <1>1, <1>2
<1>4. QED  BY <1>1, <1>3 DEF IsDb

\* The rows of a database with keys of K are rows with keys of K.
LEMMA SortedType ==
  ASSUME NEW K, KeySet(K), NEW db \in Dbs(K)
  PROVE  Sorted(db) \in Lists(K)
<1>1. IsDb(db)
  BY DbsAreDbs
<1>2. InOrder(Sorted(db), Rows(db)) /\ IsFiniteSet(Rows(db))
  BY <1>1, SortedInOrder, RowsFacts
<1>3. Cardinality(Rows(db)) \in Nat
  BY <1>2, FS_CardinalityType
<1>4. Rows(db) \subseteq Entry(K)
  <2>1. ASSUME NEW r \in DOMAIN db
        PROVE  [id |-> r, key |-> db[r]] \in Entry(K)
    <3>1. r \in RuleIds /\ db[r] \in K
      BY DbFacts
    <3>2. QED  BY <3>1 DEF Entry
  <2>2. QED  BY <2>1 DEF Rows
<1>5. Sorted(db) \in [1 .. Cardinality(Rows(db)) -> Rows(db)]
  BY <1>2 DEF InOrder
<1>6. Sorted(db) \in Seq(Rows(db))
  BY <1>3, <1>5, FunctionIsSeq
<1>7. QED  BY <1>4, <1>6, SeqMonotonic DEF Lists

\* A write of a key of K leaves keys of K, or no key, in the database.
LEMMA AppliedType ==
  ASSUME NEW K, KeySet(K), NEW db \in Dbs(K), NEW write \in Writes(K)
  PROVE  Applied(db, write) \in Dbs(K)
<1>1. /\ DOMAIN db \in SUBSET RuleIds
      /\ \A r \in DOMAIN db : db[r] \in K
  BY DbFacts
<1>2. NoKey \in K
  BY DEF KeySet
<1>3. CASE write \in Puts
  <2>1. write.op = "put" /\ write.id \in RuleIds
    BY <1>3 DEF Puts
  <2> DEFINE D == DOMAIN db \union {write.id}
  <2>2. Applied(db, write) = [r \in D |-> IF r = write.id THEN NoKey ELSE db[r]]
    BY <2>1 DEF Applied
  <2>3. D \in SUBSET RuleIds
    BY <1>1, <2>1
  <2>4. [r \in D |-> IF r = write.id THEN NoKey ELSE db[r]] \in [D -> K]
    BY <1>1, <1>2
  <2> HIDE DEF D
  <2>5. QED  BY <2>2, <2>3, <2>4 DEF Dbs
<1>4. CASE write \in Dels
  <2>1. write.op = "del"
    BY <1>4 DEF Dels
  <2> DEFINE D == DOMAIN db \ write.ids
  <2>2. Applied(db, write) = [r \in D |-> db[r]]
    BY <2>1 DEF Applied
  <2>3. D \in SUBSET RuleIds
    BY <1>1
  <2>4. [r \in D |-> db[r]] \in [D -> K]
    BY <1>1
  <2> HIDE DEF D
  <2>5. QED  BY <2>2, <2>3, <2>4 DEF Dbs
<1>5. CASE write \in Orders(K)
  <2>1. write.op = "order" /\ write.key \in K
    BY <1>5 DEF Orders
  <2> DEFINE D == DOMAIN db
  <2>2. Applied(db, write) = [r \in D |-> IF r = write.id THEN write.key ELSE db[r]]
    BY <2>1 DEF Applied
  <2>3. [r \in D |-> IF r = write.id THEN write.key ELSE db[r]] \in [D -> K]
    BY <1>1, <2>1
  <2> HIDE DEF D
  <2>4. D \in SUBSET RuleIds
    BY <1>1 DEF D
  <2>5. QED  BY <2>2, <2>3, <2>4 DEF Dbs
<1>6. QED  BY <1>3, <1>4, <1>5 DEF Writes

\* The keys around a drop, and what is sent for it when it is not refused.
LEMMA DropKeys ==
  ASSUME NEW K, KeySet(K), shown \in Lists(K),
         NEW from \in DOMAIN shown, NEW to \in DOMAIN shown
  PROVE  /\ Moved(from, to) \in Lists(K)
         /\ shown[from].id \in RuleIds
         /\ \A i \in Int : KeyAt(Moved(from, to), i) \in K
<1>1. from \in 1 .. Len(shown) /\ to \in 1 .. Len(shown) /\ shown[from] \in Entry(K)
  BY LenProperties, ElementOfSeq DEF Lists
<1>2. Moved(from, to) \in Seq(Entry(K))
  BY <1>1, MovedAt DEF Lists
<1>3. NoKey \in K
  BY DEF KeySet
<1>4. ASSUME NEW i \in Int
      PROVE  KeyAt(Moved(from, to), i) \in K
  <2>1. CASE i \in DOMAIN Moved(from, to)
    <3>1. i \in 1 .. Len(Moved(from, to))
      BY <2>1, <1>2, LenProperties
    <3>2. Moved(from, to)[i] \in Entry(K)
      BY <3>1, <1>2, ElementOfSeq
    <3>3. QED  BY <2>1, <3>2 DEF KeyAt, Entry
  <2>2. CASE i \notin DOMAIN Moved(from, to)
    BY <2>2, <1>3 DEF KeyAt
  <2>3. QED  BY <2>1, <2>2
<1>5. QED  BY <1>1, <1>2, <1>4 DEF Lists, Entry

\* The keys the database may hold are a set of keys.
LEMMA StoredKeySet == KeySet(StoredKeys)
BY EmptySeq DEF KeySet, StoredKeys, NoKey

\* What order writes between two such keys is one, and is between them.
LEMMA SentKey ==
  ASSUME NEW a \in StoredKeys, NEW b \in StoredKeys, ~Rejects(a, b)
  PROVE  /\ KeyBetween(a, b) \in StoredKeys \ {NoKey}
         /\ KeyBetween(a, b) \in Seq(Int)
         /\ a # NoKey => Less(a, KeyBetween(a, b))
         /\ b # NoKey => Less(KeyBetween(a, b), b)
<1>1. KeyOrNone(a) /\ KeyOrNone(b)
  BY DEF StoredKeys, KeyOrNone
<1>2. /\ IsKey(KeyBetween(a, b))
      /\ Valid(KeyBetween(a, b)) \/ KeyBetween(a, b) = Smallest
      /\ a # NoKey => Less(a, KeyBetween(a, b))
      /\ b # NoKey => Less(KeyBetween(a, b), b)
  BY <1>1, KeyBetweenIsBetween
<1>3. KeyBetween(a, b) # NoKey /\ KeyBetween(a, b) \in Seq(Int)
  BY <1>2 DEF IsKey
<1>4. QED  BY <1>2, <1>3 DEF StoredKeys

-----------------------------------------------------------------------------

\* At the start the keys are those of the rules that were there.
LEMMA TypedInit ==
  ASSUME NEW K, KeySet(K), StartKeys \subseteq K, Init
  PROVE  Typed(K)
<1> USE DEF Init
<1>1. newest \in 0 .. MaxRules
  OBVIOUS
<1>2. StartKeys \union {NoKey} \subseteq K
  BY DEF KeySet
<1>3. PICK ids \in SUBSET (1 .. newest) : link \in [ids -> StartKeys \union {NoKey}]
  OBVIOUS
<1>4. ids \in SUBSET RuleIds
  BY <1>1, <1>3, RuleOrderAssumption DEF RuleIds
<1>5. link \in [ids -> K]
  BY <1>2, <1>3
<1>6. link \in Dbs(K)
  BY <1>4, <1>5 DEF Dbs
<1>7. shown \in Lists(K)
  BY <1>6, SortedType
<1>8. writes \in Seq(Writes(K))
  BY EmptySeq
<1>9. calls \in 0 .. MaxCalls
  BY RuleOrderAssumption
<1>10. QED  BY <1>1, <1>6, <1>7, <1>8, <1>9 DEF Typed

\* Typed with keys of K is typed with those of a larger set.
LEMMA TypedMonotonic ==
  ASSUME NEW K, NEW L, K \subseteq L, Typed(K)
  PROVE  Typed(L)
<1>1. Entry(K) \subseteq Entry(L) /\ Writes(K) \subseteq Writes(L)
  BY DEF Entry, Writes, Orders
<1>2. \A list \in Lists(K) : list \in Lists(L)
  BY <1>1, SeqMonotonic DEF Lists
<1>3. Dbs(K) \subseteq Dbs(L)
  <2>1. ASSUME NEW db \in Dbs(K)
        PROVE  db \in Dbs(L)
    <3>1. PICK D \in SUBSET RuleIds : db \in [D -> K]
      BY DEF Dbs
    <3>2. db \in [D -> L]
      BY <3>1
    <3>3. QED  BY <3>2 DEF Dbs
  <2>2. QED  BY <2>1
<1>4. writes \in Seq(Writes(L))
  BY <1>1, SeqMonotonic DEF Typed
<1>5. QED  BY <1>2, <1>3, <1>4 DEF Typed

\* Numbers in ascending order.
LEMMA ArrangedNumbers ==
  ASSUME NEW I \in SUBSET Int, IsFiniteSet(I)
  PROVE  Arranged(I, <) \in [1 .. Cardinality(I) -> I]
<1> DEFINE R == {pair \in I \X I : pair[1] < pair[2]}
<1>1. StrictOrder(R, I)
  <2>1. \A x \in I : x \in Int
    OBVIOUS
  <2>2. \A x, y \in I : <<x, y>> \in R <=> x < y
    OBVIOUS
  <2> HIDE DEF R
  <2>3. QED  BY <2>1, <2>2 DEF StrictOrder
<1>2. PICK f \in [1 .. Cardinality(I) -> I] : Along(R, f)
  BY <1>1, ArrangementExists
<1>3. \A i, j \in DOMAIN f : i < j => f[i] < f[j]
  BY <1>2 DEF Along
<1>4. QED  BY <1>2, <1>3 DEF Arranged

\* Sending a write keeps the types.
LEMMA TypedSend ==
  ASSUME NEW K, Typed(K), Calls, NEW write \in Writes(K), Send(write)
  PROVE  /\ writes' \in Seq(Writes(K)) /\ calls' \in 0 .. MaxCalls
         /\ link' \in Dbs(K) /\ due' \in BOOLEAN
         /\ answer' = NoAnswer \/ answer' \in Lists(K)
<1>1. writes' \in Seq(Writes(K))
  BY AppendProperties DEF Send, Typed
<1>2. calls' \in 0 .. MaxCalls
  BY RuleOrderAssumption DEF Calls, Typed
<1>3. QED  BY <1>1, <1>2 DEF Calls, Typed

\* What KeyBetween makes of keys of K is in L.
Makes(K, L) ==
  \A a, b \in K : ~Rejects(a, b) => KeyBetween(a, b) \in L \ {NoKey}

\* A step keeps the types, with the keys an operation may add.
LEMMA TypedNext ==
  ASSUME NEW K, KeySet(K), NEW L, KeySet(L), K \subseteq L,
         Typed(K), [Next]_vars,
         calls' # calls => Makes(K, L)
  PROVE  Typed(L)'
<1>0. /\ newest \in 0 .. MaxRules /\ link \in Dbs(K) /\ shown \in Lists(K)
      /\ answer = NoAnswer \/ answer \in Lists(K)
      /\ writes \in Seq(Writes(K)) /\ due \in BOOLEAN /\ refused \in BOOLEAN
      /\ calls \in 0 .. MaxCalls
  BY DEF Typed
<1>1. /\ newest \in 0 .. MaxRules /\ link \in Dbs(L) /\ shown \in Lists(L)
      /\ answer = NoAnswer \/ answer \in Lists(L)
      /\ writes \in Seq(Writes(L)) /\ due \in BOOLEAN /\ refused \in BOOLEAN
      /\ calls \in 0 .. MaxCalls
  BY TypedMonotonic DEF Typed
<1>2. ASSUME NEW id \in RuleIds
      PROVE  [op |-> "put", id |-> id] \in Writes(L)
  BY DEF Writes, Puts
<1>3. CASE PutNew
  <2>1. newest' \in 0 .. MaxRules /\ newest + 1 \in RuleIds
    BY <1>1, <1>3, RuleOrderAssumption DEF PutNew, RuleIds
  <2>2. NoKey \in L
    BY DEF KeySet
  <2>3. [id |-> newest + 1, key |-> NoKey] \in Entry(L)
    BY <2>1, <2>2 DEF Entry
  <2> DEFINE new == [id |-> newest + 1, key |-> NoKey]
  <2>4. shown' = <<new>> \o shown /\ new \in Entry(L)
    BY <1>3, <2>3 DEF PutNew
  <2> HIDE DEF new
  <2>5. shown' \in Lists(L)
    <3>1. <<new>> \in Seq(Entry(L))
      BY <2>4
    <3>2. QED  BY <2>4, <3>1, <1>1, ConcatProperties DEF Lists
  <2>6. Calls /\ Send([op |-> "put", id |-> newest + 1]) /\ UNCHANGED refused
    BY <1>3 DEF PutNew
  <2>7. QED  BY <2>1, <2>5, <2>6, <1>1, <1>2, TypedSend DEF Typed
<1>4. ASSUME NEW id \in RuleIds, PutEdited(id)
      PROVE  Typed(L)'
  <2>1. /\ Calls /\ Send([op |-> "put", id |-> id])
        /\ UNCHANGED <<shown, newest, refused>>
    BY <1>4 DEF PutEdited
  <2>2. QED  BY <2>1, <1>1, <1>2, TypedSend DEF Typed
<1>5. ASSUME NEW ids \in SUBSET RuleIds, DelAll(ids)
      PROVE  Typed(L)'
  <2>1. /\ Calls /\ Send([op |-> "del", ids |-> ids])
        /\ UNCHANGED <<newest, refused>>
    BY <1>5 DEF DelAll
  <2>2. [op |-> "del", ids |-> ids] \in Writes(L)
    BY DEF Writes, Dels
  <2> DEFINE I == {i \in DOMAIN shown : shown[i].id \notin ids}
             kept == Arranged(I, <)
  <2>3. Len(shown) \in Nat /\ DOMAIN shown = 1 .. Len(shown)
    BY <1>1, LenProperties DEF Lists
  <2>4. IsFiniteSet(1 .. Len(shown))
    BY <2>3, FS_Interval
  <2>5. I \in SUBSET (1 .. Len(shown)) /\ I \in SUBSET Int
    BY <2>3
  <2>6. shown' = [n \in DOMAIN kept |-> shown[kept[n]]]
    BY <1>5 DEF DelAll
  <2> HIDE DEF I
  <2>7. IsFiniteSet(I) /\ Cardinality(I) \in Nat
    BY <2>4, <2>5, FS_Subset, FS_CardinalityType
  <2>8. kept \in [1 .. Cardinality(I) -> I]
    BY <2>5, <2>7, ArrangedNumbers
  <2> HIDE DEF kept
  <2>9. shown' \in [1 .. Cardinality(I) -> Entry(L)]
    <3>1. \A i \in I : shown[i] \in Entry(L)
      BY <2>5, <1>1, ElementOfSeq DEF Lists
    <3>2. \A n \in 1 .. Cardinality(I) : shown[kept[n]] \in Entry(L)
      BY <3>1, <2>8
    <3>3. QED  BY <3>2, <2>6, <2>8
  <2>10. shown' \in Lists(L)
    BY <2>7, <2>9, FunctionIsSeq DEF Lists
  <2>11. QED  BY <2>1, <2>2, <2>10, <1>1, TypedSend DEF Typed
<1>6. ASSUME NEW from \in RuleIds, NEW to \in RuleIds, Drop(from, to)
      PROVE  Typed(L)'
  <2>1. /\ Calls /\ from \in DOMAIN shown /\ to \in DOMAIN shown
        /\ shown' = Moved(from, to) /\ UNCHANGED newest
    BY <1>6 DEF Drop, Order, OrderThrows, Dropped
  <2>2. from \in Int /\ to \in Int /\ to - 1 \in Int /\ to + 1 \in Int
    BY RuleOrderAssumption DEF RuleIds
  <2>3. Moved(from, to) \in Lists(L) /\ shown[from].id \in RuleIds
    BY <2>1, <1>1, DropKeys
  <2> DEFINE pre == KeyAt(Moved(from, to), to - 1)
             next == KeyAt(Moved(from, to), to + 1)
  <2>4. pre \in K /\ next \in K
    BY <2>1, <2>2, <1>0, DropKeys
  <2>5. CASE Order(from, to)
    <3> DEFINE key == KeyBetween(next, pre)
               write == [op |-> "order", id |-> shown[from].id, key |-> key]
    <3>1. ~Rejects(next, pre) /\ Send(write) /\ UNCHANGED refused
      BY <2>5 DEF Order
    <3> HIDE DEF pre, next
    <3>2. key \in L \ {NoKey}
      <4>1. calls' # calls
        BY <2>1, <1>1 DEF Calls
      <4>2. QED  BY <4>1, <3>1, <2>4 DEF Makes
    <3> HIDE DEF key
    <3>3. write \in Writes(L)
      BY <3>2, <2>3 DEF Writes, Orders
    <3> HIDE DEF write
    <3>4. QED  BY <3>1, <3>3, <2>1, <2>3, <1>1, TypedSend DEF Typed
  <2>6. CASE OrderThrows(from, to)
    <3>1. refused' = TRUE /\ UNCHANGED writes
      BY <2>6 DEF OrderThrows
    <3>2. calls' \in 0 .. MaxCalls /\ UNCHANGED <<link, due, answer>>
      BY <2>1, <1>1, RuleOrderAssumption DEF Calls
    <3>3. QED  BY <3>1, <3>2, <2>1, <2>3, <1>1 DEF Typed
  <2>7. QED  BY <2>5, <2>6, <1>6 DEF Drop
<1>7. CASE Build
  <2>1. calls' \in 0 .. MaxCalls
    BY <1>1, <1>7, RuleOrderAssumption DEF Build
  <2>2. shown' \in Lists(L)
    BY <1>7, EmptySeq DEF Build, Lists
  <2>3. QED  BY <2>1, <2>2, <1>1, <1>7 DEF Build, Typed
<1>8. CASE Execute
  <2>1. Head(writes) \in Writes(L) /\ Tail(writes) \in Seq(Writes(L))
    BY <1>1, <1>8, HeadTailProperties DEF Execute
  <2>2. link' \in Dbs(L)
    BY <2>1, <1>1, <1>8, AppliedType DEF Execute
  <2>3. QED  BY <2>1, <2>2, <1>1, <1>8 DEF Execute, Typed
<1>9. CASE Fetch
  <2>1. Sorted(link) \in Lists(L)
    BY <1>1, SortedType
  <2>2. QED  BY <2>1, <1>1, <1>9 DEF Fetch, Typed
<1>10. CASE Emit
  BY <1>1, <1>10 DEF Emit, Typed
<1>11. CASE UNCHANGED vars
  BY <1>1, <1>11 DEF vars, Typed
<1>12. QED
  BY <1>3, <1>4, <1>5, <1>6, <1>7, <1>8, <1>9, <1>10, <1>11 DEF Next, User

\* The types are right at the start.
LEMMA TypeInit == Init => TypeOK
<1>1. StartKeys \subseteq StoredKeys
  BY RuleOrderAssumption, KeyFacts DEF StoredKeys
<1>2. QED  BY <1>1, StoredKeySet, TypedInit DEF TypeOK

\* And every step keeps them.
LEMMA TypeNext == TypeOK /\ [Next]_vars => TypeOK'
<1>1. Makes(StoredKeys, StoredKeys)
  BY SentKey DEF Makes
<1>2. QED  BY <1>1, StoredKeySet, TypedNext DEF TypeOK

\* The types are right in every state that can be reached: in particular
\* whatever order writes, and whatever the database keeps, is a letter of
\* the alphabet followed by digits, and is accepted by _validateOrderKey
\* unless it is the smallest key of all.
THEOREM TypeCorrect == Spec => []TypeOK
<1>1. QED  BY TypeInit, TypeNext, PTL DEF Spec

-----------------------------------------------------------------------------
(* What the types say of the keys.                                         *)

StoredNow == {link[r] : r \in DOMAIN link}
SentNow == {w.key : w \in {v \in Range(writes) : v.op = "order"}}

\* No rule has, or is about to get, the smallest key there is.  Indexing
\* hands it out as the last key below all others and then does not accept
\* it; with 26 letters a side that takes more drops to the bottom of the
\* list than anyone makes, but nothing in the code counts them.
AboveBottom == Smallest \notin StoredNow \union SentNow

\* The keys that are stored or sent are among those of the types.
LEMMA KeysOfTypes ==
  ASSUME NEW K, Typed(K)
  PROVE  StoredNow \union SentNow \subseteq K
<1>1. link \in Dbs(K) /\ writes \in Seq(Writes(K))
  BY DEF Typed
<1>2. StoredNow \subseteq K
  BY <1>1, DbFacts DEF StoredNow
<1>3. Range(writes) \subseteq Writes(K)
  BY <1>1, RangeOfSeq
<1>4. \A w \in Writes(K) : w.op = "order" => w.key \in K
  BY DEF Writes, Puts, Dels, Orders
<1>5. SentNow \subseteq K
  BY <1>3, <1>4 DEF SentNow
<1>6. QED  BY <1>2, <1>5

\* A key of the types is valid when it is not the smallest.
LEMMA KeysValidFromTypes == TypeOK /\ AboveBottom => KeysValid
<1> SUFFICES ASSUME TypeOK, AboveBottom
             PROVE  KeysValid
  OBVIOUS
<1>1. \A key \in StoredNow \union SentNow : key = NoKey \/ Valid(key)
  BY KeysOfTypes DEF TypeOK, AboveBottom, StoredKeys
<1>2. QED  BY <1>1 DEF KeysValid, StoredNow, SentNow

\* Every key the database has, or is sent, is one _validateOrderKey accepts,
\* as long as the keys have not run out at the bottom.
THEOREM KeysValidSafe == Spec => [](AboveBottom => KeysValid)
<1>1. QED  BY TypeCorrect, KeysValidFromTypes, PTL

-----------------------------------------------------------------------------
(* A drop on a settled list.                                               *)

\* What a drop leaves for the query: the rule's row with its new key, and
\* the other rows.
LEMMA RowsOfOrder ==
  ASSUME NEW db, IsDb(db), NEW id \in DOMAIN db, NEW key \in Seq(Int)
  PROVE  LET new == Applied(db, [op |-> "order", id |-> id, key |-> key])
         IN  /\ IsDb(new)
             /\ Cardinality(Rows(new)) = Cardinality(Rows(db))
             /\ [id |-> id, key |-> key] \in Rows(new)
             /\ \A row \in Rows(db) : row.id # id => row \in Rows(new)
<1> DEFINE write == [op |-> "order", id |-> id, key |-> key]
           new == Applied(db, write)
<1>1. new = [r \in DOMAIN db |-> IF r = id THEN key ELSE db[r]]
  BY DEF Applied
<1>2. DOMAIN db \in SUBSET RuleIds /\ \A r \in DOMAIN db : db[r] \in Seq(Int)
  BY RowsFacts
<1> HIDE DEF new
<1>3. IsDb(new)
  <2>1. new \in [DOMAIN db -> Seq(Int)]
    BY <1>1, <1>2
  <2>2. QED  BY <2>1, <1>2 DEF IsDb
<1>4. DOMAIN new = DOMAIN db
  BY <1>1
<1>5. Cardinality(Rows(new)) = Cardinality(Rows(db))
  BY <1>3, <1>4, RowsFacts
<1>6. [id |-> id, key |-> key] \in Rows(new)
  BY <1>1 DEF Rows
<1>7. ASSUME NEW row \in Rows(db), row.id # id
      PROVE  row \in Rows(new)
  <2>1. PICK r \in DOMAIN db : row = [id |-> r, key |-> db[r]]
    BY DEF Rows
  <2>2. r # id /\ new[r] = db[r]
    BY <2>1, <1>1, <1>7
  <2>3. QED  BY <2>1, <2>2, <1>4 DEF Rows
<1>8. QED  BY <1>3, <1>5, <1>6, <1>7 DEF new

\* The list that is shown is what the database holds: its rows are in
\* order, and each is a rule's with the key it has.
LEMMA SettledList ==
  ASSUME TypeOK, Settled
  PROVE  /\ IsDb(link)
         /\ Len(shown) = Cardinality(Rows(link)) /\ Len(shown) \in Nat
         /\ DOMAIN shown = 1 .. Len(shown)
         /\ \A i \in 1 .. Len(shown) :
              /\ shown[i] \in Rows(link)
              /\ shown[i].id \in DOMAIN link
              /\ shown[i].key = link[shown[i].id]
              /\ shown[i].key \in StoredKeys /\ shown[i].key \in Seq(Int)
         /\ \A i, j \in 1 .. Len(shown) : i < j => Before(shown[i], shown[j])
         /\ \A i, j \in 1 .. Len(shown) : i # j => shown[i].id # shown[j].id
<1>1. link \in Dbs(StoredKeys) /\ shown \in Lists(StoredKeys) /\ shown = Sorted(link)
  BY DEF TypeOK, Typed, Settled
<1>2. IsDb(link)
  BY <1>1, StoredKeySet, DbsAreDbs
<1>3. InOrder(shown, Rows(link))
  BY <1>1, <1>2, SortedInOrder
<1>4. Rows(link) \in SUBSET Row /\ Cardinality(Rows(link)) \in Nat
  BY <1>2, RowsFacts, FS_CardinalityType
<1>5. /\ shown \in [1 .. Cardinality(Rows(link)) -> Rows(link)]
      /\ \A i, j \in 1 .. Cardinality(Rows(link)) : i < j => Before(shown[i], shown[j])
  BY <1>3 DEF InOrder
<1>6. Len(shown) = Cardinality(Rows(link))
  BY <1>4, <1>5, FunctionIsSeq
<1>7. ASSUME NEW i \in 1 .. Len(shown)
      PROVE  /\ shown[i] \in Rows(link)
             /\ shown[i].id \in DOMAIN link
             /\ shown[i].key = link[shown[i].id]
             /\ shown[i].key \in StoredKeys /\ shown[i].key \in Seq(Int)
  <2>1. shown[i] \in Rows(link)
    BY <1>5, <1>6
  <2>2. PICK r \in DOMAIN link : shown[i] = [id |-> r, key |-> link[r]]
    BY <2>1 DEF Rows
  <2>3. link[r] \in StoredKeys
    BY <1>1, DbFacts
  <2>4. QED  BY <2>1, <2>2, <2>3 DEF StoredKeys
<1>8. ASSUME NEW i \in 1 .. Len(shown), NEW j \in 1 .. Len(shown), i # j
      PROVE  shown[i].id # shown[j].id
  <2>1. shown[i].id = shown[j].id => shown[i] = shown[j]
    <3>1. PICK r \in DOMAIN link : shown[i] = [id |-> r, key |-> link[r]]
      BY <1>7 DEF Rows
    <3>2. PICK s \in DOMAIN link : shown[j] = [id |-> s, key |-> link[s]]
      BY <1>7 DEF Rows
    <3>3. QED  BY <3>1, <3>2
  <2>2. i < j \/ j < i
    BY <1>4, <1>6, <1>8
  <2>3. Before(shown[i], shown[j]) \/ Before(shown[j], shown[i])
    BY <2>2, <1>5, <1>6
  <2>4. StrictOrder(BeforeIn(Rows(link)), Rows(link))
    BY <1>4, BeforeIsStrict
  <2>5. ~Before(shown[i], shown[i]) /\ ~Before(shown[j], shown[j])
    BY <2>4, <1>7 DEF StrictOrder, BeforeIn
  <2>6. QED  BY <2>1, <2>3, <2>5
<1>9. QED
  <2>1. DOMAIN shown = 1 .. Len(shown)
    BY <1>5, <1>6
  <2>2. \A i, j \in 1 .. Len(shown) : i < j => Before(shown[i], shown[j])
    BY <1>5, <1>6
  <2>3. QED  BY <2>1, <2>2, <1>2, <1>4, <1>6, <1>7, <1>8

\* Where the rules are after a drop: all but the dropped one are as before.
LEMMA DropPlaces ==
  ASSUME TypeOK, Settled,
         NEW from \in DOMAIN shown, NEW to \in DOMAIN shown
  PROVE  /\ Len(shown) \in Nat /\ to \in 1 .. Len(shown)
         /\ DOMAIN Moved(from, to) = 1 .. Len(shown)
         /\ Moved(from, to)[to] = shown[from]
         /\ shown[from].id \in DOMAIN link
         /\ \A i \in 1 .. Len(shown) : i # to =>
              /\ Moved(from, to)[i] \in Rows(link)
              /\ Moved(from, to)[i].id # shown[from].id
              /\ Moved(from, to)[i].id \in DOMAIN link
              /\ Moved(from, to)[i].key = link[Moved(from, to)[i].id]
              /\ Moved(from, to)[i].key \in StoredKeys
              /\ Moved(from, to)[i].key \in Seq(Int)
         /\ \A i, j \in 1 .. Len(shown) : i < j /\ i # to /\ j # to =>
              /\ Before(Moved(from, to)[i], Moved(from, to)[j])
              /\ Moved(from, to)[i].id # Moved(from, to)[j].id
<1> DEFINE m == Moved(from, to)
           n == Len(shown)
           src(i) == Source(from, to, i)
<1>1. /\ n \in Nat /\ DOMAIN shown = 1 .. n
      /\ \A i \in 1 .. n :
           /\ shown[i] \in Rows(link)
           /\ shown[i].id \in DOMAIN link
           /\ shown[i].key = link[shown[i].id]
           /\ shown[i].key \in StoredKeys /\ shown[i].key \in Seq(Int)
      /\ \A i, j \in 1 .. n : i < j => Before(shown[i], shown[j])
      /\ \A i, j \in 1 .. n : i # j => shown[i].id # shown[j].id
  BY SettledList
<1>2. from \in 1 .. n /\ to \in 1 .. n
  BY <1>1
<1>3. shown \in Seq(Entry(StoredKeys))
  BY DEF TypeOK, Typed, Lists
<1>4. /\ m \in Seq(Entry(StoredKeys)) /\ Len(m) = n
      /\ \A i \in 1 .. n : m[i] = shown[src(i)]
  BY <1>2, <1>3, MovedAt
<1>5. /\ \A i \in 1 .. n : src(i) \in 1 .. n
      /\ \A i \in 1 .. n : i # to => src(i) # from
      /\ \A i, j \in 1 .. n : i < j /\ i # to /\ j # to => src(i) < src(j)
  BY <1>1, <1>2, SourceAscends
<1>6. src(to) = from
  BY DEF Source
<1>7. DOMAIN m = 1 .. n
  BY <1>4, LenProperties
<1> HIDE DEF m, n, src
<1>8. m[to] = shown[from]
  BY <1>2, <1>4, <1>6
<1>9. ASSUME NEW i \in 1 .. n, i # to
      PROVE  /\ m[i] \in Rows(link) /\ m[i].id # shown[from].id
             /\ m[i].id \in DOMAIN link /\ m[i].key = link[m[i].id]
             /\ m[i].key \in StoredKeys /\ m[i].key \in Seq(Int)
  <2>1. PICK k \in 1 .. n : k # from /\ m[i] = shown[k]
    BY <1>4, <1>5, <1>9
  <2>2. m[i].id # shown[from].id
    BY <2>1, <1>1, <1>2
  <2>3. QED  BY <2>1, <2>2, <1>1
<1>10. ASSUME NEW i \in 1 .. n, NEW j \in 1 .. n, i < j, i # to, j # to
       PROVE  Before(m[i], m[j]) /\ m[i].id # m[j].id
  <2>1. src(i) < src(j) /\ src(i) \in 1 .. n /\ src(j) \in 1 .. n
    BY <1>5, <1>10
  <2>2. src(i) # src(j)
    BY <2>1, <1>1
  <2>3. QED  BY <2>1, <2>2, <1>1, <1>4
<1>11. QED  BY <1>1, <1>2, <1>7, <1>8, <1>9, <1>10 DEF m, n

\* The neighbours a drop reads.
LEMMA DropNeighbours ==
  ASSUME TypeOK, Settled,
         NEW from \in DOMAIN shown, NEW to \in DOMAIN shown
  PROVE  /\ KeyAt(Moved(from, to), to - 1) =
              IF to > 1 THEN Moved(from, to)[to - 1].key ELSE NoKey
         /\ KeyAt(Moved(from, to), to + 1) =
              IF to < Len(shown) THEN Moved(from, to)[to + 1].key ELSE NoKey
<1>1. /\ Len(shown) \in Nat /\ to \in 1 .. Len(shown)
      /\ DOMAIN Moved(from, to) = 1 .. Len(shown)
  BY DropPlaces
<1>2. to - 1 \in DOMAIN Moved(from, to) <=> to > 1
  BY <1>1
<1>3. to + 1 \in DOMAIN Moved(from, to) <=> to < Len(shown)
  BY <1>1
<1>4. QED  BY <1>2, <1>3 DEF KeyAt

\* On a settled list of distinct keys the key between the neighbours exists.
LEMMA DropAccepted ==
  ASSUME TypeOK, Settled, DistinctKeys, AboveBottom,
         NEW from \in DOMAIN shown, NEW to \in DOMAIN shown
  PROVE  ~Rejects(KeyAt(Moved(from, to), to + 1), KeyAt(Moved(from, to), to - 1))
<1> DEFINE m == Moved(from, to)
           n == Len(shown)
           pre == KeyAt(m, to - 1)
           next == KeyAt(m, to + 1)
<1>1. /\ n \in Nat /\ to \in 1 .. n
      /\ \A i \in 1 .. n : i # to =>
           /\ m[i].id \in DOMAIN link /\ m[i].key = link[m[i].id]
           /\ m[i].key \in StoredKeys /\ m[i].key \in Seq(Int)
      /\ \A i, j \in 1 .. n : i < j /\ i # to /\ j # to =>
           Before(m[i], m[j]) /\ m[i].id # m[j].id
  BY DropPlaces
<1>2. /\ pre = IF to > 1 THEN m[to - 1].key ELSE NoKey
      /\ next = IF to < n THEN m[to + 1].key ELSE NoKey
  BY DropNeighbours
<1> HIDE DEF m, n, pre, next
<1>3. ASSUME NEW i \in 1 .. n, i # to
      PROVE  m[i].key = NoKey \/ Valid(m[i].key)
  <2>1. m[i].key \in StoredNow
    BY <1>1, <1>3 DEF StoredNow
  <2>2. m[i].key # Smallest /\ m[i].key \in StoredKeys
    BY <2>1, <1>1, <1>3 DEF AboveBottom
  <2>3. QED  BY <2>2 DEF StoredKeys
<1>4. ASSUME pre # NoKey
      PROVE  Valid(pre) /\ to > 1 /\ pre = m[to - 1].key /\ to - 1 \in 1 .. n /\ to - 1 # to
  <2>1. to > 1 /\ pre = m[to - 1].key
    BY <1>2, <1>4
  <2>2. to - 1 \in 1 .. n /\ to - 1 # to
    BY <2>1, <1>1
  <2>3. QED  BY <2>1, <2>2, <1>3, <1>4
<1>5. ASSUME next # NoKey
      PROVE  Valid(next) /\ to < n /\ next = m[to + 1].key /\ to + 1 \in 1 .. n /\ to + 1 # to
  <2>1. to < n /\ next = m[to + 1].key
    BY <1>2, <1>5
  <2>2. to + 1 \in 1 .. n /\ to + 1 # to
    BY <2>1, <1>1
  <2>3. QED  BY <2>1, <2>2, <1>3, <1>5
<1>6. ASSUME next # NoKey, pre # NoKey
      PROVE  Less(next, pre)
  <2> DEFINE i == to - 1
             j == to + 1
  <2>1. /\ pre = m[i].key /\ i \in 1 .. n /\ i # to
        /\ next = m[j].key /\ j \in 1 .. n /\ j # to
    BY <1>4, <1>5, <1>6
  <2>2. i < j
    BY <1>1
  <2> HIDE DEF i, j
  <2>3. Before(m[i], m[j]) /\ m[i].id # m[j].id
    BY <2>1, <2>2, <1>1
  <2>4. m[i].key # m[j].key
    <3> SUFFICES ASSUME m[i].key = m[j].key
                 PROVE  FALSE
      OBVIOUS
    <3>1. link[m[i].id] = link[m[j].id]
      BY <2>1, <1>1
    <3>2. link[m[i].id] = NoKey
      BY <3>1, <2>1, <2>3, <1>1 DEF DistinctKeys
    <3>3. QED  BY <3>2, <2>1, <1>1, <1>6
  <2>5. QED  BY <2>1, <2>3, <2>4 DEF Before
<1>7. ~Rejects(next, pre)
  BY <1>4, <1>5, <1>6 DEF Rejects, Unordered
<1>8. QED  BY <1>7 DEF next, pre, m

\* A key missing sorts below every key.
LEMMA LessNoKey ==
  ASSUME NEW a \in Seq(Int)
  PROVE  ~Less(a, NoKey) /\ (a # NoKey => Less(NoKey, a))
<1>1. NoKey \in Seq(Int) /\ Len(NoKey) = 0
  BY EmptySeq DEF NoKey
<1>2. ~Less(a, NoKey)
  <2>1. \A n \in Nat : ~LessAt(a, NoKey, n)
    BY <1>1 DEF LessAt
  <2>2. QED  BY <2>1, <1>1, LessPositions
<1>3. ASSUME a # NoKey
      PROVE  Less(NoKey, a)
  <2>1. ~Less(a, NoKey) => Less(NoKey, a)
    BY <1>1, <1>3, LessTotal
  <2>2. QED  BY <2>1, <1>2
<1>4. QED  BY <1>2, <1>3

\* With a key between the neighbours' the query gives the list as it was
\* arranged, when there is a key above it or nothing.
LEMMA DropPlaced ==
  ASSUME TypeOK, Settled,
         NEW from \in DOMAIN shown, NEW to \in DOMAIN shown,
         to = 1 \/ KeyAt(Moved(from, to), to - 1) # NoKey,
         NEW key \in Seq(Int), key # NoKey,
         KeyAt(Moved(from, to), to + 1) # NoKey
           => Less(KeyAt(Moved(from, to), to + 1), key),
         KeyAt(Moved(from, to), to - 1) # NoKey
           => Less(key, KeyAt(Moved(from, to), to - 1))
  PROVE  Ids(Sorted(Applied(link, [op |-> "order", id |-> shown[from].id, key |-> key])))
           = Ids(Moved(from, to))
<1> DEFINE m == Moved(from, to)
           n == Len(shown)
           pre == KeyAt(m, to - 1)
           next == KeyAt(m, to + 1)
           id == shown[from].id
           new == Applied(link, [op |-> "order", id |-> id, key |-> key])
           row == [id |-> id, key |-> key]
           list == [i \in 1 .. n |-> IF i = to THEN row ELSE m[i]]
<1>1. /\ n \in Nat /\ to \in 1 .. n /\ DOMAIN m = 1 .. n
      /\ m[to] = shown[from]
      /\ id \in DOMAIN link
      /\ \A i \in 1 .. n : i # to =>
           m[i] \in Rows(link) /\ m[i].id # id /\ m[i].key \in Seq(Int)
      /\ \A i, j \in 1 .. n : i < j /\ i # to /\ j # to => Before(m[i], m[j])
  BY DropPlaces
<1>2. /\ pre = IF to > 1 THEN m[to - 1].key ELSE NoKey
      /\ next = IF to < n THEN m[to + 1].key ELSE NoKey
  BY DropNeighbours
<1>3. IsDb(link) /\ n = Cardinality(Rows(link))
  BY SettledList
<1>4. /\ IsDb(new) /\ Cardinality(Rows(new)) = n
      /\ row \in Rows(new)
      /\ \A r \in Rows(link) : r.id # id => r \in Rows(new)
  BY <1>1, <1>3, RowsOfOrder
<1>5. /\ to = 1 \/ pre # NoKey
      /\ next # NoKey => Less(next, key)
      /\ pre # NoKey => Less(key, pre)
  OBVIOUS
<1>6. row.id = id /\ row.key = key /\ m[to].id = id
  BY <1>1
<1> HIDE DEF m, n, pre, next, id, new, row
<1>7. list \in [1 .. n -> Rows(new)]
  BY <1>1, <1>4
<1>8. ASSUME NEW i \in 1 .. n, i < to
      PROVE  Before(m[i], row)
  <2>1. to > 1 /\ i # to /\ to - 1 \in 1 .. n /\ to - 1 # to
    BY <1>1, <1>8
  <2>2. pre = m[to - 1].key /\ pre # NoKey /\ Less(key, pre)
    BY <2>1, <1>2, <1>5
  <2>3. m[i].key \in Seq(Int) /\ pre \in Seq(Int)
    BY <2>1, <2>2, <1>1
  <2>4. m[i].key = pre \/ Less(pre, m[i].key)
    <3>1. CASE i = to - 1
      BY <3>1, <2>2
    <3>2. CASE i # to - 1
      <4>1. i < to - 1
        BY <3>2, <1>1, <1>8
      <4>2. Before(m[i], m[to - 1])
        BY <4>1, <2>1, <1>1
      <4>3. QED  BY <4>2, <2>2 DEF Before
    <3>3. QED  BY <3>1, <3>2
  <2>5. Less(key, m[i].key)
    <3>1. CASE m[i].key = pre
      BY <3>1, <2>2
    <3>2. CASE Less(pre, m[i].key)
      BY <3>2, <2>2, <2>3, LessTransitive
    <3>3. QED  BY <3>1, <3>2, <2>4
  <2>6. QED  BY <2>5, <1>6 DEF Before
<1>9. ASSUME NEW j \in 1 .. n, to < j
      PROVE  Before(row, m[j])
  <2>1. to < n /\ j # to /\ to + 1 \in 1 .. n /\ to + 1 # to
    BY <1>1, <1>9
  <2>2. next = m[to + 1].key
    BY <2>1, <1>2
  <2>3. m[j].key \in Seq(Int) /\ next \in Seq(Int)
    BY <2>1, <2>2, <1>1
  <2>4. m[j].key = next \/ Less(m[j].key, next)
    <3>1. CASE j = to + 1
      BY <3>1, <2>2
    <3>2. CASE j # to + 1
      <4>1. to + 1 < j
        BY <3>2, <1>1, <1>9
      <4>2. Before(m[to + 1], m[j])
        BY <4>1, <2>1, <1>1
      <4>3. QED  BY <4>2, <2>2 DEF Before
    <3>3. QED  BY <3>1, <3>2
  <2>5. Less(m[j].key, key)
    <3>1. CASE next = NoKey
      <4>1. m[j].key = NoKey
        BY <3>1, <2>3, <2>4, LessNoKey
      <4>2. QED  BY <4>1, LessNoKey
    <3>2. CASE next # NoKey /\ m[j].key = next
      BY <3>2, <1>5
    <3>3. CASE next # NoKey /\ Less(m[j].key, next)
      BY <3>3, <2>3, <1>5, LessTransitive
    <3>4. QED  BY <3>1, <3>2, <3>3, <2>4
  <2>6. QED  BY <2>5, <1>6 DEF Before
<1>10. ASSUME NEW i \in 1 .. n, NEW j \in 1 .. n, i < j
       PROVE  Before(list[i], list[j])
  <2>1. CASE i = to
    <3>1. list[i] = row /\ list[j] = m[j] /\ to < j
      BY <2>1, <1>1, <1>10
    <3>2. QED  BY <3>1, <1>9
  <2>2. CASE j = to
    <3>1. list[i] = m[i] /\ list[j] = row /\ i < to
      BY <2>2, <1>1, <1>10
    <3>2. QED  BY <3>1, <1>8
  <2>3. CASE i # to /\ j # to
    <3>1. list[i] = m[i] /\ list[j] = m[j]
      BY <2>3
    <3>2. QED  BY <3>1, <2>3, <1>1, <1>10
  <2>4. QED  BY <2>1, <2>2, <2>3
<1>11. list = Sorted(new)
  <2>1. InOrder(list, Rows(new))
    <3> HIDE DEF list
    <3>1. QED  BY <1>4, <1>7, <1>10 DEF InOrder
  <2>2. QED  BY <2>1, <1>4, InOrderIsSorted
<1>12. Ids(list) = Ids(m)
  <2>1. DOMAIN list = 1 .. n /\ \A i \in 1 .. n : list[i].id = m[i].id
    BY <1>6
  <2> HIDE DEF list
  <2>2. QED  BY <2>1, <1>1 DEF Ids
<1>13. QED  BY <1>11, <1>12 DEF m, new, id

\* A drop on a settled list of distinct keys is what the database will hold.
LEMMA DropSticks ==
  ASSUME TypeOK, AboveBottom, NEW from \in RuleIds, NEW to \in RuleIds,
         Drop(from, to), Settled, DistinctKeys,
         to = 1 \/ KeyAt(Moved(from, to), to - 1) # NoKey
  PROVE  /\ writes' # <<>>
         /\ Ids(Sorted(Applied(link, Head(writes')))) = Ids(shown')
<1> DEFINE pre == KeyAt(Moved(from, to), to - 1)
           next == KeyAt(Moved(from, to), to + 1)
           key == KeyBetween(next, pre)
           write == [op |-> "order", id |-> shown[from].id, key |-> key]
<1>1. /\ from \in DOMAIN shown /\ to \in DOMAIN shown
      /\ shown' = Moved(from, to)
  BY DEF Drop, Order, OrderThrows, Dropped
<1>2. ~Rejects(next, pre)
  BY <1>1, DropAccepted
<1>3. pre \in StoredKeys /\ next \in StoredKeys
  <2>1. shown \in Lists(StoredKeys) /\ to - 1 \in Int /\ to + 1 \in Int
    BY RuleOrderAssumption DEF TypeOK, Typed, RuleIds
  <2>2. QED  BY <2>1, <1>1, StoredKeySet, DropKeys
<1>4. /\ key \in Seq(Int) /\ key # NoKey
      /\ next # NoKey => Less(next, key)
      /\ pre # NoKey => Less(key, pre)
  <2> HIDE DEF pre, next
  <2>1. QED  BY <1>2, <1>3, SentKey
<1>5. Send(write)
  <2>1. ~OrderThrows(from, to)
    BY <1>2, <1>4 DEF OrderThrows
  <2>2. QED  BY <2>1 DEF Drop, Order
<1>6. writes' = <<write>>
  <2>1. writes = <<>>
    BY DEF Settled
  <2>2. writes' = Append(<<>>, write)
    BY <2>1, <1>5 DEF Send
  <2> HIDE DEF write
  <2>3. QED  BY <2>2
<1>7. writes' # <<>> /\ Head(writes') = write
  <2> HIDE DEF write
  <2>1. QED  BY <1>6
<1>8. Ids(Sorted(Applied(link, write))) = Ids(Moved(from, to))
  <2> HIDE DEF key
  <2>1. QED  BY <1>1, <1>4, DropPlaced
<1>9. QED  BY <1>1, <1>7, <1>8

\* A drop sticks: on a list that is what the database holds, whose rules
\* have distinct keys where they have one, a rule dropped at the top or
\* below a rule that has a key is accepted, and the key it is sent with
\* makes the query give the list as the user arranged it -- whatever the
\* number of rules and the keys they have, while none is the smallest.
THEOREM OrderSticksSafe == Spec /\ []AboveBottom => OrderSticks
<1>1. TypeOK /\ AboveBottom =>
        \A from, to \in RuleIds :
          /\ Drop(from, to)
          /\ Settled /\ DistinctKeys
          /\ to = 1 \/ KeyAt(Moved(from, to), to - 1) # NoKey
          => /\ writes' # <<>>
             /\ Ids(Sorted(Applied(link, Head(writes')))) = Ids(shown')
  BY DropSticks
<1>2. QED  BY <1>1, TypeCorrect, PTL DEF OrderSticks

-----------------------------------------------------------------------------
(* How long the keys last: a drop to the bottom of the list goes down by   *)
(* at most one of the keys without a fraction under the lowest letter.     *)

Lowest == {<<-Heads>> \o d : d \in [1 .. IntegerLength(-Heads) - 1 -> Digits]}

\* There are finitely many functions between finite sets.
LEMMA FunctionsAreFinite ==
  ASSUME NEW S, IsFiniteSet(S), NEW T, IsFiniteSet(T)
  PROVE  IsFiniteSet([S -> T])
<1> DEFINE Graph(f) == {<<s, f[s]>> : s \in S}
           g == [f \in [S -> T] |-> Graph(f)]
<1>1. IsFiniteSet(SUBSET (S \X T))
  <2>1. IsFiniteSet(S \X T)
    BY FS_Product
  <2>2. QED  BY <2>1, FS_SUBSET
<1>2. g \in [[S -> T] -> SUBSET (S \X T)]
  OBVIOUS
<1>3. ASSUME NEW f \in [S -> T], NEW h \in [S -> T], Graph(f) = Graph(h)
      PROVE  f = h
  <2>1. \A s \in S : f[s] = h[s]
    <3> TAKE s \in S
    <3>1. <<s, f[s]>> \in Graph(h)
      BY <1>3
    <3>2. PICK r \in S : <<s, f[s]>> = <<r, h[r]>>
      BY <3>1
    <3>3. QED  BY <3>2
  <2>2. f = [s \in S |-> f[s]] /\ h = [s \in S |-> h[s]]
    OBVIOUS
  <2>3. QED  BY <2>1, <2>2, Zenon
<1>4. \A f \in [S -> T] : g[f] = Graph(f)
  OBVIOUS
<1> HIDE DEF g, Graph
<1>5. g \in Injection([S -> T], SUBSET (S \X T))
  BY <1>2, <1>3, <1>4 DEF Injection, IsInjective
<1>6. QED  BY <1>1, <1>5, FS_Injection

\* There are finitely many keys without a fraction under the lowest letter.
LEMMA LowestFacts ==
  /\ IsFiniteSet(Lowest)
  /\ \A x : x \in Lowest <=> Whole(x) /\ x[1] = -Heads
<1> DEFINE n == IntegerLength(-Heads) - 1
           F == [1 .. n -> Digits]
<1>1. /\ n \in Nat /\ n + 1 = IntegerLength(-Heads)
      /\ -Heads \in -Heads .. Heads - 1
  BY IndexingAssumption, IntegerLengthType
<1>2. Lowest = {<<-Heads>> \o d : d \in F}
  BY DEF Lowest
<1> HIDE DEF n
<1>3. IsFiniteSet(F)
  <2>1. IsFiniteSet(1 .. n)
    BY <1>1, FS_Interval
  <2>2. IsFiniteSet(0 .. Base - 1)
    BY IndexingAssumption, FS_Interval
  <2>3. QED  BY <2>1, <2>2, FunctionsAreFinite DEF Digits
<1> HIDE DEF F
<1> DEFINE g == [d \in F |-> <<-Heads>> \o d]
<1>4. g \in Surjection(F, Lowest)
  <2>1. g \in [F -> Lowest] /\ \A x \in Lowest : \E d \in F : g[d] = x
    BY <1>2
  <2> HIDE DEF g
  <2>2. QED  BY <2>1 DEF Surjection
<1>5. IsFiniteSet(Lowest)
  BY <1>3, <1>4, FS_Surjection
<1>6. ASSUME NEW x \in Lowest
      PROVE  Whole(x) /\ x[1] = -Heads
  <2>1. PICK d \in F : x = <<-Heads>> \o d
    BY <1>2
  <2>2. d \in Seq(Digits) /\ Len(d) = n
    BY <1>1, FunctionIsSeq DEF F
  <2>3. IsKey(x) /\ Len(x) = n + 1 /\ x[1] = -Heads
    BY <2>1, <2>2, <1>1, HeadAndDigits
  <2>4. QED  BY <2>3, <1>1 DEF Whole
<1>7. ASSUME NEW x, Whole(x), x[1] = -Heads
      PROVE  x \in Lowest
  <2>1. /\ x \in Seq(Int) /\ Len(x) = n + 1
        /\ \A i \in 2 .. Len(x) : x[i] \in Digits
    BY <1>1, <1>7, KeyFacts DEF Whole
  <2> DEFINE d == [i \in 1 .. n |-> x[i + 1]]
  <2>2. d \in F
    <3>1. \A i \in 1 .. n : x[i + 1] \in Digits
      <4> TAKE i \in 1 .. n
      <4>1. i + 1 \in 2 .. Len(x)
        BY <2>1, <1>1
      <4>2. QED  BY <4>1, <2>1
    <3>2. QED  BY <3>1 DEF F
  <2>3. \A i \in 1 .. n : d[i] = x[i + 1]
    OBVIOUS
  <2> HIDE DEF d
  <2>4. d \in Seq(Digits) /\ Len(d) = n
    BY <2>2, <1>1, FunctionIsSeq DEF F
  <2> DEFINE y == <<-Heads>> \o d
  <2>5. /\ IsKey(y) /\ Len(y) = n + 1 /\ y[1] = -Heads
        /\ \A i \in 1 .. n : y[i + 1] = d[i]
    BY <2>4, <1>1, HeadAndDigits
  <2>6. y \in Lowest
    BY <2>2, <1>2
  <2> HIDE DEF y
  <2>7. y = x
    <3>1. \A i \in 1 .. Len(y) : y[i] = x[i]
      <4> TAKE i \in 1 .. Len(y)
      <4>1. CASE i = 1
        BY <4>1, <2>5, <1>7
      <4>2. CASE i # 1
        <5>1. i - 1 \in 1 .. n /\ (i - 1) + 1 = i
          BY <4>2, <2>5, <1>1
        <5>2. QED  BY <5>1, <2>3, <2>5
      <4>3. QED  BY <4>1, <4>2
    <3>2. y \in Seq(Int) /\ Len(y) = Len(x)
      BY <2>1, <2>5, KeyFacts
    <3>3. QED  BY <3>1, <3>2, <2>1, SeqEqual
  <2>8. QED  BY <2>6, <2>7
<1>8. QED  BY <1>5, <1>6, <1>7

\* Those below a key.
Below(k) == {x \in Lowest : Less(x, k)}

\* So those below a key can be counted.
LEMMA BelowIsFinite ==
  ASSUME NEW k
  PROVE  IsFiniteSet(Below(k)) /\ Cardinality(Below(k)) \in Nat
<1>1. Below(k) \in SUBSET Lowest
  BY DEF Below
<1>2. IsFiniteSet(Below(k))
  BY <1>1, LowestFacts, FS_Subset
<1>3. QED  BY <1>2, FS_CardinalityType

\* Between two integer parts the order shows at a place both have.
LEMMA WholeLess ==
  ASSUME NEW x, Whole(x), NEW y, Whole(y), Less(x, y)
  PROVE  \E k \in Nat : PartsAt(x, y, k)
<1>1. /\ x \in Seq(Int) /\ Len(x) \in Nat /\ Len(x) >= 1 /\ Len(x) = IntegerLength(x[1])
      /\ y \in Seq(Int) /\ Len(y) \in Nat /\ Len(y) >= 1 /\ Len(y) = IntegerLength(y[1])
  BY KeyFacts DEF Whole
<1>2. PICK k \in Nat : LessAt(x, y, k)
  BY <1>1, LessPositions
<1>3. /\ k \in 0 .. Len(y) - 1 /\ k <= Len(x)
      /\ \A i \in 1 .. k : x[i] = y[i]
      /\ k < Len(x) => x[k + 1] < y[k + 1]
  BY <1>2 DEF LessAt
<1>4. k < Len(x)
  <2> SUFFICES ASSUME k = Len(x)
               PROVE  FALSE
    BY <1>1, <1>3
  <2>1. x[1] = y[1]
    BY <1>1, <1>3
  <2>2. QED  BY <2>1, <1>1, <1>3
<1>5. k \in 0 .. Len(x) - 1 /\ k < Len(y)
  BY <1>1, <1>3, <1>4
<1>6. QED  BY <1>3, <1>4, <1>5 DEF PartsAt

\* None of them is below the smallest.
LEMMA BelowSmallest == Below(Smallest) = {}
<1> SUFFICES ASSUME NEW x \in Lowest, Less(x, Smallest)
             PROVE  FALSE
  BY DEF Below
<1>1. Whole(x) /\ x[1] = -Heads
  BY LowestFacts
<1>2. PICK k \in Nat : PartsAt(x, Smallest, k)
  BY <1>1, SmallestIsWhole, WholeLess
<1>3. k \in 0 .. Len(x) - 1 /\ k < Len(Smallest) /\ x[k + 1] < Smallest[k + 1]
  BY <1>2 DEF PartsAt
<1>4. /\ Len(x) \in Nat /\ Len(Smallest) \in Nat
      /\ \A i \in 2 .. Len(x) : x[i] \in Digits
  BY <1>1, SmallestIsWhole, KeyFacts DEF Whole
<1>5. CASE k = 0
  BY <1>1, <1>3, <1>5, SmallestIsWhole, IndexingAssumption
<1>6. CASE k # 0
  <2>1. k + 1 \in 2 .. Len(x) /\ k + 1 \in 2 .. Len(Smallest)
    BY <1>3, <1>4, <1>6
  <2>2. x[k + 1] \in Digits /\ Smallest[k + 1] = 0
    BY <2>1, <1>4, SmallestIsWhole
  <2>3. QED  BY <2>2, <1>3 DEF Digits
<1>7. QED  BY <1>5, <1>6

\* All of them, when the key has another letter.
LEMMA BelowAll ==
  ASSUME NEW k, IsKey(k), k[1] > -Heads
  PROVE  Below(k) = Lowest
<1> SUFFICES ASSUME NEW x \in Lowest
             PROVE  Less(x, k)
  BY DEF Below
<1>1. Whole(x) /\ x[1] = -Heads
  BY LowestFacts
<1>2. /\ x \in Seq(Int) /\ Len(x) \in Nat /\ Len(x) >= 1
      /\ k \in Seq(Int) /\ Len(k) \in Nat /\ Len(k) >= 1
  BY <1>1, KeyFacts DEF Whole
<1>3. x[1] < k[1]
  <2>1. x[1] \in Int /\ k[1] \in Int
    BY <1>2, ElementOfSeq
  <2>2. QED  BY <2>1, <1>1
<1>4. LessAt(x, k, 0)
  BY <1>2, <1>3 DEF LessAt
<1>5. QED  BY <1>2, <1>4, LessPositions

\* A key above another has as many of them below it, or more.
LEMMA BelowGrows ==
  ASSUME NEW a \in Seq(Int), NEW c \in Seq(Int), Less(a, c)
  PROVE  Cardinality(Below(a)) <= Cardinality(Below(c))
<1>1. Below(a) \in SUBSET Below(c)
  <2>1. ASSUME NEW x \in Lowest, Less(x, a)
        PROVE  Less(x, c)
    <3>1. x \in Seq(Int)
      BY LowestFacts, KeyFacts DEF Whole
    <3>2. QED  BY <3>1, <2>1, LessTransitive
  <2>2. QED  BY <2>1 DEF Below
<1>2. QED  BY <1>1, BelowIsFinite, FS_Subset

\* A step down from an integer part passes over nothing.
LEMMA DecrementIsNext ==
  ASSUME NEW y, Whole(y), y # Smallest, NEW x, Whole(x), Less(x, y)
  PROVE  x = Decrement(y) \/ Less(x, Decrement(y))
<1> DEFINE c == Decrement(y)
<1>1. Whole(c) /\ \E i \in Nat : BorrowAt(y, c, i)
  BY DecrementBorrows
<1>2. PICK i \in Nat : BorrowAt(y, c, i)
  BY <1>1
<1> HIDE DEF c
<1>3. /\ i \in 1 .. Len(y) /\ i <= Len(c)
      /\ \A j \in 1 .. i - 1 : c[j] = y[j]
      /\ c[i] = y[i] - 1
      /\ \A j \in i + 1 .. Len(y) : y[j] = 0
      /\ \A j \in i + 1 .. Len(c) : c[j] = Base - 1
  BY <1>2 DEF BorrowAt
<1>4. /\ x \in Seq(Int) /\ Len(x) \in Nat /\ Len(x) >= 1
      /\ \A j \in 1 .. Len(x) : x[j] \in Int
      /\ \A j \in 2 .. Len(x) : x[j] \in Digits
      /\ y \in Seq(Int) /\ Len(y) \in Nat
      /\ \A j \in 1 .. Len(y) : y[j] \in Int
      /\ c \in Seq(Int) /\ Len(c) \in Nat
  BY <1>1, KeyFacts DEF Whole
<1>5. PICK k \in Nat : PartsAt(x, y, k)
  BY WholeLess
<1>6. /\ k \in 0 .. Len(x) - 1 /\ k < Len(y)
      /\ \A j \in 1 .. k : x[j] = y[j]
      /\ x[k + 1] < y[k + 1]
  BY <1>5 DEF PartsAt
<1>7. k + 1 <= i
  <2> SUFFICES ASSUME i < k + 1
               PROVE  FALSE
    BY <1>3, <1>6
  <2>1. k + 1 \in i + 1 .. Len(y) /\ k + 1 \in 2 .. Len(x)
    BY <1>3, <1>4, <1>6
  <2>2. y[k + 1] = 0 /\ x[k + 1] \in Digits
    BY <2>1, <1>3, <1>4
  <2>3. QED  BY <2>2, <1>6 DEF Digits
<1>8. \A j \in 1 .. k : x[j] = c[j]
  <2> TAKE j \in 1 .. k
  <2>1. j \in 1 .. i - 1
    BY <1>3, <1>7
  <2>2. QED  BY <2>1, <1>3, <1>6
<1>9. ASSUME x[k + 1] < c[k + 1]
      PROVE  Less(x, c)
  <2>1. k + 1 <= Len(c) /\ Len(c) \in Nat
    <3>1. i \in Nat /\ k \in Nat /\ i <= Len(c) /\ k + 1 <= i /\ Len(c) \in Nat
      BY <1>3, <1>4, <1>7
    <3>2. QED  BY <3>1
  <2>2. k \in 0 .. Len(c) - 1 /\ k <= Len(x)
    BY <2>1, <1>4, <1>6
  <2>3. LessAt(x, c, k)
    BY <2>2, <1>8, <1>9 DEF LessAt
  <2>4. QED  BY <2>3, <1>4, LessPositions
<1>10. CASE k + 1 < i
  <2>1. k + 1 \in 1 .. i - 1
    BY <1>10, <1>3
  <2>2. c[k + 1] = y[k + 1]
    BY <2>1, <1>3
  <2>3. QED  BY <2>2, <1>6, <1>9 DEF c
<1>11. CASE k + 1 = i
  <2>1. x[i] \in Int /\ y[i] \in Int /\ x[i] < y[i] /\ c[i] = y[i] - 1
    BY SMTT(30), <1>11, <1>3, <1>4, <1>6
  <2>2. CASE x[i] < c[i]
    BY <2>2, <1>9, <1>11 DEF c
  <2>3. CASE x[i] = c[i]
    <3>1. ~Less(c, x)
      <4> SUFFICES ASSUME Less(c, x)
                   PROVE  FALSE
        OBVIOUS
      <4>1. PICK l \in Nat : PartsAt(c, x, l)
        BY <1>1, WholeLess
      <4>2. l \in 0 .. Len(c) - 1 /\ l < Len(x) /\ c[l + 1] < x[l + 1]
        BY <4>1 DEF PartsAt
      <4>3. CASE l + 1 <= k
        <5>1. l + 1 \in 1 .. k
          BY <4>2, <4>3
        <5>2. x[l + 1] = c[l + 1] /\ x[l + 1] \in Int
          BY SMTT(30), <5>1, <1>4, <1>6, <1>8
        <5>3. QED  BY <5>2, <4>2
      <4>4. CASE l + 1 = i
        BY <4>2, <4>4, <2>1, <2>3
      <4>5. CASE l + 1 > i
        <5>1. l + 1 \in i + 1 .. Len(c) /\ l + 1 \in 2 .. Len(x)
          BY <4>2, <4>5, <1>3, <1>4
        <5>2. c[l + 1] = Base - 1 /\ x[l + 1] \in Digits
          BY <5>1, <1>3, <1>4
        <5>3. QED  BY <5>2, <4>2, IndexingAssumption DEF Digits
      <4>6. QED  BY <4>3, <4>4, <4>5, <1>11, <4>2
    <3>2. x = c \/ Less(x, c)
      BY <3>1, <1>4, LessTotal
    <3>3. QED  BY <3>2 DEF c
  <2>4. x[i] < c[i] \/ x[i] = c[i]
    BY <2>1
  <2>5. QED  BY <2>2, <2>3, <2>4
<1>12. QED  BY <1>7, <1>10, <1>11

\* The key below another passes over one integer part at most.
LEMMA OneStepDown ==
  ASSUME NEW b, IsKey(b), Valid(b)
  PROVE  Cardinality(Below(b)) <= Cardinality(Below(KeyBetween(NoKey, b))) + 1
<1> DEFINE ib == IntegerPart(b)
           fb == Fraction(b)
           c == KeyBetween(NoKey, b)
<1>1. /\ Whole(ib) /\ Len(ib) <= Len(b)
      /\ \A i \in 1 .. Len(ib) : ib[i] = b[i]
      /\ IsFraction(fb) /\ b = ib \o fb
  BY ValidParts
<1>2. c = IF ib = Smallest THEN ib \o Midpoint(<<>>, fb)
          ELSE IF Less(ib, b) THEN ib ELSE Decrement(ib)
  <2>1. b # NoKey
    BY DEF IsKey
  <2>2. QED  BY <2>1 DEF KeyBetween
<1>3. /\ ib \in Seq(Int) /\ fb \in Seq(Int) /\ b \in Seq(Int) /\ Len(ib) \in Nat
  BY <1>1, KeyFacts, DigitsAreInts DEF Whole, IsFraction
<1>4. IsKey(c) /\ Less(c, b)
  <2>1. ~Rejects(NoKey, b) /\ b # NoKey
    BY DEF Rejects, Unordered, IsKey
  <2>2. KeyOrNone(NoKey) /\ KeyOrNone(b)
    BY DEF KeyOrNone
  <2>3. QED  BY <2>1, <2>2, KeyBetweenIsBetween
<1> HIDE DEF ib, fb, c
<1>5. ASSUME NEW x \in Lowest, Less(x, b)
      PROVE  x = ib \/ Less(x, ib)
  <2>1. Whole(x) /\ x \in Seq(Int) /\ Len(x) \in Nat
    BY LowestFacts, KeyFacts DEF Whole
  <2>2. ~Less(ib, x)
    <3> SUFFICES ASSUME Less(ib, x)
                 PROVE  FALSE
      OBVIOUS
    <3>1. PICK k \in Nat : PartsAt(ib, x, k)
      BY <2>1, <1>1, WholeLess
    <3>2. Begins(ib, b) /\ Begins(x, x)
      BY <2>1, <1>1 DEF Begins
    <3>3. Less(b, x)
      BY <3>1, <3>2, <2>1, <1>3, PartsLess
    <3>4. Less(x, x)
      BY <3>3, <2>1, <1>3, <1>5, LessTransitive
    <3>5. QED  BY <3>4, <2>1, LessIrreflexive
  <2>3. QED  BY <2>1, <2>2, <1>3, LessTotal
<1>6. ASSUME NEW x \in Lowest, Less(x, b)
      PROVE  x = c \/ Less(x, c)
  <2>1. Whole(x) /\ x \in Seq(Int)
    BY LowestFacts, KeyFacts DEF Whole
  <2>2. x = ib \/ Less(x, ib)
    BY <1>5, <1>6
  <2>3. CASE ib = Smallest
    <3>1. x = ib
      BY <2>2, <2>3, BelowSmallest DEF Below
    <3>2. fb # <<>>
      <4>1. b # Smallest
        BY ValidPositions
      <4>2. QED  BY <4>1, <1>1, <1>3, <2>3, ConcatEmptySeq
    <3>3. IsFraction(<<>>)
      BY EmptySeq DEF IsFraction
    <3>4. Less(<<>>, fb)
      BY <3>2, <1>3, LessNoKey DEF NoKey
    <3> DEFINE m == Midpoint(<<>>, fb)
    <3>5. IsFraction(m) /\ m # <<>> /\ Less(<<>>, m)
      BY <3>2, <3>3, <3>4, <1>1, MidpointBetween
    <3>6. c = ib \o m
      BY <1>2, <2>3
    <3> HIDE DEF m
    <3>7. Less(ib \o <<>>, ib \o m)
      BY <3>3, <3>5, <1>1, JoinedAbove
    <3>8. ib \o <<>> = ib
      BY <1>3, ConcatEmptySeq
    <3>9. QED  BY <3>1, <3>6, <3>7, <3>8
  <2>4. CASE ib # Smallest /\ Less(ib, b)
    BY <2>2, <2>4, <1>2
  <2>5. CASE ib # Smallest /\ ~Less(ib, b)
    <3>1. Less(x, ib)
      BY <2>2, <2>5, <1>6
    <3>2. QED  BY <3>1, <2>1, <2>5, <1>1, <1>2, DecrementIsNext
  <2>6. QED  BY <2>3, <2>4, <2>5
<1>7. Below(b) \in SUBSET (Below(c) \cup {c})
  BY <1>6 DEF Below
<1>8. /\ IsFiniteSet(Below(c) \cup {c})
      /\ Cardinality(Below(c) \cup {c}) =
           IF c \in Below(c) THEN Cardinality(Below(c)) ELSE Cardinality(Below(c)) + 1
  BY BelowIsFinite, FS_AddElement
<1>9. Cardinality(Below(b)) <= Cardinality(Below(c) \cup {c})
  BY <1>7, <1>8, FS_Subset
<1>10. Cardinality(Below(b)) \in Nat /\ Cardinality(Below(c)) \in Nat
  BY BelowIsFinite
<1>11. Cardinality(Below(b)) <= Cardinality(Below(c)) + 1
  BY <1>8, <1>9, <1>10
<1>12. QED  BY <1>11 DEF c

\* The keys there can be after n operations.
Room(n) == {k \in StoredKeys :
              k = NoKey \/ Cardinality(Below(k)) + n >= Cardinality(Lowest)}

\* One more operation makes keys of the set with one more operation.
LEMMA RoomFacts ==
  ASSUME NEW n \in Nat
  PROVE  /\ KeySet(Room(n))
         /\ Room(n) \subseteq Room(n + 1)
         /\ Makes(Room(n), Room(n + 1))
<1>1. Cardinality(Lowest) \in Nat
  BY LowestFacts, FS_CardinalityType
<1>2. KeySet(Room(n))
  BY StoredKeySet DEF KeySet, Room
<1>3. Room(n) \subseteq Room(n + 1)
  BY <1>1, BelowIsFinite DEF Room
<1>4. ASSUME NEW a \in Room(n), NEW b \in Room(n), ~Rejects(a, b)
      PROVE  KeyBetween(a, b) \in Room(n + 1) \ {NoKey}
  <2> DEFINE c == KeyBetween(a, b)
  <2>1. a \in StoredKeys /\ b \in StoredKeys
    BY DEF Room
  <2>2. /\ c \in StoredKeys \ {NoKey} /\ c \in Seq(Int)
        /\ a # NoKey => Less(a, c)
    BY <2>1, <1>4, SentKey
  <2>3. /\ Cardinality(Below(a)) \in Nat /\ Cardinality(Below(b)) \in Nat
        /\ Cardinality(Below(c)) \in Nat
    BY BelowIsFinite
  <2>4. /\ a # NoKey => Cardinality(Below(a)) + n >= Cardinality(Lowest)
        /\ b # NoKey => Cardinality(Below(b)) + n >= Cardinality(Lowest)
    BY DEF Room
  <2>5. CASE a # NoKey
    <3>1. a \in Seq(Int)
      BY <2>1 DEF StoredKeys
    <3>2. Cardinality(Below(a)) <= Cardinality(Below(c))
      BY <3>1, <2>2, <2>5, BelowGrows
    <3> HIDE DEF c
    <3>3. Cardinality(Below(c)) + (n + 1) >= Cardinality(Lowest)
      BY <3>2, <2>3, <2>4, <2>5, <1>1
    <3>4. QED  BY <3>3, <2>2 DEF Room, c
  <2>6. CASE a = NoKey /\ b = NoKey
    <3>1. c = <<0, 0>>
      BY <2>6 DEF KeyBetween, IntegerZero
    <3>2. IsKey(c) /\ c[1] > -Heads
      BY <3>1, <2>2, IndexingAssumption DEF StoredKeys
    <3>3. Below(c) = Lowest
      BY <3>2, BelowAll
    <3>4. Cardinality(Below(c)) + (n + 1) >= Cardinality(Lowest)
      BY <3>3, <1>1
    <3>5. QED  BY <3>4, <2>2 DEF Room
  <2>7. CASE a = NoKey /\ b # NoKey
    <3>1. IsKey(b) /\ Valid(b)
      BY <2>1, <2>7, <1>4 DEF StoredKeys, Rejects
    <3>2. Cardinality(Below(b)) <= Cardinality(Below(c)) + 1
      BY <3>1, <2>7, OneStepDown
    <3> HIDE DEF c
    <3>3. Cardinality(Below(c)) + (n + 1) >= Cardinality(Lowest)
      BY <3>2, <2>3, <2>4, <2>7, <1>1
    <3>4. QED  BY <3>3, <2>2 DEF Room, c
  <2>8. QED  BY <2>5, <2>6, <2>7
<1>5. QED  BY <1>2, <1>3, <1>4 DEF Makes

\* No rule starts with a key under the lowest letter, and there are fewer
\* operations than keys without a fraction there: with 26 letters a side
\* and 62 digits, fewer than 62 to the 26th power.
KeysSuffice ==
  /\ \A key \in StartKeys : key[1] > -Heads
  /\ MaxCalls < Cardinality(Lowest)

Roomy == \E n \in 0 .. MaxCalls : calls = n /\ Typed(Room(n))

\* At the start no key is under the lowest letter.
LEMMA RoomyInit ==
  ASSUME KeysSuffice, Init
  PROVE  Roomy
<1>1. calls = 0 /\ 0 \in 0 .. MaxCalls
  BY RuleOrderAssumption DEF Init
<1>2. StartKeys \subseteq Room(0)
  <2> SUFFICES ASSUME NEW key \in StartKeys
               PROVE  key \in Room(0)
    OBVIOUS
  <2>1. IsKey(key) /\ Valid(key) /\ key[1] > -Heads /\ key \in Seq(Int)
    BY RuleOrderAssumption, KeyFacts DEF KeysSuffice
  <2>2. Cardinality(Below(key)) + 0 >= Cardinality(Lowest)
    <3>1. Below(key) = Lowest
      BY <2>1, BelowAll
    <3>2. Cardinality(Lowest) \in Nat
      BY LowestFacts, FS_CardinalityType
    <3>3. QED  BY <3>1, <3>2
  <2>3. QED  BY <2>1, <2>2 DEF Room, StoredKeys
<1>3. Typed(Room(0))
  BY <1>2, RoomFacts, TypedInit
<1>4. QED  BY <1>1, <1>3 DEF Roomy

\* A step that is an operation costs one of them at most, another none.
LEMMA RoomyNext == Roomy /\ [Next]_vars => Roomy'
<1> SUFFICES ASSUME Roomy, [Next]_vars
             PROVE  Roomy'
  OBVIOUS
<1>1. PICK n \in 0 .. MaxCalls : calls = n /\ Typed(Room(n))
  BY DEF Roomy
<1>2. n \in Nat /\ KeySet(Room(n)) /\ KeySet(Room(n + 1))
      /\ Room(n) \subseteq Room(n + 1) /\ Makes(Room(n), Room(n + 1))
  <2>1. n \in Nat /\ n + 1 \in Nat
    BY RuleOrderAssumption
  <2>2. QED  BY <2>1, RoomFacts
<1>3. calls' = calls \/ calls' = calls + 1
  BY DEF Next, User, PutNew, PutEdited, DelAll, Drop, Order, OrderThrows,
         Dropped, Calls, Build, Execute, Fetch, Emit, vars
<1>4. CASE calls' = calls
  <2>1. Typed(Room(n))'
    BY <1>1, <1>2, <1>4, TypedNext
  <2>2. QED  BY <2>1, <1>1, <1>4 DEF Roomy
<1>5. CASE calls' = calls + 1
  <2>1. Typed(Room(n + 1))'
    BY <1>1, <1>2, TypedNext
  <2>2. calls' = n + 1 /\ n + 1 \in 0 .. MaxCalls
    BY <2>1, <1>1, <1>5 DEF Typed
  <2>3. QED  BY <2>1, <2>2 DEF Roomy
<1>6. QED  BY <1>3, <1>4, <1>5

\* As long as operations do not outnumber them the smallest is not reached.
LEMMA RoomIsAboveBottom ==
  ASSUME KeysSuffice, Roomy
  PROVE  AboveBottom
<1>1. PICK n \in 0 .. MaxCalls : Typed(Room(n))
  BY DEF Roomy
<1>2. StoredNow \union SentNow \subseteq Room(n)
  BY <1>1, KeysOfTypes
<1>3. Smallest \notin Room(n)
  <2>1. Smallest # NoKey
    BY SmallestIsWhole DEF Whole, IsKey
  <2>2. Cardinality(Below(Smallest)) = 0
    BY BelowSmallest, FS_EmptySet
  <2>3. Cardinality(Lowest) \in Nat /\ MaxCalls < Cardinality(Lowest)
    BY LowestFacts, FS_CardinalityType DEF KeysSuffice
  <2>4. ~(0 + n >= Cardinality(Lowest))
    BY <2>3, RuleOrderAssumption
  <2>5. QED  BY <2>1, <2>2, <2>4 DEF Room
<1>4. QED  BY <1>2, <1>3 DEF AboveBottom

\* The keys do not run out at the bottom.
THEOREM AboveBottomSafe ==
  ASSUME KeysSuffice
  PROVE  Spec => []AboveBottom
<1>1. Init => Roomy
  BY RoomyInit
<1>2. Roomy => AboveBottom
  BY RoomIsAboveBottom
<1>3. QED  BY <1>1, <1>2, RoomyNext, PTL DEF Spec

\* So every key stays valid ...
THEOREM KeysStayValid ==
  ASSUME KeysSuffice
  PROVE  Spec => []KeysValid
<1>1. QED  BY AboveBottomSafe, KeysValidSafe, PTL

\* ... and every drop that OrderSticks is about sticks.
THEOREM DropsStick ==
  ASSUME KeysSuffice
  PROVE  Spec => OrderSticks
<1>1. QED  BY AboveBottomSafe, OrderSticksSafe, PTL
=============================================================================
