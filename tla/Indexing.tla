------------------------------- MODULE Indexing -------------------------------
(***************************************************************************)
(* The order keys of lib/common/indexing.dart: between any two keys there  *)
(* is another, so a rule is moved by writing one key and no neighbour's.   *)
(*                                                                         *)
(* A key is a sequence <<head>> \o digits.  The head says how many digits  *)
(* of the key are its integer part; the digits after them are a fraction.  *)
(* The letters are numbered so that their order is kept: 'a' is 0, 'b' is  *)
(* 1 and so on up to Heads - 1; 'Z' is -1, 'Y' is -2 and so on down to     *)
(* -Heads.  The source has 26 letters a side and 62 digits.  The empty     *)
(* sequence stands for a key that is null.                                 *)
(***************************************************************************)
EXTENDS Integers, Sequences

CONSTANTS Base,   \* how many digits there are
          Heads   \* how many letters on each side

ASSUME IndexingAssumption ==
  /\ Base \in Nat /\ Base > 2
  /\ Heads \in Nat /\ Heads > 0

NoKey == <<>>

\* A letter and digits.
IsKey(key) ==
  /\ key \in Seq(Int)
  /\ key # NoKey
  /\ key[1] \in -Heads .. Heads - 1
  /\ \A i \in 2 .. Len(key) : key[i] \in 0 .. Base - 1

\* String.compareTo, which is also how the database orders the column: a
\* null is below every key, and a prefix below what it begins.
Less(a, b) ==
  \E n \in 0 .. Len(b) - 1 :
    /\ n <= Len(a)
    /\ SubSeq(a, 1, n) = SubSeq(b, 1, n)
    /\ n < Len(a) => a[n + 1] < b[n + 1]

Zeros(n) == [i \in 1 .. n |-> 0]
Nines(n) == [i \in 1 .. n |-> Base - 1]

IntegerLength(head) == IF head >= 0 THEN head + 2 ELSE 1 - head

IntegerZero == <<0, 0>>
Smallest == <<-Heads>> \o Zeros(IntegerLength(-Heads) - 1)

IntegerPart(key) == SubSeq(key, 1, IntegerLength(key[1]))
Fraction(key) == SubSeq(key, IntegerLength(key[1]) + 1, Len(key))

\* What _validateOrderKey lets pass.
Valid(key) ==
  /\ key # NoKey
  /\ key # Smallest
  /\ IntegerLength(key[1]) <= Len(key)
  /\ Fraction(key) # <<>> => key[Len(key)] # 0

\* The position of the last digit of x that differs from d, or 1, the
\* head's, when all are d: where the carry or the borrow stops.
Stop(x, d) ==
  CHOOSE i \in 1 .. Len(x) : /\ i = 1 \/ x[i] # d
                             /\ \A j \in i + 1 .. Len(x) : x[j] = d

Increment(x) ==
  LET i == Stop(x, Base - 1)
      h == x[1] + 1
  IN IF i > 1
     THEN SubSeq(x, 1, i - 1) \o <<x[i] + 1>> \o Zeros(Len(x) - i)
     ELSE IF h = Heads THEN NoKey ELSE <<h>> \o Zeros(IntegerLength(h) - 1)

\* Variant: the borrow of a new head does not lengthen the integer part.
DecrementSameLength(x) ==
  LET i == Stop(x, 0)
  IN IF i > 1
     THEN SubSeq(x, 1, i - 1) \o <<x[i] - 1>> \o Nines(Len(x) - i)
     ELSE <<x[1] - 1>> \o Nines(Len(x) - 1)

Decrement(x) ==
  LET i == Stop(x, 0)
      h == x[1] - 1
  IN IF i > 1
     THEN SubSeq(x, 1, i - 1) \o <<x[i] - 1>> \o Nines(Len(x) - i)
     ELSE IF h < -Heads THEN NoKey ELSE <<h>> \o Nines(IntegerLength(h) - 1)

\* Where a fraction has no digit it stands for a zero.
Digit(x, n) == IF n <= Len(x) THEN x[n] ELSE 0

\* A fraction above a, with nothing to stay below: the nines are kept, and
\* the first digit that can grow goes half way up.
Above(a) ==
  LET n == CHOOSE i \in 1 .. Len(a) + 1 :
             /\ Digit(a, i) # Base - 1
             /\ \A j \in 1 .. i - 1 : Digit(a, j) = Base - 1
  IN Nines(n - 1) \o <<(Digit(a, n) + Base + 1) \div 2>>

\* A fraction above a and below b, where b empty is no bound; a is below b
\* and neither ends with a zero.  The source calls itself for what follows
\* the digits that agree, and then for what follows a digit that cannot grow.
Midpoint(a, b) ==
  LET same == CHOOSE i \in 0 .. Len(b) :
                /\ \A j \in 1 .. i : Digit(a, j) = b[j]
                /\ i < Len(b) => Digit(a, i + 1) # b[i + 1]
      low == Digit(a, same + 1)
      high == b[same + 1]
  IN IF b = <<>> THEN Above(a)
     ELSE SubSeq(b, 1, same) \o
          (IF high - low > 1 THEN <<(low + high + 1) \div 2>>
           ELSE IF Len(b) > same + 1 THEN <<high>>
           ELSE <<low>> \o Above(SubSeq(a, same + 2, Len(a))))

\* The three throws of generateKeyBetween.
Unordered(a, b) == a # NoKey /\ b # NoKey /\ ~Less(a, b)
Rejects(a, b) ==
  \/ \E key \in {a, b} : key # NoKey /\ ~Valid(key)
  \/ Unordered(a, b)

\* The key it returns otherwise, null included.
KeyBetween(a, b) ==
  CASE a = NoKey /\ b = NoKey -> IntegerZero
    [] a = NoKey /\ b # NoKey ->
         LET ib == IntegerPart(b)
         IN IF ib = Smallest THEN ib \o Midpoint(<<>>, Fraction(b))
            ELSE IF Less(ib, b) THEN ib ELSE Decrement(ib)
    [] a # NoKey /\ b = NoKey ->
         LET ia == IntegerPart(a)
         IN IF Increment(ia) # NoKey THEN Increment(ia)
            ELSE ia \o Midpoint(Fraction(a), <<>>)
    [] OTHER ->
         LET ia == IntegerPart(a)
             i == Increment(ia)
         IN IF ia = IntegerPart(b)
            THEN ia \o Midpoint(Fraction(a), Fraction(b))
            ELSE IF i = NoKey \/ Less(i, b) THEN i
            ELSE ia \o Midpoint(Fraction(a), <<>>)
===============================================================================
