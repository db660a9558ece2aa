------------------------------- MODULE HNumber -------------------------------
(***************************************************************************)
(* The arithmetic of HNumber (src/hcore/hnumber.cxx): decimal numbers of   *)
(* any size that are exact, or rounded to a precision.  A number is a      *)
(* sequence of leafs, each of LeafDigits digits, of which the first ints   *)
(* are its integral part.  What the memory of _canonical still holds       *)
(* behind its leafs is no part of it.                                      *)
(***************************************************************************)
EXTENDS Integers, Sequences, FiniteSets, SequencesExt, FiniteSetsExt

CONSTANTS
  Radix,              \* 10 in the code
  LeafDigits,         \* DECIMAL_DIGITS_IN_LEAF_CONST
  DefaultPrecision,   \* DEFAULT_PRECISION
  MinPrecision,       \* HARDCODED_MINIMUM_PRECISION
  KaratsubaThreshold, \* KARATSUBA_THRESHOLD
  Literals,           \* numbers as they are written: [negative, integral, fractional]
  MaxIntegral,        \* bound: leafs of the integral part
  MaxFractional,      \* bound: leafs of the fractional part
  IllNumbers          \* "negative zero", "memory behind", "lost fraction",
                      \* "rounded quotient"

VARIABLE number

Base == Radix ^ LeafDigits
Leaf == 0 .. (Base - 1)

Zeros(k) == [i \in 1 .. k |-> 0]
Least(x, y) == IF x < y THEN x ELSE y
Most(x, y)  == IF x < y THEN y ELSE x

LeadingZeros(leafs) ==
  IF \A i \in DOMAIN leafs: leafs[i] = 0 THEN Len(leafs)
  ELSE Min({i \in DOMAIN leafs: leafs[i] # 0}) - 1

TrailingZeros(leafs) == LeadingZeros(Reverse(leafs))

(* What a leaf behind the last one is when the code takes it for a zero.   *)
Behind == IF "memory behind" \in IllNumbers THEN Base - 1 ELSE 0

Number(leafs, ints, precision, negative) ==
  [leafs |-> leafs, ints |-> ints, precision |-> precision, negative |-> negative]

Zero == Number(<<>>, 0, Most(DefaultPrecision, MinPrecision), FALSE)

FractionalLength(n) == Len(n.leafs) - n.ints

(* The digits of a leaf that are zero at its end, but for its first one.   *)
TrailingDigits(leaf) ==
  Max({k \in 0 .. (LeafDigits - 1): leaf % (Radix ^ k) = 0})

FractionalDigits(n) ==
  IF FractionalLength(n) = 0 THEN 0
  ELSE FractionalLength(n) * LeafDigits - TrailingDigits(Last(n.leafs))

IsExact(n) == FractionalLength(n) > 0 => FractionalDigits(n) < n.precision

LeafsFor(digits) == (digits + LeafDigits - 1) \div LeafDigits

-----------------------------------------------------------------------------
(* normalize(): no zeros before and behind, the precision raised to what an *)
(* exact result takes, and what is beyond the precision of any other cut.   *)
NoTail(n) ==
  [n EXCEPT !.leafs = SubSeq(@, 1, Len(@) - Least(TrailingZeros(@), FractionalLength(n)))]

Bare(n) ==
  LET zeros == LeadingZeros(SubSeq(n.leafs, 1, n.ints))
  IN  NoTail([n EXCEPT !.leafs = SubSeq(@, zeros + 1, Len(@)), !.ints = @ - zeros])

Cut(leaf, digits) ==
  IF digits = 0 THEN leaf ELSE leaf - (leaf % (Radix ^ (LeafDigits - digits)))

Cropped(n) ==
  LET kept == n.ints + LeafsFor(n.precision)
      m == NoTail([n EXCEPT !.leafs =
             [i \in 1 .. kept |-> IF i = kept THEN Cut(@[i], n.precision % LeafDigits) ELSE @[i]]])
  IN  IF FractionalDigits(n) <= n.precision THEN n
      ELSE [m EXCEPT !.precision = FractionalDigits(m)]

Unsigned0(n) == IF n.leafs = <<>> THEN [n EXCEPT !.negative = FALSE] ELSE n

PrecisionRaised(n) ==
  IF FractionalDigits(n) >= n.precision THEN [n EXCEPT !.precision = FractionalDigits(n) + 1] ELSE n

Normalized(n, update) ==
  Unsigned0(Cropped(IF update THEN PrecisionRaised(Bare(n)) ELSE Bare(n)))

-----------------------------------------------------------------------------
(* A number that is written, without spacers and exponents.                 *)
DigitAt(digits, i) == IF i \in DOMAIN digits THEN digits[i] ELSE 0

LeafFrom(digits, first) ==
  LET value[k \in 0 .. LeafDigits] ==
        IF k = 0 THEN 0 ELSE Radix * value[k - 1] + DigitAt(digits, first + k - 1)
  IN  value[LeafDigits]

FromString(literal) ==
  LET zeros    == LeadingZeros(literal.integral)
      integral == SubSeq(literal.integral, zeros + 1, Len(literal.integral))
      fraction == SubSeq(literal.fractional, 1,
                         Len(literal.fractional) - TrailingZeros(literal.fractional))
      ints == LeafsFor(Len(integral))
      leafs == [i \in 1 .. (ints + LeafsFor(Len(fraction))) |->
                  IF i <= ints
                  THEN LeafFrom(integral, Len(integral) - (ints - i + 1) * LeafDigits + 1)
                  ELSE LeafFrom(fraction, (i - ints - 1) * LeafDigits + 1)]
      precision == IF fraction # <<>> /\ Len(fraction) >= Zero.precision
                   THEN Len(fraction) + 1 ELSE Zero.precision
  IN  IF leafs = <<>> THEN Zero
      ELSE Normalized(Number(leafs, ints, precision, literal.negative), TRUE)

FromInteger(n, k) == [n EXCEPT !.leafs = <<k>>, !.ints = 1, !.negative = FALSE]

Operands == {FromString(l): l \in Literals}

-----------------------------------------------------------------------------
(* mutate_addition(): the part of memory from first to end becomes its sum  *)
(* with leafs, or its difference, that end at end too.  The place first is  *)
(* for the carry only, which a difference does not have.                    *)
Mutated(memory, first, end, leafs, sub) ==
  LET Of(i) == LET k == Len(leafs) - (end - i) IN IF k \in DOMAIN leafs THEN leafs[k] ELSE 0
      carry[i \in first .. end] ==    \* into the place i
        IF i = end THEN 0
        ELSE IF sub THEN IF memory[i + 1] - carry[i + 1] < Of(i + 1) THEN 1 ELSE 0
                    ELSE IF memory[i + 1] + Of(i + 1) + carry[i + 1] >= Base THEN 1 ELSE 0
  IN  [i \in DOMAIN memory |->
         CASE i = first /\ ~ sub -> memory[i] + carry[i]
           [] first < i /\ i <= end /\ ~ sub -> (memory[i] + Of(i) + carry[i]) % Base
           [] first < i /\ i <= end /\ sub -> (memory[i] - carry[i] - Of(i)) % Base
           [] OTHER -> memory[i]]

(* absolute_lower(): below zero, zero or above. *)
Compared(s, t) ==
  LET differ == {i \in DOMAIN s \intersect DOMAIN t: s[i] # t[i]}
  IN  IF differ = {} THEN 0 ELSE s[Min(differ)] - t[Min(differ)]

AbsoluteLower(n, m) ==
  \/ n.ints < m.ints
  \/ /\ n.ints = m.ints
     /\ \/ Compared(n.leafs, m.leafs) < 0
        \/ Compared(n.leafs, m.leafs) = 0 /\ Len(n.leafs) < Len(m.leafs)

IsLower(n, m) ==
  \/ n.negative /\ ~ m.negative
  \/ ~ n.negative /\ ~ m.negative /\ AbsoluteLower(n, m)
  \/ n.negative /\ m.negative /\ ~ AbsoluteLower(n, m)
       /\ <<n.ints, n.leafs>> # <<m.ints, m.leafs>>

(* What a sum or a product is rounded to. *)
ResultPrecision(n, m) ==
  IF FractionalLength(n) < FractionalLength(m)
  THEN IF IsExact(n) THEN m.precision ELSE n.precision
  ELSE IF IsExact(m) THEN n.precision ELSE m.precision

(* The leafs of n with ints leafs before and dps leafs behind the point.    *)
Aligned(n, ints, dps) ==
  [i \in 1 .. (ints + dps) |->
     LET k == i - (ints - n.ints) IN IF k \in DOMAIN n.leafs THEN n.leafs[k] ELSE 0]

(* The sum of larger and smaller, or their difference, with dps leafs behind *)
(* the point.                                                               *)
Combined(larger, smaller, ints, dps, sub) ==
  Mutated(<<0>> \o Aligned(larger, ints, dps), 1, ints + dps + 1, Aligned(smaller, ints, dps), sub)

SumTo(precision, n, m, swp) ==
  LET ints == Most(n.ints, m.ints)
      dps  == Least(Most(FractionalLength(n), FractionalLength(m)), precision)
      leafs == IF swp THEN Combined(m, n, ints, dps, TRUE)
               ELSE Combined(n, m, ints, dps, n.negative # m.negative)
      negative == IF n.negative # m.negative THEN n.negative # swp ELSE n.negative /\ m.negative
  IN  Normalized(Number(leafs, ints + 1, precision, negative), IsExact(n) /\ IsExact(m))

Sum(n, m) ==
  SumTo(ResultPrecision(n, m), n, m, n.negative # m.negative /\ AbsoluteLower(n, m))

Negated(n) == [n EXCEPT !.negative = n.leafs # <<>> /\ ~ @]

Difference(n, m) == Negated(Sum(Negated(n), m))

-----------------------------------------------------------------------------
(* Multiplication of two sequences of leafs.                                *)
TimesLeaf(leafs, leaf) ==   \* multiply_by_leaf_low()
  LET carry[i \in 0 .. Len(leafs)] ==
        IF i = Len(leafs) THEN 0 ELSE (leafs[i + 1] * leaf + carry[i + 1]) \div Base
  IN  [leafs |-> [i \in DOMAIN leafs |-> (leafs[i] * leaf + carry[i]) % Base], carry |-> carry[0]]

(* The product by rows; the carry of the first row has a place of its own.  *)
ByRows(x, y) ==
  LET Row(memory, i) ==
        LET row == TimesLeaf(y, x[i])
        IN  IF x[i] = 0 THEN memory
            ELSE Mutated(memory, i, i + Len(y) + 1, <<row.carry>> \o row.leafs, FALSE)
      rows == FoldLeft(Row, Zeros(1 + Len(x) + Len(y)), Reverse([i \in DOMAIN x |-> i]))
  IN  Tail(rows)

LastOf(leafs, k) == SubSeq(leafs, Len(leafs) - Least(k, Len(leafs)) + 1, Len(leafs))
ButLast(leafs, k) == SubSeq(leafs, 1, Len(leafs) - k)
NoHead(leafs) == SubSeq(leafs, LeadingZeros(leafs) + 1, Len(leafs))

(* Half a factor plus the other half.                                       *)
HalvesAdded(x, m) ==
  IF Len(x) > m THEN Mutated(<<0>> \o LastOf(x, m), 1, m + 1, ButLast(x, m), FALSE)
  ELSE Zeros(m + 1 - Len(x)) \o x

(* karatsuba(): with x = a B^m + b and y = c B^m + d the product is          *)
(* ac B^2m + ((a+b)(c+d) - ac - bd) B^m + bd.  It is put together in size   *)
(* leafs behind one for a carry.                                            *)
WithHigh(memory, high) ==
  LET top == NoHead(high)
  IN  IF high = <<>> THEN memory
      ELSE Mutated(memory, 2 + Len(high) - Len(top), 2 + Len(high), top, FALSE)

Recombined(high, mid, low, m, size, car) ==
  LET last    == size + 1
      started == Mutated(Zeros(last - Len(low)) \o low, last - m - Len(mid), last - m, mid, FALSE)
      less    == Mutated(WithHigh(started, high), 2 - car, last - m, high, TRUE)
  IN  SubSeq(Mutated(less, 2 - car, last - m, low, TRUE), 3, last)

RECURSIVE Karatsuba(_, _)
RECURSIVE Halved(_, _, _)
Halved(x, y, m) ==
  Recombined(Karatsuba(ButLast(x, m), ButLast(y, m)),
             NoHead(Karatsuba(HalvesAdded(x, m), HalvesAdded(y, m))),
             Karatsuba(LastOf(x, m), LastOf(y, m)),
             m, Len(x) + Len(y) + 1, IF Least(Len(x), Len(y)) > m THEN 0 ELSE 1)

(* A product with nothing is nothing. *)
Karatsuba(fx, fy) ==
  LET x == NoHead(fx)
      y == NoHead(fy)
      long == Most(Len(x), Len(y))
  IN  CASE x = <<>> \/ y = <<>> -> <<>>
        [] x # <<>> /\ y # <<>> /\ long <= KaratsubaThreshold -> ByRows(fx, fy)
        [] x # <<>> /\ y # <<>> /\ long > KaratsubaThreshold ->
             Zeros(Len(fx) + Len(fy) - Len(x) - Len(y)) \o Halved(x, y, (long + 1) \div 2)

(* n has no more leafs than m. *)
LeafsMultiplied(n, m) ==
  Normalized(Number(Karatsuba(n.leafs, m.leafs), n.ints + m.ints, ResultPrecision(n, m),
                    n.negative # m.negative),
             IsExact(n) /\ IsExact(m))

Product(n, m) ==
  IF n.leafs = <<>> \/ m.leafs = <<>> THEN Number(<<>>, 0, n.precision, FALSE)
  ELSE LeafsMultiplied(IF Len(m.leafs) < Len(n.leafs) THEN m ELSE n,
                       IF Len(m.leafs) < Len(n.leafs) THEN n ELSE m)

-----------------------------------------------------------------------------
(* Division.                                                                *)
MultipliedByLeaf(n, leaf) ==
  LET product == TimesLeaf(n.leafs, leaf)
      m == NoTail([n EXCEPT !.leafs = product.leafs])
  IN  IF product.carry = 0 THEN m
      ELSE [m EXCEPT !.leafs = <<product.carry>> \o @, !.ints = @ + 1]

(* divide_by_leaf(): data is n with its point moved to behind the place     *)
(* moved; leafs that it has not got are what the memory holds.              *)
LeafsTo(n, moved) ==
  (IF moved < 0 THEN Zeros(- moved) ELSE <<>>)
    \o n.leafs \o [i \in 1 .. Most(moved - Len(n.leafs), 0) |-> Behind]

(* The quotient of data, and the remainder. *)
LeafByLeaf(data, leaf, remainder0) ==
  LET remainder[i \in 0 .. Len(data)] ==
        IF i = 0 THEN remainder0 ELSE (remainder[i - 1] * Base + data[i]) % leaf
  IN  [leafs     |-> [i \in DOMAIN data |-> (remainder[i - 1] * Base + data[i]) \div leaf],
       remainder |-> remainder[Len(data)]]

(* The leafs that follow until the precision is reached; those behind the   *)
(* end of the quotient, where the code stops, are zeros and go at once.     *)
Extended(n, quotient, leaf) ==
  LET more == Most(LeafsFor(n.precision) - FractionalLength(n), 0)
      following == LeafByLeaf(Zeros(more), leaf, quotient.remainder)
  IN  Normalized([n EXCEPT !.leafs = @ \o following.leafs], following.remainder = 0)

WithQuotient(n, quotient, moved, leaf) ==
  LET head == IF quotient.leafs[1] = 0 /\ moved > 0 THEN 1 ELSE 0
  IN  Extended([n EXCEPT !.leafs = SubSeq(quotient.leafs, head + 1, Len(quotient.leafs)),
                         !.ints = Most(moved, 0) - head], quotient, leaf)

ByLeaf(n, leaf, negative, shift) ==
  WithQuotient([n EXCEPT !.negative = @ # negative],
               LeafByLeaf(LeafsTo(n, n.ints + shift), leaf, 0), n.ints + shift, leaf)

(* The next leaf of the quotient of sample and divisor, whose first leaf is *)
(* at least half of Base: it is guessed from the first leafs u0, u1 and u2, *)
(* and made smaller once more if the product is still too large.            *)
GuessedFrom(u0, u1, u2, divisor) ==
  LET Large(q) == divisor[2] * q > (u0 * Base + u1 - q * divisor[1]) * Base + u2
      first == IF u0 = divisor[1] THEN Base - 1 ELSE (u0 * Base + u1) \div divisor[1]
  IN  IF ~ Large(first) THEN first ELSE IF Large(first - 1) THEN first - 2 ELSE first - 1

Taken(divisor, leaf, extra) ==
  LET product == TimesLeaf(divisor, leaf)
  IN  IF extra \/ product.carry # 0 THEN <<product.carry>> \o product.leafs ELSE product.leafs

Guessed(sample, divisor, extra) ==
  LET leaf == IF extra THEN GuessedFrom(sample[1], sample[2], sample[3], divisor)
              ELSE GuessedFrom(0, sample[1], sample[2], divisor)
      taken == Taken(divisor, leaf, extra)
  IN  IF Len(taken) > Len(sample) \/ Compared(sample, taken) < 0 THEN leaf - 1 ELSE leaf

(* One round of the long division: sample is the part of the dividend at    *)
(* hand, which bare becomes with the missing leafs from next on, and one    *)
(* extra if it is still smaller than the divisor.                           *)
Completed(bare, next, missing, dividend, divisor) ==
  LET got    == SubSeq(dividend, next + 1, Least(next + missing, Len(dividend)))
      sample == bare \o got \o Zeros(missing - Len(got))
  IN  IF Compared(sample, divisor) < 0
      THEN [sample |-> Append(sample, DigitAt(dividend, next + missing + 1)),
            extra  |-> TRUE, next |-> next + missing + 1]
      ELSE [sample |-> sample, extra |-> FALSE, next |-> next + missing]

Fetched(bare, next, dividend, divisor) ==
  LET zeros == LeadingZeros(SubSeq(dividend, next + 1, Len(dividend)))
  IN  Completed(bare, IF bare = <<>> THEN next + zeros ELSE next,
                Most(Len(divisor) - Len(bare), 0), dividend, divisor)

Found(d, f, leaf, divisor) ==
  [sample   |-> Tail(Mutated(<<0>> \o f.sample, 1, Len(f.sample) + 1,
                             Taken(divisor, leaf, f.extra), TRUE)),
   next     |-> f.next,
   quotient |-> d.quotient \o Zeros(IF d.first THEN 0 ELSE Most(f.next - d.next - 1, 0)) \o <<leaf>>,
   ints     |-> IF d.first /\ f.extra THEN d.ints - 1 ELSE d.ints,
   first    |-> FALSE, exact |-> FALSE]

RECURSIVE LongDivided(_, _, _, _)
LongDivided(d, dividend, divisor, leafs) ==
  LET bare == NoHead(d.sample)
      f    == Fetched(bare, d.next, dividend, divisor)
      leaf == Guessed(f.sample, divisor, f.extra)
  IN  CASE ~ d.first /\ Len(d.quotient) - d.ints >= leafs -> d
        [] (d.first \/ Len(d.quotient) - d.ints < leafs) /\ bare = <<>> /\ d.next >= Len(dividend) ->
             [d EXCEPT !.exact = TRUE]
        [] OTHER -> LongDivided(Found(d, f, leaf, divisor), dividend, divisor, leafs)

(* The quotient has ints leafs before its point if the first one is found   *)
(* without an extra leaf; zeros leafs of n are skipped.                     *)
DividedByLeafs(n, divisor, zeros, ints, precision) ==
  LET last == Least(zeros + Len(divisor), Len(n.leafs))
  IN  LongDivided([sample   |-> SubSeq(n.leafs, zeros + 1, last), next |-> last,
                   quotient |-> Zeros(Most(- ints, 0)), ints |-> Most(ints, 0) + 1,
                   first    |-> TRUE, exact |-> FALSE],
                  SubSeq(n.leafs, 1, Len(n.leafs) - TrailingZeros(n.leafs)),
                  divisor, LeafsFor(precision))

ByLeafs(n, m, divisor) ==
  LET exact == IsExact(n) /\ IsExact(m)
      precision == IF exact THEN n.precision ELSE Least(n.precision, m.precision)
      zeros  == LeadingZeros(n.leafs)
      before == IF m.ints > 0 THEN 0 ELSE LeadingZeros(m.leafs)
      result == DividedByLeafs(n, divisor, zeros, n.ints - m.ints + before - zeros,
                               IF exact THEN n.precision + m.precision ELSE precision)
  IN  Normalized(
        Number(result.quotient \o Zeros(Most(result.ints - Len(result.quotient), 0)),
               result.ints, precision, n.negative # m.negative),
        result.exact /\ exact)

(* How far the point moves if m, not its leafs, divides.                    *)
Shift(m) == IF m.ints > 0 THEN 0 ELSE 1

DividedNormalized(n, m) ==
  LET lead    == LeadingZeros(m.leafs)
      trail   == TrailingZeros(m.leafs)
      divisor == SubSeq(m.leafs, lead + 1, Len(m.leafs) - trail)
  IN  IF Len(divisor) = 1 THEN ByLeaf(n, divisor[1], m.negative, lead - trail + Shift(m))
      ELSE ByLeafs(n, m, divisor)

(* operator /= but by zero. *)
Divided(n, m) ==
  LET factor == Base \div (m.leafs[LeadingZeros(m.leafs) + 1] + 1)
  IN  CASE n.leafs = <<>> -> n
        [] n.leafs # <<>> /\ Len(m.leafs) = 1 -> ByLeaf(n, m.leafs[1], m.negative, Shift(m))
        [] n.leafs # <<>> /\ Len(m.leafs) > 1 /\ factor = 1 -> DividedNormalized(n, m)
        [] n.leafs # <<>> /\ Len(m.leafs) > 1 /\ factor > 1 ->
             DividedNormalized(MultipliedByLeaf(n, factor), MultipliedByLeaf(m, factor))

-----------------------------------------------------------------------------
(* Rounding and what is built from the operations above.                    *)
AddedLeaf(n, from, leaf) ==   \* add_leaf_low()
  LET carry[i \in 0 .. from] ==   \* out of the place i + 1
        IF i = from THEN leaf ELSE (n.leafs[i + 1] + carry[i + 1]) \div Base
      leafs == [i \in DOMAIN n.leafs |->
                  IF i <= from THEN (n.leafs[i] + carry[i]) % Base ELSE n.leafs[i]]
  IN  IF carry[0] = 0 THEN [n EXCEPT !.leafs = leafs]
      ELSE [n EXCEPT !.leafs = <<carry[0]>> \o leafs, !.ints = @ + 1]

Trunc(n) == [n EXCEPT !.leafs = SubSeq(@, 1, n.ints)]

Floor(n) == IF n.negative /\ FractionalLength(n) > 0 THEN AddedLeaf(Trunc(n), n.ints, 1) ELSE Trunc(n)
Ceil(n)  == IF ~ n.negative /\ FractionalLength(n) > 0 THEN AddedLeaf(Trunc(n), n.ints, 1) ELSE Trunc(n)

(* round(): up from half of the radix.                                      *)
Rounded(n, significant) ==
  LET kept  == Least(n.ints + LeafsFor(significant), Len(n.leafs))
      digit == significant % LeafDigits
      next  == (n.leafs[n.ints + significant \div LeafDigits + 1]
                  \div (Radix ^ (LeafDigits - 1 - digit))) % Radix
      m  == [n EXCEPT !.leafs = [i \in 1 .. kept |-> IF i = kept THEN Cut(@[i], digit) ELSE @[i]]]
      up == IF digit = 0 THEN 1 ELSE Radix ^ (LeafDigits - digit)
  IN  IF significant >= FractionalDigits(n) THEN n
      ELSE Unsigned0(NoTail(IF 2 * next >= Radix THEN AddedLeaf(m, kept, up) ELSE m))

WithPrecision(n, precision0) ==
  LET precision == Most(precision0, MinPrecision)
  IN  CASE precision < n.precision -> [Rounded(n, precision) EXCEPT !.precision = precision]
        [] precision > n.precision /\ IsExact(n) -> [n EXCEPT !.precision = precision]
        [] OTHER -> n

Modulo(n, m) ==
  LET quotient == [Divided(n, m) EXCEPT !.negative = FALSE]
      Whole(q) == IF n.negative # m.negative THEN Ceil(q) ELSE Floor(q)
  IN  [Difference([n EXCEPT !.negative = FALSE],
                  [Product(Whole(quotient), m) EXCEPT !.negative = FALSE])
         EXCEPT !.negative = m.negative]

RECURSIVE Power(_, _)
Power(n, exp) ==   \* for 1 <= exp
  IF exp = 1 THEN n
  ELSE LET half == Power(n, exp \div 2)
       IN IF exp % 2 = 1 THEN Product(Product(half, half), n) ELSE Product(half, half)

(* One divided by n, which throws if n was cropped to zero. *)
Reciprocal(n) == IF n.leafs = <<>> THEN FromInteger(n, 1) ELSE Divided(FromInteger(n, 1), n)

Raised(n, exp) ==
  CASE n.leafs = <<>> -> n
    [] n.leafs # <<>> /\ exp = 0 -> FromInteger(n, 1)
    [] n.leafs # <<>> /\ exp > 0 -> Power(n, exp)
    [] n.leafs # <<>> /\ exp < 0 -> Reciprocal(Power(n, - exp))

-----------------------------------------------------------------------------
InitNumber == number = Zero

(* Bound: what a number may become.                                         *)
Small(n) == n.ints <= MaxIntegral /\ FractionalLength(n) <= MaxFractional

Become(n) ==
  /\ number' = n
  /\ Small(n)
  /\ n.leafs = <<>> /\ n.negative => "negative zero" \in IllNumbers

Assign   == \E m \in Operands: Become(m)
Add      == \E m \in Operands: Become(Sum(number, m))
Subtract == \E m \in Operands: Become(Difference(number, m))
Multiply == \E m \in Operands: Become(Product(number, m))
Divide   == \E m \in Operands: m.leafs # <<>> /\ Become(Divided(number, m))
Modulus  == \E m \in Operands: m.leafs # <<>> /\ Become(Modulo(number, m))
Raise    == \E exp \in {-2, -1, 0, 2, 3}: Become(Raised(number, exp))
Limit    == \E p \in MinPrecision .. (DefaultPrecision + 1): Become(WithPrecision(number, p))
ToIntegral == Become(Trunc(number)) \/ Become(Floor(number)) \/ Become(Ceil(number))

NextNumber ==
  \/ Assign \/ Add \/ Subtract \/ Multiply \/ Divide \/ Modulus \/ Raise \/ Limit \/ ToIntegral

-----------------------------------------------------------------------------
WholeOf(leafs) == FoldLeft(LAMBDA v, x: v * Base + x, 0, leafs)
Magnitude(v) == IF v < 0 THEN - v ELSE v

(* The value of n times Base^f. *)
Scaled(n, f) ==
  (IF n.negative THEN -1 ELSE 1) * WholeOf(n.leafs) * Base ^ (f - FractionalLength(n))

FractionOf(n, m) == Most(FractionalLength(n), FractionalLength(m))

NumberType ==
  /\ number.leafs \in Seq(Leaf)
  /\ number.ints \in 0 .. Len(number.leafs)
  /\ number.precision \in Nat

(* The form that operator == relies on: one representation of each value,   *)
(* which no operation leaves.                                               *)
NumberIsNormal ==
  /\ number.ints > 0 => number.leafs[1] # 0
  /\ FractionalLength(number) > 0 => Last(number.leafs) # 0
  /\ number.leafs = <<>> => ~ number.negative
  /\ FractionalDigits(number) <= number.precision

(* operator < is the order of the values. *)
OrderIsRight ==
  \A m \in Operands:
    LET f == FractionOf(number, m) IN
    /\ IsLower(number, m) = (Scaled(number, f) < Scaled(m, f))
    /\ IsLower(m, number) = (Scaled(m, f) < Scaled(number, f))

(* Sums, differences and products of exact numbers are exact, and right, by *)
(* rows of leafs and by karatsuba() alike.                                  *)
SumsAreRight ==
  \A m \in Operands:
    LET f == FractionOf(number, m) IN
    IsExact(number) /\ IsExact(m) =>
      /\ IsExact(Sum(number, m)) /\ IsExact(Difference(number, m))
      /\ Scaled(Sum(number, m), f) = Scaled(number, f) + Scaled(m, f)
      /\ Scaled(Difference(number, m), f) = Scaled(number, f) - Scaled(m, f)

ProductsAreRight ==
  \A m \in Operands:
    LET f == FractionalLength(number) + FractionalLength(m) IN
    IsExact(number) /\ IsExact(m) =>
      /\ IsExact(Product(number, m))
      /\ Scaled(Product(number, m), f) =
           Scaled(number, FractionalLength(number)) * Scaled(m, FractionalLength(m))

(* A quotient is the largest number of its precision that is not beyond the *)
(* right one.  It may be rounded and still be told to be exact.             *)
QuotientIsRight(q, m) ==
  LET fq == FractionalLength(q)
      f  == Most(FractionalLength(number), fq + FractionalLength(m))
      dividend == Magnitude(Scaled(number, f))
      covered  == Magnitude(Scaled(q, fq)) * Magnitude(Scaled(m, f - fq))
  IN  /\ covered <= dividend
      /\ \/ covered = dividend
         \/ (dividend - covered) * Radix ^ q.precision < Magnitude(Scaled(m, f))
      /\ q.leafs # <<>> => q.negative = (number.negative # m.negative)
      /\ "rounded quotient" \in IllNumbers /\ IsExact(number) /\ IsExact(m) /\ IsExact(q)
           => covered = dividend

QuotientsAreRight ==
  \A m \in {o \in Operands: o.leafs # <<>>}: QuotientIsRight(Divided(number, m), m)

(* number % m lies between 0 and m and differs from number by a multiple of *)
(* m.  Of different signs only if the quotient has not lost its fraction.   *)
ModuloIsRight(q, r, m) ==
  LET f == Most(FractionalLength(r), FractionOf(number, m))
      unit == Magnitude(Scaled(m, f))
  IN  \/ number.negative = m.negative
      \/ FractionalLength(q) > 0
      \/ Scaled(number, f) % unit = 0
      \/ "lost fraction" \in IllNumbers
      => /\ (Scaled(number, f) - Scaled(r, f)) % unit = 0
         /\ Magnitude(Scaled(r, f)) < unit
         /\ r.leafs # <<>> => r.negative = m.negative

ModulosAreRight ==
  \A m \in {o \in Operands: o.leafs # <<>>}:
    IsExact(number) /\ IsExact(m) =>
      ModuloIsRight(Divided(number, m), Modulo(number, m), m)

IntegralsAreRight ==
  LET f == FractionalLength(number)
      v == Scaled(number, f)
      one == Base ^ f
  IN  /\ Scaled(Floor(number), 0) = v \div one
      /\ Scaled(Ceil(number), 0) = - ((- v) \div one)
      /\ Scaled(Trunc(number), 0) = IF v < 0 THEN - ((- v) \div one) ELSE v \div one

(* A lower precision rounds half a unit and more away from zero.            *)
RoundingIsRight ==
  \A p \in MinPrecision .. (number.precision - 1):
    LET f == Most(FractionalLength(number), LeafsFor(p))
        unit == Radix ^ (f * LeafDigits - p)
        v == Magnitude(Scaled(number, f))
    IN  Magnitude(Scaled(WithPrecision(number, p), f)) = ((2 * v + unit) \div (2 * unit)) * unit

PowersAreRight ==
  IsExact(number) /\ number.leafs # <<>> =>
    \A k \in {0, 2, 3, 5}:
      LET f == FractionalLength(number) IN
      k * Len(number.leafs) <= 12 =>
        Scaled(Raised(number, k), f * k) = Scaled(number, f) ^ k
=============================================================================
