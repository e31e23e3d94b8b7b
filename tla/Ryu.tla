-------------------------------- MODULE Ryu --------------------------------
(* Printing a floating-point number: the shortest text that reads back as *)
(* it, or a text of a given precision, in a buffer of `room' characters   *)
(* (inc/xcharconv_ryu.h).  The format is a small one: MBits stored bits,  *)
(* decimal blocks of B digits where the code has 9, tables for every K-th *)
(* power of two where it has every 16th.  What the tables of              *)
(* xcharconv_ryu_tables.h hold is given by the formula of their entries.  *)
(* A character is a digit 0..9 or one of Dot, E, Plus, Minus.             *)
EXTENDS Integers, Sequences, SequencesExt

MBits == 5
BIAS == 11
ExpMax == 32
B == 2
K == 4
ADDITIONAL_BITS == 13
FLOAT_POW5_INV_BITCOUNT == 16
FLOAT_POW5_BITCOUNT == 14
DOUBLE_POW5_INV_BITCOUNT == 16
DOUBLE_POW5_BITCOUNT == 14
FiveFits == 1
WordBits == 8
ManyBlocks == 20
LowDigits == 1
TooPrecise == 7
Dot == 10
E == 11
Plus == 12
Minus == 13

Bool(p) == IF p THEN 1 ELSE 0

pow5bits(e) == (e * 1217359) \div 2^19 + 1

log10Pow2(e) == (e * 78913) \div 2^18

log10Pow5(e) == (e * 732923) \div 2^20

RECURSIVE pow5Factor(_)
pow5Factor(v) == IF v % 5 # 0 THEN 0 ELSE 1 + pow5Factor(v \div 5)

multipleOfPowerOf5(v, p) == pow5Factor(v) >= p

multipleOfPowerOf2(v, p) == v % 2^p = 0

\* Mantissa and exponent: the value is m2 * 2^e2.
Decode(m, e) ==
  IF e = 0 THEN [m2 |-> m, e2 |-> 1 - BIAS - MBits]
           ELSE [m2 |-> 2^MBits + m, e2 |-> e - BIAS - MBits]

RECURSIVE decimalLength(_)
decimalLength(v) == IF v < 10 THEN 1 ELSE 1 + decimalLength(v \div 10)

append_n_digits(n, v) == [k \in 1..n |-> (v \div 10^(n - k)) % 10]


Zeros(n) == [k \in 1..n |-> 0]

\* Every write is preceded by its test of the room left: a text that does
\* not fit is errc::value_too_large, whatever was written before.
TooLarge == <<-1>>

Put(out, s, room) ==
  IF out = TooLarge \/ Len(out) + Len(s) > room THEN TooLarge ELSE out \o s

-----------------------------------------------------------------------------
(* The tables. *)

Modulus == 10^B * 2^(ADDITIONAL_BITS + K)

POW10_SPLIT(idx, i) ==
  (2^(K * idx + ADDITIONAL_BITS) \div 10^(B * i) + 1) % Modulus

\* x * 10^n modulo mod.
RECURSIVE Pow10Mod(_, _, _)
Pow10Mod(x, n, mod) == IF n = 0 THEN x % mod ELSE (10 * Pow10Mod(x, n - 1, mod)) % mod

POW10_SPLIT_2(idx, i) ==
  LET s == ADDITIONAL_BITS - K * idx
      n == B * (i + 1)
  IN IF s >= 0 THEN Pow10Mod(2^s, n, Modulus)
     ELSE Pow10Mod(1, n, Modulus * 2^(-s)) \div 2^(-s)

\* How many blocks after the point are zero for every number of the index.
RECURSIVE MinBlock(_, _)
MinBlock(idx, b) ==
  IF 2^(MBits + 1) * 10^(B * (b + 1)) > 2^(K * idx) THEN b ELSE MinBlock(idx, b + 1)

MIN_BLOCK_2(idx) == MinBlock(idx, 0)

\* The blocks from this one on are zero for every number of the index.
EndBlock(idx) == (K * idx + K - 1 + B - 1) \div B

Inverse_of_five(q, bits) == 2^(bits + pow5bits(q) - 1) \div 5^q + 1

Power_of_five(i, bits) ==
  LET s == pow5bits(i) - bits IN
  IF s >= 0 THEN 5^i \div 2^s ELSE 5^i * 2^(-s)

FLOAT_POW5_INV_SPLIT(q) == Inverse_of_five(q, FLOAT_POW5_INV_BITCOUNT)

FLOAT_POW5_SPLIT(i) == Power_of_five(i, FLOAT_POW5_BITCOUNT)

DOUBLE_POW5_INV_SPLIT(q) == Inverse_of_five(q, DOUBLE_POW5_INV_BITCOUNT)

DOUBLE_POW5_SPLIT(i) == Power_of_five(i, DOUBLE_POW5_BITCOUNT)

-----------------------------------------------------------------------------
(* Printing with a given precision. *)

mulShift_mod(m, mul, j) == ((m * mul) \div 2^j) % 10^B

indexForExponent(e) == (e + K - 1) \div K

\* +1 for ceil, the digits of a mantissa, B - 1 to round up.
lengthForIndex(idx) ==
  (log10Pow2(K * idx) + 1 + decimalLength(2^(MBits + 1)) + B - 1) \div B

\* The blocks before the point, most significant first.
WholeBlocks(m2, e2) ==
  IF e2 < -MBits THEN << >> ELSE
  LET idx == IF e2 < 0 THEN 0 ELSE indexForExponent(e2)
      len == lengthForIndex(idx)
      j == K * idx + ADDITIONAL_BITS - e2
  IN [k \in 1..len |-> [digits |-> mulShift_mod(m2, POW10_SPLIT(idx, len - k), j),
                        base |-> (len - k) * B]]

\* Block i after the point.
FractionBlock(m2, e2, i) ==
  LET idx == (-e2) \div K
      j == ADDITIONAL_BITS + ((-e2) - K * idx)
  IN IF i >= EndBlock(idx) THEN 0 ELSE mulShift_mod(m2, POW10_SPLIT_2(idx, i), j)

\* The leading zero blocks are dropped, the first other one has no leading
\* zeros, the rest are printed in full.
RECURSIVE WholeDigits(_, _)
WholeDigits(bs, nonzero) ==
  IF bs = << >> THEN << >>
  ELSE LET d == Head(bs).digits IN
       (IF nonzero THEN append_n_digits(B, d)
        ELSE IF d # 0 THEN append_n_digits(decimalLength(d), d) ELSE << >>)
         \o WholeDigits(Tail(bs), nonzero \/ d # 0)

\* Propagates the rounding: 1 = round up, 2 = round up if odd.
RECURSIVE RoundUp(_, _, _)
RoundUp(s, k, up) ==
  IF k = 0 THEN [s |-> s, over |-> TRUE]
  ELSE IF s[k] = Dot THEN RoundUp(s, k - 1, up)
  ELSE IF s[k] = 9 THEN RoundUp([s EXCEPT ![k] = 0], k - 1, 1)
  ELSE [s |-> IF up = 1 \/ s[k] % 2 # 0 THEN [s EXCEPT ![k] = @ + 1] ELSE s,
        over |-> FALSE]

\* The carry went through the first digit: 99.9 is now 00.0 and becomes 100.0.
CarriedOut(s) ==
  LET one == [s EXCEPT ![1] = 1] IN
  IF \E p \in DOMAIN s : s[p] = Dot
  THEN LET p == CHOOSE p \in DOMAIN s : s[p] = Dot
       IN [one EXCEPT ![p] = 0, ![p + 1] = Dot]
  ELSE one

\* Removes n digits: the last one removed decides the rounding, with exact
\* telling whether only zeros follow a 5.
DropDigits(d, n, exact) ==
  LET last == IF n = 0 THEN 0 ELSE (d \div 10^(n - 1)) % 10
  IN [digits |-> d \div 10^n,
      up |-> IF last # 5 THEN Bool(last > 5) ELSE IF exact THEN 2 ELSE 1]

FixedTail(m2, e2, precision) ==
  LET idx == (-e2) \div K
      blocks == precision \div B + 1
      mb == MIN_BLOCK_2(idx)
      last == blocks - 1
      twos == (-e2) - precision - 1
      drop == DropDigits(FractionBlock(m2, e2, last), B - (precision - B * last),
                         twos <= 0 \/ multipleOfPowerOf2(m2, twos))
      Full(i) == IF i < mb THEN Zeros(B) ELSE append_n_digits(B, FractionBlock(m2, e2, i))
  IN IF blocks <= mb THEN [s |-> Zeros(precision), up |-> 0]
     ELSE IF last >= EndBlock(idx)
     THEN [s |-> FlattenSeq([i \in 1..EndBlock(idx) |-> Full(i - 1)])
                   \o Zeros(precision - B * EndBlock(idx)),
           up |-> 0]
     ELSE [s |-> FlattenSeq([i \in 1..last |-> Full(i - 1)])
                   \o append_n_digits(precision - B * last, drop.digits),
           up |-> drop.up]

d2fixed_buffered_n(m, e, precision, room) ==
  LET d == Decode(m, e)
      whole == WholeDigits(WholeBlocks(d.m2, d.e2), FALSE)
      point == (IF whole = << >> THEN <<0>> ELSE whole)
                 \o (IF precision > 0 THEN <<Dot>> ELSE << >>)
      tail == FixedTail(d.m2, d.e2, precision)
      text == Put(point, tail.s, room)
      r == RoundUp(text, Len(text), tail.up)
  IN IF m = 0 /\ e = 0
     THEN Put(<<0>>, IF precision > 0 THEN <<Dot>> \o Zeros(precision) ELSE << >>, room)
     ELSE IF d.e2 >= 0 THEN Put(point, Zeros(precision), room)
     ELSE IF text = TooLarge \/ tail.up = 0 THEN text
     ELSE IF r.over THEN Put(CarriedOut(r.s), <<0>>, room)
     ELSE r.s

\* The blocks in turn, until one has more digits than are wanted: the first
\* nonzero one fixes the exponent.
RECURSIVE ExpBlocks(_, _)
ExpBlocks(st, bs) ==
  IF bs = << >> THEN st
  ELSE LET d == Head(bs).digits
           n == decimalLength(d)
       IN IF st.printed # 0
          THEN IF st.printed + B > st.precision
               THEN [st EXCEPT !.available = B, !.digits = d]
               ELSE ExpBlocks([st EXCEPT !.out = @ \o append_n_digits(B, d),
                                         !.printed = @ + B], Tail(bs))
          ELSE IF d = 0 THEN ExpBlocks(st, Tail(bs))
          ELSE IF n > st.precision
          THEN [st EXCEPT !.available = n, !.digits = d, !.exp = Head(bs).base + n - 1]
          ELSE ExpBlocks([st EXCEPT !.out = append_n_digits(n, d), !.printed = n,
                                    !.exp = Head(bs).base + n - 1], Tail(bs))

ExponentText(exp) ==
  LET x == IF exp < 0 THEN -exp ELSE exp
  IN <<E, IF exp < 0 THEN Minus ELSE Plus>> \o append_n_digits(IF x >= 100 THEN 3 ELSE 2, x)

\* The digits with the point after the first, when more than one is wanted.
Pointed(s, point) == IF point THEN InsertAt(s, 2, Dot) ELSE s

d2exp_buffered_n(m, e, precision0, room) ==
  LET d == Decode(m, e)
      precision == precision0 + 1
      first == MIN_BLOCK_2((-d.e2) \div K)
      fraction == IF d.e2 >= 0 THEN << >>
                  ELSE [k \in 1..ManyBlocks |->
                          [digits |-> FractionBlock(d.m2, d.e2, first + k - 1),
                           base |-> -(first + k) * B]]
      st == ExpBlocks([out |-> << >>, printed |-> 0, available |-> 0, digits |-> 0,
                       exp |-> 0, precision |-> precision],
                      WholeBlocks(d.m2, d.e2) \o fraction)
      maximum == precision - st.printed
      rexp == precision - st.exp
      twos == (-d.e2) - rexp
      exact == /\ twos <= 0 \/ multipleOfPowerOf2(d.m2, twos)
               /\ rexp < 0 => multipleOfPowerOf5(d.m2, -rexp)
      drop == IF st.available > maximum
              THEN DropDigits(st.digits, st.available - maximum, exact)
              ELSE [digits |-> st.digits, up |-> 0]
      text == Pointed(st.out \o append_n_digits(maximum, drop.digits), precision0 > 0)
      r == RoundUp(text, Len(text), drop.up)
      rounded == IF drop.up = 0 THEN text ELSE IF r.over THEN [r.s EXCEPT ![1] = 1] ELSE r.s
      exp == IF drop.up # 0 /\ r.over THEN st.exp + 1 ELSE st.exp
  IN IF m = 0 /\ e = 0
     THEN Put(Pointed(Zeros(precision), precision0 > 0), ExponentText(0), room)
     ELSE Put(Put(<< >>, rounded, room), ExponentText(exp), room)

-----------------------------------------------------------------------------
(* The shortest decimal that reads back as the number. *)

mulShift(m, factor, j) == (m * factor) \div 2^j

Digit_removed(st, n) ==
  [st EXCEPT !.last = (st.vr \div 10^(n - 1)) % 10, !.vr = @ \div 10^n,
             !.vp = @ \div 10^n, !.vm = @ \div 10^n, !.removed = @ + n]

\* Removes digits while the interval still holds more than one multiple.
RECURSIVE Trim(_)
Trim(st) ==
  IF st.vp \div 10 <= st.vm \div 10 THEN st
  ELSE Trim([Digit_removed(st, 1) EXCEPT
               !.vmIsTrailingZeros = @ /\ st.vm % 10 = 0,
               !.vrIsTrailingZeros = @ /\ st.last = 0])

\* The lower bound itself is allowed, and ends in zeros.
RECURSIVE TrimZeros(_)
TrimZeros(st) ==
  IF st.vm % 10 # 0 THEN st
  ELSE TrimZeros([Digit_removed(st, 1) EXCEPT !.vrIsTrailingZeros = @ /\ st.last = 0])

\* The common case for float, and for double, which first tries two digits.
Common(st0) ==
  LET st == Trim(st0)
  IN [mantissa |-> st.vr + Bool(st.vr = st.vm \/ st.last >= 5),
      exponent |-> st.e10 + st.removed]

Common_d(st) ==
  Common(IF st.vp \div 100 > st.vm \div 100 THEN Digit_removed(st, 2) ELSE st)

\* The general case, which happens rarely.
General(st0) ==
  LET st1 == Trim(st0)
      st == IF st1.vmIsTrailingZeros THEN TrimZeros(st1) ELSE st1
      even == st.vrIsTrailingZeros /\ st.last = 5 /\ st.vr % 2 = 0
      outside == st.vr = st.vm /\ (~st.acceptBounds \/ ~st.vmIsTrailingZeros)
  IN [mantissa |-> st.vr + Bool(outside \/ (st.last >= 5 /\ ~even)),
      exponent |-> st.e10 + st.removed]

mulPow5InvDivPow2(m, q, j) ==
  mulShift(m, FLOAT_POW5_INV_SPLIT(q), j + FLOAT_POW5_INV_BITCOUNT + pow5bits(q) - 1)

mulPow5divPow2(m, i, j) ==
  mulShift(m, FLOAT_POW5_SPLIT(i), j - (pow5bits(i) - FLOAT_POW5_BITCOUNT))

Divided(x, q, j) ==
  mulShift(x, DOUBLE_POW5_INV_SPLIT(q), j + DOUBLE_POW5_INV_BITCOUNT + pow5bits(q) - 1)

Multiplied(x, i, j) ==
  mulShift(x, DOUBLE_POW5_SPLIT(i), j - (pow5bits(i) - DOUBLE_POW5_BITCOUNT))

\* The interval of the decimals that read back, as integers times 10^e10: for
\* double, e10 is one less, so that no digit has been removed yet.
Interval(m, e, wide) ==
  LET d == Decode(m, e)
      e2 == d.e2 - 2
      acceptBounds == d.m2 % 2 = 0
      mv == 4 * d.m2
      mp == mv + 2
      mmShift == Bool(m # 0 \/ e <= 1)
      mm == mv - 1 - mmShift
      q == IF e2 >= 0 THEN log10Pow2(e2) - Bool(wide /\ e2 > 3)
                      ELSE log10Pow5(-e2) - Bool(wide /\ -e2 > 1)
      Power(x, drop) ==
        CASE e2 >= 0 /\ ~wide -> mulPow5InvDivPow2(x, q - drop, q - drop - e2)
          [] e2 >= 0 /\ wide -> Divided(x, q, q - e2)
          [] e2 < 0 /\ ~wide -> mulPow5divPow2(x, (-e2) - q + drop, q - drop)
          [] e2 < 0 /\ wide -> Multiplied(x, (-e2) - q, q)
      vm == Power(mm, 0)
      vp == Power(mp, 0)
      fives == e2 >= 0 /\ q <= FiveFits
      exclude == ~acceptBounds /\ IF e2 >= 0
                                  THEN fives /\ mv % 5 # 0 /\ multipleOfPowerOf5(mp, q)
                                  ELSE q <= 1
      known == ~wide /\ q # 0 /\ (vp - 1) \div 10 <= vm \div 10
  IN [vr |-> Power(mv, 0), vp |-> vp - Bool(exclude), vm |-> vm, removed |-> 0,
      e10 |-> IF e2 >= 0 THEN q ELSE q + e2,
      last |-> IF known THEN Power(mv, 1) % 10 ELSE 0,
      acceptBounds |-> acceptBounds,
      vrIsTrailingZeros |->
        IF e2 >= 0 THEN fives /\ mv % 5 = 0 /\ multipleOfPowerOf5(mv, q)
                   ELSE q <= 1 \/ multipleOfPowerOf2(mv, q - 1),
      vmIsTrailingZeros |->
        acceptBounds /\ IF e2 >= 0
                        THEN fives /\ mv % 5 # 0 /\ multipleOfPowerOf5(mm, q)
                        ELSE q <= 1 /\ mmShift = 1]

f2d(m, e) ==
  LET st == Interval(m, e, FALSE)
  IN IF st.vmIsTrailingZeros \/ st.vrIsTrailingZeros THEN General(st) ELSE Common(st)

d2d(m, e) ==
  LET st == Interval(m, e, TRUE)
  IN IF st.vmIsTrailingZeros \/ st.vrIsTrailingZeros THEN General(st) ELSE Common_d(st)

-----------------------------------------------------------------------------
(* The text of that decimal. *)

\* The words of mantissa * 2^exponent, least significant first, and how many
\* are in use.
LargeData(mantissa, exponent) ==
  LET maxidx == (MBits + 1 + exponent + WordBits - 1) \div WordBits - 1
      shift == exponent % WordBits
      crosses == shift > WordBits - (MBits + 1)
  IN [k \in 0..maxidx |->
        IF k = maxidx
        THEN IF crosses THEN mantissa \div 2^(WordBits - shift) ELSE mantissa * 2^shift
        ELSE IF k = maxidx - 1 /\ crosses THEN (mantissa * 2^shift) % 2^WordBits ELSE 0]

\* One long division by 10^B, from word k down: the words become the
\* quotient, and what is left is a block of digits.
RECURSIVE LongDivide(_, _, _)
LongDivide(data, k, remainder) ==
  LET r == remainder * 2^WordBits + data[k]
      next == [data EXCEPT ![k] = (r \div 10^B) % 2^WordBits]
  IN IF k = 0 THEN [data |-> next, block |-> r % 10^B]
     ELSE LongDivide(next, k - 1, r % 10^B)

RECURSIVE LargeBlocks(_, _, _)
LargeBlocks(data, maxidx, blocks) ==
  IF maxidx = 0 THEN append_n_digits(decimalLength(data[0]), data[0]) \o blocks
  ELSE LET r == LongDivide(data, maxidx, 0)
       IN LargeBlocks(r.data, IF r.data[maxidx] = 0 THEN maxidx - 1 ELSE maxidx,
                      append_n_digits(B, r.block) \o blocks)

Large_integer_to_chars(mantissa, exponent, room) ==
  LET data == LargeData(mantissa, exponent)
      top == CHOOSE k \in DOMAIN data : \A j \in DOMAIN data : j <= k
  IN Put(<< >>, LargeBlocks(data, top, << >>), room)

RECURSIVE Odd(_)
Odd(v) == IF v % 2 = 0 THEN Odd(v \div 2) ELSE v

\* 10^Exact10 is the largest power of ten that the format represents.
Exact10 == CHOOSE n \in 0..MBits : 5^n < 2^(MBits + 1) /\ 5^(n + 1) >= 2^(MBits + 1)

\* Mutant of Can_use_ryu: the mantissa is not looked at.
Can_use_ryu_always(v) == v.exponent <= Exact10

\* Ryu's digits followed by zeros are the number itself: the float's table of
\* limits for the mantissa's odd part, and the double's.
Can_use_ryu(v) ==
  /\ v.exponent <= Exact10
  /\ Odd(v.mantissa) <= (2^(MBits + 1) - 1) \div 5^v.exponent

Can_use_ryu_d(v) == Can_use_ryu(v)

\* The number nearest to a power of ten may be below it, one digit shorter.
Adjustment(m2, e2, exponent) == Bool(m2 * 2^e2 < 10^exponent)

Adjustment_d(m2, e2, exponent) == Adjustment(m2, e2, exponent)

\* Fixed notation, as asked for or as the shorter one: from the range of
\* exponents where it is.
Chosen(v, fmt) ==
  LET olength == decimalLength(v.mantissa)
      x == v.exponent + olength - 1
  IN CASE fmt = "plain" ->
            IF olength = 1 THEN v.exponent \in -3..4 ELSE v.exponent \in -(olength + 3)..5
       [] fmt = "general" -> x \in -4..5
       [] OTHER -> fmt = "fixed"

Scientific_text(v, digits, room) ==
  Put(<< >>, Pointed(digits, Len(digits) > 1)
               \o ExponentText(v.exponent + Len(digits) - 1), room)

Fixed_text(v, digits, room) ==
  LET whole == Len(digits) + v.exponent
  IN IF v.exponent >= 0 THEN Put(<< >>, digits \o Zeros(v.exponent), room)
     ELSE IF whole > 0 THEN Put(<< >>, InsertAt(digits, whole + 1, Dot), room)
     ELSE Put(<< >>, <<0, Dot>> \o Zeros(-whole) \o digits, room)

to_chars_f(v, fmt, m, e, room) ==
  LET d == Decode(m, e)
      olength == decimalLength(v.mantissa)
      digits == append_n_digits(olength, v.mantissa)
      total == olength + v.exponent
                 - IF v.mantissa = 1 THEN Adjustment(d.m2, d.e2, v.exponent) ELSE 0
  IN IF ~Chosen(v, fmt) THEN Scientific_text(v, digits, room)
     ELSE IF v.exponent <= 0 \/ Can_use_ryu(v) THEN Fixed_text(v, digits, room)
     ELSE IF total > room THEN TooLarge
     ELSE Large_integer_to_chars(d.m2, d.e2, room)

\* A mantissa of more than 32 bits: its low digits (8 in the code) first, so
\* that what is left has 32 bits.
Wide_digits(olength, v) ==
  IF v < 2^(MBits - 1) THEN append_n_digits(olength, v)
  ELSE append_n_digits(olength - LowDigits, v \div 10^LowDigits)
         \o append_n_digits(LowDigits, v % 10^LowDigits)

to_chars_d(v, fmt, m, e, room) ==
  LET d == Decode(m, e)
      olength == decimalLength(v.mantissa)
      digits == Wide_digits(olength, v.mantissa)
      total == olength + v.exponent
                 - IF v.mantissa = 1 THEN Adjustment_d(d.m2, d.e2, v.exponent) ELSE 0
  IN IF ~Chosen(v, fmt) THEN Scientific_text(v, digits, room)
     ELSE IF v.exponent <= 0 \/ Can_use_ryu_d(v) THEN Fixed_text(v, digits, room)
     ELSE IF total > room THEN TooLarge
     ELSE d2fixed_buffered_n(m, e, 0, room)

RECURSIVE StripZeros(_)
StripZeros(v) ==
  IF v.mantissa % 10 # 0 THEN v
  ELSE StripZeros([mantissa |-> v.mantissa \div 10, exponent |-> v.exponent + 1])

d2d_small_int(d) ==
  d.m2 >= 2^MBits /\ d.e2 \in -MBits..0 /\ d.m2 % 2^(-d.e2) = 0

Zero_text(fmt, room) ==
  Put(<< >>, IF fmt = "scientific" THEN <<0>> \o ExponentText(0) ELSE <<0>>, room)

f2s_buffered_n(m, e, fmt, room) ==
  LET d == Decode(m, e)
  IN IF m = 0 /\ e = 0 THEN Zero_text(fmt, room)
     ELSE IF fmt = "fixed" /\ d.e2 > 0 THEN Large_integer_to_chars(d.m2, d.e2, room)
     ELSE to_chars_f(f2d(m, e), fmt, m, e, room)

\* A small integer is its own decimal, its zeros moved to the exponent.
d2s_buffered_n(m, e, fmt, room) ==
  LET d == Decode(m, e)
      small == [mantissa |-> d.m2 \div 2^(-d.e2), exponent |-> 0]
      v == IF d2d_small_int(d) THEN StripZeros(small) ELSE d2d(m, e)
  IN IF m = 0 /\ e = 0 THEN Zero_text(fmt, room)
     ELSE IF fmt = "fixed" /\ d.e2 > 0 THEN d2fixed_buffered_n(m, e, 0, room)
     ELSE to_chars_d(v, fmt, m, e, room)

\* A negative precision stands for 6; one of a billion or more is refused
\* before anything is written.
Floating_to_chars_scientific_precision(m, e, precision, room) ==
  IF precision >= TooPrecise THEN TooLarge
  ELSE d2exp_buffered_n(m, e, IF precision < 0 THEN 6 ELSE precision, room)

Floating_to_chars_fixed_precision(m, e, precision, room) ==
  IF precision >= TooPrecise THEN TooLarge
  ELSE d2fixed_buffered_n(m, e, IF precision < 0 THEN 6 ELSE precision, room)

-----------------------------------------------------------------------------
(* The same product without a 128-bit type: words of 2 * Half bits. *)

Half == 3
Word == 2^(2 * Half)

\* The two words of a * b from the products of their halves.
ryu_umul128(a, b) ==
  LET Lo(x) == x % 2^Half
      Hi(x) == x \div 2^Half
      b00 == Lo(a) * Lo(b)
      mid1 == Hi(a) * Lo(b) + Hi(b00)
      mid2 == Lo(a) * Hi(b) + Lo(mid1)
  IN [hi |-> (Hi(a) * Hi(b) + Hi(mid1) + Hi(mid2)) % Word,
      lo |-> (Lo(mid2) * 2^Half + Lo(b00)) % Word]

ryu_shiftright128(lo, hi, dist) == (hi * 2^(2 * Half - dist) + lo \div 2^dist) % Word

\* x + y and x - y on three words, the carry and the borrow found by
\* comparing: the lowest word first.
Plus3(x, mul) ==
  LET lo == (x[1] + mul[1]) % Word
      mid == (x[2] + mul[2] + Bool(lo < x[1])) % Word
  IN <<lo, mid, (x[3] + Bool(mid < x[2])) % Word>>

Minus3(x, mul) ==
  LET lo == (x[1] - mul[1]) % Word
      mid == (x[2] - mul[2] - Bool(lo > x[1])) % Word
  IN <<lo, mid, (x[3] - Bool(mid > x[2])) % Word>>

Twice3(x) ==
  LET lo == (2 * x[1]) % Word
      mid == (2 * x[2] + Bool(lo < x[1])) % Word
  IN <<lo, mid, (2 * x[3] + Bool(mid < x[2])) % Word>>

\* The code has no `mul' above the second word, and doubles the top one.
mulShiftAll(m, mul, j, mmShift) ==
  LET p0 == ryu_umul128(2 * m, mul[1])
      p1 == ryu_umul128(2 * m, mul[2])
      mid == (p0.hi + p1.lo) % Word
      x == <<p0.lo, mid, (p1.hi + Bool(mid < p0.hi)) % Word>>
      up == Plus3(x, mul)
      down == IF mmShift = 1 THEN Minus3(x, mul) ELSE Minus3(Twice3(x), mul)
  IN [vr |-> ryu_shiftright128(x[2], x[3], j - 2 * Half - 1),
      vp |-> ryu_shiftright128(up[2], up[3], j - 2 * Half - 1),
      vm |-> ryu_shiftright128(down[2], down[3], j - 2 * Half - mmShift)]
=============================================================================
