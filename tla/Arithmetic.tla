----------------------------- MODULE Arithmetic ------------------------------
(***************************************************************************)
(* The library's own arithmetic: on the bits of a floating-point number,   *)
(* on numbers of several floating-point words, and on numbers of several   *)
(* integer words.                                                          *)
(***************************************************************************)
EXTENDS Integers, Sequences

(* The functions on the representation of a double or a float (_Dscale,    *)
(* _Dint, _Dnorm, _Dtest, _Dunscale, and the _FD ones) and the bit         *)
(* operations of xbit_ops.h.  A number is its sign, its biased exponent    *)
(* xchar and its fraction, an integer of f.bits bits: the shifts across    *)
(* the 16-bit words of the source are shifts of that integer.              *)
(* bits: of the fraction, 48 + _DOFF and 16 + _FOFF; max: the exponent of  *)
(* infinities and NaNs; bias: that of [1/2, 1).                            *)
Double == [bits |-> 3, max |-> 7, bias |-> 2]
Float == [bits |-> 2, max |-> 6, bias |-> 2]

Hidden(f) == 2 ^ f.bits
Number(neg, xchar, frac) == [neg |-> neg, xchar |-> xchar, frac |-> frac]
Numbers(f) == [neg : BOOLEAN, xchar : 0 .. f.max, frac : 0 .. Hidden(f) - 1]

Test(f, x) ==
    IF x.xchar = f.max THEN (IF x.frac # 0 THEN "nan" ELSE "inf")
    ELSE IF x.xchar = 0 /\ x.frac = 0 THEN "zero"
    ELSE IF x.xchar = 0 THEN "denorm" ELSE "finite"

Dtest(x) == Test(Double, x)
FDtest(x) == Test(Float, x)

(* A denormal's fraction is shifted up to the hidden bit, which is taken   *)
(* off; zero is left alone with exponent 1.                                *)
Norm(f, x) ==
    IF x.frac = 0 THEN [x EXCEPT !.xchar = 1]
    ELSE LET n == CHOOSE n \in 1 .. f.bits :
                    Hidden(f) <= x.frac * 2 ^ n /\ x.frac * 2 ^ n < 2 * Hidden(f)
         IN  [x EXCEPT !.xchar = 1 - n, !.frac = x.frac * 2 ^ n - Hidden(f)]

Dnorm(x) == Norm(Double, x)
FDnorm(x) == Norm(Float, x)

(* Mutant of Round_even: ties are rounded up. *)
Round_even_up(m, shift) ==
    LET q == m \div 2 ^ shift IN
    IF 2 * (m % 2 ^ shift) >= 2 ^ shift THEN q + 1 ELSE q

(* The word psx keeps the bits shifted out: above half, or half and odd,   *)
(* rounds up.                                                              *)
Round_even(m, shift) ==
    LET q == m \div 2 ^ shift
        psx == 2 * (m % 2 ^ shift)
    IN  IF 2 ^ shift < psx \/ (2 ^ shift = psx /\ q % 2 = 1) THEN q + 1 ELSE q

(* x * 2^lexp with checking; y is x, normalised when its exponent is 0. *)
Scaled(f, x, y, lexp) ==
    LET down == lexp + y.xchar - 1
        q == Round_even(Hidden(f) + y.frac, -down)
    IN  IF x.xchar = f.max THEN [code |-> Test(f, x), x |-> x]
        ELSE IF x.xchar = 0 /\ y.xchar > 0 THEN [code |-> "zero", x |-> x]
        ELSE IF lexp > 0 /\ f.max - y.xchar <= lexp
        THEN [code |-> "inf", x |-> Number(x.neg, f.max, 0)]
        ELSE IF -y.xchar < lexp
        THEN [code |-> "finite", x |-> Number(x.neg, y.xchar + lexp, y.frac)]
        ELSE IF down < -(f.bits + 1) \/ down >= 0 \/ q = 0
        THEN [code |-> "zero", x |-> Number(x.neg, 0, 0)]
        ELSE [code |-> "finite", x |-> Number(x.neg, q \div Hidden(f), q % Hidden(f))]

Dscale(x, lexp) == Scaled(Double, x, IF x.xchar = 0 THEN Dnorm(x) ELSE x, lexp)
FDscale(x, lexp) == Scaled(Float, x, IF x.xchar = 0 THEN FDnorm(x) ELSE x, lexp)

(* Drops the bits below 2^-xexp, and reports whether any was set. *)
Drop_bits(f, x, xexp) ==
    LET drop == f.bias + f.bits + 1 - x.xchar - xexp
        low == x.frac % 2 ^ drop
    IN  IF Test(f, x) \in {"nan", "inf", "zero"} THEN [code |-> Test(f, x), x |-> x]
        ELSE IF drop <= 0 THEN [code |-> "zero", x |-> x]
        ELSE IF f.bits + 1 <= drop THEN [code |-> "finite", x |-> Number(x.neg, 0, 0)]
        ELSE [code |-> IF low # 0 THEN "finite" ELSE "zero",
              x |-> [x EXCEPT !.frac = @ - low]]

Dint(x, xexp) == Drop_bits(Double, x, xexp)
FDint(x, xexp) == Drop_bits(Float, x, xexp)

(* 1/2 <= |frac| < 1 and the power of 2. *)
Unscaled(f, x, y) ==
    IF x.xchar = f.max \/ (x.xchar = 0 /\ x.frac = 0)
    THEN [code |-> Test(f, x), x |-> x, exp |-> 0]
    ELSE [code |-> "finite", x |-> [y EXCEPT !.xchar = f.bias], exp |-> y.xchar - f.bias]

Dunscale(x) == Unscaled(Double, x, IF x.xchar = 0 THEN Dnorm(x) ELSE x)
FDunscale(x) == Unscaled(Float, x, IF x.xchar = 0 THEN FDnorm(x) ELSE x)

-----------------------------------------------------------------------------
(* _BitScanReverse: the index of the highest bit set of a positive number. *)
HighBit(v) == CHOOSE i \in 0 .. v : 2 ^ i <= v /\ v < 2 ^ (i + 1)

Floor_of_log_2(v) == HighBit(IF v % 2 = 0 THEN v + 1 ELSE v)
Ceiling_of_log_2(v) == 1 + Floor_of_log_2(v - 1)

(* In halves of Half bits when the machine's word is narrower. *)
Half == 3
Bit_scan_reverse(v, wide) ==
    IF wide THEN (IF v # 0 THEN HighBit(v) + 1 ELSE 0)
    ELSE IF v \div 2 ^ Half # 0 THEN HighBit(v \div 2 ^ Half) + 1 + Half
    ELSE IF v % 2 ^ Half # 0 THEN HighBit(v % 2 ^ Half) + 1
    ELSE 0

-----------------------------------------------------------------------------
(* xxxprec.hpp and xxxdtent.hpp: extended precision as an array of NW      *)
(* floating-point words that carry WordBits bits each (BITS_WORD), largest *)
(* first and ended by a zero, with which _Stod scales by powers of ten.    *)
(* Finite values only; a floating-point number of FBits bits is an integer *)
(* multiple of a small enough power of two, and so an integer here.        *)
FBits == 7
WordBits == FBits \div 2
NW == 4                     \* ACSIZE, and no more than NBUF
BigExp == 1000              \* above every exponent

Abs(v) == IF v < 0 THEN -v ELSE v

(* 2^(Exp - 1) <= |v| < 2^Exp; and what _Dint leaves of v's top bits. *)
Exp(v) == CHOOSE e \in 0 .. 31 : (e = 0 \/ 2 ^ (e - 1) <= Abs(v)) /\ (e = 31 \/ Abs(v) < 2 ^ e)
Top(v, bits) ==
    LET drop == Exp(v) - bits
    IN  IF drop <= 0 THEN v
        ELSE IF bits <= 0 THEN 0
        ELSE IF v < 0 THEN -(2 ^ drop) * ((-v) \div 2 ^ drop)
        ELSE 2 ^ drop * (v \div 2 ^ drop)

(* A sum or product rounded to FBits bits, to nearest and even. *)
Rounded(v) ==
    LET drop == Exp(v) - FBits
        q == Abs(v) \div 2 ^ drop
        r == 2 * (Abs(v) % 2 ^ drop)
        m == IF r > 2 ^ drop \/ (r = 2 ^ drop /\ q % 2 = 1) THEN q + 1 ELSE q
    IN  IF drop <= 0 THEN v ELSE IF v < 0 THEN -(m * 2 ^ drop) ELSE m * 2 ^ drop

Zero == [k \in 1 .. NW |-> 0]

(* The array with word k taken out (COPY_UP). *)
Copy_up(p, k) == [j \in 1 .. NW |-> IF j < k THEN p[j] ELSE IF j < NW THEN p[j + 1] ELSE 0]

(* The array with x inserted at k: the last word falls off when all are    *)
(* in use.                                                                 *)
Insert(p, k, x) == [j \in 1 .. NW |-> IF j < k THEN p[j] ELSE IF j = k THEN x ELSE p[j - 1]]

(* _Xp_addh's loop at word k: x0 still to be added, xexp its exponent,     *)
(* prevexp that of the word before k.                                      *)
RECURSIVE Add_at(_, _, _, _, _)
Add_at(p, k, x0, xexp, prevexp) ==
    LET diff == Exp(p[k]) - xexp
        p1 == [p EXCEPT ![k] = Rounded(@ + x0)]
        p2 == IF p1[k] = 0 THEN Copy_up(p1, k) ELSE p1
        up == Top(p2[k], Exp(p2[k]) - (prevexp - WordBits))
        p3 == [p2 EXCEPT ![k] = @ - up]
        kept == Top(p2[k], WordBits)
        rest == p2[k] - kept
    IN  IF k > NW THEN p
        ELSE IF p[k] = 0
        THEN [j \in 1 .. NW |-> IF j = k THEN x0 ELSE IF j = k + 1 THEN 0 ELSE p[j]]
        ELSE IF diff <= -WordBits /\ x0 # 0
        THEN Add_at(Insert(p, k, x0), k, 0, xexp, prevexp)
        ELSE IF WordBits <= diff /\ x0 # 0
        THEN Add_at(p, k + 1, x0, xexp, Exp(p[k]))
        ELSE IF p2[k] = 0 THEN p2
        ELSE IF prevexp - WordBits < Exp(p2[k])     \* bits go up
        THEN Add_at(IF p3[k] = 0 THEN Copy_up(p3, k) ELSE p3, k - 1, up, Exp(p2[k]),
                    IF k - 1 = 1 THEN BigExp ELSE Exp(p2[k - 2]))
        ELSE IF k = NW THEN p2
        ELSE Add_at([p2 EXCEPT ![k] = kept], k + 1, rest,
                    Exp(IF rest # 0 THEN rest ELSE kept), Exp(p2[k]))

Xp_addh(p, x0) == IF x0 = 0 THEN p ELSE Add_at(p, 1, x0, Exp(x0), BigExp)

(* The words up to the first zero. *)
Used(p) == {k \in 1 .. NW : \A j \in 1 .. k : p[j] # 0}

(* _Xp_mulh: the products of the words, each added by halves. *)
RECURSIVE Add_products(_, _, _, _)
Add_products(p, q, x0, k) ==
    IF k > NW \/ k \notin Used(q) THEN p
    ELSE LET y == Rounded(q[k] * x0)
             y0 == Top(y, WordBits)
         IN  Add_products(Xp_addh(Xp_addh(p, y0), y - y0), q, x0, k + 1)

Xp_mulh(p, x0) == Add_products(Zero, p, x0, 1)

(* _Xp_setw: a full-precision value in two words, or three. *)
Xp_setw(x) ==
    LET p0 == Top(x, WordBits)
        p1 == Top(x - p0, WordBits)
    IN  [k \in 1 .. NW |-> CASE k = 1 -> p0 [] k = 2 -> p1 [] k = 3 -> x - p0 - p1 [] OTHER -> 0]

(* _Xp_setn for a float: an integer that may have more bits than a value.  *)
Chunk == 12                 \* 10000
Xp_setn(x) == Xp_addh(Xp_mulh(Xp_setw(x \div Chunk), Chunk), x % Chunk)

RECURSIVE Add_words(_, _, _)
Add_words(p, q, k) ==
    IF k > NW \/ k \notin Used(q) THEN p ELSE Add_words(Xp_addh(p, q[k]), q, k + 1)

Xp_addx(p, q) == Add_words(p, q, 1)
Xp_subx(p, q) == Add_words(p, [k \in 1 .. NW |-> -q[k]], 1)

RECURSIVE Mul_words(_, _, _, _)
Mul_words(p, px, q, j) ==
    IF j > NW \/ j \notin Used(q) THEN p
    ELSE Mul_words(Xp_addx(p, Xp_mulh(px, q[j])), px, q, j + 1)

Xp_mulx(p, q) ==
    IF q[1] = 0 \/ q[2] = 0 THEN Xp_mulh(p, q[1]) ELSE Mul_words(Xp_mulh(p, q[1]), p, q, 2)

(* _Xp_getw: the total, rounded once. *)
Xp_getw(p) ==
    LET p01 == Rounded(p[1] + p[2])
        p2 == Rounded(p[3] + p[4])
    IN  IF p[1] = 0 \/ p[2] = 0 THEN p[1]
        ELSE IF p[3] = 0 THEN p01
        ELSE IF p01 - p[1] = p[2] THEN Rounded(p01 + p2)
        ELSE Rounded(p[1] + Rounded(p[2] + p2))

(* _Dtento works on words below 1 too: words with the exponent of their    *)
(* unit.  _Xp_ldexpx moves only that: exponents have no bounds here, so    *)
(* that no word vanishes and no result is out of range.                    *)
Words(p, unit) == [p |-> p, unit |-> unit]
Ten == Words(Xp_setw(10), 0)
tenth == Words(<<6 * 512, 3 * 64, 1 * 8, 4>>, -15)     \* WordBits bits of 1/10 each
Bias == NW * WordBits
Xp_ldexpx(x, m) == [x EXCEPT !.unit = @ + m]
Times(x, f) == Words(Xp_mulx(x.p, f.p), x.unit + f.unit)

(* The factor, squared for every bit of n. *)
RECURSIVE Scale(_, _, _)
Scale(x, f, n) ==
    LET y == IF n % 2 = 1 THEN Times(x, f) ELSE x
    IN  IF n \div 2 = 0 THEN y ELSE Scale(y, Times(f, f), n \div 2)

Dtento(p, n) ==
    LET x == Words(p, 0)
        r == CASE n = 0 \/ p[1] = 0 -> x
               [] n > 0 -> Scale(x, Ten, n)
               [] OTHER -> Xp_ldexpx(Scale(Xp_ldexpx(x, Bias), tenth, -n), -Bias)
    IN  [v |-> Xp_getw(r.p), unit |-> r.unit]

-----------------------------------------------------------------------------
(* multprec.cpp, the arithmetic of linear_congruential_engine when no      *)
(* integer type holds the product: arrays of MPLen words below MaxVal kept *)
(* in integers that hold a product of two words (Ull values).              *)
MPLen == 5
MaxVal == 4                 \* 2^shift, for 2^32
Ull == MaxVal * MaxVal      \* an unsigned long long wraps here

Word(x) == x % MaxVal       \* & mask
High(x) == x \div MaxVal    \* >> shift
TwoWords(x) == [i \in 0 .. 1 |-> IF i = 0 THEN Word(x) ELSE High(x)]

MP_Get(u) == (u[1] * MaxVal + u[0]) % Ull

(* add at offset j: vlen words, then the carry while there is one. *)
RECURSIVE Add(_, _, _, _, _, _, _)
Add(u, j, ulen, v, vlen, i, k) ==
    IF i < vlen
    THEN LET t == (u[j + i] + v[i] + k) % Ull
         IN  Add([u EXCEPT ![j + i] = Word(t)], j, ulen, v, vlen, i + 1, High(t))
    ELSE IF k # 0 /\ i < ulen
    THEN LET t == (u[j + i] + k) % Ull
         IN  Add([u EXCEPT ![j + i] = Word(t)], j, ulen, v, vlen, i + 1, High(t))
    ELSE u

MP_Add(u, v0) == Add(u, 0, MPLen, TwoWords(v0), 2, 0, 0)

(* mul: every word times v0, the carry passed on and the last one dropped. *)
Mul(u, ulen, v0) ==
    LET t[i \in 0 .. ulen - 1] ==
            (u[i] * v0 + (IF i = 0 THEN 0 ELSE High(t[i - 1]))) % Ull
    IN  [i \in DOMAIN u |-> IF i < ulen THEN Word(t[i]) ELSE u[i]]

(* The inner loop of _MP_Mul: u * v[j] added to w from word j on. *)
RECURSIVE Mul_row(_, _, _, _, _, _)
Mul_row(w, u, vj, j, i, k) ==
    IF i = 2 THEN [w EXCEPT ![i + j] = k]
    ELSE LET t == (u[i] * vj + w[i + j] + k) % Ull
         IN  Mul_row([w EXCEPT ![i + j] = Word(t)], u, vj, j, i + 1, High(t))

MP_Mul(u0, v0) ==
    LET u == TwoWords(u0)
        v == TwoWords(v0)
        zero == [i \in 0 .. MPLen - 1 |-> 0]
        row(w, j) == IF v[j] = 0 THEN [w EXCEPT ![j + 2] = 0] ELSE Mul_row(w, u, v[j], j, 0, 0)
    IN  row(row(zero, 0), 1)

(* div: from the highest word down, the remainder passed on. *)
Div(u, v0) ==
    LET rem[i \in 0 .. MPLen] ==
            IF i = MPLen THEN 0 ELSE (rem[i + 1] * MaxVal + u[i]) % v0
    IN  [i \in 0 .. MPLen - 1 |-> (rem[i + 1] * MaxVal + u[i]) \div v0]

(* The words up to the last that is not zero.  Nothing stops the loop at   *)
(* the first word: of zeros alone it goes on with what lies before the     *)
(* array, by so many words as happen to be zero (below).                   *)
Limit(u, ulen, below) ==
    LET nonzero == {n \in 1 .. ulen : u[n - 1] # 0}
    IN  IF nonzero = {} THEN -below ELSE CHOOSE n \in nonzero : \A i \in nonzero : i <= n

(* D3: the tentative quotient qh, lowered while it is seen to be too large.*)
RECURSIVE Guess(_, _, _, _, _)
Guess(qh, rh, u, v, j) ==
    IF qh < MaxVal /\ (qh * v[0]) % Ull <= (rh * MaxVal + u[j]) % Ull THEN qh
    ELSE IF rh + v[1] >= MaxVal THEN qh - 1
    ELSE Guess(qh - 1, rh + v[1], u, v, j)

Borrow(t) == IF High(t) = 0 THEN 0 ELSE MaxVal - High(t)

(* D4: u - qh * v from word j on, the borrow passed on; the last is k. *)
RECURSIVE Subtract(_, _, _, _, _, _)
Subtract(u, v, qh, j, i, k) ==
    IF i < 2
    THEN LET t == (u[j + i] - (qh * v[i] + k)) % Ull
         IN  Subtract([u EXCEPT ![j + i] = Word(t)], v, qh, j, i + 1, Borrow(t))
    ELSE IF k # 0 /\ j + i < MPLen
    THEN LET t == (u[j + i] - k) % Ull
         IN  Subtract([u EXCEPT ![j + i] = Word(t)], v, qh, j, i + 1, Borrow(t))
    ELSE [u |-> u, k |-> k]

(* D2 to D7: the words of the quotient from j down. *)
RECURSIVE Divide(_, _, _)
Divide(u, v, j) ==
    IF j < 0 THEN u
    ELSE LET top == (u[j + 2] * MaxVal + u[j + 1]) % Ull
             r == Subtract(u, v, Guess(top \div v[1], top % v[1], u, v, j), j, 0, 0)
         IN  Divide(IF top \div v[1] = 0 THEN u
                    ELSE IF r.k # 0 THEN Add(r.u, j, 3, v, 2, 0, 0) ELSE r.u, v, j - 1)

(* _MP_Rem: Knuth's Algorithm D, for a divisor of two words (n = 2): the   *)
(* engine takes this path only for a modulus of more than one word.        *)
MP_Rem(u, v0, below) ==
    LET v == TwoWords(v0)
        m == Limit(u, MPLen, below) - Limit(v, 2, below)
        d == MaxVal \div (v[1] + 1)
    IN  IF d = 1 THEN Divide(u, v, m)
        ELSE Div(Divide(Mul(u, MPLen, d), Mul(v, 2, d), m), d)

(* _Next_linear_congruential_value, where an unsigned int has one word.    *)
Next_linear_congruential_value(prev, a, c, m, below) ==
    IF a = 0 THEN c
    ELSE IF m = 0 THEN (a * prev + c) % Ull
    ELSE IF c < Ull /\ m - 1 <= (Ull - 1 - c) \div a
    THEN ((prev * a + c) % Ull) % m
    ELSE MP_Get(MP_Rem(MP_Add(MP_Mul(prev, a), c), m, below))

=============================================================================
