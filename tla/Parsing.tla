-------------------------------- MODULE Parsing --------------------------------
(***************************************************************************)
(* The library's number parsers (_Stoul, _Stoull, _Stol, _Stoll and the    *)
(* parts of _Stod and _WStod that read the text), as functions of their    *)
(* input.  Text is a sequence of one-character strings, pointers are       *)
(* indexes into it; the widths are scaled down.                            *)
(***************************************************************************)
EXTENDS Integers, Sequences

Nul == "NUL"
Digits == <<"0", "1", "2", "3", "4", "5", "6", "7", "8", "9", "a", "b", "c",
            "d", "e", "f", "g", "h", "i", "j", "k", "l", "m", "n", "o", "p",
            "q", "r", "s", "t", "u", "v", "w", "x", "y", "z">>
Capitals == <<"A", "B", "C", "D", "E", "F", "G", "H", "I", "J", "K", "L", "M",
              "N", "O", "P", "Q", "R", "S", "T", "U", "V", "W", "X", "Y", "Z">>
BaseMax == 36
LongBits == 6           \* of an unsigned long, 32
LongLongBits == 7       \* 64
NLONG == 2              \* words of digits in lo
Ndig == 1               \* digits of a word: 9 decimal, 7 hexadecimal
CapExp == 10            \* an exponent stops growing here

At(s, i) == IF i \in DOMAIN s THEN s[i] ELSE Nul

ToLower(c) ==
    IF \E i \in DOMAIN Capitals : Capitals[i] = c
    THEN Digits[10 + CHOOSE i \in DOMAIN Capitals : Capitals[i] = c] ELSE c

(* memchr(digits, tolower(c), base), and the digit's value. *)
IsDigit(c, base) == \E i \in 1 .. base : Digits[i] = ToLower(c)
Digit(c) == (CHOOSE i \in DOMAIN Digits : Digits[i] = ToLower(c)) - 1

(* The first index from i on whose character is not (does not satisfy) P. *)
SkipWhile(s, i, P(_)) ==
    CHOOSE j \in i .. Len(s) + 1 :
        /\ j = Len(s) + 1 \/ ~P(s[j])
        /\ \A k \in i .. j - 1 : P(s[k])

IsSpace(c) == c = " "
IsSign(c) == c \in {"+", "-"}
IsHexMark(s, i) == At(s, i) = "0" /\ ToLower(At(s, i + 1)) = "x"

(* The table ndigs: how many digits 2^W has in a base. *)
NDigs(base, W) == CHOOSE n \in 1 .. W + 1 : base ^ (n - 1) <= 2 ^ W /\ 2 ^ W < base ^ n

-----------------------------------------------------------------------------
(* The test for overflow, from the last digit and the value before it. *)
Overflowed(n, x, y, dig, base, W) ==
    LET less == (x - dig) % 2 ^ W
    IN  n >= 0 /\ (n > 0 \/ x < less \/ less \div base # y)

(* The value, where parsing stopped and *perr; end is 1 when nothing was   *)
(* parsed.                                                                 *)
Unsigned(s, base0, W) ==
    LET a == SkipWhile(s, 1, IsSpace)
        b == IF IsSign(At(s, a)) THEN a + 1 ELSE a
        base == IF base0 > 0 THEN base0
                ELSE IF At(s, b) # "0" THEN 10
                ELSE IF IsHexMark(s, b) THEN 16 ELSE 8
        s1 == IF base = 16 /\ IsHexMark(s, b) THEN b + 2 ELSE b
        s2 == SkipWhile(s, s1, LAMBDA c : c = "0")
        sc == SkipWhile(s, s2, LAMBDA c : IsDigit(c, base))
        \* x after the digits before i
        acc[i \in s2 .. sc] ==
            IF i = s2 THEN 0 ELSE (acc[i - 1] * base + Digit(s[i - 1])) % 2 ^ W
        x == acc[sc]
        y == IF sc = s2 THEN 0 ELSE acc[sc - 1]
        dig == IF sc = s2 THEN 0 ELSE Digit(s[sc - 1])
    IN  IF base0 < 0 \/ base0 = 1 \/ BaseMax < base0 \/ s1 = sc
        THEN [value |-> 0, end |-> 1, err |-> FALSE]
        ELSE IF Overflowed(sc - s2 - NDigs(base, W), x, y, dig, base, W)
        THEN [value |-> 2 ^ W - 1, end |-> sc, err |-> TRUE]
        ELSE [value |-> IF At(s, a) = "-" THEN (0 - x) % 2 ^ W ELSE x,
              end |-> sc, err |-> FALSE]

Stoulx(s, base) == Unsigned(s, base, LongBits)
Stoullx(s, base) == Unsigned(s, base, LongLongBits)

(* The rest is parsed with the unsigned parser, its sign included. *)
Signed(s, base, W) ==
    LET a == SkipWhile(s, 1, IsSpace)
        sc == IF IsSign(At(s, a)) THEN a + 1 ELSE a
        neg == At(s, a) = "-"
        u == Unsigned(SubSeq(s, sc, Len(s)), base, W)
        end == IF u.end = 1 THEN 1 ELSE sc + u.end - 1
        limit == IF neg THEN 2 ^ (W - 1) ELSE 2 ^ (W - 1) - 1
    IN  IF (end = 1 /\ u.value # 0) \/ u.value > limit
        THEN [value |-> IF neg THEN -limit ELSE limit, end |-> end, err |-> TRUE]
        ELSE [value |-> IF neg THEN -u.value ELSE u.value, end |-> end, err |-> u.err]

Stolx(s, base) == Signed(s, base, LongBits)
Stollx(s, base) == Signed(s, base, LongLongBits)

-----------------------------------------------------------------------------
Matches(s, i, word) ==
    \A k \in DOMAIN word : ToLower(At(s, i + k - 1)) = word[k]

(* What kind of field follows, and where it begins (for nan and inf, where *)
(* it ends).                                                               *)
Stopfx(s) ==
    LET a == SkipWhile(s, 1, IsSpace)
        b == IF IsSign(At(s, a)) THEN a + 1 ELSE a
        neg == At(s, a) = "-"
        q == SkipWhile(s, b + 4, LAMBDA c : IsDigit(c, BaseMax) \/ c = "_")
        h == IF At(s, b + 2) = "." THEN b + 3 ELSE b + 2
    IN  IF ToLower(At(s, b)) = "n"
        THEN IF ~Matches(s, b, <<"n", "a", "n">>)
             THEN [code |-> "err", neg |-> FALSE, at |-> 1]
             ELSE [code |-> "nan", neg |-> FALSE,
                   at |-> IF At(s, b + 3) = "(" /\ At(s, q) = ")" THEN q + 1 ELSE b + 3]
        ELSE IF ToLower(At(s, b)) = "i"
        THEN IF ~Matches(s, b, <<"i", "n", "f">>)
             THEN [code |-> "err", neg |-> FALSE, at |-> 1]
             ELSE [code |-> "inf", neg |-> neg,
                   at |-> IF Matches(s, b + 3, <<"i", "n", "i", "t", "y">>)
                          THEN b + 8 ELSE b + 3]
        ELSE IF IsHexMark(s, b) /\ IsDigit(At(s, h), 16)
        THEN [code |-> "hex", neg |-> neg, at |-> b + 2]
        ELSE [code |-> "dec", neg |-> neg, at |-> b]

(* The same on wide characters. *)
WStopfx(s) == Stopfx(s)

-----------------------------------------------------------------------------
Value(ds, base) ==
    LET v[i \in 0 .. Len(ds)] == IF i = 0 THEN 0 ELSE v[i - 1] * base + ds[i]
    IN  v[Len(ds)]

(* How the digits past maxsig are discarded: _Stoflt notes in sticky that  *)
(* one of them was not zero, the three others round at the first of them.  *)
(* A digit may become base.                                                *)
Round_off(ds, base, maxsig, rounds) ==
    IF Len(ds) <= maxsig THEN [ds |-> ds, scaled |-> 0]
    ELSE LET kept == SubSeq(ds, 1, maxsig)
             up == IF rounds THEN ds[maxsig + 1] >= base \div 2
                   ELSE \E i \in maxsig + 1 .. Len(ds) : ds[i] # 0
         IN  [ds |-> IF up THEN [kept EXCEPT ![maxsig] = @ + 1] ELSE kept,
              scaled |-> Len(ds) - maxsig]

(* The words lo[1 ..]: Ndig digits each, the first what is left over. *)
Words(ds, base) ==
    LET n == (Len(ds) + Ndig - 1) \div Ndig
    IN  [w \in 1 .. n |->
            LET last == Len(ds) - (n - w) * Ndig
                first == last - Ndig + 1
            IN  Value(SubSeq(ds, IF first < 1 THEN 1 ELSE first, last), base)]

(* The exponent after the mark at e: its value, and where it ends (at e,   *)
(* rolled back, when no digit follows).                                    *)
Exponent(s, e, mark) ==
    LET g == IF IsSign(At(s, e + 1)) THEN e + 2 ELSE e + 1
        d == SkipWhile(s, g, LAMBDA c : IsDigit(c, 10))
        lexp[i \in g .. d] ==
            IF i = g THEN 0
            ELSE IF lexp[i - 1] < CapExp THEN lexp[i - 1] * 10 + Digit(s[i - 1])
            ELSE lexp[i - 1]
    IN  IF ToLower(At(s, e)) # mark \/ d = g THEN [exp |-> 0, end |-> e]
        ELSE [exp |-> IF At(s, e + 1) = "-" THEN -lexp[d] ELSE lexp[d], end |-> d]

(* The words from i on and the exponent lo[0], of base or of 2 when base is *)
(* 16.                                                                     *)
Number(s, i, base, rounds) ==
    LET IsD(c) == IsDigit(c, base)
        IsZero(c) == c = "0"
        z == SkipWhile(s, i, IsZero)
        p == SkipWhile(s, z, IsD)
        f0 == IF At(s, p) = "." THEN p + 1 ELSE p
        f == IF p = z THEN SkipWhile(s, f0, IsZero) ELSE f0
        e == SkipWhile(s, f, IsD)
        seen == p > i \/ e > f0
        text == SubSeq(s, z, p - 1) \o SubSeq(s, f, e - 1)
        r == Round_off([k \in DOMAIN text |-> Digit(text[k])], base, NLONG * Ndig, rounds)
        \* trailing zeros go; at least one digit stays
        n == CHOOSE k \in 0 .. Len(r.ds) :
                /\ k = 0 \/ r.ds[k] # 0
                /\ \A j \in k + 1 .. Len(r.ds) : r.ds[j] = 0
        kept == IF n = 0 THEN <<0>> ELSE SubSeq(r.ds, 1, n)
        lo0 == r.scaled - (e - f0) + Len(r.ds) - n
        x == Exponent(s, e, IF base = 16 THEN "p" ELSE "e")
    IN  IF ~seen THEN [words |-> <<>>, exp |-> 0, end |-> 1]
        ELSE [words |-> Words(kept, base),
              exp |-> (IF base = 16 THEN 4 * lo0 ELSE lo0) + x.exp, end |-> x.end]

Stoflt(s, i) == Number(s, i, 10, FALSE)
WStoflt(s, i) == Number(s, i, 10, TRUE)
Stoxflt(s, i) == Number(s, i, 16, TRUE)
WStoxflt(s, i) == Number(s, i, 16, TRUE)

(* _Stodx and its siblings: x = x * base^Ndig + word over the words, scaled*)
(* by _Dtento; the result is m * 10^e (or m * 2^e), signed.                *)
Stodx(s, wide) ==
    LET c == IF wide THEN WStopfx(s) ELSE Stopfx(s)
        hex == c.code = "hex"
        lo == CASE hex /\ wide -> WStoxflt(s, c.at)
                [] hex /\ ~wide -> Stoxflt(s, c.at)
                [] ~hex /\ wide -> WStoflt(s, c.at)
                [] OTHER -> Stoflt(s, c.at)
    IN  IF c.code \in {"dec", "hex"}
        THEN [code |-> c.code, neg |-> c.neg, end |-> lo.end, exp |-> lo.exp,
              words |-> Len(lo.words),
              m |-> Value(lo.words, (IF hex THEN 16 ELSE 10) ^ Ndig)]
        ELSE [code |-> c.code, neg |-> c.neg, end |-> c.at, exp |-> 0,
              words |-> 0, m |-> 0]

=============================================================================
