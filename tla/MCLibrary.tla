------------------------------- MODULE MCLibrary -------------------------------
(***************************************************************************)
(* The rest of the library and its tools, one component in each behaviour: *)
(* the level of the wait functions, thread start and exit, the tasks that  *)
(* outlive main, exception_ptr, locales, the files of <filesystem>,        *)
(* opening the file of a stream, the library's own locks, the standard     *)
(* streams, <syncstream>, the parallel runner of stljobs.h and its pipes,  *)
(* and the pure algorithms, each against a reference definition of what it *)
(* computes.  part says which one runs; the others stay as they are.       *)
(***************************************************************************)
EXTENDS WaitFunctions, Parsing, SequencesExt

CONSTANTS
    TwoThreads,
    ExitMutexes, Nitems, MaxBlocks,
    Hosts,
    Heap, Images, MaxThrows,
    MaxImps, LocaleNames,
    MaxOthers, MaxPath,
    JobSlots,
    MaxWrites,
    MaxDepth, Nats,
    MaxObjects,
    Buffers, Movers, MaxMade, MaxPending

VARIABLES
    part,
    table, owed, mtx, started, signalled, binder, current, xPc,
    host, resolves, Outstanding_tasks, main, woken, sPc, loaded, left,
    handled, ptr, uses, eSize, eHeld, copies, ePc, dying, throws,
    cH, cLoc, old, crt,
    dir, obj, oldSystem, others, fPc, call, held, stats, todo, fRoom, ret, did, late, fSeen,
    zIdx, failed, exit, commands, nextCommandToRun, runningConcurrency, commandRunning,
    process, job, completed, results, starts, wmain,
    running, io, pBytes, buffered, written, budget, validTill, cb, caller, child,
    algorithm, input,
    mode, file, oOthers, oPc, fp, before, lost, since, refused,
    phase, order, init, live, stack, kOwner, depth, atfuns, ran,
    tWide, tPtr, tie, Init_cnt, objects, unflushed,
    Lookup_map, yOwner, Wrapped, Mutex, yData, Sync_recorded, yPc, this, yThen, put, made,
    leaked, fate

exitVars == <<table, owed, mtx, started, signalled, binder, current, xPc>>
taskVars == <<host, resolves, Outstanding_tasks, main, woken, sPc, loaded, left>>
exceptionVars == <<handled, ptr, uses, eSize, eHeld, copies, ePc, dying, throws>>
localeVars == <<cH, cLoc, old, crt>>
fileVars == <<dir, obj, oldSystem, others, fPc, call, held, stats, todo, fRoom, ret, did, late, fSeen>>
runnerVars == <<zIdx, failed, exit, commands, nextCommandToRun, runningConcurrency, commandRunning,
                process, job, completed, results, starts, wmain>>
pipeVars == <<running, io, pBytes, buffered, written, budget, validTill, cb, caller, child>>
inputVars == <<algorithm, input>>
openVars == <<mode, file, oOthers, oPc, fp, before, lost, since, refused>>
ownLockVars == <<phase, order, init, live, stack, kOwner, depth, atfuns, ran>>
standardVars == <<tWide, tPtr, tie, Init_cnt, objects, unflushed>>
syncVars == <<Lookup_map, yOwner, Wrapped, Mutex, yData, Sync_recorded, yPc, this, yThen, put, made,
              leaked, fate>>
streamVars == <<openVars, ownLockVars, standardVars, syncVars>>
otherVars == <<levelVars, exitVars, taskVars, exceptionVars, localeVars, fileVars,
               runnerVars, pipeVars, inputVars>>
library == <<part, otherVars, streamVars>>

-----------------------------------------------------------------------------
(* The pure algorithms, and their inputs up to the bounds.                 *)
R == INSTANCE Ryu
M == INSTANCE Arithmetic
V == INSTANCE VectorAlgorithms
G == INSTANCE LocaleText
J == INSTANCE Tools WITH
        Found <- <<"root", "file", "skipped", "file", "directory", "file", "file">>,
        Entries <- JobSlots, idx <- zIdx, result <- results, main <- wmain

IntegerText == {" ", "-", "0", "1", "9", "a", "X"}
MaxInteger == 4
FloatText == {"0", "4", "9", ".", "e", "-"}
MaxFloat == 5
HexText == {"0", "7", "f", ".", "P", "-"}
PrefixText == {" ", "-", "n", "A", "(", "_", ")", "i", "F", "t", "y", "0", "x", ".", "e"}
PrefixWords ==
    {<<"-", "n", "A", "n", "(", "_", "0", ")">>, <<" ", "i", "n", "F">>,
     <<"-", "i", "n", "F", "i", "n", "i", "t", "y">>, <<"0", "x", ".", "F">>}

Halves == {v \in -48 .. 48 : v # 0 /\ M!Top(v, M!WordBits) = v}
MaxAddends == 3
MaxBytes == 150
LocaleBytes == {0, 1, 2, 3, G!Lead}
MaxText == 3
MultiBytes == {0, 64, 65, 128, 129, 159, 160, 191, 193, 194, 224, 237, 240, 255}
WideCharacters == UNION {n - 2 .. n + 2 : n \in {2, 128, 256, 2048, 129 * 256 + 64, 55296, 57343, 65533}}

FileText == {J!CR, J!LF, J!Space, J!Tab, J!Bom, J!Control, "x"}
MaxFile == 4
CommandText == {J!Space, "\"", "x"}
Entries == [depth : 0 .. 2, kind : {"file", "directory", "other"}, skipped : BOOLEAN]
MaxEntries == 4

AtMost(set, n) == UNION {[1 .. k -> set] : k \in 0 .. n}
Trees ==
    {tree \in AtMost(Entries, MaxEntries) :
        \A i \in DOMAIN tree :
            tree[i].depth <= IF i = 1 THEN 0
                             ELSE tree[i - 1].depth + IF tree[i - 1].kind = "directory" THEN 1 ELSE 0}
Printed == [m : 0 .. 2 ^ R!MBits - 1, e : 0 .. R!ExpMax]

Inputs ==
    [integer |-> AtMost(IntegerText, MaxInteger),
     decimal |-> AtMost(FloatText, MaxFloat),
     hex |-> {<<"0", "x">> \o s : s \in AtMost(HexText, MaxFloat - 1)},
     prefix |-> {Append(s, c) : s \in UNION {Prefixes(w) : w \in PrefixWords}, c \in PrefixText},
     precision |-> Printed, shortest |-> Printed,
     engine |-> 0 .. M!Ull - 1, double |-> M!Numbers(M!Double), float |-> M!Numbers(M!Float),
     addends |-> AtMost(Halves, MaxAddends),
     text |-> AtMost(LocaleBytes, MaxText), multibyte |-> AtMost(MultiBytes, MaxText + 1),
     file |-> AtMost(FileText, MaxFile), command |-> AtMost(CommandText, MaxFile + 2),
     tree |-> Trees, bytes |-> 0 .. MaxBytes]

-----------------------------------------------------------------------------
Bases == {-1, 0, 1, 2, 10, 16, 36, 37}

(* What an integer parser promises: where its field of blanks, sign and    *)
(* prefix ends, the digits that follow, and their value as a number.       *)
Body(s) ==
    LET a == SkipWhile(s, 1, IsSpace) IN IF IsSign(At(s, a)) THEN a + 1 ELSE a
BaseOf(s, base) ==
    IF base # 0 THEN base
    ELSE IF At(s, Body(s)) # "0" THEN 10
    ELSE IF IsHexMark(s, Body(s)) THEN 16 ELSE 8
Field(s, base) ==
    LET b == IF base = 16 /\ IsHexMark(s, Body(s)) THEN Body(s) + 2 ELSE Body(s)
        n == CHOOSE n \in 0 .. Len(s) - b + 1 :
                /\ \A i \in b .. b + n - 1 : IsDigit(s[i], base)
                /\ b + n <= Len(s) => ~IsDigit(s[b + n], base)
    IN  [digits |-> [i \in 1 .. n |-> Digit(s[b + i - 1])], end |-> b + n]
Negative(s) == At(s, SkipWhile(s, 1, IsSpace)) = "-"

(* An unsigned parser returns the field's value modulo 2^Width when it     *)
(* fits and the largest value with an error when it does not, and consumes *)
(* the field; a signed one does so against its own limits, on text with    *)
(* one sign.                                                               *)
IntegersAgree(in) ==
    \A base \in Bases, Width \in {LongBits, LongLongBits} :
        LET valid == base = 0 \/ base \in 2 .. 36
            f == Field(in, BaseOf(in, base))
            exact == Value(f.digits, BaseOf(in, base))
            signed == IF Negative(in) THEN -exact ELSE exact
            u == IF Width = LongBits THEN Stoulx(in, base) ELSE Stoullx(in, base)
            l == IF Width = LongBits THEN Stolx(in, base) ELSE Stollx(in, base)
            none == [value |-> 0, end |-> 1, err |-> FALSE]
            low == -(2 ^ (Width - 1))
            high == 2 ^ (Width - 1) - 1
        IN  IF ~valid \/ f.digits = <<>>
            THEN u = none
            ELSE /\ u = [value |-> IF exact >= 2 ^ Width THEN 2 ^ Width - 1
                                   ELSE signed % 2 ^ Width,
                         end |-> f.end, err |-> exact >= 2 ^ Width]
                 /\ l = [value |-> IF signed < low THEN low
                                   ELSE IF signed > high THEN high ELSE signed,
                         end |-> f.end, err |-> signed \notin low .. high]

-----------------------------------------------------------------------------
(* The number a decimal or hexadecimal text denotes is n * base^e; sig are *)
(* its significant digits.                                                 *)
Denoted(s, i, base) ==
    LET p == SkipWhile(s, i, LAMBDA c : IsDigit(c, base))
        q == IF At(s, p) = "." THEN p + 1 ELSE p
        r == SkipWhile(s, q, LAMBDA c : IsDigit(c, base))
        text == SubSeq(s, i, p - 1) \o SubSeq(s, q, r - 1)
        z == SkipWhile(text, 1, LAMBDA c : c = "0")
    IN  [n |-> Value([k \in DOMAIN text |-> Digit(text[k])], base),
         e |-> -(r - q), sig |-> Len(text) - z + 1, digits |-> text # <<>>, at |-> r]

(* What is parsed of a number is exact while its significant digits fit    *)
(* the words, and otherwise off by less than one unit of the last digit    *)
(* kept (upwards, from _Stoflt) or at most half of one (from the others);  *)
(* the words never outgrow the array lo.                                   *)
FloatsAgree(in) ==
    \A wide \in BOOLEAN :
        LET c == Stopfx(in)
            base == IF c.code = "hex" THEN 16 ELSE 10
            x == Stodx(in, wide)
            d == Denoted(in, c.at, base)
            ex == Exponent(in, d.at, IF base = 16 THEN "p" ELSE "e")
            e == IF base = 16 THEN (x.exp - ex.exp) \div 4 ELSE x.exp - ex.exp
            unit == base ^ (IF d.sig > NLONG * Ndig THEN d.sig - NLONG * Ndig ELSE 0)
            off == x.m * base ^ (e - d.e) - d.n
        IN  /\ x.words <= NLONG
            /\ c.code \in {"dec", "hex"} /\ d.digits /\ d.n # 0 =>
                /\ x.end = ex.end
                /\ IF wide \/ base = 16 THEN 2 * off <= unit /\ -2 * off <= unit
                   ELSE 0 <= off /\ off < unit
            /\ c.code \in {"dec", "hex"} /\ ~d.digits => x.end = 1

(* A field that _Stopfx takes for hexadecimal has a digit for _Stoxflt to  *)
(* read, and a name it accepts is consumed whole: never a part of infinity *)
(* or an unclosed parenthesis.                                             *)
PrefixesAgree(in) ==
        LET c == Stopfx(in)
            rest == SubSeq(in, Body(in), c.at - 1)
            low == [i \in DOMAIN rest |-> ToLower(rest[i])]
        IN  /\ c.at <= Len(in) + 1
            /\ c.code = "hex" => Denoted(in, c.at, 16).digits
            /\ c.code = "inf" => low \in {<<"i", "n", "f">>,
                     <<"i", "n", "f", "i", "n", "i", "t", "y">>}
            /\ c.code = "nan" =>
                    /\ SubSeq(low, 1, 3) = <<"n", "a", "n">>
                    /\ Len(low) > 3 => low[4] = "(" /\ low[Len(low)] = ")"
                    /\ \A i \in 5 .. Len(low) - 1 : low[i] = "_" \/ IsDigit(low[i], 36)

-----------------------------------------------------------------------------
(* The number printed is num / den. *)
D(in) == R!Decode(in.m, in.e)
Num(in) == IF D(in).e2 >= 0 THEN D(in).m2 * 2 ^ D(in).e2 ELSE D(in).m2
Den(in) == IF D(in).e2 >= 0 THEN 1 ELSE 2 ^ (-D(in).e2)
Pow(n) == IF n >= 0 THEN 10 ^ n ELSE 1
Most == 2 * 10 ^ 9          \* what TLC's integers hold

Nearest(n, d) ==
    LET q == n \div d
        r == n % d
    IN  IF 2 * r < d \/ (2 * r = d /\ q % 2 = 0) THEN q ELSE q + 1

(* The decimal exponent of a number that is not zero. *)
Ilog(in) ==
    IF Num(in) >= Den(in) THEN CHOOSE x \in 0 .. 6 : (Num(in) \div 10 ^ x) \div Den(in) \in 1 .. 9
    ELSE CHOOSE x \in -5 .. -1 : (Num(in) * 10 ^ (-x)) \div Den(in) \in 1 .. 9

Text(n) == R!append_n_digits(R!decimalLength(n), n)
ExpText(x) == <<R!E, IF x < 0 THEN R!Minus ELSE R!Plus,
                (IF x < 0 THEN -x ELSE x) \div 10, (IF x < 0 THEN -x ELSE x) % 10>>

FixedText(in, p) ==
    LET n == Nearest(Num(in) * 10 ^ p, Den(in))
    IN  Text(n \div 10 ^ p)
            \o IF p = 0 THEN <<>> ELSE <<R!Dot>> \o R!append_n_digits(p, n % 10 ^ p)

ScientificText(in, p) ==
    IF Num(in) = 0 THEN R!Pointed(R!Zeros(p + 1), p > 0) \o ExpText(0)
    ELSE LET n == Nearest(Num(in) * Pow(p - Ilog(in)), Den(in) * Pow(Ilog(in) - p))
             over == n = 10 ^ (p + 1)
         IN  R!Pointed(R!append_n_digits(p + 1, IF over THEN 10 ^ p ELSE n), p > 0)
                \o ExpText(IF over THEN Ilog(in) + 1 ELSE Ilog(in))

(* Exactly this text when it fits in the buffer, and otherwise an error. *)
Prints(out(_), text) == out(Len(text)) = text /\ out(Len(text) - 1) = R!TooLarge

Wanted(p) == IF p < 0 THEN 6 ELSE p

(* to_chars with a precision prints the number's exact decimal expansion   *)
(* rounded to nearest, ties to even, and nothing in a buffer one character *)
(* too short.                                                              *)
PrecisionExact(in) ==
        /\ \A p \in {p \in -1 .. 6 : Num(in) <= Most \div 10 ^ Wanted(p)} :
              LET Out(room) == R!Floating_to_chars_fixed_precision(in.m, in.e, p, room)
              IN  Prints(Out, FixedText(in, Wanted(p)))
        /\ \A p \in -1 .. 5 :
              LET q == Wanted(p) - Ilog(in)
                  Out(room) == R!Floating_to_chars_scientific_precision(in.m, in.e, p, room)
              IN  Num(in) = 0 \/ q < 0 \/ (q <= 9 /\ Num(in) <= Most \div 10 ^ q) =>
                      Prints(Out, ScientificText(in, Wanted(p)))

-----------------------------------------------------------------------------
(* The decimals c * 10^k that read back as the number: those between the   *)
(* midpoints to its neighbours, the midpoints too when it is even.         *)
Below(in) == 4 * D(in).m2 - (IF in.m # 0 \/ in.e <= 1 THEN 2 ELSE 1)
Above(in) == 4 * D(in).m2 + 2
Scale2(in) == IF D(in).e2 >= 2 THEN 2 ^ (D(in).e2 - 2) ELSE 1
Den2(in) == IF D(in).e2 >= 2 THEN 1 ELSE 2 ^ (2 - D(in).e2)

Decimals(in, k) ==
    LET low == Below(in) * Scale2(in) * Pow(-k)
        high == Above(in) * Scale2(in) * Pow(-k)
        unit == Pow(k) * Den2(in)
    IN  {c \in low \div unit .. high \div unit + 1 :
            /\ c > 0
            /\ IF D(in).m2 % 2 = 0 THEN low <= c * unit /\ c * unit <= high
               ELSE low < c * unit /\ c * unit < high}

Distance(in, c, k) == M!Abs(c * Pow(k) * Den2(in) - 4 * D(in).m2 * Scale2(in) * Pow(-k))

(* Of the shortest ones the nearest, and the even one of two. *)
Shortest(in) ==
    LET ks == Ilog(in) - 3 .. Ilog(in) + 1
        k == CHOOSE k \in ks : Decimals(in, k) # {} /\ \A j \in ks : j > k => Decimals(in, j) = {}
        cs == Decimals(in, k)
    IN  [mantissa |-> CHOOSE c \in cs : \A b \in cs \ {c} :
                        \/ Distance(in, c, k) < Distance(in, b, k)
                        \/ Distance(in, c, k) = Distance(in, b, k) /\ c % 2 = 0,
         exponent |-> k]

PlainText(in, b) ==
    LET n == R!decimalLength(b.mantissa)
        t == R!append_n_digits(IF n > -b.exponent THEN n ELSE 1 - b.exponent, b.mantissa)
    IN  IF b.exponent >= 0 THEN Text(Num(in) \div Den(in))
        ELSE InsertAt(t, Len(t) + b.exponent + 1, R!Dot)

(* 128-bit products from 64-bit ones are the products.  (A lower bound is  *)
(* doubled only for the least mantissa, and doubling loses a carry when    *)
(* the middle word is all ones: no entry of the tables makes it so.)       *)
ProductsAgree ==
    /\ \A a, b \in 0 .. R!Word - 1 :
          LET p == R!ryu_umul128(a, b) IN p.hi * R!Word + p.lo = a * b
    /\ \A m \in 1 .. 15, mul \in 0 .. 2047, s \in 0 .. 1 :
          (s = 0 => m = 8 /\ ((2 * m * mul) \div R!Word) % R!Word # R!Word - 1) =>
              R!mulShiftAll(m, <<mul % R!Word, mul \div R!Word>>, 11, s) =
                  [vr |-> R!mulShift(4 * m, mul, 11), vp |-> R!mulShift(4 * m + 2, mul, 11),
                   vm |-> R!mulShift(4 * m - 1 - s, mul, 11)]

(* to_chars without a precision prints the shortest decimal that reads     *)
(* back as the number, the nearest one of them, in the notation asked for  *)
(* (or the shorter one, or the one of %g), for float and for double; an    *)
(* integer that needs more digits is printed exactly.                      *)
ShortestRoundTrips(in) ==
        /\ in.m = 0 /\ in.e = 0 => ProductsAgree
        /\ Num(in) # 0 => \A wide \in BOOLEAN :
              LET b == Shortest(in)
                  n == R!decimalLength(b.mantissa)
                  x == b.exponent + n - 1
                  plain == PlainText(in, b)
                  scientific == R!Pointed(Text(b.mantissa), n > 1) \o ExpText(x)
                  plainLen == IF b.exponent >= 0 THEN n + b.exponent ELSE Len(plain)
                  Out(fmt, room) == IF wide THEN R!d2s_buffered_n(in.m, in.e, fmt, room)
                                    ELSE R!f2s_buffered_n(in.m, in.e, fmt, room)
              IN  /\ (IF wide THEN R!d2d(in.m, in.e) ELSE R!f2d(in.m, in.e)) = b
                  /\ Prints(LAMBDA r : Out("fixed", r), plain)
                  /\ Prints(LAMBDA r : Out("scientific", r), scientific)
                  /\ Prints(LAMBDA r : Out("general", r),
                            IF x \in -4 .. 5 THEN plain ELSE scientific)
                  /\ Prints(LAMBDA r : Out("plain", r),
                            IF plainLen <= Len(scientific) THEN plain ELSE scientific)

-----------------------------------------------------------------------------
(* linear_congruential_engine's next state is (a * x + c) mod m, also when *)
(* only the multiple-precision product and remainder can tell, whatever    *)
(* lies before the words of a product that is zero.                        *)
EngineExact(in) ==
    \A a, c, prev \in 0 .. M!Ull - 1 :
        (in = 0 \/ (a < in /\ c < in /\ prev < in)) =>
            \A below \in 0 .. 1 : M!Next_linear_congruential_value(prev, a, c, in, below) =
                IF a = 0 THEN c ELSE (a * prev + c) % (IF in = 0 THEN M!Ull ELSE in)

-----------------------------------------------------------------------------
Magnitude(f, x) ==
    IF x.xchar = 0 THEN x.frac * 2 ELSE (M!Hidden(f) + x.frac) * 2 ^ x.xchar

(* The denormal nearest to v / 2^n: those are multiples of 2. *)
NearestDenormal(v, n) == 2 * Nearest(v, 2 ^ (n + 1))

ScaledExact(in, f, test, Dscale(_, _)) ==
    test # "nan" /\ test # "inf" => \A lexp \in -12 .. 12 :
        LET r == Dscale(in, lexp)
            was == Magnitude(f, in)
            is == Magnitude(f, r.x)
        IN  /\ r.x.neg = in.neg
            /\ r.code = "zero" <=> is = 0
            /\ IF lexp < 0
               THEN IF 2 * M!Hidden(f) * 2 ^ (-lexp) <= was THEN is * 2 ^ (-lexp) = was
                    ELSE is = NearestDenormal(was, -lexp)
               ELSE IF was * 2 ^ lexp >= M!Hidden(f) * 2 ^ f.max
               THEN r.code = "inf" /\ r.x.xchar = f.max /\ r.x.frac = 0
               ELSE is = was * 2 ^ lexp

DroppedExact(in, f, test, Dint(_, _)) ==
    test \in {"finite", "denorm"} => \A n \in 0 .. 16 :
        LET r == Dint(in, f.bias + f.bits + 1 - n)
            dropped == Magnitude(f, in) % 2 ^ (IF test = "denorm" THEN n + 1 ELSE n)
        IN  /\ Magnitude(f, r.x) = Magnitude(f, in) - dropped
            /\ r.code = IF dropped # 0 THEN "finite" ELSE "zero"

SplitExact(in, f, test, r) ==
    test \in {"finite", "denorm"} =>
        /\ r.x.xchar = f.bias
        /\ Magnitude(f, in) * 2 ^ 8 = Magnitude(f, r.x) * 2 ^ (r.exp + 8)

(* Scaling by a power of two is exact, or infinity, or the denormal        *)
(* nearest to the result; _Dint drops exactly the bits below its unit, and *)
(* of a denormal, whose exponent it takes for one less than it is, those   *)
(* below twice its unit, and says whether there were any; _Dunscale splits *)
(* a number into the factors _Dscale joins; so for float; the bit scans    *)
(* agree with the logarithms they stand for.                               *)
ScalingExact(in) ==
    /\ ScaledExact(in, M!Double, M!Dtest(in), M!Dscale)
    /\ DroppedExact(in, M!Double, M!Dtest(in), M!Dint)
    /\ SplitExact(in, M!Double, M!Dtest(in), M!Dunscale(in))
    /\ LET v == in.xchar * M!Hidden(M!Double) + in.frac
       IN  /\ v # 0 => M!Floor_of_log_2(v) = M!HighBit(v)
           /\ v > 1 => /\ 2 ^ M!Ceiling_of_log_2(v) >= v
                       /\ 2 ^ (M!Ceiling_of_log_2(v) - 1) < v
           /\ M!Bit_scan_reverse(v, TRUE) = M!Bit_scan_reverse(v, FALSE)

FloatScalingExact(in) ==
    /\ ScaledExact(in, M!Float, M!FDtest(in), M!FDscale)
    /\ DroppedExact(in, M!Float, M!FDtest(in), M!FDint)
    /\ SplitExact(in, M!Float, M!FDtest(in), M!FDunscale(in))

-----------------------------------------------------------------------------
RECURSIVE Added(_, _)
Added(p, s) == IF s = <<>> THEN p ELSE Added(M!Xp_addh(p, Head(s)), Tail(s))
Total(p) == FoldLeft(LAMBDA a, b : a + b, 0, p)
MaxSetn == 1500

(* r is x / 10^n but for 9/16 of its last bit: half by the last rounding,  *)
(* the rest by the words of 1/10 and its powers.                           *)
DownScaled(x, n, r) ==
    LET last == M!Exp(r.v) - M!FBits
    IN  16 * M!Abs(10 ^ n * (r.v \div 2 ^ last) - x * 2 ^ (-r.unit - last)) <= 9 * 10 ^ n

(* The words of an extended-precision number add up to exactly what was    *)
(* added or multiplied into it, reading it rounds that once, scaling up by *)
(* a power of ten gives the nearest number to the product, and scaling     *)
(* down the nearest but for what the four words of 1/10 leave out.         *)
ExtendedExact(in) ==
        LET p == Added(M!Zero, in)
        IN  /\ Total(p) = Total(in)
            /\ M!Xp_getw(p) = M!Rounded(Total(in))
            /\ Len(in) = 0 => \A n \in 0 .. MaxSetn : Total(M!Xp_setn(n)) = n
            /\ Len(in) = 1 =>
                  /\ \A n \in 0 .. 3 : M!Dtento(p, n) = [v |-> M!Rounded(in[1] * 10 ^ n), unit |-> 0]
                  /\ in[1] # 0 => \A n \in 1 .. 2 : DownScaled(in[1], n, M!Dtento(p, -n))
            /\ Len(in) = 2 =>
                  /\ Total(M!Xp_mulx(M!Xp_setw(in[1]), M!Xp_setw(3 * in[2]))) =
                        3 * in[1] * in[2]
                  /\ Total(M!Xp_subx(M!Xp_setw(in[1]), M!Xp_setw(in[2]))) = in[1] - in[2]

-----------------------------------------------------------------------------
Programs == {[collate |-> G!None, page |-> G!Single]}
    \cup [collate : {"L", "I"}, page : {G!Single, G!Double}]
Texts == BoundedSeq(LocaleBytes, 2) \ {<<>>}
Same(a, b) == a = b \/ (a < 0 /\ b < 0) \/ (a > 0 /\ b > 0)

(* Two texts compare as their transforms do, also with an end of text or   *)
(* half a character inside, in a buffer of any size; a character's small   *)
(* form is its one small form, a capital's is its capital, and what has no *)
(* case is left alone.                                                     *)
CollationAgrees(in) ==
    in # <<>> => \A program \in Programs :
        /\ \A t \in Texts :
            LET loc == G!Getcoll(program)
                Key(s) == G!do_transform(s, FALSE, loc)
                WideKey(s) == G!do_transform(s, TRUE, loc)
                ws == G!Wide(loc.page, in)
                wt == G!Wide(loc.page, t)
            IN  /\ <<G!INT_MAX>> \notin {Key(in), Key(t)} =>
                      Same(G!Strcoll(in, t, loc), G!Sign(Key(in), Key(t)))
                /\ Same(G!Wcscoll(ws, wt, loc), G!Sign(WideKey(ws), WideKey(wt)))
        /\ Len(in) <= 2 /\ G!ValidWide(program.page, G!Wide(program.page, in)) =>
            LET loc == G!Getctype(program)
                w == G!Wide(loc.page, in)[1]
            IN  Len(G!Wide(loc.page, in)) = 1 =>
                  /\ G!Tolower(w, loc) = G!ToLowerCase(w)
                  /\ G!Toupper(w, loc) = G!ToUpperCase(w)
                  /\ G!Towlower(w, loc) = G!ToLowerCase(w)
                  /\ G!Towupper(w, loc) = G!ToUpperCase(w)

(* Bytes that arrive one by one give the character they give together:     *)
(* what is decided for the first of them stands, and what is undecided is  *)
(* decided by Mbcurmax bytes.  A character's own bytes are read back, and  *)
(* none of them suffices alone.                                            *)
BytesDecode(in) ==
    \A locale \in {"C", "single", "double", "utf8"} :
        LET cvt == G!Getcvt(locale)
            whole == G!Mbrtowc(in, cvt)
        IN  /\ \A k \in 1 .. Len(in) :
                  LET early == G!Mbrtowc(SubSeq(in, 1, k), cvt)
                  IN  early.n # G!Partial => early = whole
            /\ Len(in) >= cvt.Mbcurmax => whole.n # G!Partial
            /\ whole.n <= Len(in)
            /\ in = <<>> => \A w \in WideCharacters \ {0} :
                  LET s == G!Wcrtomb(w, cvt)
                  IN  /\ s # <<>> => G!Mbrtowc(s \o <<65>>, cvt) = G!Result(Len(s), w)
                      /\ \A k \in 1 .. Len(s) - 1 : G!Mbrtowc(SubSeq(s, 1, k), cvt).n = G!Partial

-----------------------------------------------------------------------------
(* A line is what stands before a CRLF, or after the last one. *)
RECURSIVE Lines(_)
Lines(s) ==
    IF ~\E i \in 1 .. Len(s) - 1 : s[i] = J!CR /\ s[i + 1] = J!LF THEN <<s>>
    ELSE LET i == CHOOSE i \in 1 .. Len(s) - 1 : /\ s[i] = J!CR /\ s[i + 1] = J!LF
                                                /\ \A j \in 1 .. i - 1 : ~(s[j] = J!CR /\ s[j + 1] = J!LF)
         IN  <<SubSeq(s, 1, i - 1)>> \o Lines(SubSeq(s, i + 2, Len(s)))

Allowed(line, tabs) ==
    /\ \A i \in DOMAIN line : line[i] \in {J!Space, "x"} \/ (tabs /\ line[i] = J!Tab)
    /\ line # <<>> => Last(line) = "x"

Inside(tree, d, i) ==
    d < i /\ tree[d].kind = "directory" /\ \A j \in d + 1 .. i : tree[j].depth > tree[d].depth

(* validate says nothing of a file exactly when it consists of lines of    *)
(* allowed characters, not too long and without blanks at the end, each    *)
(* ended by CRLF, and no empty one at the end.                             *)
FileValid(in) ==
    \A tabs, long \in BOOLEAN :
        LET ls == Lines(in)
        IN  J!scan_file(in, tabs, long) = {} <=>
                /\ Len(ls) > 1 /\ Last(ls) = <<>>
                /\ Len(ls) > 2 => ls[Len(ls) - 1] # <<>>
                /\ \A i \in 1 .. Len(ls) - 1 :
                      Allowed(ls[i], tabs) /\ (long => Len(ls[i]) <= J!max_line_length)

(* The files it scans are those in no directory it skips. *)
TreeWalked(in) ==
    J!Walk(in, 1) = {i \in DOMAIN in : /\ in[i].kind = "file" /\ ~in[i].skipped
                                       /\ \A d \in DOMAIN in : Inside(in, d, i) => ~in[d].skipped}

(* jobify runs what follows the first word or quoted path. *)
CommandSplit(in) ==
    LET at == J!get_subcommand(in)
        a == SkipWhile(in, 1, J!IsSpace)
    IN  /\ at <= Len(in) => in[at] # J!Space
        /\ \A i \in a .. at - 1 : in[i] = J!Space =>
              \/ in[a] = "\"" /\ \A j \in a + 1 .. i : in[j] # "\""
              \/ \A j \in i .. at - 1 : in[j] = J!Space

-----------------------------------------------------------------------------
Isas == {{}, {"sse2"}, {"sse2", "sse42", "x64"}, {"sse2", "sse42", "avx2", "x64"}}
Numbered(in, n) == [b \in 1 .. in |-> n + b]
ElementsReversed(in, size) ==
    [b \in 1 .. in |-> (in - size * ((b - 1) \div size + 1)) + ((b - 1) % size) + 1]

Reversal(size, m, isa) ==
    CASE size = 1 -> V!reverse_trivially_swappable_1(m, isa)
      [] size = 2 -> V!reverse_trivially_swappable_2(m, isa)
      [] size = 4 -> V!reverse_trivially_swappable_4(m, isa)
      [] size = 8 -> V!reverse_trivially_swappable_8(m, isa)
Reverse_copy(size, m, isa) ==
    CASE size = 1 -> V!reverse_copy_trivially_copyable_1(m, isa)
      [] size = 2 -> V!reverse_copy_trivially_copyable_2(m, isa)
      [] size = 4 -> V!reverse_copy_trivially_copyable_4(m, isa)
      [] size = 8 -> V!reverse_copy_trivially_copyable_8(m, isa)

(* With whatever vector instructions the processor has, the ranges are     *)
(* reversed, copied in reverse and swapped element for element, at every   *)
(* length around the sizes of the vectors.                                 *)
ElementsAgree(in) ==
    \A isa \in Isas :
        /\ \A size \in {1, 2, 4, 8} : in % size = 0 =>
              /\ Reversal(size, Numbered(in, 0), isa) = ElementsReversed(in, size)
              /\ Reverse_copy(size, Numbered(in, 0), isa) = ElementsReversed(in, size)
        /\ LET r == V!swap_ranges_trivially_swappable(Numbered(in, 0), Numbered(in, MaxBytes), isa)
           IN  r.m1 = Numbered(in, MaxBytes) /\ r.m2 = Numbered(in, 0)

-----------------------------------------------------------------------------
(* The algorithm does with this input what its definition says. *)
NumberRight(in) ==
    CASE algorithm = "integer" -> IntegersAgree(in)
      [] algorithm \in {"decimal", "hex"} -> FloatsAgree(in)
      [] algorithm = "prefix" -> PrefixesAgree(in)
      [] algorithm = "precision" -> PrecisionExact(in)
      [] algorithm = "shortest" -> ShortestRoundTrips(in)
      [] OTHER -> TRUE

ArithmeticRight(in) ==
    CASE algorithm = "engine" -> EngineExact(in)
      [] algorithm = "double" -> ScalingExact(in)
      [] algorithm = "float" -> FloatScalingExact(in)
      [] algorithm = "addends" -> ExtendedExact(in)
      [] OTHER -> TRUE

TextRight(in) ==
    CASE algorithm = "text" -> CollationAgrees(in)
      [] algorithm = "multibyte" -> BytesDecode(in)
      [] algorithm = "file" -> FileValid(in)
      [] algorithm = "tree" -> TreeWalked(in)
      [] algorithm = "command" -> CommandSplit(in)
      [] OTHER -> TRUE

-----------------------------------------------------------------------------
(* The components.                                                         *)
X == INSTANCE ThreadExit WITH Threads <- TwoThreads, Mutexes <- ExitMutexes, pc <- xPc
S == INSTANCE TaskScheduler WITH Tasks <- Callers, pc <- sPc
E == INSTANCE ExceptionPtr WITH
        Threads <- TwoThreads, current <- handled, held <- eHeld, size <- eSize, pc <- ePc
C == INSTANCE Locale WITH Threads <- TwoThreads, Names <- LocaleNames, h <- cH, loc <- cLoc
F == INSTANCE FileOperations WITH old <- oldSystem, pc <- fPc, room <- fRoom, seen <- fSeen
P == INSTANCE OutputPipe WITH bytes <- pBytes
O == INSTANCE FileOpen WITH others <- oOthers, pc <- oPc
K == INSTANCE LibraryLocks WITH Threads <- TwoThreads, owner <- kOwner
T == INSTANCE StandardStreams WITH ptr <- tPtr, wide <- tWide
Y == INSTANCE SyncStream WITH
        Threads <- TwoThreads, owner <- yOwner, pc <- yPc, then <- yThen, data <- yData

MCInit ==
    /\ part \in {"level", "exit", "tasks", "exception", "locale", "files",
                 "runner", "pipe", "algorithm", "open", "locks", "standard", "sync"}
    /\ InitLevel /\ X!Init
    /\ S!Init /\ (part # "tasks" => host = "Unknown" /\ ~resolves)
    /\ E!Init /\ C!Init
    /\ F!Init /\ (part # "files" => dir = [n \in DOMAIN dir |-> 0] /\ ~oldSystem)
    /\ J!Init /\ P!Init
    /\ algorithm \in (IF part = "algorithm" THEN DOMAIN Inputs ELSE {"none"}) /\ input = <<>>
    /\ O!Init /\ (part # "open" => mode = {} /\ file = "none")
    /\ K!Init /\ T!Init /\ (part # "standard" => ~tWide)
    /\ Y!Init

(* The algorithm is called with one of its inputs. *)
Call ==
    /\ input = <<>>
    /\ \E i \in Inputs[algorithm] : input' = <<i>>
    /\ UNCHANGED algorithm

MCNext ==
    \/ /\ part = "level" /\ NextLevel
       /\ UNCHANGED <<part, streamVars, exitVars, taskVars, exceptionVars, localeVars, fileVars,
                      runnerVars, pipeVars, inputVars>>
    \/ /\ part = "exit" /\ X!Next
       /\ UNCHANGED <<part, streamVars, levelVars, taskVars, exceptionVars, localeVars, fileVars,
                      runnerVars, pipeVars, inputVars>>
    \/ /\ part = "tasks" /\ S!Next
       /\ UNCHANGED <<part, streamVars, levelVars, exitVars, exceptionVars, localeVars, fileVars,
                      runnerVars, pipeVars, inputVars>>
    \/ /\ part = "exception" /\ E!Next
       /\ UNCHANGED <<part, streamVars, levelVars, exitVars, taskVars, localeVars, fileVars,
                      runnerVars, pipeVars, inputVars>>
    \/ /\ part = "locale" /\ C!Next
       /\ UNCHANGED <<part, streamVars, levelVars, exitVars, taskVars, exceptionVars, fileVars,
                      runnerVars, pipeVars, inputVars>>
    \/ /\ part = "files" /\ F!Next
       /\ UNCHANGED <<part, streamVars, levelVars, exitVars, taskVars, exceptionVars, localeVars,
                      runnerVars, pipeVars, inputVars>>
    \/ /\ part = "runner" /\ J!Next
       /\ UNCHANGED <<part, streamVars, levelVars, exitVars, taskVars, exceptionVars, localeVars, fileVars,
                      pipeVars, inputVars>>
    \/ /\ part = "pipe" /\ P!Next
       /\ UNCHANGED <<part, streamVars, levelVars, exitVars, taskVars, exceptionVars, localeVars, fileVars,
                      runnerVars, inputVars>>
    \/ /\ part = "algorithm" /\ Call
       /\ UNCHANGED <<part, streamVars, levelVars, exitVars, taskVars, exceptionVars, localeVars, fileVars,
                      runnerVars, pipeVars>>
    \/ /\ part = "open" /\ O!Next
       /\ UNCHANGED <<part, otherVars, ownLockVars, standardVars, syncVars>>
    \/ /\ part = "locks" /\ K!Next
       /\ UNCHANGED <<part, otherVars, openVars, standardVars, syncVars>>
    \/ /\ part = "standard" /\ T!Next
       /\ UNCHANGED <<part, otherVars, openVars, ownLockVars, syncVars>>
    \/ /\ part = "sync" /\ Y!Next
       /\ UNCHANGED <<part, otherVars, openVars, ownLockVars, standardVars>>

MCSpec == MCInit /\ [][MCNext]_library

-----------------------------------------------------------------------------
(* The table of what waits for the end of a thread holds what was          *)
(* registered, once, and a thread that is started has its own copy of the  *)
(* function before its creator goes on (module ThreadExit).                *)
ExitsAnnounced == part = "exit" => X!TableExact /\ X!Handshake

(* A program that links the library statically does not end while a task   *)
(* that has begun runs (module TaskScheduler).                             *)
ExitWaits == part = "tasks" => S!ExitWaits

(* Every exception object and facet lives exactly as long as somebody      *)
(* refers to it, the mutex of a synchronized stream as long as that and    *)
(* for ever once a constructor has thrown with its count taken, and the    *)
(* library's own locks as long as they may be used (modules ExceptionPtr,  *)
(* Locale, SyncStream and LibraryLocks).                                   *)
ReferencesCounted ==
    /\ part = "exception" => E!BlocksAccounted
    /\ part = "locale" => C!CountsExact
    /\ part = "sync" => Y!MutexesCounted
    /\ part = "locks" => K!LocksCounted

(* A file operation reports what it did or found, though other programs    *)
(* change the files between its calls (module FileOperations), and a file  *)
(* stream opens, makes and empties only the files its mode says, whatever  *)
(* they do (FileOpen).                                                     *)
FilesTrue ==
    /\ part = "files" => F!ResultsTrue /\ F!StatsTrue /\ F!PathFits
    /\ part = "open" => O!OpensAsAsked

(* Every command is run once and its result kept; what still runs when     *)
(* the program ends is in a job that kills it (module Tools).              *)
CommandsRun == part = "runner" => J!EachCommandOnce /\ J!ChildrenKilled

(* The output extracted is what the child wrote (module OutputPipe); what  *)
(* is written to the standard streams is flushed, whatever their order of  *)
(* initialization (StandardStreams); and each synchronized stream hands on *)
(* what was written for a buffer to that buffer, without the others in     *)
(* between (SyncStream).                                                   *)
OutputComplete ==
    /\ part = "pipe" => P!OutputComplete
    /\ part = "standard" => T!StreamsFlushed
    /\ part = "sync" => Y!EmitsWhole

(* A synchronized stream gives up a character only when its buffer has got *)
(* it or has failed to take it, and hands it on once but for exceptions    *)
(* (module SyncStream).                                                    *)
EmittedOnce == Y!EmittedOnce

(* The parsers of the streams read the numbers that are written, up to     *)
(* their limits, and the digits that the Ryu conversions write are exact,  *)
(* or the shortest that read back (modules Parsing and Ryu).               *)
NumbersAgree == [][\A i \in Range(input') : NumberRight(i)]_inputVars

(* The arithmetic under the random engines and the math functions is       *)
(* exact: products and remainders of two words, scaling by powers of two,  *)
(* and numbers of several words.                                           *)
ArithmeticExact == [][\A i \in Range(input') : ArithmeticRight(i)]_inputVars

(* The vectorised algorithms of vector_algorithms.cpp return what a loop   *)
(* over the elements does, at every length and set of processor features.  *)
VectorsAgree == [][\A i \in Range(input') : algorithm = "bytes" => ElementsAgree(i)]_inputVars

(* Texts are ordered, cased and decoded consistently, and the tools see in *)
(* a file, a directory tree and a command line what is there.              *)
TextsAgree == [][\A i \in Range(input') : TextRight(i)]_inputVars

=============================================================================
