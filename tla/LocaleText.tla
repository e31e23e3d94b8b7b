----------------------------- MODULE LocaleText ------------------------------
(***************************************************************************)
(* Text in a locale: its order and case, and its bytes.                    *)
(***************************************************************************)
EXTENDS Integers, Sequences, SequencesExt

(* Comparing, transforming and changing the case of text in a locale:      *)
(* xstrcoll, xwcscoll, xstrxfrm, xwcsxfrm, _tolower, _toupper, xtowlower,  *)
(* xtowupper and the wrappers of the system's functions they call.  Bytes  *)
(* are 0 .. Byte - 1: 0 ends a text, letters have a small and a capital    *)
(* form, and Lead begins a character of two bytes in a double-byte page.   *)
(* A locale is [name, page]; the "C" locale has no name.                   *)
Byte == 8
Lower == {1, 2}
Upper == {3, 4}
Lead == 5
Single == "single"
Double == "double"
None == "none"                  \* a null pointer to a name
INT_MAX == 99

(* The system: a wide character is a byte, or Byte * Lead + the second.    *)
Pair(w) == w \div Byte = Lead
IsLower(w) == w % Byte \in Lower
IsUpper(w) == w % Byte \in Upper
ToLowerCase(w) == IF IsUpper(w) THEN w - 2 ELSE w
ToUpperCase(w) == IF IsLower(w) THEN w + 2 ELSE w
IsLead(page, b) == page = Double /\ b = Lead

RECURSIVE Wide(_, _)
Wide(page, s) ==
    IF s = <<>> THEN <<>>
    ELSE IF IsLead(page, s[1]) /\ Len(s) > 1
    THEN <<Byte * Lead + s[2]>> \o Wide(page, SubSeq(s, 3, Len(s)))
    ELSE <<s[1]>> \o Wide(page, Tail(s))

ValidWide(page, w) == \A i \in DOMAIN w : ~IsLead(page, w[i]) /\ (Pair(w[i]) => w[i] % Byte \in 1 .. 4)

(* An empty result is the failure of a call; no text at all is an error.   *)
MultiByteToWideChar(page, s) ==
    IF ValidWide(page, Wide(page, s)) THEN Wide(page, s) ELSE <<>>
WideCharToMultiByte(page, w) ==
    FlattenSeq([i \in DOMAIN w |-> IF Pair(w[i]) THEN <<Lead, w[i] % Byte>> ELSE <<w[i]>>])

(* In the order of the locale "L" a capital follows its small letter; in   *)
(* "I" they are equal.  An end of text has no weight.                      *)
Weight(name, w) ==
    LET letter == IF IsLower(w) THEN w ELSE w - 2
    IN  IF ~(IsLower(w) \/ IsUpper(w)) THEN 100 + w
        ELSE IF name = "I" \/ IsLower(w) THEN 2 * letter ELSE 2 * letter + 1
Weights(name, w) == [i \in DOMAIN SelectSeq(w, LAMBDA c : c # 0) |->
                        Weight(name, SelectSeq(w, LAMBDA c : c # 0)[i])]
Less(s, t) ==
    \/ Len(s) < Len(t) /\ IsPrefix(s, t)
    \/ \E i \in DOMAIN s \cap DOMAIN t :
          s[i] < t[i] /\ SubSeq(s, 1, i - 1) = SubSeq(t, 1, i - 1)
Sign(s, t) == IF Less(s, t) THEN -1 ELSE IF s = t THEN 0 ELSE 1
CompareStringEx(name, w1, w2) == 2 + Sign(Weights(name, w1), Weights(name, w2))
LCMapStringEx(name, flags, w) ==
    CASE flags = "SORTKEY" -> Append(Weights(name, w), 0)
      [] flags = "LOWERCASE" -> [i \in DOMAIN w |-> ToLowerCase(w[i])]
      [] flags = "UPPERCASE" -> [i \in DOMAIN w |-> ToUpperCase(w[i])]

-----------------------------------------------------------------------------
(* strncnt: the characters before the end of the text. *)
Nlen(s) == CHOOSE n \in 0 .. Len(s) : (n < Len(s) => s[n + 1] = 0) /\ \A i \in 1 .. n : s[i] # 0
Cut(s) == SubSeq(s, 1, Nlen(s))
CutAfter(s) == SubSeq(s, 1, IF Nlen(s) < Len(s) THEN Nlen(s) + 1 ELSE Nlen(s))

(* One text is empty and the other has one byte: they are equal when it is *)
(* half of a character.                                                    *)
Lone_byte(page, b, unequal) == IF IsLead(page, b) THEN 2 ELSE unequal

crtCompareStringA(loc, string1, string2) ==
    LET s1 == Cut(string1)
        s2 == Cut(string2)
        w1 == MultiByteToWideChar(loc.page, s1)
        w2 == MultiByteToWideChar(loc.page, s2)
    IN  IF s1 = <<>> \/ s2 = <<>>
        THEN CASE Len(s1) = Len(s2) -> 2
               [] Len(s2) > 1 -> 1
               [] Len(s1) > 1 -> 3
               [] Len(s1) = 1 -> Lone_byte(loc.page, s1[1], 3)
               [] Len(s2) = 1 -> Lone_byte(loc.page, s2[1], 1)
        ELSE IF w1 = <<>> \/ w2 = <<>> THEN 0
        ELSE CompareStringEx(loc.name, w1, w2)

crtCompareStringW(name, string1, string2) ==
    LET s1 == Cut(string1)
        s2 == Cut(string2)
    IN  IF s1 = <<>> \/ s2 = <<>>
        THEN IF Len(s1) = Len(s2) THEN 2 ELSE IF Len(s1) < Len(s2) THEN 1 ELSE 3
        ELSE CompareStringEx(name, s1, s2)

(* The result's length and text; n = 0 asks for the length.  What does not *)
(* fit is not written: a sort key's length is returned all the same, for a *)
(* text of characters it is a failure.                                     *)
Written(n, text) == [size |-> Len(text), text |-> IF Len(text) <= n THEN text ELSE <<>>]
Failed == [size |-> 0, text |-> <<>>]

crtLCMapStringA(loc, flags, s, n) ==
    LET w == MultiByteToWideChar(loc.page, CutAfter(s))
        out == LCMapStringEx(loc.name, flags, w)
        bytes == WideCharToMultiByte(loc.page, out)
    IN  IF w = <<>> THEN Failed
        ELSE IF flags = "SORTKEY" THEN Written(n, out)
        ELSE IF n # 0 /\ Len(bytes) > n THEN Failed ELSE Written(n, bytes)

crtLCMapStringW(name, flags, s, n) ==
    LET out == LCMapStringEx(name, flags, CutAfter(s))
    IN  IF CutAfter(s) = <<>> \/ (n # 0 /\ Len(out) > n) THEN Failed ELSE Written(n, out)

-----------------------------------------------------------------------------
(* memcmp of the shorter length, then the lengths. *)
Bytes_compared(s, t) == Sign(s, t)

Strcoll(s1, s2, loc) ==
    IF loc.name = None THEN Bytes_compared(s1, s2)
    ELSE LET r == crtCompareStringA(loc, s1, s2) IN IF r = 0 THEN INT_MAX ELSE r - 2

Wcscoll(s1, s2, loc) ==
    IF loc.name = None THEN Bytes_compared(s1, s2)
    ELSE LET r == crtCompareStringW(loc.name, s1, s2) IN IF r = 0 THEN INT_MAX ELSE r - 2

(* The key in a buffer of n bytes, and its size, more than n when it does  *)
(* not fit; an error is the largest size.                                  *)
Strxfrm(n, s, loc) ==
    IF loc.name = None /\ loc.page = Single THEN Written(n, s)
    ELSE LET asked == crtLCMapStringA(loc, "SORTKEY", s, 0)
         IN  IF asked.size = 0 THEN [size |-> INT_MAX, text |-> <<>>]
             ELSE IF asked.size <= n THEN crtLCMapStringA(loc, "SORTKEY", s, n) ELSE asked

Wcsxfrm(n, s, loc) ==
    IF loc.name = None THEN Written(n, s)
    ELSE LET key == crtLCMapStringW(loc.name, "SORTKEY", s, n)
             asked == crtLCMapStringW(loc.name, "SORTKEY", s, 0)
         IN  IF key.size # 0 THEN key
             ELSE IF asked.size = 0 THEN [size |-> INT_MAX, text |-> <<>>] ELSE asked

(* collate::do_transform, with the size it is told to when the first does  *)
(* not do.                                                                 *)
do_transform(s, wide, loc) ==
    LET Xfrm(n, x) == IF wide THEN Wcsxfrm(n, x, loc) ELSE Strxfrm(n, x, loc) IN
    IF s = <<>> THEN <<>>
    ELSE IF Xfrm(Len(s), s).size <= Len(s) THEN Xfrm(Len(s), s).text
    ELSE LET n == Xfrm(Len(s), s).size IN IF n = INT_MAX THEN <<INT_MAX>> ELSE Xfrm(n, s).text

-----------------------------------------------------------------------------
(* Of the program's locale; _Getctype takes the name of LC_COLLATE too. *)
Getctype(program) == [name |-> program.collate, page |-> program.page]
Getcoll(program) == [name |-> program.collate, page |-> program.page]

(* A character of one or two bytes as an integer, and the integer of the   *)
(* bytes it is mapped to.                                                  *)
Characters(c, loc) == IF IsLead(loc.page, c \div Byte) THEN <<c \div Byte, c % Byte>> ELSE <<c % Byte>>
Joined(out) == IF out.size = 1 THEN out.text[1] ELSE out.text[2] + Byte * out.text[1]

Tolower(c, loc) ==
    IF loc.name = None THEN IF c \in Upper THEN c - 2 ELSE c
    ELSE IF c < Byte /\ ~IsUpper(c) THEN c
    ELSE LET out == crtLCMapStringA(loc, "LOWERCASE", Characters(c, loc), 3)
         IN  IF out.size = 0 THEN c ELSE Joined(out)

Toupper(c, loc) ==
    IF loc.name = None THEN IF c \in Lower THEN c + 2 ELSE c
    ELSE IF c < Byte /\ ~IsLower(c) THEN c
    ELSE LET out == crtLCMapStringA(loc, "UPPERCASE", Characters(c, loc), 3)
         IN  IF out.size = 0 THEN c ELSE Joined(out)

Towlower(w, loc) ==
    IF loc.name = None /\ w < Byte THEN IF w \in Upper THEN w - 2 ELSE w
    ELSE LET out == crtLCMapStringW(loc.name, "LOWERCASE", <<w>>, 1)
         IN  IF out.size = 0 THEN w ELSE out.text[1]

Towupper(w, loc) ==
    IF loc.name = None /\ w < Byte THEN IF w \in Lower THEN w + 2 ELSE w
    ELSE LET out == crtLCMapStringW(loc.name, "UPPERCASE", <<w>>, 1)
         IN  IF out.size = 0 THEN w ELSE out.text[1]

-----------------------------------------------------------------------------
(* _Mbrtowc and _Wcrtomb: one wide character from bytes and back, in the   *)
(* "C" locale, in a code page of one or two bytes and in UTF-8.  The bytes *)
(* and words are the real ones.  A result is the number of bytes consumed, *)
(* or Invalid, or Partial when more bytes are needed.                      *)
Invalid == -1
Partial == -2
Too_many == 9
Result(n, w) == [n |-> n, w |-> w]

(* A single-byte page of the system, which has no character for some bytes.*)
Unassigned == {129, 160}
FromSinglePage(b) == IF b \in Unassigned THEN Result(0, 0) ELSE Result(1, b)
ToSinglePage(w) == IF w > 255 \/ w \in Unassigned THEN <<>> ELSE <<w>>

(* A double-byte page of the system: lead bytes 129 .. 159, second bytes   *)
(* 64 .. 252, the character after its two bytes.                           *)
IsLeadbyte(b) == b \in 129 .. 159
FromPage(s) ==
    IF Len(s) = 1 /\ ~IsLeadbyte(s[1]) THEN Result(1, s[1])
    ELSE IF Len(s) = 2 /\ s[2] \in 64 .. 252 THEN Result(1, s[1] * 256 + s[2])
    ELSE Result(0, 0)
ToPage(w) ==
    IF w < 256 /\ ~IsLeadbyte(w) THEN <<w>>
    ELSE IF IsLeadbyte(w \div 256) /\ w % 256 \in 64 .. 252 THEN <<w \div 256, w % 256>>
    ELSE <<>>
ToUtf8(w) ==
    CASE w < 128 -> <<w>>
      [] w \in 128 .. 2047 -> <<192 + w \div 64, 128 + (w % 64)>>
      [] w \in 55296 .. 57343 -> <<>>
      [] OTHER -> <<224 + w \div 4096, 128 + ((w \div 64) % 64), 128 + (w % 64)>>

-----------------------------------------------------------------------------
(* _Getcvt of the locale in force. *)
Getcvt(locale) ==
    [Isclocale |-> locale = "C",
     Mbcurmax |-> CASE locale \in {"C", "single"} -> 1 [] locale = "double" -> 2 [] locale = "utf8" -> 4,
     Isleadbyte |-> IF locale = "double" THEN 129 .. 159 ELSE {}]

Utf8_trailing_byte_count(ch) ==
    CASE ch < 128 -> [count |-> 0, partial |-> ch]
      [] ch \div 32 = 6 -> [count |-> 1, partial |-> ch % 32]
      [] ch \div 16 = 14 -> [count |-> 2, partial |-> ch % 16]
      [] ch \div 8 = 30 -> [count |-> 3, partial |-> ch % 8]
      [] OTHER -> [count |-> Too_many, partial |-> 0]

IsTrailing(ch) == ch \div 64 = 2
Decode_utf8_trailing_byte(partial, ch) == partial * 64 + (ch % 64)

(* Mutant of Trailing: a missing byte is an error. *)
Trailing_all(s, i, left, partial) ==
    IF left = 0 THEN Result(i - 1, partial) ELSE Result(Invalid, 0)

RECURSIVE Trailing(_, _, _, _)

(* The trailing bytes from s[i] on; the first one that is missing or wrong *)
(* decides.                                                                *)
Trailing(s, i, left, partial) ==
    IF left = 0 THEN Result(i - 1, partial)
    ELSE IF i > Len(s) THEN Result(Partial, 0)
    ELSE IF ~IsTrailing(s[i]) THEN Result(Invalid, 0)
    ELSE Trailing(s, i + 1, left - 1, Decode_utf8_trailing_byte(partial, s[i]))

Mbrtowc_utf8(s) ==
    LET first == Utf8_trailing_byte_count(s[1])
        r == Trailing(s, 2, first.count, first.partial)
    IN  IF first.count > 2 \/ r.w \in 55296 .. 57343 THEN Result(Invalid, 0) ELSE r

Mbrtowc_single(s) ==
    IF FromSinglePage(s[1]).n = 0 THEN Result(Invalid, 0) ELSE FromSinglePage(s[1])

Mbrtowc_double(s, cvt) ==
    LET n == IF s[1] \in cvt.Isleadbyte THEN 2 ELSE 1
        r == FromPage(SubSeq(s, 1, n))
    IN  IF n > Len(s) THEN Result(Partial, 0)
        ELSE IF r.n = 0 THEN Result(Invalid, 0) ELSE Result(n, r.w)

Mbrtowc(s, cvt) ==
    IF s = <<>> \/ s[1] = 0 THEN Result(0, 0)
    ELSE IF cvt.Isclocale THEN Result(1, s[1])
    ELSE CASE cvt.Mbcurmax = 1 -> Mbrtowc_single(s)
           [] cvt.Mbcurmax = 2 -> Mbrtowc_double(s, cvt)
           [] cvt.Mbcurmax = 4 -> Mbrtowc_utf8(s)

Wcrtomb(w, cvt) ==
    IF cvt.Isclocale THEN IF w > 255 THEN <<>> ELSE <<w>>
    ELSE CASE cvt.Mbcurmax = 1 -> ToSinglePage(w)
           [] cvt.Mbcurmax = 2 -> ToPage(w)
           [] cvt.Mbcurmax = 4 -> ToUtf8(w)

=============================================================================
