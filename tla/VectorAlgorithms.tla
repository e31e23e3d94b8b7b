------------------------- MODULE VectorAlgorithms --------------------------
(* Swapping, reversing and reverse-copying ranges of 1, 2, 4 or 8-byte     *)
(* elements with vector instructions (src/vector_algorithms.cpp).  Memory  *)
(* is a sequence of bytes; isa is the set of instruction sets at hand.     *)
EXTENDS Integers, Sequences, SequencesExt

\* _mm256_permute4x64_epi64: quadword q of the result is quadword
\* (imm >> 2q) % 4 of v.
permute4x64(v, imm) ==
  [b \in 1..32 |-> LET q == (b - 1) \div 8
                   IN v[8 * ((imm \div 4^q) % 4) + ((b - 1) % 8) + 1]]

\* _mm_shuffle_epi8, in each lane of 16 bytes; mask[b] is byte b of the mask.
shuffle_epi8(v, mask) ==
  [b \in 1..Len(v) |-> v[16 * ((b - 1) \div 16) + mask[(b - 1) % 16] + 1]]

\* _mm_shuffle_epi32, in each lane: doubleword d is doubleword (imm >> 2d) % 4.
shuffle_epi32(v, imm) ==
  [b \in 1..Len(v) |-> LET c == (b - 1) % 16
                       IN v[16 * ((b - 1) \div 16) + 4 * ((imm \div 4^(c \div 4)) % 4)
                              + (c % 4) + 1]]

\* The operands of _mm_set_epi8 go from the highest byte to the lowest.
Reverse_char == [b \in 0..15 |-> 15 - b]
Reverse_short == [b \in 0..15 |-> (14 - b) + 2 * (b % 2)]

\* The two lanes of a 32-byte vector change places; 16 bytes are one lane.
Lanes(v) == IF Len(v) = 32 THEN permute4x64(v, 78) ELSE v

\* Mutant of Reversed_4: the two lanes of a vector of longs stay in place.
Reversed_4_lanes(v) == shuffle_epi32(v, 27)

\* A vector of 32 or 16 bytes with its elements in reverse order.
Reversed_1(v) == shuffle_epi8(Lanes(v), Reverse_char)
Reversed_2(v) == shuffle_epi8(Lanes(v), Reverse_short)
Reversed_4(v) == shuffle_epi32(Lanes(v), 27)
Reversed_8(v) == IF Len(v) = 32 THEN permute4x64(v, 27) ELSE shuffle_epi32(v, 78)

Reversed(v, size) ==
  CASE size = 1 -> Reversed_1(v)
    [] size = 2 -> Reversed_2(v)
    [] size = 4 -> Reversed_4(v)
    [] size = 8 -> Reversed_8(v)

At(m, first, n) == SubSeq(m, first + 1, first + n)

Store(m, first, v) ==
  [b \in 1..Len(m) |-> IF b \in first + 1 .. first + Len(v) THEN v[b - first] ELSE m[b]]

-----------------------------------------------------------------------------
\* Swaps blocks of n bytes at both ends of [first, last) up to stop_at.
RECURSIVE Reverse_blocks(_, _, _, _, _, _)
Reverse_blocks(m, first, last, stop_at, n, size) ==
  LET left == Reversed(At(m, first, n), size)
      right == Reversed(At(m, last - n, n), size)
      next == Store(Store(m, first, right), last - n, left)
  IN IF first + n = stop_at
     THEN [m |-> next, first |-> first + n, last |-> last - n]
     ELSE Reverse_blocks(next, first + n, last - n, stop_at, n, size)

Stop_at(r, n) == r.first + ((r.last - r.first) \div (2 * n)) * n

\* Element by element, until the two ends meet: element k changes places with
\* the last but k.
Reverse_tail(m, first, last, size) ==
  [b \in 1..Len(m) |->
      IF b \notin first + 1 .. last THEN m[b]
      ELSE m[last - size * ((b - 1 - first) \div size + 1) + ((b - 1 - first) % size) + 1]]

\* While 64 bytes are left and there is AVX2, then while 32 are and there is
\* the instruction set sse.
Reverse_range(m, size, isa, sse) ==
  LET r0 == [m |-> m, first |-> 0, last |-> Len(m)]
      Blocks(r, n) == Reverse_blocks(r.m, r.first, r.last, Stop_at(r, n), n, size)
      r1 == IF Len(m) >= 64 /\ "avx2" \in isa THEN Blocks(r0, 32) ELSE r0
      r2 == IF r1.last - r1.first >= 32 /\ sse \in isa THEN Blocks(r1, 16) ELSE r1
  IN Reverse_tail(r2.m, r2.first, r2.last, size)

reverse_trivially_swappable_1(m, isa) == Reverse_range(m, 1, isa, "sse42")
reverse_trivially_swappable_2(m, isa) == Reverse_range(m, 2, isa, "sse42")
reverse_trivially_swappable_4(m, isa) == Reverse_range(m, 4, isa, "sse2")
reverse_trivially_swappable_8(m, isa) == Reverse_range(m, 8, isa, "sse2")

-----------------------------------------------------------------------------
\* Copies blocks of n bytes from the end of the source while there is one.
RECURSIVE Copy_blocks(_, _, _, _, _)
Copy_blocks(m, last, dest, n, size) ==
  IF last < n THEN [last |-> last, dest |-> dest]
  ELSE Copy_blocks(m, last - n, dest \o Reversed(At(m, last - n, n), size), n, size)

\* Element by element: element k of the rest is the last but k of the source.
Reverse_copy_tail(m, last, dest, size) ==
  dest \o [b \in 1..last |-> m[last - size * ((b - 1) \div size + 1) + ((b - 1) % size) + 1]]

Reverse_copy_range(m, size, isa, sse) ==
  LET r0 == [last |-> Len(m), dest |-> << >>]
      r1 == IF Len(m) >= 32 /\ "avx2" \in isa
            THEN Copy_blocks(m, Len(m), << >>, 32, size) ELSE r0
      r2 == IF r1.last >= 16 /\ sse \in isa
            THEN Copy_blocks(m, r1.last, r1.dest, 16, size) ELSE r1
  IN Reverse_copy_tail(m, r2.last, r2.dest, size)

reverse_copy_trivially_copyable_1(m, isa) == Reverse_copy_range(m, 1, isa, "sse42")
reverse_copy_trivially_copyable_2(m, isa) == Reverse_copy_range(m, 2, isa, "sse42")
reverse_copy_trivially_copyable_4(m, isa) == Reverse_copy_range(m, 4, isa, "sse2")
reverse_copy_trivially_copyable_8(m, isa) == Reverse_copy_range(m, 8, isa, "sse2")

-----------------------------------------------------------------------------
\* Swaps whole blocks of n bytes of two ranges, then what is left with the
\* next smaller blocks, and at last byte by byte.
Swap_from(m1, m2, first, n) ==
  LET len == ((Len(m1) - first) \div n) * n
  IN [m1 |-> Store(m1, first, At(m2, first, len)),
      m2 |-> Store(m2, first, At(m1, first, len)), first |-> first + len]

swap_ranges_trivially_swappable(m1, m2, isa) ==
  LET r0 == [m1 |-> m1, m2 |-> m2, first |-> 0]
      Step(r, n, usable) == IF usable THEN Swap_from(r.m1, r.m2, r.first, n) ELSE r
      r32 == Step(r0, 32, "avx2" \in isa)
      r16 == Step(r32, 16, "sse2" \in isa)
      r8 == Step(r16, IF "x64" \in isa THEN 8 ELSE 4, TRUE)
  IN Step(r8, 1, TRUE)
=============================================================================
