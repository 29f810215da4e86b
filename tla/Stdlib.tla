------------------------------- MODULE Stdlib ------------------------------
(***************************************************************************)
(* sort and binary_search of lib/stdlib.c on an array of numbers, and the  *)
(* 64-bit division of lib/arithmetic.c for words of W bits.                *)
(***************************************************************************)
EXTENDS Integers, Sequences, SequencesExt

CONSTANT W  \* bits of a word: a power of two, 32 in the code

ASSUME StdlibAssumption == W \in {2, 4, 8, 16, 32}

do_swap(array, a, b) == [array EXCEPT ![a] = array[b], ![b] = array[a]]

\* Mutant: a heap of which the last element is not looked at.
RECURSIVE HeapifyShort(_, _, _)
HeapifyShort(array, i, cnt) ==
  LET left == IF 2 * i <= cnt /\ array[2 * i] > array[i] THEN 2 * i ELSE i
      max == IF 2 * i + 1 < cnt /\ array[2 * i + 1] > array[left] THEN 2 * i + 1 ELSE left
  IN IF max = i THEN array ELSE HeapifyShort(do_swap(array, i, max), max, cnt)

RECURSIVE heapify(_, _, _)
heapify(array, i, cnt) ==
  LET left == IF 2 * i <= cnt /\ array[2 * i] > array[i] THEN 2 * i ELSE i
      max == IF 2 * i + 1 <= cnt /\ array[2 * i + 1] > array[left] THEN 2 * i + 1 ELSE left
  IN IF max = i THEN array ELSE heapify(do_swap(array, i, max), max, cnt)

\* sort: a heap is built from the back, then taken apart from the back.
sort(array) ==
  LET cnt == Len(array)
      heap == FoldLeft(LAMBDA a, i : heapify(a, i, cnt), array,
                       [k \in 1 .. cnt \div 2 |-> cnt \div 2 + 1 - k])
  IN FoldLeft(LAMBDA a, i : heapify(do_swap(a, 1, i), 1, i - 1), heap,
              [k \in 1 .. cnt - 1 |-> cnt + 1 - k])

\* binary_search between first and last: an index, or 0 for the null pointer.
RECURSIVE binary_search(_, _, _, _)
binary_search(key, array, first, last) ==
  IF first >= last THEN 0
  ELSE LET middle == first + (last - first) \div 2
       IN IF key < array[middle] THEN binary_search(key, array, first, middle)
          ELSE IF key > array[middle] THEN binary_search(key, array, middle + 1, last)
          ELSE middle

-----------------------------------------------------------------------------
B == 2 ^ W          \* the code's b
Word == 0 .. B - 1
Double == 0 .. B * B - 1

Trap == -1          \* the divide error of divl

\* divl, external: the DIVL instruction.
divl(n, d) == IF d = 0 \/ n \div d >= B THEN Trap ELSE n \div d

\* nlz: halves of the word, then of the half, and so on down to one bit.
RECURSIVE nlz_step(_, _)
nlz_step(x, h) ==
  IF h = 0 THEN 0
  ELSE IF x < 2 ^ (W - h) THEN h + nlz_step((x * 2 ^ h) % B, h \div 2)
  ELSE nlz_step(x, h \div 2)
nlz(x) == nlz_step(x, W \div 2)

\* Mutant: the estimate of the quotient is not corrected.
UdivEstimate(n, d) ==
  IF d \div B = 0
    THEN divl(B * ((n \div B) % d) + (n % B), d) + B * ((n \div B) \div d)
    ELSE IF n < d THEN 0
    ELSE LET s == nlz(d \div B)
         IN divl(n \div 2, ((d * 2 ^ s) % (B * B)) \div B) \div 2 ^ (W - 1 - s)

\* udiv64.
udiv64(n, d) ==
  IF d \div B = 0
    THEN divl(B * ((n \div B) % d) + (n % B), d) + B * ((n \div B) \div d)
    ELSE IF n < d THEN 0
    ELSE LET s == nlz(d \div B)
             q == divl(n \div 2, ((d * 2 ^ s) % (B * B)) \div B) \div 2 ^ (W - 1 - s)
         IN IF (n - (q - 1) * d) % (B * B) < d THEN q - 1 ELSE q

\* umod64, whose result type is one word.
umod64(n, d) == (n - d * udiv64(n, d)) % B

\* The numbers that the double words stand for in two's complement.
Signed(x) == IF x < (B * B) \div 2 THEN x ELSE x - B * B
Magnitude(x) == IF x < (B * B) \div 2 THEN x ELSE B * B - x

\* sdiv64.
sdiv64(n, d) ==
  LET q == udiv64(Magnitude(n), Magnitude(d))
  IN IF (Signed(n) < 0) = (Signed(d) < 0) THEN q ELSE (B * B - q) % (B * B)

\* smod64, whose result type is one word.
smod64(n, d) == (n - d * sdiv64(n, d)) % B

\* __umoddi3 and __moddi3 widen the word again, with zeros and with its sign.
umoddi3(n, d) == umod64(n, d)
moddi3(n, d) ==
  LET r == smod64(n, d)
  IN IF r < B \div 2 THEN r ELSE B * B - B + r
=============================================================================
