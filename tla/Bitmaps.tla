------------------------------ MODULE Bitmaps ------------------------------
(***************************************************************************)
(* Bitmaps (lib/kernel/bitmap.c) as they are stored: elements of ELEM_BITS *)
(* bits, with whatever malloc or a file has left in the bits of the last   *)
(* element that are not used.                                              *)
(***************************************************************************)
EXTENDS Integers, Bitwise, FiniteSets

CONSTANT ELEM_BITS

ASSUME BitmapsAssumption == ELEM_BITS \in Nat \ {0}

BITMAP_ERROR == -1
elem_type == 0 .. 2 ^ ELEM_BITS - 1

elem_idx(bit_idx) == bit_idx \div ELEM_BITS
bit_mask(bit_idx) == 2 ^ (bit_idx % ELEM_BITS)
elem_cnt(bit_cnt) == (bit_cnt + ELEM_BITS - 1) \div ELEM_BITS

last_mask(b) ==
  LET last_bits == b.bit_cnt % ELEM_BITS
  IN IF last_bits # 0 THEN 2 ^ last_bits - 1 ELSE 2 ^ ELEM_BITS - 1

\* What b->bits may hold before it is written.
Storage(bit_cnt) == [bit_cnt : {bit_cnt}, bits : [0 .. elem_cnt(bit_cnt) - 1 -> elem_type]]

bitmap_mark(b, i) == [b EXCEPT !.bits[elem_idx(i)] = @ | bit_mask(i)]
bitmap_reset(b, i) == [b EXCEPT !.bits[elem_idx(i)] = @ & (2 ^ ELEM_BITS - 1 - bit_mask(i))]
bitmap_flip(b, i) == [b EXCEPT !.bits[elem_idx(i)] = @ ^^ bit_mask(i)]
bitmap_set(b, i, value) == IF value THEN bitmap_mark(b, i) ELSE bitmap_reset(b, i)
bitmap_test(b, i) == (b.bits[elem_idx(i)] & bit_mask(i)) # 0

RECURSIVE bitmap_set_multiple(_, _, _, _)
bitmap_set_multiple(b, start, cnt, value) ==
  IF cnt = 0 THEN b
  ELSE bitmap_set_multiple(bitmap_set(b, start, value), start + 1, cnt - 1, value)

bitmap_set_all(b, value) == bitmap_set_multiple(b, 0, b.bit_cnt, value)

\* bitmap_create and bitmap_create_in_buf, once they have their memory.
bitmap_create(storage) == bitmap_set_all(storage, FALSE)

RECURSIVE bitmap_count(_, _, _, _)
bitmap_count(b, start, cnt, value) ==
  IF cnt = 0 THEN 0
  ELSE (IF bitmap_test(b, start) = value THEN 1 ELSE 0)
         + bitmap_count(b, start + 1, cnt - 1, value)

bitmap_contains(b, start, cnt, value) ==
  \E i \in start .. start + cnt - 1 : bitmap_test(b, i) = value

\* The loop of bitmap_scan from start on, up to last.
RECURSIVE scan_loop(_, _, _, _, _)
scan_loop(b, start, last, cnt, value) ==
  IF start > last THEN BITMAP_ERROR
  ELSE IF ~bitmap_contains(b, start, cnt, ~value) THEN start
  ELSE scan_loop(b, start + 1, last, cnt, value)

\* Mutant: a run that ends with the bitmap is not looked at.
ScanStopsShort(b, start, cnt, value) ==
  IF cnt <= b.bit_cnt THEN scan_loop(b, start, b.bit_cnt - cnt - 1, cnt, value)
  ELSE BITMAP_ERROR

bitmap_scan(b, start, cnt, value) ==
  IF cnt <= b.bit_cnt THEN scan_loop(b, start, b.bit_cnt - cnt, cnt, value)
  ELSE BITMAP_ERROR

bitmap_scan_and_flip(b, start, cnt, value) ==
  LET idx == bitmap_scan(b, start, cnt, value)
  IN [ret |-> idx,
      map |-> IF idx # BITMAP_ERROR THEN bitmap_set_multiple(b, idx, cnt, ~value) ELSE b]

\* bitmap_read, of a file that holds the elements of b: the unused bits are
\* cleared.
bitmap_read(b) ==
  IF b.bit_cnt > 0 THEN [b EXCEPT !.bits[elem_cnt(b.bit_cnt) - 1] = @ & last_mask(b)] ELSE b
=============================================================================
