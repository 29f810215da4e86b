-------------------------------- MODULE Hash -------------------------------
(***************************************************************************)
(* The hash table of lib/kernel/hash.c.  An element is a record with a     *)
(* key, which is its own hash value and which less compares.  A table is   *)
(* the record of its buckets, lists that grow at the front, and its count  *)
(* of elements.                                                            *)
(***************************************************************************)
EXTENDS Naturals, Sequences, FiniteSets, SequencesExt

CONSTANTS
  MinBuckets,             \* 4 in the code
  BEST_ELEMS_PER_BUCKET   \* 2 in the code

ASSUME HashAssumption ==
  /\ BEST_ELEMS_PER_BUCKET \in Nat \ {0}
  /\ MinBuckets \in {1, 2, 4, 8}

bucket_cnt(h) == Cardinality(DOMAIN h.buckets)

Emptied(cnt) == [i \in 0 .. cnt - 1 |-> <<>>]

\* hash_init, and hash_clear of a table of any size.
hash_init == [buckets |-> Emptied(MinBuckets), elem_cnt |-> 0]
hash_clear(h) == [buckets |-> Emptied(bucket_cnt(h)), elem_cnt |-> 0]

\* find_bucket: hash & (bucket_cnt - 1), the count being a power of two.
find_bucket(h, e) == e.key % bucket_cnt(h)

\* find_elem: the elements of the bucket that equal e, none or one.
find_elem(h, i, e) == {x \in ToSet(h.buckets[i]) : x.key = e.key}

insert_elem(h, i, e) ==
  [h EXCEPT !.buckets[i] = <<e>> \o @, !.elem_cnt = @ + 1]

remove_elem(h, i, e) ==
  [h EXCEPT !.buckets[i] = SelectSeq(@, LAMBDA x : x # e), !.elem_cnt = @ - 1]

\* The largest power of two not above the ideal number of buckets.
RECURSIVE power_of_2_below(_, _)
power_of_2_below(n, p) == IF 2 * p > n THEN p ELSE power_of_2_below(n, 2 * p)

ideal_bucket_cnt(h) ==
  LET ideal == h.elem_cnt \div BEST_ELEMS_PER_BUCKET
  IN IF ideal < MinBuckets THEN MinBuckets ELSE power_of_2_below(ideal, 1)

\* The elements in the order in which rehash moves them.
InOrder(h) == FoldLeft(LAMBDA s, i : s \o h.buckets[i], <<>>,
                       [k \in 1 .. bucket_cnt(h) |-> k - 1])

\* Mutant: an element stays in the bucket that it had in the old table.
MoveToOld(h) ==
  LET cnt == ideal_bucket_cnt(h)
  IN IF cnt = bucket_cnt(h) THEN h
     ELSE [h EXCEPT !.buckets =
             FoldLeft(LAMBDA t, e : [t EXCEPT ![(e.key % bucket_cnt(h)) % cnt] = <<e>> \o @],
                      Emptied(cnt), InOrder(h))]

\* rehash, if the new buckets can be allocated.
rehash(h) ==
  LET cnt == ideal_bucket_cnt(h)
  IN IF cnt = bucket_cnt(h) THEN h
     ELSE [h EXCEPT !.buckets =
             FoldLeft(LAMBDA t, e : [t EXCEPT ![e.key % cnt] = <<e>> \o @],
                      Emptied(cnt), InOrder(h))]

\* hash_insert, hash_replace and hash_delete up to rehash.
hash_insert(h, e) ==
  LET i == find_bucket(h, e)
  IN IF find_elem(h, i, e) = {} THEN insert_elem(h, i, e) ELSE h

hash_replace(h, e) ==
  LET i == find_bucket(h, e)
      old == find_elem(h, i, e)
  IN insert_elem(IF old = {} THEN h ELSE remove_elem(h, i, CHOOSE x \in old : TRUE), i, e)

hash_delete(h, e) ==
  LET i == find_bucket(h, e)
      found == find_elem(h, i, e)
  IN IF found = {} THEN h ELSE remove_elem(h, i, CHOOSE x \in found : TRUE)

\* hash_find.
hash_find(h, e) == find_elem(h, find_bucket(h, e), e)
=============================================================================
