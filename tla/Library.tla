------------------------------ MODULE Library ------------------------------
(***************************************************************************)
(* Calls of sequential algorithms with every small argument: list.c,       *)
(* hash.c, bitmap.c, stdlib.c, arithmetic.c, partition.c, loops of inode.c *)
(* and, in TextCalls and VmCalls, strings, printf, the keyboard driver,    *)
(* address spaces and the loader.                                          *)
(* A state is a call and, after the step it takes, its result.  The result *)
(* of hash_init is a table, to which further calls are made.               *)
(***************************************************************************)
EXTENDS TextCalls, VmCalls, Lists, Stdlib, Hash, Partition, InodeIO, Bitmaps

CONSTANTS
  MaxLen,    \* bound: the longest list or array
  MaxKey,    \* bound: keys are 1 .. MaxKey
  MaxByte,   \* bound: lengths, sizes and offsets in files
  MaxBit,    \* bound: the bits of a bitmap
  HashKey    \* keys of hash table elements

vars == <<call, result>>

Key == 1 .. MaxKey
Keys == UNION {[1 .. n -> Key] : n \in 0 .. MaxLen}

\* A list with these keys, whose elements also know where they were.
Listed(keys) == [i \in DOMAIN keys |-> [key |-> keys[i], id |-> i]]

\* Hash table elements; two with the same key are different and equal.
Elem == [key : HashKey, id : {1, 2}]

\* Partition tables of up to two entries.
Entry == [type : {"empty", "extended", "other"}, offset : 0 .. MaxSector, size : 0 .. MaxSector]
Tables == {<<>>} \cup {<<e>> : e \in Entry} \cup (Entry \X Entry)

Init ==
  /\ result = NULL
  /\ \/ call \in [op : {"list", "array"}, keys : Keys]
     \/ call \in [op : {"links"}, len : 0 .. MaxLen, first : 1 .. MaxLen + 1,
                  last : 1 .. MaxLen + 1, before : 0 .. MaxLen]
        /\ call.first <= call.last /\ call.last <= call.len + 1
     \/ call \in [op : {"hash"}, contents : {{}}]
     \/ call \in [op : {"partition"}, table : Tables]
     \/ call \in [op : {"io"}, length : 0 .. MaxByte, size : 0 .. MaxByte,
                  offset : 0 .. MaxByte, deny : 0 .. 1, bounce : BOOLEAN]
     \/ call \in [op : {"bitmap"}, storage : UNION {Storage(n) : n \in 0 .. MaxBit}]
     \/ call \in [op : {"divide"}, n : Double, d : Double \ {0}]
     \/ TextInit
     \/ VmInit

\* list_sort, list_insert_ordered into the sorted list, list_unique, list_max
\* and list_min.
CallList ==
  /\ call.op = "list" /\ result = NULL
  /\ LET s == Listed(call.keys)
         sorted == list_sort(s)
     IN result' = [sorted |-> sorted,
                   inserted |-> [k \in Key |-> list_insert_ordered(sorted, [key |-> k, id |-> 0])],
                   unique |-> list_unique(s, 1, <<>>),
                   max |-> list_max(s), min |-> list_min(s)]
  /\ UNCHANGED call

\* sort, and binary_search in the sorted array.
CallArray ==
  /\ call.op = "array" /\ result = NULL
  /\ LET sorted == sort(call.keys)
     IN result' = [sorted |-> sorted,
                   found |-> [k \in Key |-> binary_search(k, sorted, 1, Len(sorted) + 1)]]
  /\ UNCHANGED call

\* A second list, of two elements, follows the first in the numbering of nodes.
Head2 == MaxLen + 2
Tail2 == Head2 + 3

\* list_reverse of a list, and list_splice of a part of it to the second list.
CallLinks ==
  /\ call.op = "links" /\ result = NULL
  /\ LET l == Joined(Linked(0, call.len), Linked(Head2, 2))
         before == IF call.before \in 1 .. 2 THEN Head2 + call.before ELSE Tail2
     IN result' = [reversed |-> list_reverse(Linked(0, call.len), 0, call.len + 1),
                   spliced |-> list_splice(l, before, call.first, call.last)]
  /\ UNCHANGED call

\* __udivdi3, __divdi3, __umoddi3 and __moddi3.
CallDivide ==
  /\ call.op = "divide" /\ result = NULL
  /\ result' = [udiv |-> udiv64(call.n, call.d), umod |-> umoddi3(call.n, call.d),
                sdiv |-> sdiv64(call.n, call.d), smod |-> moddi3(call.n, call.d)]
  /\ UNCHANGED call

CallPartition ==
  /\ call.op = "partition" /\ result = NULL
  /\ result' = partition_scan(call.table)
  /\ UNCHANGED call

\* file_read and file_write at a position, which may be past the end.
CallFile ==
  /\ call.op = "io" /\ result = NULL
  /\ LET read == inode_read_at(call.length, call.size, call.offset)
         written == inode_write_at(call.length, call.size, call.offset, call.deny, call.bounce)
     IN result' = [read |-> read, read_pos |-> file_pos(call.offset, read),
                   written |-> written, written_pos |-> file_pos(call.offset, written)]
  /\ UNCHANGED call

\* Every call of a bitmap's operations that keeps to their assertions.
Ranges(n) == (0 .. n) \X (0 .. n + 1) \X BOOLEAN
Within(n) == {r \in Ranges(n) : r[1] + r[2] <= n}

CallBitmap ==
  /\ call.op = "bitmap" /\ result = NULL
  /\ LET b == call.storage
         n == b.bit_cnt
     IN result' =
          [created |-> bitmap_create(b), full |-> bitmap_set_all(b, TRUE),
           stored |-> bitmap_read(b),
           flipped |-> [i \in 0 .. n - 1 |-> bitmap_flip(b, i)],
           count |-> [r \in Within(n) |-> bitmap_count(b, r[1], r[2], r[3])],
           scan |-> [r \in Ranges(n) |-> bitmap_scan(b, r[1], r[2], r[3])],
           taken |-> [r \in Ranges(n) |-> bitmap_scan_and_flip(b, r[1], r[2], r[3])]]
  /\ UNCHANGED call

\* The table after a call that may rehash; malloc may fail there.  The contents
\* that the table should have are part of the call.
Rehashed(h) == result' \in {h, rehash(h)}

HashInit ==
  /\ call.op = "hash" /\ result = NULL
  /\ result' = hash_init
  /\ UNCHANGED call

InTable == call.op = "hash" /\ result # NULL
Equals(e) == {x \in call.contents : x.key = e.key}

HashInsert(e) ==
  /\ InTable
  /\ Rehashed(hash_insert(result, e))
  /\ call' = [call EXCEPT !.contents = IF Equals(e) = {} THEN @ \cup {e} ELSE @]

HashReplace(e) ==
  /\ InTable
  /\ Rehashed(hash_replace(result, e))
  /\ call' = [call EXCEPT !.contents = (@ \ Equals(e)) \cup {e}]

HashDelete(e) ==
  /\ InTable
  /\ IF hash_find(result, e) = {} THEN UNCHANGED result ELSE Rehashed(hash_delete(result, e))
  /\ call' = [call EXCEPT !.contents = @ \ Equals(e)]

HashClear ==
  /\ InTable
  /\ result' = hash_clear(result)
  /\ call' = [call EXCEPT !.contents = {}]

Hashing ==
  HashInit \/ HashClear \/ \E e \in Elem : HashInsert(e) \/ HashReplace(e) \/ HashDelete(e)

Next == Hashing \/ CallPartition \/ CallFile \/ CallBitmap \/ CallList \/ CallArray \/ CallLinks
          \/ CallDivide \/ Texting \/ AddressSpaces \/ CallLoad

Spec == Init /\ [][Next]_vars

-----------------------------------------------------------------------------
(* Properties. *)

\* The results of list_sort are the elements it was given, in order, with equal
\* ones in the order they had; list_insert_ordered, into a sorted list, puts an
\* element after its equals; list_unique keeps the first of each stretch of
\* equal elements and moves the others to the list of duplicates, in order; and
\* list_max and list_min return the earliest of several extreme elements, and
\* the tail of an empty list.  After list_reverse and
\* list_splice the links give the right elements, read forwards and backwards.
ListsRight ==
  /\ Returned("list") =>
       LET s == Listed(call.keys)
           k == call.keys
           r == result.sorted
           first(e) == e.id = 1 \/ k[e.id - 1] # e.key
       IN /\ ToSet(r) = ToSet(s) /\ Len(r) = Len(s)
          /\ \A i, j \in DOMAIN r :
               i < j => \/ r[i].key < r[j].key
                        \/ r[i].key = r[j].key /\ r[i].id < r[j].id
          /\ \A v \in Key :
               result.inserted[v] = SelectSeq(r, LAMBDA e : e.key <= v) \o <<[key |-> v, id |-> 0]>>
                                      \o SelectSeq(r, LAMBDA e : e.key > v)
          /\ result.unique = [list |-> SelectSeq(s, first),
                              duplicates |-> SelectSeq(s, LAMBDA e : ~first(e))]
          /\ IF k = <<>> THEN result.max = 1 /\ result.min = 1
             ELSE /\ \A i \in DOMAIN k : k[i] <= k[result.max] /\ k[i] >= k[result.min]
                  /\ \A i \in 1 .. result.max - 1 : k[i] < k[result.max]
                  /\ \A i \in 1 .. result.min - 1 : k[i] > k[result.min]
  /\ Returned("links") =>
       LET n == call.len
           nodes == [i \in 1 .. n |-> i]
           moved == SubSeq(nodes, call.first, call.last - 1)
           kept == SubSeq(nodes, 1, call.first - 1) \o SubSeq(nodes, call.last, n)
           before == IF call.before \in 1 .. 2 THEN call.before ELSE 3
           two == <<Head2 + 1, Head2 + 2>>
           joined == SubSeq(two, 1, before - 1) \o moved \o SubSeq(two, before, 2)
           Reads(l, head, tail, s) ==
             Forwards(l, head, tail, n + 3) = s /\ Backwards(l, head, tail, n + 3) = Reverse(s)
       IN /\ Reads(result.reversed, 0, n + 1, Reverse(nodes))
          /\ Reads(result.spliced, 0, n + 1, kept)
          /\ Reads(result.spliced, Head2, Tail2, joined)

\* The result of sort is a permutation of the array, in order, and binary_search
\* in it finds a key exactly if it is there.
ArraysRight ==
  Returned("array") =>
    LET r == result.sorted
    IN /\ \A k \in Key : Len(SelectSeq(r, LAMBDA e : e = k)) =
                         Len(SelectSeq(call.keys, LAMBDA e : e = k))
       /\ Len(r) = Len(call.keys)
       /\ \A i \in 2 .. Len(r) : r[i - 1] <= r[i]
       /\ \A k \in Key : IF k \in ToSet(r)
                            THEN result.found[k] # 0 /\ r[result.found[k]] = k
                            ELSE result.found[k] = 0

\* A hash table holds what was put into it and not taken out, whether or not
\* rehash got its memory; hash_find finds every element of it; the count is
\* right, and the number of buckets is a power of two, on which find_bucket
\* relies.
TableHoldsContents ==
  InTable =>
    /\ UNION {ToSet(result.buckets[i]) : i \in DOMAIN result.buckets} = call.contents
    /\ result.elem_cnt = Cardinality(call.contents)
    /\ \A e \in Elem : hash_find(result, e) = Equals(e)
    /\ bucket_cnt(result) \in {1, 2, 4, 8, 16}

\* Every partition that partition_scan registers lies within its device, also
\* when its end wraps around, and the partitions are numbered apart.
PartitionsInside ==
  Returned("partition") =>
    /\ \A p \in result.found : p.size > 0 /\ p.start + p.size <= DeviceSize
    /\ \A p, q \in result.found : p.nr = q.nr => p = q

\* The chunks of a read are the bytes wanted, as far as the file has them, each
\* once and in order, within the sectors that inode_create has allocated; a
\* write that gets no bounce buffer does a part of that from the front; and the
\* position ends where the last byte was.
ChunksCover ==
  Returned("io") =>
    LET wanted == {i \in call.offset .. call.offset + call.size - 1 : i < call.length}
        bytes(c) == [i \in 1 .. c.size |-> c.sector * BLOCK_SECTOR_SIZE + c.ofs + i - 1]
        all(done) == FoldLeft(LAMBDA s, c : s \o bytes(c), <<>>, done)
    IN /\ all(result.read) = [i \in 1 .. Cardinality(wanted) |-> call.offset + i - 1]
       /\ result.read_pos = call.offset + Cardinality(wanted)
       /\ \A i \in DOMAIN result.read :
            LET c == result.read[i]
            IN c.sector < bytes_to_sectors(call.length) /\ c.ofs + c.size <= BLOCK_SECTOR_SIZE
       /\ IsPrefix(result.written, result.read)
       /\ (call.deny = 0 /\ call.bounce) => result.written = result.read
       /\ call.deny > 0 => result.written_pos = call.offset

\* The elements represent a set of bits, whatever their unused bits are: each
\* operation of a bitmap does to the set what it should and leaves the unused
\* bits alone, except that a bitmap read from a file has none set; bitmap_scan
\* finds the first run there is, and bitmap_scan_and_flip flips and returns it.
\* (For no bits at all the latter returns START, where its comment says 0.)
BitmapsAgree ==
  Returned("bitmap") =>
    LET b == call.storage
        n == b.bit_cnt
        Bits(c) == {i \in 0 .. elem_cnt(n) * ELEM_BITS - 1 :
                      (c.bits[i \div ELEM_BITS] \div 2 ^ (i % ELEM_BITS)) % 2 = 1}
        all == Bits(b)
        used == 0 .. n - 1
        has(value) == IF value THEN all \cap used ELSE used \ all
        run(i, r) == i .. i + r[2] - 1
        runs(r) == {i \in r[1] .. n - r[2] : run(i, r) \subseteq has(r[3])}
    IN /\ Bits(result.created) = all \ used
       /\ Bits(result.full) = all \cup used
       /\ Bits(result.stored) = all \cap used
       /\ \A i \in used : Bits(result.flipped[i]) = (all \ {i}) \cup ({i} \ all)
       /\ \A r \in Within(n) :
            result.count[r] = Cardinality(run(r[1], r) \cap has(r[3]))
       /\ \A r \in Ranges(n) :
            IF runs(r) = {}
            THEN result.scan[r] = BITMAP_ERROR /\ result.taken[r] = [ret |-> BITMAP_ERROR, map |-> b]
            ELSE LET i == result.scan[r]
                 IN /\ i \in runs(r) /\ \A j \in runs(r) : i <= j
                    /\ r[2] > 0 => result.taken[r].ret = i
                    /\ Bits(result.taken[r].map) = IF r[3] THEN all \ run(i, r)
                                                   ELSE all \cup run(i, r)

\* Remainders that do not fit the result type of umod64 and of smod64, one word.
\* For these, __umoddi3 and __moddi3 do not return "the remainder" that the
\* comments in arithmetic.c promise, but its low word.
RemainderCut(r) == r >= B
SignedRemainderCut(r) == r < -(B \div 2) \/ r >= B \div 2

\* The division routines never trap and return the quotient, rounded towards
\* zero for signed operands, and the remainder, with the sign of the dividend,
\* unless it is one that the result type cuts.
QuotientsRight ==
  Returned("divide") =>
    LET n == call.n
        d == call.d
        q == Magnitude(n) \div Magnitude(d)
        signed == IF (Signed(n) < 0) = (Signed(d) < 0) THEN q ELSE -q
        rest == Signed(n) - Signed(d) * signed
    IN /\ result.udiv = n \div d
       /\ result.sdiv = signed % (B * B)
       /\ ~RemainderCut(n % d) => result.umod = n % d
       /\ ~SignedRemainderCut(rest) => result.smod = rest % (B * B)
=============================================================================
