---------------------------- MODULE MemoryProofs ----------------------------
(***************************************************************************)
(* Proofs about Memory, for any number of pages, threads, descriptors and  *)
(* blocks: every page has one owner at most and is marked used exactly if  *)
(* it has one, and every block of an arena is either free or in use.       *)
(***************************************************************************)
EXTENDS Memory, Counting, TLAPS

-----------------------------------------------------------------------------
(* The inductive invariant.  First, what each thread's call says where.    *)

CallRecord == [kind : {"pages", "big", "block"}, desc : Desc \cup {NULL}, page : Nat \cup {NULL},
               cnt : Nat \ {0}, bit : Nat, old : Allocation \cup {NULL}]

Getting == {"pool", "scan", "flip", "unlock", "got"}
Freeing == {"scrub", "clear"}

\* A block's call serves one page at a time, for its descriptor; the others
\* have none.
KindOK(c) == IF c.kind = "block" THEN c.desc \in Desc /\ c.cnt = 1 ELSE c.desc = NULL

\* The descriptor's lock is held from the moment the free list is looked at.
DescHeld(t) == call[t].kind = "block" => desc_lock[call[t].desc] = t

InPool(c) == c.page \in Nat /\ c.page + c.cnt <= PageCnt /\ c.bit < c.cnt

CallOK(t) ==
  LET c == call[t]
  IN /\ KindOK(c)
     /\ pc[t] \in Getting => DescHeld(t) /\ (c.kind # "block" => c.cnt <= MaxRun)
     /\ pc[t] \in {"scan", "flip", "unlock"} => pool_lock = t
     /\ pc[t] = "scan" => /\ c.page \in Nat /\ c.bit < c.cnt
                          /\ c.bit > 0 => InPool(c)
                          /\ \A p \in Run(c.page, c.bit) : ~used_map[p]
     /\ pc[t] = "flip" => InPool(c) /\ \A p \in Run(c.page + c.bit, c.cnt - c.bit) : ~used_map[p]
     /\ pc[t] = "unlock" \/ (pc[t] = "got" /\ c.page # NULL) => InPool(c)
     /\ pc[t] \in {"desc", "pop", "free"} => c.kind = "block"
     /\ pc[t] = "pop" => DescHeld(t) /\ free_list[c.desc] # <<>>
     /\ pc[t] = "free" => c.page \in Arenas /\ arena[c.page].desc = c.desc
     /\ pc[t] \in Freeing => InPool(c) /\ DescHeld(t)
     /\ pc[t] = "scrub" => c.bit = 0 /\ (c.kind = "block" => c.page \in Arenas /\ arena[c.page].desc = c.desc)

\* realloc's old block is held until the new one is there.
OldOK ==
  /\ \A t \in Thread : call[t].old # NULL =>
       /\ call[t].old \in held /\ call[t].old.kind # "pages"
       /\ pc[t] \in Getting \cup {"desc", "pop"}
  /\ \A t, u \in Thread : t # u /\ call[t].old # NULL => call[t].old # call[u].old

CallTypes == call \in [Thread -> CallRecord]
CallsOK == \A t \in Thread : CallOK(t)

\* The pages: U are used, H are the runs held, A the arenas, F[t] what thread t
\* has in flight, and C the threads that are giving an arena back.
Owned(U, H, A, F, C) ==
  /\ \A p \in Page :
       p \in U <=> (\E h \in H : p \in Held(h)) \/ p \in A \/ (\E t \in Thread : p \in F[t])
  /\ \A h, k \in H : h # k => Held(h) \cap Held(k) = {}
  /\ \A h \in H : Held(h) \cap A = {} /\ \A t \in Thread : Held(h) \cap F[t] = {}
  /\ \A t, u \in Thread : t # u => F[t] \cap F[u] = {}
  /\ \A t \in Thread \ C : F[t] \cap A = {}

\* InFlight of a thread at p, with the call c.
Flight(p, c) ==
  CASE p = "flip" -> Run(c.page, c.bit)
    [] p = "clear" -> Run(c.page + c.bit, c.cnt - c.bit)
    [] p \in {"unlock", "scrub"} \/ (p = "got" /\ c.page # NULL) -> Run(c.page, c.cnt)
    [] OTHER -> {}

Marked == {p \in Page : used_map[p]}
Runs == {h \in held : h.kind # "block"}
Flights == [t \in Thread |-> Flight(pc[t], call[t])]
Closers == {t \in Thread : pc[t] = "scrub" /\ call[t].kind = "block"}

PagesOwned == Owned(Marked, Runs, Arenas, Flights, Closers)
RunsOK ==
  \A h \in Runs : /\ h.page + h.n <= PageCnt
                  /\ h.kind = "big" => arena[h.page] = [desc |-> NULL, free_cnt |-> h.n]

\* The blocks: L[d] are on d's free list, S are in use, and the arenas C are
\* being given back.
Elements(s) == {s[i] : i \in DOMAIN s}
Distinct(s) == \A i, j \in DOMAIN s : s[i] = s[j] => i = j
FreeOf(L, p, d) == {i \in 0 .. blocks_per_arena[d] - 1 : <<p, i>> \in L[d]}

Counted(A, ar, L, S, C) ==
  /\ \A b \in S : b[1] \in A /\ b[1] \notin C /\ b[2] \in 0 .. blocks_per_arena[ar[b[1]].desc] - 1
  /\ \A d \in Desc : \A b \in L[d] : b[1] \in A /\ b[1] \notin C /\ ar[b[1]].desc = d
  /\ \A p \in C : ar[p].free_cnt = blocks_per_arena[ar[p].desc]
  /\ \A p \in A \ C : LET d == ar[p].desc
                      IN /\ \A i \in 0 .. blocks_per_arena[d] - 1 : (<<p, i>> \in L[d]) # (<<p, i>> \in S)
                         /\ ar[p].free_cnt = Cardinality(FreeOf(L, p, d))

Lists == [d \in Desc |-> Elements(free_list[d])]
Blocks == {<<h.page, h.n>> : h \in {k \in held : k.kind = "block"}}
Freed(t) == <<call[t].page, call[t].bit>>
Freers == {t \in Thread : pc[t] = "free"}
Used == Blocks \cup {Freed(t) : t \in Freers}
Closing == {call[t].page : t \in Closers}

ListsDistinct == \A d \in Desc : Distinct(free_list[d])
BlocksCounted == Counted(Arenas, arena, Lists, Used, Closing)

\* A block that is being freed is not held, and no other thread frees it.
FreedOnce ==
  \A t \in Freers : Freed(t) \notin Blocks /\ \A u \in Freers : u # t => Freed(u) # Freed(t)

PageInv == PagesOwned /\ RunsOK
BlockInv == ListsDistinct /\ BlocksCounted /\ FreedOnce
MemoryInv == TypeOK /\ CallTypes /\ CallsOK /\ OldOK /\ PageInv /\ BlockInv

-----------------------------------------------------------------------------
(* What an operation does to the ownership of the pages. *)

\* Thread t marks page q, which nobody has.
LEMMA MarkOwned ==
  ASSUME NEW U, NEW H, NEW A, NEW F, NEW C, NEW t \in Thread, NEW q \in Page, NEW G,
         Owned(U, H, A, F, C), DOMAIN F = Thread, q \notin U, t \notin C,
         G = [F EXCEPT ![t] = F[t] \cup {q}]
  PROVE  Owned(U \cup {q}, H, A, G, C)
<1>1. q \notin A /\ (\A h \in H : q \notin Held(h)) /\ (\A u \in Thread : q \notin F[u])
  BY Zenon DEF Owned
<1>2. G[t] = F[t] \cup {q} /\ \A u \in Thread : u # t => G[u] = F[u]
  BY Zenon
<1>3. \A p \in Page : p \in U \cup {q} <=>
        (\E h \in H : p \in Held(h)) \/ p \in A \/ (\E u \in Thread : p \in G[u])
  BY <1>2, Zenon DEF Owned
<1>4. \A h \in H : Held(h) \cap A = {} /\ \A u \in Thread : Held(h) \cap G[u] = {}
  BY <1>1, <1>2 DEF Owned
<1>5. \A u, v \in Thread : u # v => G[u] \cap G[v] = {}
  BY <1>1, <1>2 DEF Owned
<1>6. \A u \in Thread \ C : G[u] \cap A = {}
  BY <1>1, <1>2 DEF Owned
<1> QED BY <1>3, <1>4, <1>5, <1>6, Zenon DEF Owned

\* Thread t clears page q, which it has in flight.
LEMMA ClearOwned ==
  ASSUME NEW U, NEW H, NEW A, NEW F, NEW C, NEW t \in Thread, NEW q \in Page, NEW G,
         Owned(U, H, A, F, C), DOMAIN F = Thread, q \in F[t], t \notin C,
         G = [F EXCEPT ![t] = F[t] \ {q}]
  PROVE  Owned(U \ {q}, H, A, G, C)
<1>1. q \notin A /\ (\A h \in H : q \notin Held(h)) /\ (\A u \in Thread : u # t => q \notin F[u])
  BY Zenon DEF Owned
<1>2. G[t] = F[t] \ {q} /\ \A u \in Thread : u # t => G[u] = F[u]
  BY Zenon
<1>3. \A p \in Page : p \in U \ {q} <=>
        (\E h \in H : p \in Held(h)) \/ p \in A \/ (\E u \in Thread : p \in G[u])
  BY <1>1, <1>2 DEF Owned
<1>4. \A h \in H : Held(h) \cap A = {} /\ \A u \in Thread : Held(h) \cap G[u] = {}
  BY <1>1, <1>2, Zenon DEF Owned
<1>5. \A u, v \in Thread : u # v => G[u] \cap G[v] = {}
  BY <1>1, <1>2 DEF Owned
<1>6. \A u \in Thread \ C : G[u] \cap A = {}
  BY <1>1, <1>2, Zenon DEF Owned
<1> QED BY <1>3, <1>4, <1>5, <1>6, Zenon DEF Owned

\* The scheduler clears a run that a caller had.
LEMMA DropOwned ==
  ASSUME NEW U, NEW H, NEW A, NEW F, NEW C, NEW h \in H, Owned(U, H, A, F, C)
  PROVE  Owned(U \ Held(h), H \ {h}, A, F, C)
<1>1. \A p \in Page : p \in U \ Held(h) <=>
        (\E k \in H \ {h} : p \in Held(k)) \/ p \in A \/ (\E u \in Thread : p \in F[u])
  BY Zenon DEF Owned
<1> QED BY <1>1, Zenon DEF Owned

\* Thread t hands over the run h that it has in flight.
LEMMA GiveOwned ==
  ASSUME NEW U, NEW H, NEW A, NEW F, NEW C, NEW t \in Thread, NEW h, NEW G,
         Owned(U, H, A, F, C), DOMAIN F = Thread, Held(h) = F[t], t \notin C, h \notin H,
         G = [F EXCEPT ![t] = {}]
  PROVE  Owned(U, H \cup {h}, A, G, C)
<1>2. G[t] = {} /\ \A u \in Thread : u # t => G[u] = F[u]
  BY Zenon
<1>3. \A p \in Page : p \in U <=>
        (\E k \in H \cup {h} : p \in Held(k)) \/ p \in A \/ (\E u \in Thread : p \in G[u])
  BY <1>2 DEF Owned
<1>4. \A k \in H \cup {h} : Held(k) \cap A = {} /\ \A u \in Thread : Held(k) \cap G[u] = {}
  BY <1>2 DEF Owned
<1>5. \A u, v \in Thread : u # v => G[u] \cap G[v] = {}
  BY <1>2, Zenon DEF Owned
<1>6. \A u \in Thread \ C : G[u] \cap A = {}
  BY <1>2, Zenon DEF Owned
<1>7. \A k, l \in H \cup {h} : k # l => Held(k) \cap Held(l) = {}
  BY DEF Owned
<1> QED BY <1>3, <1>4, <1>5, <1>6, <1>7, Zenon DEF Owned

\* Thread t, with nothing in flight, takes over the run h to free it.
LEMMA TakeOwned ==
  ASSUME NEW U, NEW H, NEW A, NEW F, NEW C, NEW t \in Thread, NEW h \in H, NEW G,
         Owned(U, H, A, F, C), DOMAIN F = Thread, F[t] = {},
         G = [F EXCEPT ![t] = Held(h)]
  PROVE  Owned(U, H \ {h}, A, G, C)
<1>2. G[t] = Held(h) /\ \A u \in Thread : u # t => G[u] = F[u]
  BY Zenon
<1>3. \A p \in Page : p \in U <=>
        (\E k \in H \ {h} : p \in Held(k)) \/ p \in A \/ (\E u \in Thread : p \in G[u])
  BY <1>2, Zenon DEF Owned
<1>4. \A k \in H \ {h} : Held(k) \cap A = {} /\ \A u \in Thread : Held(k) \cap G[u] = {}
  BY <1>2, Zenon DEF Owned
<1>5. \A u, v \in Thread : u # v => G[u] \cap G[v] = {}
  BY <1>2 DEF Owned
<1>6. \A u \in Thread \ C : G[u] \cap A = {}
  BY <1>2, Zenon DEF Owned
<1> QED BY <1>3, <1>4, <1>5, <1>6, Zenon DEF Owned

\* The page that thread t has in flight becomes an arena.
LEMMA ArenaOwned ==
  ASSUME NEW U, NEW H, NEW A, NEW F, NEW C, NEW t \in Thread, NEW q, NEW G,
         Owned(U, H, A, F, C), DOMAIN F = Thread, F[t] = {q}, t \notin C,
         G = [F EXCEPT ![t] = {}]
  PROVE  Owned(U, H, A \cup {q}, G, C)
<1>2. G[t] = {} /\ \A u \in Thread : u # t => G[u] = F[u]
  BY Zenon
<1>3. \A p \in Page : p \in U <=>
        (\E k \in H : p \in Held(k)) \/ p \in A \cup {q} \/ (\E u \in Thread : p \in G[u])
  BY <1>2, Zenon DEF Owned
<1>4. \A k \in H : Held(k) \cap (A \cup {q}) = {} /\ \A u \in Thread : Held(k) \cap G[u] = {}
  BY <1>2, Zenon DEF Owned
<1>5. \A u, v \in Thread : u # v => G[u] \cap G[v] = {}
  BY <1>2, Zenon DEF Owned
<1>6. \A u \in Thread \ C : G[u] \cap (A \cup {q}) = {}
  BY <1>2, Zenon DEF Owned
<1> QED BY <1>3, <1>4, <1>5, <1>6, Zenon DEF Owned

\* Thread t starts to give the arena q back.
LEMMA CloseOwned ==
  ASSUME NEW U, NEW H, NEW A, NEW F, NEW C, NEW t \in Thread, NEW q \in A, NEW G,
         Owned(U, H, A, F, C), DOMAIN F = Thread, F[t] = {},
         \A u \in C : q \notin F[u],
         G = [F EXCEPT ![t] = {q}]
  PROVE  Owned(U, H, A, G, C \cup {t})
<1>1. \A u \in Thread : q \notin F[u]
  BY Zenon DEF Owned
<1>2. G[t] = {q} /\ \A u \in Thread : u # t => G[u] = F[u]
  BY Zenon
<1>3. \A p \in Page : p \in U <=>
        (\E k \in H : p \in Held(k)) \/ p \in A \/ (\E u \in Thread : p \in G[u])
  BY <1>2 DEF Owned
<1>4. \A k \in H : Held(k) \cap A = {} /\ \A u \in Thread : Held(k) \cap G[u] = {}
  BY <1>2 DEF Owned
<1>5. \A u, v \in Thread : u # v => G[u] \cap G[v] = {}
  BY <1>1, <1>2 DEF Owned
<1>6. \A u \in Thread \ (C \cup {t}) : G[u] \cap A = {}
  BY <1>2, Zenon DEF Owned
<1> QED BY <1>3, <1>4, <1>5, <1>6, Zenon DEF Owned

\* The header of the arena q, which thread t gives back, is gone.
LEMMA ScrubOwned ==
  ASSUME NEW U, NEW H, NEW A, NEW F, NEW C, NEW t \in Thread, NEW q,
         Owned(U, H, A, F, C), F[t] = {q}
  PROVE  Owned(U, H, A \ {q}, F, C \ {t})
<1>1. \A p \in Page : p \in U <=>
        (\E k \in H : p \in Held(k)) \/ p \in A \ {q} \/ (\E u \in Thread : p \in F[u])
  BY Zenon DEF Owned
<1>2. \A u \in Thread \ (C \ {t}) : F[u] \cap (A \ {q}) = {}
  BY Zenon DEF Owned
<1> QED BY <1>1, <1>2, Zenon DEF Owned

-----------------------------------------------------------------------------
(* Sequences. *)

LEMMA SeqLen ==
  ASSUME NEW S, NEW q \in Seq(S)
  PROVE  /\ Len(q) \in Nat /\ DOMAIN q = 1 .. Len(q) /\ q \in [1 .. Len(q) -> S]
         /\ \A i \in 1 .. Len(q) : q[i] \in S
         /\ q = <<>> <=> Len(q) = 0
  OBVIOUS

LEMMA SeqMade ==
  ASSUME NEW S, NEW n \in Nat, NEW q \in [1 .. n -> S]
  PROVE  q \in Seq(S) /\ Len(q) = n
  OBVIOUS

LEMMA SeqPop ==
  ASSUME NEW S, NEW q \in Seq(S), q # <<>>
  PROVE  /\ Head(q) \in S /\ Tail(q) \in Seq(S)
         /\ Len(Tail(q)) = Len(q) - 1
         /\ \A i \in 1 .. Len(Tail(q)) : Tail(q)[i] = q[i + 1]
         /\ Head(q) = q[1]
  OBVIOUS

LEMMA SeqJoin ==
  ASSUME NEW S, NEW q \in Seq(S), NEW r \in Seq(S)
  PROVE  /\ q \o r \in Seq(S)
         /\ Len(q \o r) = Len(q) + Len(r)
         /\ \A i \in 1 .. (Len(q) + Len(r)) :
              (q \o r)[i] = IF i <= Len(q) THEN q[i] ELSE r[i - Len(q)]
  OBVIOUS

-----------------------------------------------------------------------------
(* The free lists. *)

\* The kept positions, in order, are numbered from 1: list_remove leaves the
\* other blocks of the list, each once.
LEMMA WithoutElements ==
  ASSUME Ranking, NEW B, NEW list \in Seq(B), NEW p, Distinct(list)
  PROVE  /\ without(list, p) \in Seq(B)
         /\ Distinct(without(list, p))
         /\ Elements(without(list, p)) = {b \in Elements(list) : b[1] # p}
<1> DEFINE kept == {i \in DOMAIN list : list[i][1] # p}
           m == Cardinality(kept)
           rank == [i \in kept |-> Cardinality(kept \cap 1 .. i)]
<1>1. kept \subseteq 1 .. Len(list) /\ Len(list) \in Nat
  BY SeqLen, Zenon
<1>2. IsFiniteSet(kept) /\ m \in Nat
  <2>1. PICK n : n = Len(list)
    BY Zenon
  <2>2. kept \in SUBSET (1 .. n) /\ IsFiniteSet(1 .. n)
    BY <1>1, <2>1, Zenon DEF Ranking, CountInterval
  <2> HIDE DEF kept
  <2> QED BY <2>2, Zenon DEF Ranking, Counting, CountSubset, CountNat
<1>3. \A i \in kept : /\ IsFiniteSet(kept \cap 1 .. i)
                      /\ Cardinality(kept \cap 1 .. i) \in Nat
                      /\ Cardinality(kept \cap 1 .. i) <= m
  <2> SUFFICES ASSUME NEW i \in kept, NEW I, I = kept \cap 1 .. i
               PROVE  IsFiniteSet(I) /\ Cardinality(I) \in Nat /\ Cardinality(I) <= m
    BY Zenon
  <2>1. I \in SUBSET kept
    BY Zenon
  <2> HIDE DEF kept
  <2> QED BY <2>1, <1>2, Zenon DEF Ranking, Counting, CountSubset, CountNat
<1>4. \A i \in kept : Cardinality(kept \cap 1 .. i) # 0
  <2> SUFFICES ASSUME NEW i \in kept PROVE Cardinality(kept \cap 1 .. i) # 0
    BY Zenon
  <2>1. i \in kept \cap 1 .. i
    BY <1>1
  <2> QED BY <2>1, <1>3, Zenon DEF Ranking, Counting, CountEmpty
<1>5. \A i, j \in kept : i < j => Cardinality(kept \cap 1 .. i) < Cardinality(kept \cap 1 .. j)
  <2> SUFFICES ASSUME NEW i \in kept, NEW j \in kept, i < j
               PROVE  Cardinality(kept \cap 1 .. i) < Cardinality(kept \cap 1 .. j)
    BY Zenon
  <2> DEFINE I == kept \cap 1 .. i
             J == kept \cap 1 .. j
  <2>1. I \in SUBSET J /\ j \in J /\ j \notin I
    BY <1>1
  <2>2. IsFiniteSet(J) /\ Cardinality(I) \in Nat /\ Cardinality(J) \in Nat
    BY <1>3, Zenon
  <2> HIDE DEF I, J
  <2>3. Cardinality(I) <= Cardinality(J) /\ Cardinality(I) # Cardinality(J)
    BY <2>1, <2>2, Zenon DEF Ranking, Counting, CountSubset, CountWhole
  <2>4. Cardinality(I) < Cardinality(J)
    BY <2>2, <2>3
  <2> QED BY <2>4, Zenon DEF I, J
<1>6. \A i \in kept : rank[i] \in 1 .. m /\ rank[i] = Cardinality(kept \cap 1 .. i)
  <2> HIDE DEF kept, m
  <2> SUFFICES ASSUME NEW i \in kept, NEW n, n = Cardinality(kept \cap 1 .. i) PROVE n \in 1 .. m
    BY Zenon
  <2>1. n \in Nat /\ n <= m /\ n # 0
    BY <1>3, <1>4, Zenon
  <2> QED BY <2>1, <1>2
<1>7. \A i, j \in kept : rank[i] = rank[j] => i = j
  <2> SUFFICES ASSUME NEW i \in kept, NEW j \in kept, i # j PROVE rank[i] # rank[j]
    BY Zenon
  <2>1. i \in Nat /\ j \in Nat
    BY <1>1
  <2> HIDE DEF kept, rank, m
  <2>2. CASE i < j
    <3>1. Cardinality(kept \cap 1 .. i) < Cardinality(kept \cap 1 .. j)
      BY <2>2, <1>5, Zenon
    <3> QED BY <3>1, <1>2, <1>6
  <2>3. CASE j < i
    <3>1. Cardinality(kept \cap 1 .. j) < Cardinality(kept \cap 1 .. i)
      BY <2>3, <1>5, Zenon
    <3> QED BY <3>1, <1>2, <1>6
  <2> QED BY <2>1, <2>2, <2>3
<1>8. IsFiniteSet(1 .. m) /\ Cardinality(1 .. m) = m
  BY <1>2, Zenon DEF Ranking, CountInterval
<1> HIDE DEF rank, m, kept
<1>9. \A k \in 1 .. m : \E i \in kept : rank[i] = k
  <2>1. rank \in [kept -> 1 .. m]
    BY <1>6, Zenon DEF rank
  <2>2. PICK T : T = 1 .. m
    BY Zenon
  <2>3. IsFiniteSet(T) /\ Cardinality(kept) = Cardinality(T) /\ rank \in [kept -> T]
    BY <1>8, <2>1, <2>2, Zenon DEF m
  <2>4. \A z \in T : \E x \in kept : rank[x] = z
    <3>1. CountOnto
      BY Zenon DEF Ranking
    <3>2. \A x, y \in kept : rank[x] = rank[y] => x = y
      BY <1>7, Zenon
    <3> QED BY <2>3, <3>1, <3>2 DEF CountOnto
  <2> QED BY <2>2, <2>4, Zenon
<1> DEFINE nth(k) == CHOOSE i \in kept : Cardinality(kept \cap 1 .. i) = k
<1>10. \A k \in 1 .. m : nth(k) \in kept /\ rank[nth(k)] = k
  <2> SUFFICES ASSUME NEW k \in 1 .. m PROVE nth(k) \in kept /\ rank[nth(k)] = k
    BY Zenon
  <2>1. \E i \in kept : Cardinality(kept \cap 1 .. i) = k
    BY <1>9, <1>6, Zenon
  <2>2. nth(k) \in kept /\ Cardinality(kept \cap 1 .. nth(k)) = k
    BY <2>1, Zenon
  <2> HIDE DEF nth
  <2> QED BY <2>2, <1>6, Zenon
<1>11. \A i \in kept : rank[i] \in 1 .. m /\ nth(rank[i]) = i
  BY <1>6, <1>7, <1>10, Zenon
<1> DEFINE s == [k \in 1 .. m |-> list[nth(k)]]
<1>12. without(list, p) = s
  BY Zenon DEF without, kept, m
<1> HIDE DEF nth
<1>13. \A i \in kept : i \in DOMAIN list /\ list[i] \in B /\ list[i][1] # p
  BY SeqLen, Zenon DEF kept
<1>14. s \in Seq(B)
  BY <1>2, <1>10, <1>13, SeqMade, Zenon
<1>15. Distinct(s)
  <2> SUFFICES ASSUME NEW k \in 1 .. m, NEW l \in 1 .. m, s[k] = s[l] PROVE k = l
    BY Zenon DEF Distinct
  <2>1. list[nth(k)] = list[nth(l)] /\ nth(k) \in DOMAIN list /\ nth(l) \in DOMAIN list
    BY <1>10, <1>13, Zenon
  <2>2. nth(k) = nth(l)
    BY <2>1, Zenon DEF Distinct
  <2> QED BY <2>2, <1>10, Zenon
<1>16. Elements(s) = {b \in Elements(list) : b[1] # p}
  <2>1. \A k \in 1 .. m : s[k] \in {b \in Elements(list) : b[1] # p}
    BY <1>10, <1>13, Zenon DEF Elements
  <2>2. ASSUME NEW b \in Elements(list), b[1] # p PROVE \E k \in 1 .. m : s[k] = b
    <3>1. PICK i \in DOMAIN list : b = list[i]
      BY Zenon DEF Elements
    <3>2. i \in kept
      BY <2>2, <3>1, Zenon DEF kept
    <3>3. rank[i] \in 1 .. m /\ s[rank[i]] = list[i]
      BY <3>2, <1>11, Zenon
    <3> QED BY <3>1, <3>3, Zenon
  <2>3. DOMAIN s = 1 .. m
    BY Zenon
  <2> HIDE DEF s
  <2> QED BY <2>1, <2>2, <2>3 DEF Elements
<1> HIDE DEF s
<1> QED BY <1>12, <1>14, <1>15, <1>16, Zenon

-----------------------------------------------------------------------------
(* What an operation does to the count of the blocks. *)

Headers(A, ar) == \A p \in A : ar[p].desc \in Desc /\ ar[p].free_cnt \in Int

LEMMA FreeFinite ==
  ASSUME Ranking, NEW L, NEW p, NEW d \in Desc
  PROVE  /\ blocks_per_arena[d] \in Nat \ {0}
         /\ IsFiniteSet(0 .. blocks_per_arena[d] - 1)
         /\ Cardinality(0 .. blocks_per_arena[d] - 1) = blocks_per_arena[d]
         /\ FreeOf(L, p, d) \in SUBSET (0 .. blocks_per_arena[d] - 1)
         /\ IsFiniteSet(FreeOf(L, p, d))
         /\ Cardinality(FreeOf(L, p, d)) \in Nat
<1>1. PICK n : n = blocks_per_arena[d]
  BY Zenon
<1>2. n \in Nat \ {0}
  BY <1>1, MemoryAssumption, Zenon
<1>3. IsFiniteSet(0 .. n - 1) /\ Cardinality(0 .. n - 1) = n
  BY <1>2, Zenon DEF Ranking, CountInterval
<1>4. FreeOf(L, p, d) \in SUBSET (0 .. n - 1)
  BY <1>1, Zenon DEF FreeOf
<1>5. IsFiniteSet(FreeOf(L, p, d)) /\ Cardinality(FreeOf(L, p, d)) \in Nat
  BY <1>3, <1>4, Zenon DEF Ranking, Counting, CountSubset, CountNat
<1> QED BY <1>1, <1>2, <1>3, <1>4, <1>5, Zenon

\* Only headers of pages that are no arenas change.
LEMMA SameCounted ==
  ASSUME NEW A, NEW ar, NEW L, NEW S, NEW C, NEW ar2,
         Counted(A, ar, L, S, C), \A p \in A : ar2[p] = ar[p], C \subseteq A
  PROVE  Counted(A, ar2, L, S, C)
BY Zenon DEF Counted

\* The header of the arena q, which is given back, is gone.
LEMMA ScrubCounted ==
  ASSUME NEW A, NEW ar, NEW L, NEW S, NEW C, NEW ar2, NEW q \in C,
         Counted(A, ar, L, S, C), \A p \in A \ {q} : ar2[p] = ar[p], C \subseteq A
  PROVE  Counted(A \ {q}, ar2, L, S, C \ {q})
BY DEF Counted

\* The page q becomes an arena of d with all its blocks free.
LEMMA ArenaCounted ==
  ASSUME Ranking, NEW A, NEW ar, NEW L, NEW S, NEW C, NEW ar2, NEW L2, NEW d \in Desc, NEW q,
         Counted(A, ar, L, S, C), Headers(A, ar), C \subseteq A, q \notin A,
         L \in [Desc -> SUBSET (Page \X Nat)],
         \A p \in A : ar2[p] = ar[p],
         ar2[q] = [desc |-> d, free_cnt |-> blocks_per_arena[d]],
         L2 = [L EXCEPT ![d] = L[d] \cup {<<q, i>> : i \in 0 .. blocks_per_arena[d] - 1}]
  PROVE  Counted(A \cup {q}, ar2, L2, S, C)
<1>1. L2[d] = L[d] \cup {<<q, i>> : i \in 0 .. blocks_per_arena[d] - 1}
      /\ \A e \in Desc : e # d => L2[e] = L[e]
  BY Zenon
<1>2. \A b \in S : b[1] \in A \cup {q} /\ b[1] \notin C
                   /\ b[2] \in 0 .. blocks_per_arena[ar2[b[1]].desc] - 1
  BY Zenon DEF Counted
<1>3. \A e \in Desc : \A b \in L2[e] : b[1] \in A \cup {q} /\ b[1] \notin C /\ ar2[b[1]].desc = e
  <2> SUFFICES ASSUME NEW e \in Desc, NEW b \in L2[e]
               PROVE  b[1] \in A \cup {q} /\ b[1] \notin C /\ ar2[b[1]].desc = e
    BY Zenon
  <2>1. CASE b \in L[e]
    BY <2>1, Zenon DEF Counted
  <2>2. CASE b \notin L[e]
    <3>1. e = d /\ b[1] = q
      BY <2>2, <1>1
    <3> QED BY <3>1
  <2> QED BY <2>1, <2>2, Zenon
<1>4. \A p \in C : ar2[p].free_cnt = blocks_per_arena[ar2[p].desc]
  BY Zenon DEF Counted
<1>5. ASSUME NEW p \in A \ C
      PROVE  /\ \A i \in 0 .. blocks_per_arena[ar2[p].desc] - 1 :
                  (<<p, i>> \in L2[ar2[p].desc]) # (<<p, i>> \in S)
             /\ ar2[p].free_cnt = Cardinality(FreeOf(L2, p, ar2[p].desc))
  <2>1. PICK e \in Desc : e = ar[p].desc /\ e = ar2[p].desc
    BY Zenon DEF Headers
  <2>2. \A i : <<p, i>> \in L2[e] <=> <<p, i>> \in L[e]
    BY <1>1, Zenon
  <2>3. FreeOf(L2, p, e) = FreeOf(L, p, e)
    BY <2>2, Zenon DEF FreeOf
  <2> QED BY <2>1, <2>2, <2>3 DEF Counted
<1>6. /\ \A i \in 0 .. blocks_per_arena[d] - 1 : <<q, i>> \in L2[d] /\ <<q, i>> \notin S
      /\ blocks_per_arena[d] = Cardinality(FreeOf(L2, q, d))
  <2>1. \A i \in 0 .. blocks_per_arena[d] - 1 : <<q, i>> \in L2[d]
    BY <1>1, Zenon
  <2>2. \A i : <<q, i>> \notin S
    BY Zenon DEF Counted
  <2>3. FreeOf(L2, q, d) = 0 .. blocks_per_arena[d] - 1
    BY <2>1, Zenon DEF FreeOf
  <2> QED BY <2>1, <2>2, <2>3, FreeFinite, Zenon
<1>7. ar2[q].desc = d /\ ar2[q].free_cnt = blocks_per_arena[d]
  OBVIOUS
<1>8. ASSUME NEW p \in (A \cup {q}) \ C
      PROVE  /\ \A i \in 0 .. blocks_per_arena[ar2[p].desc] - 1 :
                  (<<p, i>> \in L2[ar2[p].desc]) # (<<p, i>> \in S)
             /\ ar2[p].free_cnt = Cardinality(FreeOf(L2, p, ar2[p].desc))
  <2>1. CASE p = q
    BY <2>1, <1>6, <1>7, Zenon
  <2> QED BY <2>1, <1>5, Zenon
<1> QED BY <1>2, <1>3, <1>4, <1>8, Zenon DEF Counted

\* The block <<q, k>> of the list of d is now in use.
LEMMA PopCounted ==
  ASSUME Ranking, NEW A, NEW ar, NEW L, NEW S, NEW C, NEW ar2, NEW L2,
         NEW d \in Desc, NEW q, NEW k \in 0 .. blocks_per_arena[d] - 1,
         Counted(A, ar, L, S, C), Headers(A, ar), C \subseteq A, DOMAIN L = Desc,
         <<q, k>> \in L[d],
         \A p \in A : p # q => ar2[p] = ar[p],
         ar2[q].desc = d, ar2[q].free_cnt = ar[q].free_cnt - 1,
         L2 = [L EXCEPT ![d] = L[d] \ {<<q, k>>}]
  PROVE  Counted(A, ar2, L2, S \cup {<<q, k>>}, C)
<1>1. L2[d] = L[d] \ {<<q, k>>} /\ \A e \in Desc : e # d => L2[e] = L[e]
  BY Zenon
<1>2. q \in A /\ q \notin C /\ ar[q].desc = d
  BY DEF Counted
<1>3. \A p \in A : ar2[p].desc = ar[p].desc
  BY <1>2, Zenon
<1>4. \A b \in S \cup {<<q, k>>} : b[1] \in A /\ b[1] \notin C
                   /\ b[2] \in 0 .. blocks_per_arena[ar2[b[1]].desc] - 1
  BY <1>2, <1>3 DEF Counted
<1>5. \A e \in Desc : \A b \in L2[e] : b[1] \in A /\ b[1] \notin C /\ ar2[b[1]].desc = e
  BY <1>1, <1>3 DEF Counted
<1>6. \A p \in C : ar2[p].free_cnt = blocks_per_arena[ar2[p].desc]
  BY <1>2, <1>3, Zenon DEF Counted
<1>7. ASSUME NEW p \in A \ C, p # q
      PROVE  /\ \A i \in 0 .. blocks_per_arena[ar2[p].desc] - 1 :
                  (<<p, i>> \in L2[ar2[p].desc]) # (<<p, i>> \in S \cup {<<q, k>>})
             /\ ar2[p].free_cnt = Cardinality(FreeOf(L2, p, ar2[p].desc))
  <2>1. PICK e \in Desc : e = ar[p].desc /\ e = ar2[p].desc
    BY <1>3, Zenon DEF Headers
  <2>2. \A i : (<<p, i>> \in L2[e] <=> <<p, i>> \in L[e])
               /\ (<<p, i>> \in S \cup {<<q, k>>} <=> <<p, i>> \in S)
    BY <1>1, <1>7, Zenon
  <2>3. FreeOf(L2, p, e) = FreeOf(L, p, e)
    BY <2>2, Zenon DEF FreeOf
  <2> QED BY <1>7, <2>1, <2>2, <2>3 DEF Counted
<1>8. /\ \A i \in 0 .. blocks_per_arena[d] - 1 : (<<q, i>> \in L2[d]) # (<<q, i>> \in S \cup {<<q, k>>})
      /\ ar2[q].free_cnt = Cardinality(FreeOf(L2, q, d))
  <2>1. \A i \in 0 .. blocks_per_arena[d] - 1 : (<<q, i>> \in L[d]) # (<<q, i>> \in S)
    BY <1>2 DEF Counted
  <2>2. \A i : (<<q, i>> \in L2[d] <=> <<q, i>> \in L[d] /\ i # k)
               /\ (<<q, i>> \in S \cup {<<q, k>>} <=> <<q, i>> \in S \/ i = k)
    BY <1>1, Zenon
  <2>3. FreeOf(L2, q, d) = FreeOf(L, q, d) \ {k} /\ k \in FreeOf(L, q, d)
    BY <2>2, Zenon DEF FreeOf
  <2>4. Cardinality(FreeOf(L2, q, d)) = Cardinality(FreeOf(L, q, d)) - 1
    <3>1. PICK X : X = FreeOf(L, q, d)
      BY Zenon
    <3>2. IsFiniteSet(X) /\ FreeOf(L2, q, d) = X \ {k} /\ k \in X
      BY <2>3, <3>1, FreeFinite, Zenon
    <3>3. Cardinality(X \ {k}) = Cardinality(X) - 1
      BY <3>2, Zenon DEF Ranking, Counting, CountRemove
    <3> QED BY <3>1, <3>2, <3>3, Zenon
  <2>5. ar[q].free_cnt = Cardinality(FreeOf(L, q, d))
    BY <1>2, Zenon DEF Counted
  <2> QED BY <2>1, <2>2, <2>4, <2>5
<1>9. ASSUME NEW p \in A \ C
      PROVE  /\ \A i \in 0 .. blocks_per_arena[ar2[p].desc] - 1 :
                  (<<p, i>> \in L2[ar2[p].desc]) # (<<p, i>> \in S \cup {<<q, k>>})
             /\ ar2[p].free_cnt = Cardinality(FreeOf(L2, p, ar2[p].desc))
  <2>1. CASE p = q
    BY <2>1, <1>8, Zenon
  <2> QED BY <2>1, <1>7, Zenon
<1> QED BY <1>4, <1>5, <1>6, <1>9, Zenon DEF Counted

\* The block <<q, k>> goes on the list of d, and its arena is kept.
LEMMA FreeCounted ==
  ASSUME Ranking, NEW A, NEW ar, NEW L, NEW S, NEW C, NEW ar2, NEW L2,
         NEW d \in Desc, NEW q \in A, NEW k \in Nat,
         Counted(A, ar, L, S, C), Headers(A, ar), C \subseteq A, DOMAIN L = Desc,
         <<q, k>> \in S, ar[q].desc = d,
         \A p \in A : p # q => ar2[p] = ar[p],
         ar2[q].desc = d, ar2[q].free_cnt = ar[q].free_cnt + 1,
         L2 = [L EXCEPT ![d] = L[d] \cup {<<q, k>>}]
  PROVE  Counted(A, ar2, L2, S \ {<<q, k>>}, C)
<1>1. L2[d] = L[d] \cup {<<q, k>>} /\ \A e \in Desc : e # d => L2[e] = L[e]
  BY Zenon
<1>2. q \notin C /\ k \in 0 .. blocks_per_arena[d] - 1
  BY Zenon DEF Counted
<1>3. \A p \in A : ar2[p].desc = ar[p].desc
  BY Zenon
<1>4. \A b \in S \ {<<q, k>>} : b[1] \in A /\ b[1] \notin C
                   /\ b[2] \in 0 .. blocks_per_arena[ar2[b[1]].desc] - 1
  BY <1>3, Zenon DEF Counted
<1>5. \A e \in Desc : \A b \in L2[e] : b[1] \in A /\ b[1] \notin C /\ ar2[b[1]].desc = e
  BY <1>1, <1>2, <1>3 DEF Counted
<1>6. \A p \in C : ar2[p].free_cnt = blocks_per_arena[ar2[p].desc]
  BY <1>2, <1>3, Zenon DEF Counted
<1>7. ASSUME NEW p \in A \ C, p # q
      PROVE  /\ \A i \in 0 .. blocks_per_arena[ar2[p].desc] - 1 :
                  (<<p, i>> \in L2[ar2[p].desc]) # (<<p, i>> \in S \ {<<q, k>>})
             /\ ar2[p].free_cnt = Cardinality(FreeOf(L2, p, ar2[p].desc))
  <2>1. PICK e \in Desc : e = ar[p].desc /\ e = ar2[p].desc
    BY <1>3, Zenon DEF Headers
  <2>2. \A i : (<<p, i>> \in L2[e] <=> <<p, i>> \in L[e])
               /\ (<<p, i>> \in S \ {<<q, k>>} <=> <<p, i>> \in S)
    BY <1>1, <1>7, Zenon
  <2>3. FreeOf(L2, p, e) = FreeOf(L, p, e)
    BY <2>2, Zenon DEF FreeOf
  <2> QED BY <1>7, <2>1, <2>2, <2>3 DEF Counted
<1>8. /\ \A i \in 0 .. blocks_per_arena[d] - 1 : (<<q, i>> \in L2[d]) # (<<q, i>> \in S \ {<<q, k>>})
      /\ ar2[q].free_cnt = Cardinality(FreeOf(L2, q, d))
  <2>1. \A i \in 0 .. blocks_per_arena[d] - 1 : (<<q, i>> \in L[d]) # (<<q, i>> \in S)
    BY <1>2 DEF Counted
  <2>2. \A i : (<<q, i>> \in L2[d] <=> <<q, i>> \in L[d] \/ i = k)
               /\ (<<q, i>> \in S \ {<<q, k>>} <=> <<q, i>> \in S /\ i # k)
    BY <1>1, Zenon
  <2>3. FreeOf(L2, q, d) = FreeOf(L, q, d) \cup {k} /\ k \notin FreeOf(L, q, d)
    BY <1>2, <2>1, <2>2, Zenon DEF FreeOf
  <2>4. Cardinality(FreeOf(L2, q, d)) = Cardinality(FreeOf(L, q, d)) + 1
    <3>1. PICK X : X = FreeOf(L, q, d)
      BY Zenon
    <3>2. IsFiniteSet(X) /\ FreeOf(L2, q, d) = X \cup {k} /\ k \notin X
      BY <2>3, <3>1, FreeFinite, Zenon
    <3>3. Cardinality(X \cup {k}) = Cardinality(X) + 1
      BY <3>2, Zenon DEF Ranking, Counting, CountAdd
    <3> QED BY <3>1, <3>2, <3>3, Zenon
  <2>5. ar[q].free_cnt = Cardinality(FreeOf(L, q, d))
    BY <1>2, Zenon DEF Counted
  <2> QED BY <2>1, <2>2, <2>4, <2>5
<1>9. ASSUME NEW p \in A \ C
      PROVE  /\ \A i \in 0 .. blocks_per_arena[ar2[p].desc] - 1 :
                  (<<p, i>> \in L2[ar2[p].desc]) # (<<p, i>> \in S \ {<<q, k>>})
             /\ ar2[p].free_cnt = Cardinality(FreeOf(L2, p, ar2[p].desc))
  <2>1. CASE p = q
    BY <2>1, <1>8, Zenon
  <2> QED BY <2>1, <1>7, Zenon
<1> QED BY <1>4, <1>5, <1>6, <1>9, Zenon DEF Counted

\* A full count, with <<q, k>> just freed, means that no other block of the
\* arena q is in use.
LEMMA UnusedArena ==
  ASSUME Ranking, NEW A, NEW ar, NEW L, NEW S, NEW C,
         NEW d \in Desc, NEW q \in A, NEW k \in Nat, S \subseteq Page \X Nat,
         Counted(A, ar, L, S, C), <<q, k>> \in S, ar[q].desc = d,
         ar[q].free_cnt + 1 >= blocks_per_arena[d]
  PROVE  /\ ar[q].free_cnt + 1 = blocks_per_arena[d]
         /\ \A b \in S : b[1] = q => b[2] = k
<1>1. q \notin C /\ k \in 0 .. blocks_per_arena[d] - 1
  BY Zenon DEF Counted
<1>2. \A i \in 0 .. blocks_per_arena[d] - 1 : (<<q, i>> \in L[d]) # (<<q, i>> \in S)
  BY <1>1, Zenon DEF Counted
<1>3. PICK X : X = FreeOf(L, q, d)
  BY Zenon
<1>4. PICK Y : Y = 0 .. blocks_per_arena[d] - 1
  BY Zenon
<1>5. ar[q].free_cnt = Cardinality(X) /\ Cardinality(X) \in Nat
  BY <1>1, <1>3, FreeFinite, Zenon DEF Counted
<1>6. IsFiniteSet(Y) /\ Cardinality(Y) = blocks_per_arena[d] /\ k \in Y /\ blocks_per_arena[d] \in Nat
  BY <1>1, <1>4, FreeFinite, Zenon
<1>7. X \in SUBSET (Y \ {k})
  BY <1>1, <1>2, <1>3, <1>4, Zenon DEF FreeOf
<1>8. IsFiniteSet(Y \ {k}) /\ Cardinality(Y \ {k}) = blocks_per_arena[d] - 1
  <2>1. /\ IsFiniteSet(Y \ {k})
        /\ Cardinality(Y \ {k}) = IF k \in Y THEN Cardinality(Y) - 1 ELSE Cardinality(Y)
    BY <1>6, Zenon DEF Ranking, Counting, CountRemove
  <2> QED BY <1>6, <2>1, Zenon
<1>9. Cardinality(X) <= Cardinality(Y \ {k}) /\ (Cardinality(X) = Cardinality(Y \ {k}) => X = Y \ {k})
  BY <1>7, <1>8, Zenon DEF Ranking, Counting, CountSubset, CountWhole
<1>10. ar[q].free_cnt + 1 = blocks_per_arena[d] /\ Cardinality(X) = Cardinality(Y \ {k})
  BY <1>5, <1>6, <1>8, <1>9
<1>11. X = Y \ {k}
  BY <1>9, <1>10, Zenon
<1>12. ASSUME NEW b \in S, b[1] = q, b[2] # k PROVE FALSE
  <2>1. b = <<q, b[2]>> /\ b[2] \in Y
    BY <1>4, <1>12 DEF Counted
  <2>2. b[2] \in X
    BY <2>1, <1>11, <1>12, Zenon
  <2> QED BY <2>1, <2>2, <1>2, <1>3, <1>4, <1>12, Zenon DEF FreeOf
<1> QED BY <1>10, <1>12, Zenon

\* The arena q is unused: its blocks leave the list, and it is given back.
LEMMA CloseCounted ==
  ASSUME Ranking, NEW A, NEW ar, NEW L, NEW S, NEW C, NEW ar2, NEW L2,
         NEW d \in Desc, NEW q \in A, NEW k \in Nat,
         Counted(A, ar, L, S, C), Headers(A, ar), C \subseteq A, DOMAIN L = Desc,
         S \subseteq Page \X Nat, L[d] \subseteq Page \X Nat,
         <<q, k>> \in S, ar[q].desc = d, ar[q].free_cnt + 1 >= blocks_per_arena[d],
         \A p \in A : p # q => ar2[p] = ar[p],
         ar2[q].desc = d, ar2[q].free_cnt = ar[q].free_cnt + 1,
         L2 = [L EXCEPT ![d] = {b \in L[d] : b[1] # q}]
  PROVE  Counted(A, ar2, L2, S \ {<<q, k>>}, C \cup {q})
<1>1. L2[d] = {b \in L[d] : b[1] # q} /\ \A e \in Desc : e # d => L2[e] = L[e]
  BY Zenon
<1>2. ar2[q].free_cnt = blocks_per_arena[d] /\ \A b \in S : b[1] = q => b[2] = k
  BY UnusedArena
<1>3. \A p \in A : ar2[p].desc = ar[p].desc
  BY Zenon
<1>4. \A b \in S \ {<<q, k>>} : b[1] # q
  BY <1>2
<1>5. \A b \in S \ {<<q, k>>} : b[1] \in A /\ b[1] \notin C \cup {q}
                   /\ b[2] \in 0 .. blocks_per_arena[ar2[b[1]].desc] - 1
  BY <1>3, <1>4, Zenon DEF Counted
<1>6. \A e \in Desc : \A b \in L2[e] : b[1] \in A /\ b[1] \notin C \cup {q} /\ ar2[b[1]].desc = e
  BY <1>1, <1>3 DEF Counted
<1>7. \A p \in C \cup {q} : ar2[p].free_cnt = blocks_per_arena[ar2[p].desc]
  BY <1>2, <1>3, Zenon DEF Counted
<1>8. ASSUME NEW p \in A \ (C \cup {q})
      PROVE  /\ \A i \in 0 .. blocks_per_arena[ar2[p].desc] - 1 :
                  (<<p, i>> \in L2[ar2[p].desc]) # (<<p, i>> \in S \ {<<q, k>>})
             /\ ar2[p].free_cnt = Cardinality(FreeOf(L2, p, ar2[p].desc))
  <2>1. PICK e \in Desc : e = ar[p].desc /\ e = ar2[p].desc
    BY <1>3, Zenon DEF Headers
  <2>2. \A i : (<<p, i>> \in L2[e] <=> <<p, i>> \in L[e])
               /\ (<<p, i>> \in S \ {<<q, k>>} <=> <<p, i>> \in S)
    BY <1>1, Zenon
  <2>3. FreeOf(L2, p, e) = FreeOf(L, p, e)
    BY <2>2, Zenon DEF FreeOf
  <2> QED BY <2>1, <2>2, <2>3 DEF Counted
<1> QED BY <1>5, <1>6, <1>7, <1>8, Zenon DEF Counted

-----------------------------------------------------------------------------
(* A step of thread t, which leaves the others' calls alone. *)

Moves(t, x, c) == pc' = [pc EXCEPT ![t] = x] /\ call' = [call EXCEPT ![t] = c]

LEMMA FlightIs ==
  ASSUME NEW p, NEW c
  PROVE  /\ p = "flip" => Flight(p, c) = Run(c.page, c.bit)
         /\ p = "clear" => Flight(p, c) = Run(c.page + c.bit, c.cnt - c.bit)
         /\ p \in {"unlock", "scrub"} => Flight(p, c) = Run(c.page, c.cnt)
         /\ p = "got" /\ c.page # NULL => Flight(p, c) = Run(c.page, c.cnt)
         /\ p = "got" /\ c.page = NULL => Flight(p, c) = {}
         /\ p \in {"run", "desc", "pool", "scan", "pop", "free"} => Flight(p, c) = {}
BY Zenon DEF Flight

LEMMA MovesSets ==
  ASSUME TypeOK, CallTypes, NEW t \in Thread, NEW x, NEW c, Moves(t, x, c)
  PROVE  /\ pc'[t] = x /\ call'[t] = c
         /\ \A u \in Thread : u # t => pc'[u] = pc[u] /\ call'[u] = call[u]
         /\ Flights' = [Flights EXCEPT ![t] = Flight(x, c)]
         /\ Closers' = (Closers \ {t}) \cup {u \in {t} : x = "scrub" /\ c.kind = "block"}
         /\ Freers' = (Freers \ {t}) \cup {u \in {t} : x = "free"}
<1>1. pc'[t] = x /\ call'[t] = c
      /\ \A u \in Thread : u # t => pc'[u] = pc[u] /\ call'[u] = call[u]
  BY Zenon DEF Moves, TypeOK, CallTypes
<1>2. Flights' = [u \in Thread |-> Flight(pc'[u], call'[u])]
  BY Zenon DEF Flights, Flight
<1>3. Flights' = [Flights EXCEPT ![t] = Flight(x, c)]
  BY <1>1, <1>2, Zenon DEF Flights
<1> QED BY <1>1, <1>3, Zenon DEF Closers, Freers

\* PagesOwned and BlocksCounted of the next state.
LEMMA NextPagesOwned == PagesOwned' <=> Owned(Marked', Runs', Arenas', Flights', Closers')
BY Zenon DEF PagesOwned, Owned

LEMMA NextBlocksCounted == BlocksCounted' <=> Counted(Arenas', arena', Lists', Used', Closing')
BY Zenon DEF BlocksCounted, Counted, FreeOf

LEMMA NextCallsOK ==
  ASSUME NEW t \in Thread, CallOK(t)', \A u \in Thread : u # t => CallOK(u)'
  PROVE  CallsOK'
BY Zenon DEF CallsOK

\* What the steps of another thread may do to the state that u's call is about.
LEMMA CallFrame ==
  ASSUME NEW u \in Thread, CallOK(u), CallTypes, pc'[u] = pc[u], call'[u] = call[u],
         \A d \in Desc : desc_lock[d] = u => desc_lock'[d] = u,
         pool_lock = u => pool_lock' = u /\ \A p \in Page : used_map'[p] => used_map[p],
         \A d \in Desc : desc_lock[d] = u /\ free_list[d] # <<>> => free_list'[d] # <<>>,
         call[u].page \in Arenas /\ pc[u] \in {"free", "scrub"} /\ call[u].kind = "block" =>
           call[u].page \in Arenas' /\ arena'[call[u].page].desc = arena[call[u].page].desc
  PROVE  CallOK(u)'
<1>1. PICK c : c = call[u]
  BY Zenon
<1>2. c \in CallRecord /\ KindOK(c)
  BY <1>1, Zenon DEF CallTypes, CallOK
<1>3. c.kind = "block" => c.desc \in Desc
  BY <1>2, Zenon DEF KindOK
<1>4. DescHeld(u) => DescHeld(u)'
  BY <1>1, <1>3, Zenon DEF DescHeld
<1>5. pc[u] = "scan" => \A p \in Run(c.page, c.bit) : ~used_map'[p]
  <2> SUFFICES ASSUME pc[u] = "scan", NEW p \in Run(c.page, c.bit) PROVE ~used_map'[p]
    BY Zenon
  <2>1. ~used_map[p] /\ pool_lock = u /\ c.page \in Nat /\ c.bit < c.cnt /\ (c.bit > 0 => InPool(c))
    BY <1>1, Zenon DEF CallOK
  <2>2. p \in Page
    BY <2>1, <1>2, MemoryAssumption DEF Run, InPool, CallRecord, Page
  <2> QED BY <2>1, <2>2, Zenon
<1>6. pc[u] = "flip" => \A p \in Run(c.page + c.bit, c.cnt - c.bit) : ~used_map'[p]
  <2> SUFFICES ASSUME pc[u] = "flip", NEW p \in Run(c.page + c.bit, c.cnt - c.bit)
               PROVE ~used_map'[p]
    BY Zenon
  <2>1. ~used_map[p] /\ pool_lock = u /\ InPool(c)
    BY <1>1, Zenon DEF CallOK
  <2>2. p \in Page
    BY <2>1, <1>2, MemoryAssumption DEF Run, InPool, CallRecord, Page
  <2> QED BY <2>1, <2>2, Zenon
<1>7. pc[u] = "pop" => free_list'[c.desc] # <<>>
  BY <1>1, <1>3, Zenon DEF CallOK, DescHeld
<1> QED BY <1>1, <1>2, <1>4, <1>5, <1>6, <1>7, Zenon DEF CallOK

\* realloc's old blocks stay held and stay apart.
LEMMA OldStep ==
  ASSUME TypeOK, CallTypes, OldOK, NEW t \in Thread, NEW x, NEW c, Moves(t, x, c),
         c.old # NULL => /\ c.old \in held' /\ c.old.kind # "pages"
                         /\ x \in Getting \cup {"desc", "pop"}
                         /\ \A u \in Thread : u # t => call[u].old # c.old,
         \A u \in Thread : u # t /\ call[u].old # NULL => call[u].old \in held'
  PROVE  OldOK'
<1>1. pc'[t] = x /\ call'[t] = c
      /\ \A u \in Thread : u # t => pc'[u] = pc[u] /\ call'[u] = call[u]
  BY MovesSets
<1>2. ASSUME NEW u \in Thread, call'[u].old # NULL
      PROVE  /\ call'[u].old \in held' /\ call'[u].old.kind # "pages"
             /\ pc'[u] \in Getting \cup {"desc", "pop"}
  BY <1>1, <1>2, Zenon DEF OldOK
<1>3. ASSUME NEW u \in Thread, NEW v \in Thread, u # v, call'[u].old # NULL
      PROVE  call'[u].old # call'[v].old
  BY <1>1, <1>3 DEF OldOK
<1> QED BY <1>2, <1>3, Zenon DEF OldOK

\* The shape of what the counts are about.
LEMMA Shapes ==
  ASSUME MemoryInv
  PROVE  /\ Headers(Arenas, arena)
         /\ Closing \subseteq Arenas
         /\ Arenas \subseteq Page
         /\ Lists \in [Desc -> SUBSET (Page \X Nat)]
         /\ Used \subseteq Page \X Nat
         /\ DOMAIN Flights = Thread
<1> USE DEF MemoryInv
<1>1. Headers(Arenas, arena) /\ Arenas \subseteq Page
  <2> SUFFICES ASSUME NEW p \in Arenas PROVE arena[p].desc \in Desc /\ arena[p].free_cnt \in Int
    BY Zenon DEF Headers, Arenas
  <2>1. arena[p] \in Arena
    BY Zenon DEF Arenas, TypeOK
  <2> QED BY <2>1, Zenon DEF Arena, Arenas
<1>2. Closing \subseteq Arenas
  BY Zenon DEF Closing, Closers, CallsOK, CallOK
<1>3. Lists \in [Desc -> SUBSET (Page \X Nat)]
  <2>1. \A d \in Desc : \A i \in DOMAIN free_list[d] : free_list[d][i] \in Page \X Nat
    BY SeqLen DEF TypeOK
  <2> QED BY <2>1 DEF Lists, Elements
<1>4. Blocks \subseteq Page \X Nat
  <2> SUFFICES ASSUME NEW h \in held, h.kind = "block" PROVE h.page \in Page /\ h.n \in Nat
    BY DEF Blocks
  <2>1. h \in Allocation
    BY Zenon DEF TypeOK
  <2>2. PICK d \in Desc : \E b \in Block(d) : h = [kind |-> "block", page |-> b[1], n |-> b[2]]
    BY <2>1, Zenon DEF Allocation
  <2>3. blocks_per_arena[d] \in Nat
    BY MemoryAssumption, Zenon
  <2> QED BY <2>2, <2>3 DEF Block
<1>5. \A t \in Freers : Freed(t) \in Page \X Nat
  <2> SUFFICES ASSUME NEW t \in Thread, pc[t] = "free"
               PROVE call[t].page \in Page /\ call[t].bit \in Nat
    BY Zenon DEF Freers, Freed
  <2> QED BY <1>1, Zenon DEF CallsOK, CallOK, CallTypes, CallRecord
<1> QED BY <1>1, <1>2, <1>3, <1>4, <1>5, Zenon DEF Used, Flights

\* A step that moves no block.
LEMMA BlockFrame ==
  ASSUME MemoryInv, UNCHANGED free_list, Blocks' = Blocks,
         Freers' = Freers, \A u \in Freers : call'[u] = call[u],
         Closers' = Closers, \A u \in Closers : call'[u] = call[u],
         Arenas' = Arenas, \A p \in Arenas : arena'[p] = arena[p]
  PROVE  BlockInv'
<1>1. Closing' = Closing
  BY Zenon DEF Closing
<1>2. \A u \in Freers : Freed(u)' = Freed(u)
  BY Zenon DEF Freed
<1>3. Used' = Used
  BY <1>2, Zenon DEF Used
<1>4. Lists' = Lists
  BY Zenon DEF Lists, Elements
<1>5. Counted(Arenas, arena', Lists, Used, Closing)
  BY Shapes, SameCounted, Zenon DEF MemoryInv, BlockInv, BlocksCounted
<1>6. BlocksCounted'
  BY <1>1, <1>3, <1>4, <1>5, NextBlocksCounted, Zenon
<1>7. FreedOnce'
  BY <1>2 DEF FreedOnce, MemoryInv, BlockInv
<1>8. ListsDistinct'
  BY Zenon DEF ListsDistinct, Distinct, MemoryInv, BlockInv
<1> QED BY <1>6, <1>7, <1>8, Zenon DEF BlockInv

\* A step that moves neither pages nor blocks.
LEMMA QuietStep ==
  ASSUME MemoryInv, NEW t \in Thread, NEW x, NEW c, Moves(t, x, c),
         UNCHANGED <<used_map, free_list, arena, held>>,
         Flight(x, c) = Flight(pc[t], call[t]),
         pc[t] \notin {"free", "scrub"}, x \notin {"free", "scrub"}
  PROVE  PageInv' /\ BlockInv'
<1> USE DEF MemoryInv
<1>1. Flights' = [Flights EXCEPT ![t] = Flight(x, c)] /\ Closers' = Closers /\ Freers' = Freers
      /\ \A u \in Thread : u # t => call'[u] = call[u]
  BY MovesSets DEF Closers, Freers
<1>2. Flights' = Flights
  BY <1>1, Zenon DEF Flights
<1>3. Marked' = Marked /\ Runs' = Runs /\ Arenas' = Arenas /\ Blocks' = Blocks
  BY Zenon DEF Marked, Runs, Arenas, Blocks
<1>4. PagesOwned'
  BY <1>1, <1>2, <1>3, NextPagesOwned, Zenon DEF PagesOwned, PageInv
<1>5. RunsOK'
  BY <1>3, Zenon DEF RunsOK, PageInv
<1>6. t \notin Freers /\ t \notin Closers
  BY Zenon DEF Freers, Closers
<1>7. BlockInv'
  BY <1>1, <1>3, <1>6, BlockFrame, Zenon DEF Freers, Closers
<1> QED BY <1>4, <1>5, <1>7, Zenon DEF PageInv

LEMMA QuietCalls ==
  ASSUME MemoryInv, NEW t \in Thread, NEW x, NEW c \in CallRecord, Moves(t, x, c), held' = held,
         c.old = NULL \/ (c.old = call[t].old /\ x \in Getting \cup {"desc", "pop"})
  PROVE  CallTypes' /\ OldOK'
<1>1. c.old # NULL => /\ c.old \in held' /\ c.old.kind # "pages"
                      /\ x \in Getting \cup {"desc", "pop"}
                      /\ \A u \in Thread : u # t => call[u].old # c.old
  BY Zenon DEF MemoryInv, OldOK
<1>2. \A u \in Thread : u # t /\ call[u].old # NULL => call[u].old \in held'
  BY Zenon DEF MemoryInv, OldOK
<1>3. OldOK'
  BY <1>1, <1>2, OldStep, Zenon DEF MemoryInv
<1> QED BY <1>3, Zenon DEF Moves, CallTypes, MemoryInv

-----------------------------------------------------------------------------
(* palloc_get_multiple. *)

LEMMA PoolLockedStep ==
  ASSUME MemoryInv, NEW t \in Thread, PoolLocked(t)
  PROVE  MemoryInv'
<1> USE DEF MemoryInv
<1>1. PICK c : c = [call[t] EXCEPT !.page = 0, !.bit = 0]
  BY Zenon
<1>2. call[t] \in CallRecord /\ CallOK(t) /\ pc[t] = "pool"
  BY Zenon DEF CallTypes, CallsOK, PoolLocked
<1>3. /\ c \in CallRecord /\ c.kind = call[t].kind /\ c.desc = call[t].desc /\ c.cnt = call[t].cnt
      /\ c.old = call[t].old /\ c.page = 0 /\ c.bit = 0
  BY <1>1, <1>2, Zenon DEF CallRecord
<1>4. Moves(t, "scan", c)
  BY <1>1, Zenon DEF PoolLocked, Goto, Moves, CallTypes
<1>5. pc'[t] = "scan" /\ call'[t] = c
      /\ \A u \in Thread : u # t => pc'[u] = pc[u] /\ call'[u] = call[u]
  BY <1>4, MovesSets
<1>6. PageInv' /\ BlockInv'
  BY <1>2, <1>4, FlightIs, QuietStep, Zenon DEF PoolLocked
<1>7. CallTypes' /\ OldOK'
  BY <1>3, <1>4, QuietCalls, Zenon DEF PoolLocked, Getting
<1>8. TypeOK'
  BY <1>4, Zenon DEF TypeOK, PoolLocked, Moves
<1>9. \A u \in Thread : u # t => CallOK(u)'
  BY <1>5, CallFrame, MemoryAssumption, Zenon DEF PoolLocked, CallsOK, Arenas
<1>10. CallOK(t)'
  <2>1. KindOK(c) /\ DescHeld(t)' /\ (c.kind # "block" => c.cnt <= MaxRun)
    BY <1>2, <1>3, <1>5, Zenon DEF PoolLocked, CallOK, KindOK, DescHeld, Getting
  <2>2. c.page \in Nat /\ c.bit < c.cnt /\ ~(c.bit > 0)
    BY <1>3 DEF CallRecord
  <2>3. \A p : p \notin Run(c.page, c.bit)
    BY <1>3 DEF Run
  <2> QED BY <1>5, <2>1, <2>2, <2>3, Zenon DEF CallOK, PoolLocked, Freeing
<1> QED BY <1>6, <1>7, <1>8, <1>9, <1>10, NextCallsOK, Zenon

LEMMA ScanStep ==
  ASSUME MemoryInv, NEW t \in Thread, Scan(t)
  PROVE  MemoryInv'
<1> USE DEF MemoryInv
<1>1. PICK c : c = call[t]
  BY Zenon
<1>2. c \in CallRecord /\ CallOK(t) /\ pc[t] = "scan"
  BY <1>1, Zenon DEF CallTypes, CallsOK, Scan
<1>3. /\ KindOK(c) /\ DescHeld(t) /\ (c.kind # "block" => c.cnt <= MaxRun)
      /\ pool_lock = t /\ c.page \in Nat /\ c.bit < c.cnt /\ (c.bit > 0 => InPool(c))
      /\ \A p \in Run(c.page, c.bit) : ~used_map[p]
  BY <1>1, <1>2, Zenon DEF CallOK, Getting
<1>4. c.cnt \in Nat \ {0} /\ c.bit \in Nat
  BY <1>2, Zenon DEF CallRecord
<1> DEFINE Goal(x, e) ==
             /\ x \in {"scan", "flip", "got"} /\ e \in CallRecord
             /\ e.kind = c.kind /\ e.desc = c.desc /\ e.cnt = c.cnt /\ e.old = c.old
             /\ Moves(t, x, e)
             /\ IF x = "got" THEN pool_lock' = NULL /\ e.page = NULL
                ELSE /\ pool_lock' = pool_lock /\ e.page \in Nat /\ e.bit < e.cnt
                     /\ x = "scan" => /\ e.bit > 0 => InPool(e)
                                      /\ \A p \in Run(e.page, e.bit) : ~used_map[p]
                     /\ x = "flip" => /\ e.bit = 0 /\ InPool(e)
                                      /\ \A p \in Run(e.page, e.cnt) : ~used_map[p]
<1>5. PICK x, e : Goal(x, e)
  <2>1. CASE /\ c.page + c.cnt > PageCnt
             /\ pool_lock' = NULL
             /\ call' = [call EXCEPT ![t].page = NULL]
             /\ Goto(t, "got")
    <3>1. PICK e : e = [c EXCEPT !.page = NULL]
      BY Zenon
    <3>2. /\ e \in CallRecord
          /\ e.kind = c.kind /\ e.desc = c.desc /\ e.cnt = c.cnt /\ e.old = c.old /\ e.page = NULL
      BY <3>1, <1>2, Zenon DEF CallRecord
    <3>3. Moves(t, "got", e)
      BY <1>1, <3>1, <2>1, Zenon DEF Moves, Goto, CallTypes
    <3>4. Goal("got", e)
      BY <2>1, <3>2, <3>3, Zenon
    <3> QED BY <3>4, Zenon
  <2>2. CASE /\ c.page + c.cnt <= PageCnt /\ used_map[c.page + c.bit]
             /\ call' = [call EXCEPT ![t].page = @ + 1, ![t].bit = 0]
             /\ UNCHANGED <<pool_lock, pc>>
    <3>1. PICK e : e = [c EXCEPT !.page = c.page + 1, !.bit = 0]
      BY Zenon
    <3>2. /\ e \in CallRecord
          /\ e.kind = c.kind /\ e.desc = c.desc /\ e.cnt = c.cnt /\ e.old = c.old
          /\ e.page = c.page + 1 /\ e.bit = 0
      <4>1. PICK q \in Nat : q = c.page + 1
        BY <1>3
      <4>2. e = [c EXCEPT !.page = q, !.bit = 0]
        BY <3>1, <4>1, Zenon
      <4> QED BY <1>2, <4>1, <4>2, Zenon DEF CallRecord
    <3>3. Moves(t, "scan", e)
      BY <1>1, <1>2, <3>1, <2>2, Zenon DEF Moves, CallTypes, TypeOK
    <3>4. e.page \in Nat /\ e.bit < e.cnt /\ ~(e.bit > 0)
      BY <3>2, <1>3, <1>4
    <3>5. \A p : p \notin Run(e.page, e.bit)
      BY <3>2, <1>3 DEF Run
    <3>6. Goal("scan", e)
      BY <2>2, <3>2, <3>3, <3>4, <3>5, Zenon
    <3> QED BY <3>6, Zenon
  <2>3. CASE /\ c.page + c.cnt <= PageCnt /\ ~used_map[c.page + c.bit]
             /\ call' = [call EXCEPT ![t].bit = IF @ = c.cnt - 1 THEN 0 ELSE @ + 1]
             /\ Goto(t, IF c.bit = c.cnt - 1 THEN "flip" ELSE "scan")
             /\ UNCHANGED pool_lock
    <3>1. PICK e : e = [c EXCEPT !.bit = IF c.bit = c.cnt - 1 THEN 0 ELSE c.bit + 1]
      BY Zenon
    <3>2. /\ e \in CallRecord
          /\ e.kind = c.kind /\ e.desc = c.desc /\ e.cnt = c.cnt /\ e.old = c.old
          /\ e.page = c.page /\ e.bit = IF c.bit = c.cnt - 1 THEN 0 ELSE c.bit + 1
      BY <3>1, <1>2, <1>4 DEF CallRecord
    <3>3. Moves(t, IF c.bit = c.cnt - 1 THEN "flip" ELSE "scan", e)
      BY <1>1, <3>1, <2>3, Zenon DEF Moves, Goto, CallTypes
    <3>4. e.page \in Nat /\ e.bit < e.cnt /\ InPool(e)
      <4>1. (IF c.bit = c.cnt - 1 THEN 0 ELSE c.bit + 1) < c.cnt
        BY <1>3, <1>4
      <4> QED BY <4>1, <3>2, <1>3, <2>3, Zenon DEF InPool
    <3>5. \A p \in Run(c.page, c.bit + 1) : ~used_map[p]
      <4>1. \A p \in Run(c.page, c.bit + 1) : p \in Run(c.page, c.bit) \/ p = c.page + c.bit
        BY <1>3, <1>4 DEF Run
      <4> QED BY <4>1, <1>3, <2>3, Zenon
    <3>6. CASE c.bit = c.cnt - 1
      <4>1. Goal("flip", e)
        <5>1. c.bit + 1 = e.cnt /\ e.bit = 0
          BY <3>6, <1>4, <3>2
        <5> QED BY <3>6, <2>3, <3>2, <3>3, <3>4, <3>5, <5>1, Zenon
      <4> QED BY <4>1, Zenon
    <3>7. CASE c.bit # c.cnt - 1
      <4>1. Goal("scan", e)
        BY <3>7, <2>3, <3>2, <3>3, <3>4, <3>5, Zenon
      <4> QED BY <4>1, Zenon
    <3> QED BY <3>6, <3>7, Zenon
  <2> QED BY <1>1, <2>1, <2>2, <2>3, Zenon DEF Scan
<1>6. pc'[t] = x /\ call'[t] = e
      /\ \A u \in Thread : u # t => pc'[u] = pc[u] /\ call'[u] = call[u]
  BY <1>5, MovesSets, Zenon
<1>7. PageInv' /\ BlockInv'
  <2>1. Flight(pc[t], call[t]) = {}
    BY <1>2, FlightIs, Zenon
  <2>2. Flight(x, e) = {}
    <3>1. x = "flip" => Run(e.page, e.bit) = {}
      BY <1>5 DEF Run
    <3> QED BY <3>1, <1>5, FlightIs, Zenon
  <2> QED BY <1>2, <1>5, <2>1, <2>2, QuietStep, Zenon DEF Scan
<1>8. CallTypes' /\ OldOK'
  BY <1>1, <1>5, QuietCalls, Zenon DEF Scan, Getting
<1>9. TypeOK'
  BY <1>5, Zenon DEF TypeOK, Scan, Moves
<1>10. \A u \in Thread : u # t => CallOK(u)'
  BY <1>3, <1>6, CallFrame, Zenon DEF Scan, CallsOK, Arenas
<1>11. CallOK(t)'
  <2>1. KindOK(e) /\ DescHeld(t)' /\ (e.kind # "block" => e.cnt <= MaxRun)
    BY <1>1, <1>3, <1>5, <1>6, Zenon DEF Scan, KindOK, DescHeld
  <2>2. x = "got" => e.page = NULL
    BY <1>5, Zenon
  <2>3. x = "flip" => \A p \in Run(e.page + e.bit, e.cnt - e.bit) : ~used_map'[p]
    <3>1. x = "flip" => e.page + e.bit = e.page /\ e.cnt - e.bit = e.cnt
      BY <1>4, <1>5
    <3> QED BY <1>5, <3>1, Zenon DEF Scan
  <2> QED BY <1>5, <1>6, <1>3, <2>1, <2>2, <2>3, Zenon DEF CallOK, Scan, Freeing
<1> QED BY <1>7, <1>8, <1>9, <1>10, <1>11, NextCallsOK, Zenon

LEMMA FlipStep ==
  ASSUME MemoryInv, NEW t \in Thread, Flip(t)
  PROVE  MemoryInv'
<1> USE DEF MemoryInv
<1>1. PICK c : c = call[t]
  BY Zenon
<1>2. c \in CallRecord /\ CallOK(t) /\ pc[t] = "flip"
  BY <1>1, Zenon DEF CallTypes, CallsOK, Flip
<1>3. /\ KindOK(c) /\ DescHeld(t) /\ (c.kind # "block" => c.cnt <= MaxRun)
      /\ pool_lock = t /\ InPool(c)
      /\ \A p \in Run(c.page + c.bit, c.cnt - c.bit) : ~used_map[p]
  BY <1>1, <1>2, Zenon DEF CallOK, Getting
<1>4. c.cnt \in Nat \ {0} /\ c.bit \in Nat /\ c.page \in Nat /\ c.page + c.cnt <= PageCnt /\ c.bit < c.cnt
  BY <1>2, <1>3, Zenon DEF CallRecord, InPool
<1>5. PICK x : x = IF c.bit = c.cnt - 1 THEN "unlock" ELSE "flip"
  BY Zenon
<1>6. PICK n : n = IF c.bit = c.cnt - 1 THEN 0 ELSE c.bit + 1
  BY Zenon
<1>7. PICK e : e = [c EXCEPT !.bit = n]
  BY Zenon
<1>8. n \in Nat /\ n < c.cnt /\ (x = "flip" => n = c.bit + 1) /\ (x = "unlock" => c.cnt = c.bit + 1)
  BY <1>4, <1>5, <1>6
<1>9. /\ e \in CallRecord
      /\ e.kind = c.kind /\ e.desc = c.desc /\ e.cnt = c.cnt /\ e.old = c.old
      /\ e.page = c.page /\ e.bit = n
  BY <1>7, <1>2, <1>8, Zenon DEF CallRecord
<1>10. Moves(t, x, e)
  BY <1>1, <1>5, <1>6, <1>7, Zenon DEF Moves, Goto, CallTypes, Flip
<1>11. pc'[t] = x /\ call'[t] = e
      /\ \A u \in Thread : u # t => pc'[u] = pc[u] /\ call'[u] = call[u]
  BY <1>10, MovesSets
<1>12. PICK q : q = c.page + c.bit
  BY Zenon
<1>13. q \in Page /\ ~used_map[q]
  <2>1. q \in Page /\ q \in Run(c.page + c.bit, c.cnt - c.bit)
    BY <1>4, <1>12, MemoryAssumption DEF Page, Run
  <2> QED BY <1>3, <2>1, Zenon
<1>14. used_map' = [used_map EXCEPT ![q] = TRUE]
  BY <1>1, <1>12, Zenon DEF Flip
<1>15. PagesOwned'
  <2>1. Marked' = Marked \cup {q} /\ q \notin Marked
    BY <1>13, <1>14, Zenon DEF Marked, TypeOK
  <2>2. Flight(x, e) = Run(c.page, c.bit + 1)
    BY <1>5, <1>8, <1>9, FlightIs
  <2>3. Flights[t] = Run(c.page, c.bit)
    BY <1>1, <1>2, FlightIs, Zenon DEF Flights
  <2>4. Run(c.page, c.bit + 1) = Run(c.page, c.bit) \cup {q}
    BY <1>4, <1>12 DEF Run
  <2>5. Flights' = [Flights EXCEPT ![t] = Flights[t] \cup {q}]
    BY <1>10, <2>2, <2>3, <2>4, MovesSets
  <2>6. Closers' = Closers /\ t \notin Closers
    BY <1>2, <1>5, <1>10, MovesSets DEF Closers
  <2>7. Runs' = Runs /\ Arenas' = Arenas
    BY Zenon DEF Flip, Runs, Arenas
  <2>8. Owned(Marked \cup {q}, Runs, Arenas, Flights', Closers)
    BY <1>13, <2>1, <2>5, <2>6, Shapes, MarkOwned, Zenon DEF PageInv, PagesOwned
  <2> QED BY <2>1, <2>6, <2>7, <2>8, NextPagesOwned, Zenon
<1>16. RunsOK'
  BY Zenon DEF RunsOK, PageInv, Runs, Flip
<1>17. BlockInv'
  <2>1. Closers' = Closers /\ Freers' = Freers /\ t \notin Closers /\ t \notin Freers
    BY <1>2, <1>5, <1>10, MovesSets DEF Closers, Freers
  <2>2. Blocks' = Blocks /\ Arenas' = Arenas
    BY Zenon DEF Flip, Blocks, Arenas
  <2> QED BY <1>11, <2>1, <2>2, BlockFrame, Zenon DEF Flip, Closers, Freers
<1>18. CallTypes' /\ OldOK'
  BY <1>1, <1>5, <1>9, <1>10, QuietCalls, Zenon DEF Flip, Getting
<1>19. TypeOK'
  BY <1>5, <1>10, <1>14, Zenon DEF TypeOK, Flip, Moves
<1>20. \A u \in Thread : u # t => CallOK(u)'
  BY <1>3, <1>11, CallFrame, Zenon DEF Flip, CallsOK, Arenas
<1>21. CallOK(t)'
  <2>1. KindOK(e) /\ DescHeld(t)' /\ (e.kind # "block" => e.cnt <= MaxRun)
    BY <1>1, <1>3, <1>9, <1>11, Zenon DEF Flip, KindOK, DescHeld
  <2>2. InPool(e)
    BY <1>4, <1>8, <1>9, Zenon DEF InPool
  <2>3. ASSUME x = "flip", NEW p \in Run(e.page + e.bit, e.cnt - e.bit) PROVE ~used_map'[p]
    <3>1. p \in Run(c.page + c.bit, c.cnt - c.bit) /\ p # q /\ p \in Page
      BY <1>4, <1>8, <1>9, <1>12, <2>3, MemoryAssumption DEF Run, Page
    <3> QED BY <1>3, <1>14, <3>1, Zenon DEF TypeOK
  <2> QED BY <1>3, <1>5, <1>11, <2>1, <2>2, <2>3, Zenon DEF CallOK, Flip, Freeing
<1> QED BY <1>15, <1>16, <1>17, <1>18, <1>19, <1>20, <1>21, NextCallsOK, Zenon DEF PageInv

LEMMA PoolUnlockStep ==
  ASSUME MemoryInv, NEW t \in Thread, PoolUnlock(t)
  PROVE  MemoryInv'
<1> USE DEF MemoryInv
<1>1. PICK c : c = call[t]
  BY Zenon
<1>2. c \in CallRecord /\ CallOK(t) /\ pc[t] = "unlock"
  BY <1>1, Zenon DEF CallTypes, CallsOK, PoolUnlock
<1>3. /\ KindOK(c) /\ DescHeld(t) /\ (c.kind # "block" => c.cnt <= MaxRun)
      /\ pool_lock = t /\ InPool(c)
  BY <1>1, <1>2, Zenon DEF CallOK, Getting
<1>4. Moves(t, "got", c)
  BY <1>1, Zenon DEF Moves, Goto, CallTypes, PoolUnlock
<1>5. pc'[t] = "got" /\ call'[t] = c
      /\ \A u \in Thread : u # t => pc'[u] = pc[u] /\ call'[u] = call[u]
  BY <1>4, MovesSets
<1>6. PageInv' /\ BlockInv'
  <2>1. c.page # NULL
    BY <1>3, MemoryAssumption, Zenon DEF InPool
  <2>2. Flight("got", c) = Run(c.page, c.cnt) /\ Flight(pc[t], call[t]) = Run(c.page, c.cnt)
    BY <1>1, <1>2, <2>1, FlightIs, Zenon
  <2> QED BY <1>2, <1>4, <2>2, QuietStep, Zenon DEF PoolUnlock
<1>7. CallTypes' /\ OldOK'
  BY <1>1, <1>2, <1>4, QuietCalls, Zenon DEF PoolUnlock, Getting
<1>8. TypeOK'
  BY <1>4, Zenon DEF TypeOK, PoolUnlock, Moves
<1>9. \A u \in Thread : u # t => CallOK(u)'
  BY <1>3, <1>5, CallFrame, Zenon DEF PoolUnlock, CallsOK, Arenas
<1>10. CallOK(t)'
  <2>1. DescHeld(t)'
    BY <1>1, <1>3, <1>5, Zenon DEF PoolUnlock, DescHeld
  <2> QED BY <1>3, <1>5, <2>1, Zenon DEF CallOK, PoolUnlock, Freeing
<1> QED BY <1>6, <1>7, <1>8, <1>9, <1>10, NextCallsOK, Zenon

-----------------------------------------------------------------------------
(* palloc_free_multiple. *)

\* The page of a thread that gives an arena back is its own.
LEMMA CloserPage ==
  ASSUME MemoryInv, NEW t \in Closers
  PROVE  /\ call[t].page \in Arenas /\ call[t].page \in Closing /\ Flights[t] = {call[t].page}
         /\ \A u \in Thread : u # t => call[t].page \notin Flights[u]
         /\ \A u \in Closers : u # t => call[u].page # call[t].page
<1> USE DEF MemoryInv
<1>1. PICK c : c = call[t]
  BY Zenon
<1>2. t \in Thread /\ pc[t] = "scrub" /\ c.kind = "block" /\ CallOK(t)
  BY <1>1, Zenon DEF Closers, CallsOK
<1>3. c.cnt = 1 /\ c.page \in Arenas /\ c.page \in Nat
  BY <1>1, <1>2, Zenon DEF CallOK, KindOK, InPool, Freeing
<1>4. Run(c.page, c.cnt) = {c.page}
  BY <1>3 DEF Run
<1>5. Flights[t] = {c.page}
  BY <1>1, <1>2, <1>4, FlightIs, Zenon DEF Flights
<1>6. \A u \in Thread : u # t => c.page \notin Flights[u]
  BY <1>2, <1>5, Zenon DEF PageInv, PagesOwned, Owned
<1>7. ASSUME NEW u \in Closers, u # t PROVE call[u].page \in Flights[u] /\ u \in Thread
  <2>1. PICK e : e = call[u]
    BY Zenon
  <2>2. u \in Thread /\ pc[u] = "scrub" /\ e.kind = "block" /\ CallOK(u)
    BY <2>1, Zenon DEF Closers, CallsOK
  <2>3. e.cnt = 1 /\ e.page \in Nat
    BY <2>1, <2>2, Zenon DEF CallOK, KindOK, InPool, Freeing
  <2>4. e.page \in Run(e.page, e.cnt)
    BY <2>3 DEF Run
  <2> QED BY <2>1, <2>2, <2>4, FlightIs, Zenon DEF Flights
<1> QED BY <1>1, <1>3, <1>5, <1>6, <1>7, Zenon DEF Closing

\* The pages that thread t has in flight hold no header that others rely on.
LEMMA FlightPages ==
  ASSUME MemoryInv, NEW t \in Thread
  PROVE  /\ \A h \in Runs : h.page \notin Flights[t]
         /\ \A u \in Thread : u # t /\ pc[u] \in {"free", "scrub"} /\ call[u].kind = "block" =>
              call[u].page \notin Flights[t]
<1> USE DEF MemoryInv
<1>1. ASSUME NEW h \in Runs PROVE h.page \notin Flights[t]
  <2>1. h \in [kind : {"pages", "big"}, page : Page, n : 1 .. MaxRun]
    BY DEF Runs, TypeOK, Allocation
  <2>2. h.page \in Held(h)
    BY <2>1, MemoryAssumption DEF Held, Run, Page
  <2> QED BY <2>2, Zenon DEF PageInv, PagesOwned, Owned
<1>2. ASSUME NEW u \in Thread, u # t, pc[u] = "scrub", call[u].kind = "block"
      PROVE  call[u].page \notin Flights[t]
  BY <1>2, CloserPage, Zenon DEF Closers
<1>3. ASSUME NEW u \in Thread, u # t, pc[u] = "free", call[u].kind = "block"
      PROVE  call[u].page \notin Flights[t]
  <2>1. call[u].page \in Arenas
    BY <1>3, Zenon DEF CallsOK, CallOK
  <2>2. CASE t \notin Closers
    BY <2>1, <2>2, Zenon DEF PageInv, PagesOwned, Owned
  <2>3. CASE t \in Closers
    <3>1. Freed(u) \in Used
      BY <1>3, Zenon DEF Used, Freers
    <3>2. Freed(u)[1] \notin Closing
      BY <3>1, Zenon DEF BlockInv, BlocksCounted, Counted
    <3> QED BY <2>3, <3>2, CloserPage DEF Freed
  <2> QED BY <2>2, <2>3, Zenon
<1> QED BY <1>1, <1>2, <1>3, Zenon

LEMMA ScrubStep ==
  ASSUME MemoryInv, NEW t \in Thread, Scrub(t)
  PROVE  MemoryInv'
<1> USE DEF MemoryInv
<1>1. PICK c : c = call[t]
  BY Zenon
<1>2. c \in CallRecord /\ CallOK(t) /\ pc[t] = "scrub"
  BY <1>1, Zenon DEF CallTypes, CallsOK, Scrub
<1>3. /\ KindOK(c) /\ DescHeld(t) /\ InPool(c) /\ c.bit = 0
      /\ c.kind = "block" => c.page \in Arenas /\ arena[c.page].desc = c.desc
  BY <1>1, <1>2, Zenon DEF CallOK, Freeing
<1>4. c.cnt \in Nat \ {0} /\ c.page \in Nat /\ c.page + c.cnt <= PageCnt
  BY <1>2, <1>3, Zenon DEF CallRecord, InPool
<1>5. Moves(t, "clear", c)
  BY <1>1, Zenon DEF Moves, Goto, CallTypes, Scrub
<1>6. pc'[t] = "clear" /\ call'[t] = c
      /\ \A u \in Thread : u # t => pc'[u] = pc[u] /\ call'[u] = call[u]
  BY <1>5, MovesSets
<1>7. PICK R : R = Run(c.page, c.cnt)
  BY Zenon
<1>8. Flights[t] = R /\ Flight("clear", c) = R
  <2>1. c.page + c.bit = c.page /\ c.cnt - c.bit = c.cnt
    BY <1>3, <1>4
  <2> QED BY <1>1, <1>2, <1>7, <2>1, FlightIs DEF Flights
<1>9. \A p \in Page : arena'[p] = IF p \in R THEN NULL ELSE arena[p]
  BY <1>1, <1>7, Zenon DEF Scrub
<1>10. Arenas' = Arenas \ R /\ \A p \in Arenas \ R : arena'[p] = arena[p]
  BY <1>9, Zenon DEF Arenas
<1>11. Marked' = Marked /\ Runs' = Runs /\ Flights' = Flights /\ Freers' = Freers
       /\ Closers' = Closers \ {t} /\ Blocks' = Blocks /\ t \notin Freers
  <2>1. Flights' = [Flights EXCEPT ![t] = R]
    BY <1>5, <1>8, MovesSets
  <2>2. Flights' = Flights
    BY <2>1, <1>8, Zenon DEF Flights
  <2>3. Closers' = Closers \ {t} /\ Freers' = Freers /\ t \notin Freers
    BY <1>2, <1>5, MovesSets DEF Freers
  <2> QED BY <2>2, <2>3, Zenon DEF Scrub, Marked, Runs, Blocks
<1>12. PagesOwned' /\ BlockInv'
  <2>1. CASE c.kind = "block"
    <3>1. t \in Closers
      BY <1>1, <1>2, <2>1, Zenon DEF Closers
    <3>2. R = {c.page} /\ c.page \in Closing
      BY <1>1, <1>8, <3>1, CloserPage, Zenon
    <3>3. Owned(Marked, Runs, Arenas \ {c.page}, Flights, Closers \ {t})
      BY <1>8, <3>2, ScrubOwned, Zenon DEF PageInv, PagesOwned
    <3>4. PagesOwned'
      BY <1>10, <1>11, <3>2, <3>3, NextPagesOwned, Zenon
    <3>5. Closing' = Closing \ {c.page}
      <4>1. \A u \in Closers \ {t} : call'[u] = call[u] /\ call[u].page # c.page
        BY <1>1, <1>6, <3>1, CloserPage DEF Closers
      <4>2. Closing' = {call[u].page : u \in Closers \ {t}}
        BY <1>11, <4>1, Zenon DEF Closing
      <4> QED BY <1>1, <4>1, <4>2, Zenon DEF Closing
    <3>6. \A u \in Freers : Freed(u)' = Freed(u)
      BY <1>6, <1>11, Zenon DEF Freed, Freers
    <3>7. Used' = Used
      BY <1>11, <3>6, Zenon DEF Used
    <3>8. Lists' = Lists
      BY Zenon DEF Lists, Elements, Scrub
    <3>9. Counted(Arenas \ {c.page}, arena', Lists, Used, Closing \ {c.page})
      BY <1>10, <3>2, Shapes, ScrubCounted, Zenon DEF BlockInv, BlocksCounted
    <3>10. BlocksCounted'
      BY <1>10, <3>2, <3>5, <3>7, <3>8, <3>9, NextBlocksCounted, Zenon
    <3>11. FreedOnce' /\ ListsDistinct'
      BY <1>11, <3>6 DEF FreedOnce, ListsDistinct, Distinct, BlockInv, Scrub
    <3> QED BY <3>4, <3>10, <3>11, Zenon DEF BlockInv
  <2>2. CASE c.kind # "block"
    <3>1. t \notin Closers
      BY <1>1, <2>2, Zenon DEF Closers
    <3>2. Arenas' = Arenas /\ \A p \in Arenas : arena'[p] = arena[p]
      BY <1>8, <1>10, <3>1, Zenon DEF PageInv, PagesOwned, Owned
    <3>3. Closers' = Closers
      BY <1>11, <3>1, Zenon
    <3>4. PagesOwned'
      BY <1>11, <3>2, <3>3, NextPagesOwned, Zenon DEF PageInv, PagesOwned
    <3>5. BlockInv'
      BY <1>6, <1>11, <3>1, <3>2, <3>3, BlockFrame, Zenon DEF Freers, Closers, Scrub
    <3> QED BY <3>4, <3>5, Zenon
  <2> QED BY <2>1, <2>2, Zenon
<1>13. RunsOK'
  <2>1. \A h \in Runs : h.page \in Page /\ h.page \notin R
    BY <1>8, FlightPages DEF Runs, TypeOK, Allocation
  <2>2. \A h \in Runs : arena'[h.page] = arena[h.page]
    BY <1>9, <2>1, Zenon
  <2> QED BY <1>11, <2>2, Zenon DEF RunsOK, PageInv
<1>14. CallTypes' /\ OldOK'
  <2>1. c.old = NULL
    BY <1>1, <1>2, Zenon DEF OldOK, Getting
  <2> QED BY <1>2, <1>5, <2>1, QuietCalls, Zenon DEF Scrub
<1>15. TypeOK'
  BY <1>5, Zenon DEF TypeOK, Scrub, Moves
<1>16. \A u \in Thread : u # t => CallOK(u)'
  BY <1>6, <1>8, <1>10, FlightPages, CallFrame, Zenon DEF Scrub, CallsOK
<1>17. CallOK(t)'
  <2>1. DescHeld(t)'
    BY <1>1, <1>3, <1>6, Zenon DEF Scrub, DescHeld
  <2> QED BY <1>3, <1>6, <2>1, Zenon DEF CallOK, Scrub, Getting
<1> QED BY <1>12, <1>13, <1>14, <1>15, <1>16, <1>17, NextCallsOK, Zenon DEF PageInv

LEMMA Returned ==
  /\ NoCall \in CallRecord
  /\ \A t \in Thread : pc'[t] = "run" /\ call'[t] = NoCall => CallOK(t)'
<1>1. NoCall \in CallRecord /\ KindOK(NoCall)
  BY DEF NoCall, CallRecord, KindOK
<1> QED BY <1>1, Zenon DEF CallOK, Getting, Freeing

LEMMA ClearStep ==
  ASSUME MemoryInv, NEW t \in Thread, Clear(t)
  PROVE  MemoryInv'
<1> USE DEF MemoryInv
<1>1. PICK c : c = call[t]
  BY Zenon
<1>2. c \in CallRecord /\ CallOK(t) /\ pc[t] = "clear"
  BY <1>1, Zenon DEF CallTypes, CallsOK, Clear
<1>3. KindOK(c) /\ DescHeld(t) /\ InPool(c)
  BY <1>1, <1>2, Zenon DEF CallOK, Freeing
<1>4. c.cnt \in Nat \ {0} /\ c.bit \in Nat /\ c.page \in Nat /\ c.page + c.cnt <= PageCnt /\ c.bit < c.cnt
  BY <1>2, <1>3, Zenon DEF CallRecord, InPool
<1>5. c.old = NULL
  BY <1>1, <1>2, Zenon DEF OldOK, Getting
<1>6. PICK q : q = c.page + c.bit
  BY Zenon
<1>7. q \in Page
  BY <1>4, <1>6, MemoryAssumption DEF Page
<1>8. used_map' = [used_map EXCEPT ![q] = FALSE]
  BY <1>1, <1>6, Zenon DEF Clear
<1> DEFINE Goal(x, e) ==
             /\ x \in {"clear", "run"} /\ e \in CallRecord /\ Moves(t, x, e) /\ e.old = NULL
             /\ Flight(x, e) = Run(c.page + c.bit, c.cnt - c.bit) \ {q}
             /\ \A d \in Desc : desc_lock[d] # t => desc_lock'[d] = desc_lock[d]
             /\ desc_lock' \in [Desc -> Thread \cup {NULL}]
             /\ CallOK(t)'
<1>9. PICK x, e : Goal(x, e)
  <2>1. CASE c.bit < c.cnt - 1
    <3>1. PICK n \in Nat : n = c.bit + 1
      BY <1>4
    <3>2. PICK e : e = [c EXCEPT !.bit = n]
      BY Zenon
    <3>3. /\ e \in CallRecord
          /\ e.kind = c.kind /\ e.desc = c.desc /\ e.cnt = c.cnt /\ e.old = c.old
          /\ e.page = c.page /\ e.bit = n
      BY <3>1, <3>2, <1>2, Zenon DEF CallRecord
    <3>4. call' = [call EXCEPT ![t].bit = @ + 1] /\ UNCHANGED <<pc, desc_lock>>
      BY <1>1, <2>1, Zenon DEF Clear
    <3>5. Moves(t, "clear", e)
      BY <1>1, <1>2, <3>1, <3>2, <3>4, Zenon DEF Moves, CallTypes, TypeOK
    <3>6. Flight("clear", e) = Run(c.page + n, c.cnt - n)
      BY <3>3, FlightIs, Zenon
    <3>7. Run(c.page + n, c.cnt - n) = Run(c.page + c.bit, c.cnt - c.bit) \ {q}
      BY <1>4, <1>6, <3>1 DEF Run
    <3>8. pc'[t] = "clear" /\ call'[t] = e
      BY <3>5, MovesSets
    <3>9. InPool(e) /\ KindOK(e) /\ DescHeld(t)'
      BY <1>1, <1>3, <1>4, <2>1, <3>1, <3>3, <3>4, <3>8 DEF InPool, KindOK, DescHeld
    <3>10. CallOK(t)'
      BY <3>8, <3>9, Zenon DEF CallOK, Getting
    <3>11. Goal("clear", e)
      BY <1>5, <3>3, <3>4, <3>5, <3>6, <3>7, <3>10, Zenon DEF TypeOK
    <3> QED BY <3>11, Zenon
  <2>2. CASE ~(c.bit < c.cnt - 1)
    <3>1. Return(t) /\ desc_lock' = IF c.desc = NULL THEN desc_lock
                                    ELSE [desc_lock EXCEPT ![c.desc] = NULL]
      BY <1>1, <2>2, Zenon DEF Clear
    <3>2. Moves(t, "run", NoCall)
      BY <3>1, Zenon DEF Return, Goto, Moves
    <3>3. pc'[t] = "run" /\ call'[t] = NoCall
      BY <3>2, MovesSets
    <3>4. Run(c.page + c.bit, c.cnt - c.bit) \ {q} = {}
      BY <1>4, <1>6, <2>2 DEF Run
    <3>5. Flight("run", NoCall) = {} /\ NoCall.old = NULL
      BY FlightIs, Zenon DEF NoCall
    <3>6. c.desc = NULL \/ (c.desc \in Desc /\ desc_lock[c.desc] = t)
      BY <1>1, <1>3, Zenon DEF KindOK, DescHeld
    <3>7. /\ \A d \in Desc : desc_lock[d] # t => desc_lock'[d] = desc_lock[d]
          /\ desc_lock' \in [Desc -> Thread \cup {NULL}]
      BY <3>1, <3>6, Zenon DEF TypeOK
    <3>8. Goal("run", NoCall)
      BY <3>2, <3>3, <3>4, <3>5, <3>7, Returned, Zenon
    <3> QED BY <3>8, Zenon
  <2> QED BY <2>1, <2>2, Zenon
<1>10. pc'[t] = x /\ call'[t] = e
      /\ \A u \in Thread : u # t => pc'[u] = pc[u] /\ call'[u] = call[u]
  BY <1>9, MovesSets, SMTT(30)
<1>11. Closers' = Closers /\ Freers' = Freers /\ t \notin Closers /\ t \notin Freers
  BY <1>2, <1>9, MovesSets DEF Closers, Freers
<1>12. Arenas' = Arenas /\ Runs' = Runs /\ Blocks' = Blocks
  BY Zenon DEF Clear, Arenas, Runs, Blocks
<1>13. PagesOwned'
  <2>1. Marked' = Marked \ {q}
    BY <1>7, <1>8, Zenon DEF Marked, TypeOK
  <2>2. Flights[t] = Run(c.page + c.bit, c.cnt - c.bit)
    BY <1>1, <1>2, FlightIs, Zenon DEF Flights
  <2>3. q \in Run(c.page + c.bit, c.cnt - c.bit)
    BY <1>4, <1>6 DEF Run
  <2>4. Flights' = [Flights EXCEPT ![t] = Flights[t] \ {q}]
    BY <1>9, <2>2, MovesSets
  <2>5. Owned(Marked \ {q}, Runs, Arenas, Flights', Closers)
    BY <1>7, <1>11, <2>2, <2>3, <2>4, Shapes, ClearOwned, Zenon DEF PageInv, PagesOwned
  <2> QED BY <1>11, <1>12, <2>1, <2>5, NextPagesOwned, Zenon
<1>14. RunsOK'
  BY <1>12, Zenon DEF RunsOK, PageInv, Clear
<1>15. BlockInv'
  BY <1>10, <1>11, <1>12, BlockFrame, Zenon DEF Freers, Closers, Clear
<1>16. CallTypes' /\ OldOK'
  BY <1>9, QuietCalls, Zenon DEF Clear
<1>17. TypeOK'
  <2>1. used_map' \in [Page -> BOOLEAN]
    BY <1>8, Zenon DEF TypeOK
  <2> QED BY <1>9, <2>1, Zenon DEF TypeOK, Clear, Moves
<1>18. \A u \in Thread : u # t => CallOK(u)'
  <2>1. \A p \in Page : used_map'[p] => used_map[p]
    BY <1>8, Zenon DEF TypeOK
  <2> QED BY <1>9, <1>10, <1>12, <2>1, CallFrame, Zenon DEF Clear, CallsOK
<1> QED BY <1>9, <1>13, <1>14, <1>15, <1>16, <1>17, <1>18, NextCallsOK, Zenon DEF PageInv

LEMMA SchedulerFreesStep ==
  ASSUME MemoryInv, NEW h \in Freeable, SchedulerFrees(h)
  PROVE  MemoryInv'
<1> USE DEF MemoryInv
<1>1. h \in held /\ h.kind = "pages" /\ h.n = 1 /\ \A u \in Thread : call[u].old # h
  BY Zenon DEF Freeable, SchedulerFrees
<1>2. h \in Runs /\ h.page \in Page
  BY <1>1 DEF Runs, TypeOK, Allocation
<1>3. Held(h) = {h.page}
  BY <1>1, <1>2, MemoryAssumption DEF Held, Run, Page
<1>4. h.page \notin Arenas /\ \A k \in Runs : k # h => k.page # h.page
  <2>1. \A k \in Runs : k.page \in Held(k)
    <3> SUFFICES ASSUME NEW k \in Runs PROVE k.page \in Held(k)
      BY Zenon
    <3>1. k \in [kind : {"pages", "big"}, page : Page, n : 1 .. MaxRun]
      BY DEF Runs, TypeOK, Allocation
    <3> QED BY <3>1, MemoryAssumption DEF Held, Run, Page
  <2> QED BY <1>2, <1>3, <2>1, Zenon DEF PageInv, PagesOwned, Owned
<1>5. \A p \in Page : arena'[p] = IF p = h.page THEN NULL ELSE arena[p]
  BY Zenon DEF SchedulerFrees, TypeOK
<1>6. Arenas' = Arenas /\ \A p \in Arenas : arena'[p] = arena[p]
  BY <1>4, <1>5, Zenon DEF Arenas
<1>7. Runs' = Runs \ {h} /\ Blocks' = Blocks /\ Flights' = Flights /\ Closers' = Closers /\ Freers' = Freers
  <2>1. Flights' = [u \in Thread |-> Flight(pc'[u], call'[u])]
    BY Zenon DEF Flights, Flight
  <2> QED BY <1>1, <2>1, Zenon DEF SchedulerFrees, Runs, Blocks, Flights, Closers, Freers
<1>8. PagesOwned'
  <2>1. Marked' = Marked \ Held(h)
    BY <1>2, <1>3, Zenon DEF SchedulerFrees, Marked, TypeOK
  <2>2. Owned(Marked \ Held(h), Runs \ {h}, Arenas, Flights, Closers)
    BY <1>2, DropOwned, Zenon DEF PageInv, PagesOwned
  <2> QED BY <1>6, <1>7, <2>1, <2>2, NextPagesOwned, Zenon
<1>9. RunsOK'
  <2>1. \A k \in Runs \ {h} : k.page \in Page /\ arena'[k.page] = arena[k.page]
    BY <1>4, <1>5 DEF Runs, TypeOK, Allocation
  <2> QED BY <1>7, <2>1, Zenon DEF RunsOK, PageInv
<1>10. BlockInv'
  BY <1>6, <1>7, BlockFrame, Zenon DEF SchedulerFrees
<1>11. TypeOK'
  BY Zenon DEF TypeOK, SchedulerFrees
<1>12. CallTypes' /\ OldOK'
  BY <1>1, Zenon DEF CallTypes, OldOK, SchedulerFrees
<1>13. CallsOK'
  <2>1. \A p \in Page : used_map'[p] => used_map[p]
    BY Zenon DEF TypeOK, SchedulerFrees
  <2>2. ASSUME NEW u \in Thread PROVE CallOK(u)'
    BY <1>6, <2>1, CallFrame, Zenon DEF SchedulerFrees, CallsOK
  <2> QED BY <2>2, Zenon DEF CallsOK
<1> QED BY <1>8, <1>9, <1>10, <1>11, <1>12, <1>13, Zenon DEF PageInv

-----------------------------------------------------------------------------
(* The calls that start, and the locks of the descriptors. *)

LEMMA GetStep ==
  ASSUME MemoryInv, NEW t \in Thread, NEW kind \in {"pages", "big"}, NEW n \in 1 .. MaxRun,
         NEW old \in {NULL} \cup {h \in Freeable : h.kind # "pages"}, Get(t, kind, n, old)
  PROVE  MemoryInv'
<1> USE DEF MemoryInv
<1>1. PICK c : c = [NoCall EXCEPT !.kind = kind, !.cnt = n, !.old = old]
  BY Zenon
<1>2. c.kind = kind /\ c.desc = NULL /\ c.cnt = n /\ c.old = old /\ c \in CallRecord
  <2>1. n \in Nat \ {0}
    BY MemoryAssumption
  <2>2. old \in Allocation \cup {NULL}
    BY Zenon DEF Freeable, TypeOK
  <2> QED BY <1>1, <2>1, <2>2, Zenon DEF NoCall, CallRecord
<1>3. Moves(t, "pool", c) /\ pc[t] = "run"
  BY <1>1, Zenon DEF Get, Moves, Goto
<1>4. pc'[t] = "pool" /\ call'[t] = c
      /\ \A u \in Thread : u # t => pc'[u] = pc[u] /\ call'[u] = call[u]
  BY <1>3, MovesSets, Zenon
<1>5. PageInv' /\ BlockInv'
  BY <1>3, FlightIs, QuietStep, Zenon DEF Get
<1>6. OldOK'
  <2>1. c.old # NULL => c.old \in held' /\ c.old.kind # "pages" /\ \A u \in Thread : call[u].old # c.old
    BY <1>2, Zenon DEF Freeable, Get
  <2>2. \A u \in Thread : call[u].old # NULL => call[u].old \in held'
    BY Zenon DEF OldOK, Get
  <2> QED BY <1>3, <2>1, <2>2, OldStep, Zenon DEF Getting
<1>7. TypeOK' /\ CallTypes'
  BY <1>2, <1>3 DEF TypeOK, CallTypes, Get, Moves
<1>8. \A u \in Thread : u # t => CallOK(u)'
  BY <1>4, CallFrame, Zenon DEF Get, CallsOK, Arenas
<1>9. CallOK(t)'
  <2>1. KindOK(c) /\ DescHeld(t)' /\ c.cnt <= MaxRun
    BY <1>2, <1>4, MemoryAssumption DEF KindOK, DescHeld
  <2> QED BY <1>4, <2>1, Zenon DEF CallOK, Freeing
<1> QED BY <1>5, <1>6, <1>7, <1>8, <1>9, NextCallsOK, Zenon

LEMMA MallocStep ==
  ASSUME MemoryInv, NEW t \in Thread, NEW d \in Desc,
         NEW old \in {NULL} \cup {h \in Freeable : h.kind # "pages"}, Malloc(t, d, old)
  PROVE  MemoryInv'
<1> USE DEF MemoryInv
<1>1. PICK c : c = [NoCall EXCEPT !.kind = "block", !.desc = d, !.old = old]
  BY Zenon
<1>2. c.kind = "block" /\ c.desc = d /\ c.cnt = 1 /\ c.old = old /\ c \in CallRecord
  <2>1. old \in Allocation \cup {NULL}
    BY Zenon DEF Freeable, TypeOK
  <2>2. c = [kind |-> "block", desc |-> d, page |-> 0, cnt |-> 1, bit |-> 0, old |-> old]
    BY <1>1, Zenon DEF NoCall
  <2>3. c \in CallRecord
    BY <2>1, <2>2 DEF CallRecord
  <2> QED BY <2>2, <2>3, Zenon
<1>3. Moves(t, "desc", c) /\ pc[t] = "run"
  BY <1>1, Zenon DEF Malloc, Moves, Goto
<1>4. pc'[t] = "desc" /\ call'[t] = c
      /\ \A u \in Thread : u # t => pc'[u] = pc[u] /\ call'[u] = call[u]
  BY <1>3, MovesSets, Zenon
<1>5. PageInv' /\ BlockInv'
  BY <1>3, FlightIs, QuietStep, Zenon DEF Malloc
<1>6. OldOK'
  <2>1. c.old # NULL => c.old \in held' /\ c.old.kind # "pages" /\ \A u \in Thread : call[u].old # c.old
    BY <1>2, Zenon DEF Freeable, Malloc
  <2>2. \A u \in Thread : call[u].old # NULL => call[u].old \in held'
    BY Zenon DEF OldOK, Malloc
  <2> QED BY <1>3, <2>1, <2>2, OldStep, Zenon
<1>7. TypeOK' /\ CallTypes'
  BY <1>2, <1>3 DEF TypeOK, CallTypes, Malloc, Moves
<1>8. \A u \in Thread : u # t => CallOK(u)'
  BY <1>4, CallFrame, Zenon DEF Malloc, CallsOK, Arenas
<1>9. CallOK(t)'
  BY <1>2, <1>4, Zenon DEF CallOK, KindOK, Freeing, Getting
<1> QED BY <1>5, <1>6, <1>7, <1>8, <1>9, NextCallsOK, Zenon

LEMMA DescLockedStep ==
  ASSUME MemoryInv, NEW t \in Thread, DescLocked(t)
  PROVE  MemoryInv'
<1> USE DEF MemoryInv
<1>1. PICK c : c = call[t]
  BY Zenon
<1>2. c \in CallRecord /\ CallOK(t) /\ pc[t] = "desc"
  BY <1>1, Zenon DEF CallTypes, CallsOK, DescLocked
<1>3. KindOK(c) /\ c.kind = "block" /\ c.desc \in Desc
  BY <1>1, <1>2, Zenon DEF CallOK, KindOK
<1>4. PICK x : x = IF free_list[c.desc] = <<>> THEN "pool" ELSE "pop"
  BY Zenon
<1>5. Moves(t, x, c)
  BY <1>1, <1>4, Zenon DEF DescLocked, Moves, Goto, CallTypes
<1>6. pc'[t] = x /\ call'[t] = c
      /\ \A u \in Thread : u # t => pc'[u] = pc[u] /\ call'[u] = call[u]
  BY <1>5, MovesSets
<1>7. PageInv' /\ BlockInv'
  BY <1>2, <1>4, <1>5, FlightIs, QuietStep, Zenon DEF DescLocked
<1>8. CallTypes' /\ OldOK'
  BY <1>1, <1>2, <1>4, <1>5, QuietCalls, Zenon DEF DescLocked, Getting
<1>9. TypeOK'
  BY <1>4, <1>5, Zenon DEF TypeOK, DescLocked, Moves
<1>10. desc_lock' = [desc_lock EXCEPT ![c.desc] = t] /\ desc_lock[c.desc] = NULL
  BY <1>1, Zenon DEF DescLocked
<1>11. \A u \in Thread : u # t => CallOK(u)'
  <2>1. \A u \in Thread : \A d \in Desc : desc_lock[d] = u => desc_lock'[d] = u
    BY <1>10, MemoryAssumption, Zenon DEF TypeOK
  <2> QED BY <1>6, <2>1, CallFrame, Zenon DEF DescLocked, CallsOK, Arenas
<1>12. CallOK(t)'
  <2>1. DescHeld(t)'
    BY <1>3, <1>6, <1>10, Zenon DEF DescHeld, TypeOK
  <2>2. x = "pop" => free_list'[c.desc] # <<>>
    BY <1>4, Zenon DEF DescLocked
  <2> QED BY <1>3, <1>4, <1>6, <2>1, <2>2, Zenon DEF CallOK, Getting, Freeing
<1> QED BY <1>7, <1>8, <1>9, <1>11, <1>12, NextCallsOK, Zenon

LEMMA GotNothingStep ==
  ASSUME MemoryInv, NEW t \in Thread, GotNothing(t)
  PROVE  MemoryInv'
<1> USE DEF MemoryInv
<1>1. PICK c : c = call[t]
  BY Zenon
<1>2. c \in CallRecord /\ CallOK(t) /\ pc[t] = "got" /\ c.page = NULL
  BY <1>1, Zenon DEF CallTypes, CallsOK, GotNothing
<1>3. KindOK(c) /\ DescHeld(t)
  BY <1>1, <1>2, Zenon DEF CallOK, Getting
<1>4. Moves(t, "run", NoCall)
  BY Zenon DEF GotNothing, Return, Moves, Goto
<1>5. pc'[t] = "run" /\ call'[t] = NoCall
      /\ \A u \in Thread : u # t => pc'[u] = pc[u] /\ call'[u] = call[u]
  BY <1>4, MovesSets
<1>6. PageInv' /\ BlockInv'
  BY <1>1, <1>2, <1>4, FlightIs, QuietStep, Zenon DEF GotNothing
<1>7. CallTypes' /\ OldOK'
  <2>1. NoCall.old = NULL
    BY Zenon DEF NoCall
  <2> QED BY <1>4, <2>1, Returned, QuietCalls, Zenon DEF GotNothing
<1>8. c.desc = NULL \/ (c.desc \in Desc /\ desc_lock[c.desc] = t)
  BY <1>1, <1>3, Zenon DEF KindOK, DescHeld
<1>9. /\ \A d \in Desc : desc_lock[d] # t => desc_lock'[d] = desc_lock[d]
      /\ desc_lock' \in [Desc -> Thread \cup {NULL}]
  BY <1>1, <1>8, Zenon DEF TypeOK, GotNothing
<1>10. TypeOK'
  BY <1>4, <1>9, Zenon DEF TypeOK, GotNothing, Moves
<1>11. \A u \in Thread : u # t => CallOK(u)'
  BY <1>5, <1>9, CallFrame, Zenon DEF GotNothing, CallsOK, Arenas
<1>12. CallOK(t)'
  BY <1>5, Returned, Zenon
<1> QED BY <1>6, <1>7, <1>10, <1>11, <1>12, NextCallsOK, Zenon

-----------------------------------------------------------------------------
(* Handing allocations over, and taking them back. *)

\* A thread at x, with the call c, has taken back the allocation h.
Taken(x, c, h) ==
  /\ c \in CallRecord /\ c.old = NULL /\ KindOK(c)
  /\ h.kind # "block" => /\ x = "scrub" /\ c.kind # "block" /\ c.bit = 0 /\ InPool(c)
                         /\ Flight(x, c) = Held(h)
  /\ h.kind = "block" => /\ x = "free" /\ c.kind = "block" /\ <<c.page, c.bit>> = <<h.page, h.n>>
                         /\ c.page \in Arenas /\ arena[c.page].desc = c.desc
                         /\ Flight(x, c) = {}

LEMMA StartFreeIs ==
  ASSUME MemoryInv, NEW t \in Thread, NEW h \in held, StartFree(t, h)
  PROVE  \E x, c : x \in {"scrub", "free"} /\ Moves(t, x, c) /\ Taken(x, c, h)
<1> USE DEF MemoryInv
<1>1. h \in Allocation
  BY Zenon DEF TypeOK
<1>2. CASE h.kind # "block"
  <2>0. h \in Runs
    BY <1>2, Zenon DEF Runs
  <2>1. h \in [kind : {"pages", "big"}, page : Page, n : 1 .. MaxRun]
    BY <2>0 DEF Runs, TypeOK, Allocation
  <2>2. h.page \in Nat /\ h.n \in Nat \ {0} /\ h.page + h.n <= PageCnt
    <3>1. h.page + h.n <= PageCnt
      BY <2>0, Zenon DEF PageInv, RunsOK
    <3> QED BY <2>1, <3>1, MemoryAssumption DEF Page
  <2>3. h.kind = "big" => arena[h.page].free_cnt = h.n
    <3>1. h.kind = "big" => arena[h.page] = [desc |-> NULL, free_cnt |-> h.n]
      BY <2>0, Zenon DEF PageInv, RunsOK
    <3> QED BY <3>1
  <2>4. PICK c : c = [kind |-> h.kind, desc |-> NULL, page |-> h.page, cnt |-> h.n, bit |-> 0, old |-> NULL]
    BY Zenon
  <2>5. Moves(t, "scrub", c)
    <3>1. CASE h.kind = "pages"
      BY <2>4, <3>1, Zenon DEF StartFree, Moves, Goto, NoCall
    <3>2. CASE h.kind = "big"
      BY <2>3, <2>4, <3>2, Zenon DEF StartFree, Moves, Goto, NoCall
    <3> QED BY <2>1, <3>1, <3>2, Zenon
  <2>6. c \in CallRecord
    BY <2>1, <2>2, <2>4, Zenon DEF CallRecord
  <2>7. KindOK(c) /\ InPool(c) /\ c.old = NULL /\ c.kind # "block" /\ c.bit = 0
    BY <1>2, <2>2, <2>4 DEF KindOK, InPool
  <2>8. Flight("scrub", c) = Held(h)
    BY <1>2, <2>4, FlightIs DEF Held
  <2> QED BY <1>2, <2>5, <2>6, <2>7, <2>8, Zenon DEF Taken
<1>3. CASE h.kind = "block"
  <2>1. <<h.page, h.n>> \in Used
    BY <1>3, Zenon DEF Used, Blocks
  <2>2. h.page \in Arenas /\ h.page \in Page /\ h.n \in Nat /\ arena[h.page].desc \in Desc
    <3>1. h.page \in Arenas
      BY <2>1, Zenon DEF BlockInv, BlocksCounted, Counted
    <3>2. <<h.page, h.n>> \in Page \X Nat
      BY <2>1, Shapes, Zenon
    <3>3. h.page \in Page /\ h.n \in Nat
      BY <3>2, Zenon
    <3> QED BY <3>1, <3>3, Shapes, Zenon DEF Headers
  <2>3. PICK d \in Desc : d = arena[h.page].desc
    BY <2>2, Zenon
  <2>4. PICK c : c = [kind |-> "block", desc |-> d, page |-> h.page, cnt |-> 1, bit |-> h.n, old |-> NULL]
    BY Zenon
  <2>5. Moves(t, "free", c)
    BY <1>3, <2>3, <2>4, Zenon DEF StartFree, Moves, Goto, NoCall
  <2>6. h.page \in Nat
    BY <2>2, MemoryAssumption DEF Page
  <2>7. c \in CallRecord
    BY <2>2, <2>4, <2>6 DEF CallRecord
  <2>8. KindOK(c) /\ c.old = NULL /\ c.kind = "block" /\ c.page = h.page /\ c.bit = h.n /\ c.desc = d
    BY <2>4, Zenon DEF KindOK
  <2>9. Flight("free", c) = {}
    BY FlightIs, Zenon
  <2> QED BY <1>3, <2>2, <2>3, <2>5, <2>7, <2>8, <2>9, Zenon DEF Taken
<1> QED BY <1>2, <1>3, Zenon

LEMMA TakenCall ==
  ASSUME NEW t \in Thread, NEW x, NEW c, NEW h, Taken(x, c, h), pc'[t] = x, call'[t] = c,
         \A p \in Arenas : p \in Arenas' /\ arena'[p].desc = arena[p].desc
  PROVE  CallOK(t)'
<1>1. CASE h.kind # "block"
  <2>1. x = "scrub" /\ c.kind # "block" /\ c.bit = 0 /\ InPool(c) /\ KindOK(c)
    BY <1>1, Zenon DEF Taken
  <2>2. DescHeld(t)'
    BY <2>1, Zenon DEF DescHeld
  <2> QED BY <2>1, <2>2, Zenon DEF CallOK, Getting, Freeing
<1>2. CASE h.kind = "block"
  <2>1. x = "free" /\ c.kind = "block" /\ KindOK(c) /\ c.page \in Arenas' /\ arena'[c.page].desc = c.desc
    BY <1>2, Zenon DEF Taken
  <2> QED BY <2>1, Zenon DEF CallOK, Getting, Freeing
<1> QED BY <1>1, <1>2, Zenon

\* What Hand does with the allocation g.
Handed(t, g, x, c) ==
  /\ Moves(t, x, c) /\ c \in CallRecord /\ c.old = NULL /\ x \in {"run", "scrub", "free"}
  /\ call[t].old = NULL => held' = held \cup {g} /\ x = "run" /\ c = NoCall
  /\ call[t].old # NULL => /\ call[t].old \in held /\ call[t].old.kind # "pages"
                           /\ held' = (held \cup {g}) \ {call[t].old}
                           /\ Taken(x, c, call[t].old)

LEMMA HandIs ==
  ASSUME MemoryInv, NEW t \in Thread, NEW g, Hand(t, g)
  PROVE  \E x, c : Handed(t, g, x, c)
<1>1. CASE call[t].old = NULL
  <2>1. held' = held \cup {g} /\ Moves(t, "run", NoCall)
    BY <1>1, Zenon DEF Hand, Return, Goto, Moves
  <2>2. Handed(t, g, "run", NoCall)
    BY <1>1, <2>1, Returned, Zenon DEF Handed, NoCall
  <2> QED BY <2>2, Zenon
<1>2. CASE call[t].old # NULL
  <2>1. PICK o \in held : o = call[t].old /\ o.kind # "pages"
    BY <1>2, Zenon DEF MemoryInv, OldOK
  <2>2. StartFree(t, o) /\ held' = (held \cup {g}) \ {o}
    BY <1>2, <2>1, Zenon DEF Hand
  <2>3. PICK x, c : x \in {"scrub", "free"} /\ Moves(t, x, c) /\ Taken(x, c, o)
    BY <2>2, StartFreeIs, Zenon
  <2>4. Handed(t, g, x, c)
    BY <1>2, <2>1, <2>2, <2>3, Zenon DEF Handed, Taken
  <2> QED BY <2>4, Zenon
<1> QED BY <1>1, <1>2, Zenon

LEMMA HandedCall ==
  ASSUME MemoryInv, NEW t \in Thread, NEW g, NEW x, NEW c, Handed(t, g, x, c),
         \A p \in Arenas : p \in Arenas' /\ arena'[p].desc = arena[p].desc
  PROVE  CallTypes' /\ OldOK' /\ CallOK(t)'
<1> USE DEF MemoryInv
<1>1. pc'[t] = x /\ call'[t] = c
  BY MovesSets DEF Handed
<1>2. CallOK(t)'
  BY <1>1, Returned, TakenCall, Zenon DEF Handed
<1>3. \A u \in Thread : u # t /\ call[u].old # NULL => call[u].old \in held'
  BY Zenon DEF OldOK, Handed
<1>4. OldOK'
  BY <1>3, OldStep, Zenon DEF Handed
<1>5. CallTypes'
  BY Zenon DEF CallTypes, Handed, Moves
<1> QED BY <1>2, <1>4, <1>5, Zenon

\* The blocks in use once t has moved on: N are new, and t may free one itself.
LEMMA UsedStep ==
  ASSUME MemoryInv, NEW t \in Thread, NEW x, NEW c, Moves(t, x, c), NEW N,
         pc[t] # "free", N \cap Used = {},
         x # "free" => Blocks' = Blocks \cup N,
         x = "free" => /\ <<c.page, c.bit>> \in Blocks
                       /\ Blocks' = (Blocks \cup N) \ {<<c.page, c.bit>>}
  PROVE  Used' = Used \cup N /\ FreedOnce'
<1> USE DEF MemoryInv
<1>1. /\ pc'[t] = x /\ call'[t] = c
      /\ \A u \in Thread : u # t => pc'[u] = pc[u] /\ call'[u] = call[u]
      /\ Freers' = (Freers \ {t}) \cup {u \in {t} : x = "free"}
  BY MovesSets
<1>2. t \notin Freers
  BY Zenon DEF Freers
<1>3. \A u \in Freers : Freed(u)' = Freed(u) /\ u # t
  BY <1>1, <1>2, Zenon DEF Freed, Freers
<1>4. CASE x # "free"
  <2>1. Freers' = Freers
    BY <1>1, <1>2, <1>4, Zenon
  <2>2. Used' = Used \cup N
    BY <1>3, <1>4, <2>1, Zenon DEF Used
  <2>3. FreedOnce'
    BY <1>3, <1>4, <2>1 DEF FreedOnce, BlockInv, Used
  <2> QED BY <2>2, <2>3, Zenon
<1>5. CASE x = "free"
  <2>1. Freers' = Freers \cup {t} /\ Freed(t)' = <<c.page, c.bit>>
    BY <1>1, <1>2, <1>5, Zenon DEF Freed
  <2>2. Used' = Used \cup N
    BY <1>3, <1>5, <2>1, Zenon DEF Used
  <2>3. FreedOnce'
    BY <1>3, <1>5, <2>1 DEF FreedOnce, BlockInv, Used
  <2> QED BY <2>2, <2>3, Zenon
<1> QED BY <1>4, <1>5, Zenon

\* A block is held once.
LEMMA BlockIdentity ==
  ASSUME TypeOK, NEW h \in held, NEW k \in held, h.kind = "block", k.kind = "block",
         <<h.page, h.n>> = <<k.page, k.n>>
  PROVE  h = k
<1>1. h \in Allocation /\ k \in Allocation
  BY Zenon DEF TypeOK
<1>2. PICK b \in UNION {Block(d) : d \in Desc} : h = [kind |-> "block", page |-> b[1], n |-> b[2]]
  BY <1>1, Zenon DEF Allocation
<1>3. PICK f \in UNION {Block(d) : d \in Desc} : k = [kind |-> "block", page |-> f[1], n |-> f[2]]
  BY <1>1, Zenon DEF Allocation
<1>4. h.page = k.page /\ h.n = k.n
  BY Zenon
<1> QED BY <1>2, <1>3, <1>4, Zenon

LEMMA FreeStep ==
  ASSUME MemoryInv, NEW t \in Thread, NEW h \in Freeable, Free(t, h)
  PROVE  MemoryInv'
<1> USE DEF MemoryInv
<1>1. h \in held /\ \A u \in Thread : call[u].old # h
  BY Zenon DEF Freeable
<1>2. PICK x, c : x \in {"scrub", "free"} /\ Moves(t, x, c) /\ Taken(x, c, h)
  BY <1>1, StartFreeIs, Zenon DEF Free
<1>3. pc[t] = "run" /\ held' = held \ {h}
  BY Zenon DEF Free
<1>4. /\ pc'[t] = x /\ call'[t] = c
      /\ \A u \in Thread : u # t => pc'[u] = pc[u] /\ call'[u] = call[u]
      /\ Flights' = [Flights EXCEPT ![t] = Flight(x, c)]
  BY <1>2, MovesSets, Zenon
<1>5. Marked' = Marked /\ Arenas' = Arenas /\ Lists' = Lists
  BY Zenon DEF Free, Marked, Arenas, Lists, Elements
<1>6. Flights[t] = {} /\ t \notin Closers /\ t \notin Freers
  BY <1>3, FlightIs, Zenon DEF Flights, Closers, Freers
<1>7. Closers' = Closers
  <2>1. ~(x = "scrub" /\ c.kind = "block")
    BY <1>2, Zenon DEF Taken
  <2> QED BY <1>2, <1>6, <2>1, MovesSets
<1>8. PagesOwned' /\ BlockInv'
  <2>1. CASE h.kind # "block"
    <3>1. h \in Runs /\ Runs' = Runs \ {h} /\ Blocks' = Blocks
      BY <1>1, <1>3, <2>1, Zenon DEF Runs, Blocks
    <3>2. Flights' = [Flights EXCEPT ![t] = Held(h)]
      BY <1>2, <1>4, <2>1, Zenon DEF Taken
    <3>3. Owned(Marked, Runs \ {h}, Arenas, Flights', Closers)
      BY <1>6, <3>1, <3>2, Shapes, TakeOwned, Zenon DEF PageInv, PagesOwned
    <3>4. PagesOwned'
      BY <1>5, <1>7, <3>1, <3>3, NextPagesOwned, Zenon
    <3>5. Freers' = Freers
      <4>1. x # "free"
        BY <1>2, <2>1, Zenon DEF Taken
      <4> QED BY <1>2, <1>6, <4>1, MovesSets, SMTT(30)
    <3>6. BlockInv'
      BY <1>4, <1>5, <1>6, <1>7, <3>1, <3>5, BlockFrame, Zenon DEF Free, Freers, Closers
    <3> QED BY <3>4, <3>6, Zenon
  <2>2. CASE h.kind = "block"
    <3>1. Runs' = Runs
      BY <1>3, <2>2, Zenon DEF Runs
    <3>2. x = "free" /\ <<c.page, c.bit>> = <<h.page, h.n>> /\ Flight(x, c) = {}
      BY <1>2, <2>2, Zenon DEF Taken
    <3>3. Flights' = Flights
      BY <1>4, <1>6, <3>2, Zenon DEF Flights
    <3>4. PagesOwned'
      BY <1>5, <1>7, <3>1, <3>3, NextPagesOwned, Zenon DEF PageInv, PagesOwned
    <3>5. Blocks' = Blocks \ {<<h.page, h.n>>} /\ <<h.page, h.n>> \in Blocks
      <4>1. \A k \in held : k.kind = "block" /\ k # h => <<k.page, k.n>> # <<h.page, h.n>>
        BY <1>1, <2>2, BlockIdentity, Zenon
      <4> QED BY <1>1, <1>3, <2>2, <4>1, Zenon DEF Blocks
    <3>6. Used' = Used /\ FreedOnce'
      <4>1. Blocks' = (Blocks \cup {}) \ {<<c.page, c.bit>>} /\ <<c.page, c.bit>> \in Blocks
        BY <3>2, <3>5, Zenon
      <4>2. Used' = Used \cup {} /\ FreedOnce'
        BY <1>2, <1>3, <3>2, <4>1, UsedStep, Zenon
      <4> QED BY <4>2, Zenon
    <3>7. Closing' = Closing
      BY <1>4, <1>6, <1>7 DEF Closing, Closers
    <3>8. BlocksCounted'
      BY <1>5, <3>6, <3>7, NextBlocksCounted, Zenon DEF Free, BlockInv, BlocksCounted
    <3>9. ListsDistinct'
      BY Zenon DEF ListsDistinct, Distinct, BlockInv, Free
    <3> QED BY <3>4, <3>6, <3>8, <3>9, Zenon DEF BlockInv
  <2> QED BY <2>1, <2>2, Zenon
<1>9. RunsOK'
  BY <1>3, Zenon DEF RunsOK, PageInv, Runs, Free
<1>10. TypeOK'
  BY <1>2, <1>3, Zenon DEF TypeOK, Free, Moves
<1>11. CallTypes'
  BY <1>2, Zenon DEF CallTypes, Moves, Taken
<1>12. OldOK'
  <2>1. \A u \in Thread : u # t /\ call[u].old # NULL => call[u].old \in held'
    BY <1>1, <1>3, Zenon DEF OldOK
  <2>2. c.old = NULL
    BY <1>2, Zenon DEF Taken
  <2> QED BY <1>2, <2>1, <2>2, OldStep, Zenon
<1>13. \A u \in Thread : u # t => CallOK(u)'
  BY <1>4, <1>5, CallFrame, Zenon DEF Free, CallsOK
<1>14. CallOK(t)'
  BY <1>2, <1>4, <1>5, TakenCall, Zenon DEF Free
<1> QED BY <1>8, <1>9, <1>10, <1>11, <1>12, <1>13, <1>14, NextCallsOK, Zenon DEF PageInv

-----------------------------------------------------------------------------
(* malloc. *)

LEMMA GotPagesStep ==
  ASSUME MemoryInv, NEW t \in Thread, GotPages(t)
  PROVE  MemoryInv'
<1> USE DEF MemoryInv
<1>1. PICK c : c = call[t]
  BY Zenon
<1>2. c \in CallRecord /\ CallOK(t) /\ pc[t] = "got" /\ c.page # NULL /\ c.kind \in {"pages", "big"}
  BY <1>1, Zenon DEF CallTypes, CallsOK, GotPages
<1>3. InPool(c) /\ c.cnt \in 1 .. MaxRun
  <2>1. InPool(c) /\ c.cnt <= MaxRun
    BY <1>1, <1>2, Zenon DEF CallOK, Getting
  <2> QED BY <1>2, <2>1, MemoryAssumption DEF CallRecord
<1>4. c.page \in Page /\ c.page + c.cnt <= PageCnt
  BY <1>3, MemoryAssumption DEF InPool, Page
<1>5. PICK g : g = [kind |-> c.kind, page |-> c.page, n |-> c.cnt]
  BY Zenon
<1>6. PICK x, e : Handed(t, g, x, e)
  BY <1>1, <1>5, HandIs, Zenon DEF GotPages
<1>7. /\ pc'[t] = x /\ call'[t] = e
      /\ \A u \in Thread : u # t => pc'[u] = pc[u] /\ call'[u] = call[u]
      /\ Flights' = [Flights EXCEPT ![t] = Flight(x, e)]
  BY <1>6, MovesSets DEF Handed
<1>8. g \in Allocation /\ g.kind # "block" /\ Held(g) = Run(c.page, c.cnt) /\ g.page = c.page /\ g.n = c.cnt
  BY <1>2, <1>3, <1>4, <1>5, Zenon DEF Allocation, Held
<1>9. Flights[t] = Run(c.page, c.cnt) /\ t \notin Closers /\ t \notin Freers
  BY <1>1, <1>2, FlightIs DEF Flights, Closers, Freers
<1>10. c.page \in Run(c.page, c.cnt)
  BY <1>3, <1>4, MemoryAssumption, SMTT(30) DEF Run, Page
<1>11. c.page \notin Arenas /\ \A h \in Runs : h.page # c.page
  BY <1>9, <1>10, FlightPages DEF PageInv, PagesOwned, Owned
<1>12. g \notin held
  BY <1>8, <1>11, Zenon DEF Runs
<1>13. /\ \A p \in Page : p # c.page => arena'[p] = arena[p]
       /\ c.kind = "big" => arena'[c.page] = [desc |-> NULL, free_cnt |-> c.cnt]
       /\ c.kind = "pages" => arena' = arena
       /\ arena' \in [Page -> Arena \cup {NULL}]
  <2>1. [desc |-> NULL, free_cnt |-> c.cnt] \in Arena
    BY <1>3 DEF Arena
  <2> QED BY <1>1, <1>2, <1>4, <2>1, Zenon DEF GotPages, TypeOK
<1>14. Arenas' = Arenas /\ \A p \in Arenas : arena'[p] = arena[p]
  <2>1. \A p \in Page : p # c.page => (p \in Arenas' <=> p \in Arenas)
    BY <1>13, Zenon DEF Arenas
  <2>2. c.page \notin Arenas'
    BY <1>2, <1>11, <1>13 DEF Arenas
  <2>3. Arenas \subseteq Page /\ Arenas' \subseteq Page
    BY Zenon DEF Arenas
  <2>4. Arenas' = Arenas
    BY <1>11, <2>1, <2>2, <2>3
  <2>5. \A p \in Arenas : arena'[p] = arena[p]
    BY <1>11, <1>13, <2>3, Zenon
  <2> QED BY <2>4, <2>5, Zenon
<1>15. Marked' = Marked /\ Lists' = Lists
  BY Zenon DEF GotPages, Marked, Lists, Elements
<1>16. Closers' = Closers
  <2>1. ~(x = "scrub" /\ e.kind = "block")
    BY <1>6, Zenon DEF Handed, Taken
  <2> QED BY <1>6, <1>9, <2>1, MovesSets DEF Handed
<1>17. CallTypes' /\ OldOK' /\ CallOK(t)'
  BY <1>6, <1>14, HandedCall, Zenon
<1>18. TypeOK'
  <2>1. held' \subseteq Allocation
    BY <1>6, <1>8, Zenon DEF Handed, TypeOK
  <2> QED BY <1>6, <1>13, <2>1, Zenon DEF TypeOK, GotPages, Handed, Moves
<1>19. \A u \in Thread : u # t => CallOK(u)'
  BY <1>7, <1>14, CallFrame, Zenon DEF GotPages, CallsOK
<1>20. RunsOK'
  <2>1. \A h \in Runs' : h \in Runs \/ h = g
    BY <1>6 DEF Runs, Handed
  <2>2. \A h \in Runs : h.page \in Page /\ arena'[h.page] = arena[h.page]
    BY <1>11, <1>13 DEF Runs, TypeOK, Allocation
  <2>3. g.page + g.n <= PageCnt /\ (g.kind = "big" => arena'[g.page] = [desc |-> NULL, free_cnt |-> g.n])
    BY <1>4, <1>5, <1>8, <1>13, Zenon
  <2> QED BY <2>1, <2>2, <2>3, Zenon DEF RunsOK, PageInv
<1> DEFINE G == [Flights EXCEPT ![t] = {}]
<1>21. Owned(Marked, Runs \cup {g}, Arenas, G, Closers)
  BY <1>8, <1>9, <1>12, Shapes, GiveOwned, Zenon DEF PageInv, PagesOwned, Runs
<1>22. PagesOwned' /\ BlockInv'
  <2>1. CASE x # "free"
    <3>1. Freers' = Freers
      BY <1>6, <1>9, <2>1, MovesSets, SMTT(30) DEF Handed
    <3>2. Blocks' = Blocks
      <4>1. CASE call[t].old = NULL
        BY <1>6, <1>8, <4>1, Zenon DEF Blocks, Handed
      <4>2. CASE call[t].old # NULL
        <5>1. call[t].old.kind # "block" /\ held' = (held \cup {g}) \ {call[t].old}
          BY <1>6, <2>1, <4>2, Zenon DEF Handed, Taken
        <5> QED BY <1>8, <5>1, Zenon DEF Blocks
      <4> QED BY <4>1, <4>2, Zenon
    <3>3. BlockInv'
      BY <1>7, <1>9, <1>14, <1>16, <3>1, <3>2, BlockFrame, Zenon DEF GotPages, Freers, Closers
    <3>4. CASE call[t].old = NULL
      <4>1. Runs' = Runs \cup {g} /\ Flights' = G
        <5>1. x = "run" /\ held' = held \cup {g}
          BY <1>6, <3>4, Zenon DEF Handed
        <5> QED BY <1>7, <1>8, <5>1, FlightIs, Zenon DEF Runs
      <4>2. PagesOwned'
        BY <1>14, <1>15, <1>16, <1>21, <4>1, NextPagesOwned, Zenon
      <4> QED BY <3>3, <4>2, Zenon
    <3>5. CASE call[t].old # NULL
      <4>1. PICK o : o = call[t].old
        BY Zenon
      <4>2. o \in held /\ o.kind # "block" /\ held' = (held \cup {g}) \ {o} /\ Flight(x, e) = Held(o)
        BY <1>6, <2>1, <3>5, <4>1, Zenon DEF Handed, Taken
      <4>3. o \in Runs \cup {g} /\ Runs' = (Runs \cup {g}) \ {o}
        BY <1>8, <4>2, Zenon DEF Runs
      <4>4. DOMAIN G = Thread /\ G[t] = {} /\ Flights' = [G EXCEPT ![t] = Held(o)]
        BY <1>7, <4>2, Zenon DEF Flights
      <4> HIDE DEF G
      <4>5. Owned(Marked, (Runs \cup {g}) \ {o}, Arenas, Flights', Closers)
        BY <1>21, <4>3, <4>4, TakeOwned, Zenon
      <4>6. PagesOwned'
        BY <1>14, <1>15, <1>16, <4>3, <4>5, NextPagesOwned, Zenon
      <4> QED BY <3>3, <4>6, Zenon
    <3> QED BY <3>4, <3>5, Zenon
  <2>2. CASE x = "free"
    <3>1. PICK o : o = call[t].old
      BY Zenon
    <3>2. /\ o \in held /\ o.kind = "block" /\ held' = (held \cup {g}) \ {o} /\ Flight(x, e) = {}
          /\ <<e.page, e.bit>> = <<o.page, o.n>>
      BY <1>6, <2>2, <3>1, Zenon DEF Handed, Taken
    <3>3. Runs' = Runs \cup {g} /\ Flights' = G
      BY <1>7, <1>8, <3>2, Zenon DEF Runs
    <3>4. PagesOwned'
      BY <1>14, <1>15, <1>16, <1>21, <3>3, NextPagesOwned, Zenon
    <3>5. Blocks' = (Blocks \cup {}) \ {<<e.page, e.bit>>} /\ <<e.page, e.bit>> \in Blocks
      <4>1. \A k \in held : k.kind = "block" /\ k # o => <<k.page, k.n>> # <<o.page, o.n>>
        BY <3>2, BlockIdentity, Zenon
      <4> QED BY <1>8, <3>2, <4>1, Zenon DEF Blocks
    <3>6. Used' = Used \cup {} /\ FreedOnce'
      <4>1. Moves(t, x, e) /\ pc[t] # "free"
        BY <1>2, <1>6, Zenon DEF Handed
      <4>2. PICK N : N = {}
        BY Zenon
      <4>3. N \cap Used = {} /\ Blocks' = (Blocks \cup N) \ {<<e.page, e.bit>>}
        BY <3>5, <4>2, Zenon
      <4>4. Used' = Used \cup N /\ FreedOnce'
        BY <2>2, <3>5, <4>1, <4>3, UsedStep, Zenon
      <4> QED BY <4>2, <4>4, Zenon
    <3>7. Closing' = Closing
      BY <1>7, <1>9, <1>16 DEF Closing, Closers
    <3>8. Counted(Arenas, arena', Lists, Used, Closing)
      <4>1. Counted(Arenas, arena, Lists, Used, Closing) /\ Closing \subseteq Arenas
        BY Shapes, Zenon DEF BlockInv, BlocksCounted
      <4> QED BY <1>14, <4>1, SameCounted, Zenon
    <3>9. BlocksCounted'
      BY <1>14, <1>15, <3>6, <3>7, <3>8, NextBlocksCounted, Zenon
    <3>10. ListsDistinct'
      BY Zenon DEF ListsDistinct, Distinct, BlockInv, GotPages
    <3> QED BY <3>4, <3>6, <3>9, <3>10, Zenon DEF BlockInv
  <2> QED BY <2>1, <2>2, Zenon
<1> QED BY <1>17, <1>18, <1>19, <1>20, <1>22, NextCallsOK, Zenon DEF PageInv

LEMMA ConcatElements ==
  ASSUME NEW B, NEW s \in Seq(B), NEW u \in Seq(B)
  PROVE  /\ s \o u \in Seq(B)
         /\ Elements(s \o u) = Elements(s) \cup Elements(u)
         /\ Distinct(s) /\ Distinct(u) /\ Elements(s) \cap Elements(u) = {} => Distinct(s \o u)
<1> DEFINE m == Len(s)
           n == Len(u)
           w == s \o u
<1>1. /\ w \in Seq(B) /\ Len(w) = m + n
      /\ \A i \in 1 .. m + n : w[i] = IF i <= m THEN s[i] ELSE u[i - m]
  BY SeqJoin, Zenon
<1>2. m \in Nat /\ n \in Nat /\ DOMAIN s = 1 .. m /\ DOMAIN u = 1 .. n /\ DOMAIN w = 1 .. m + n
  BY <1>1, SeqLen, Zenon
<1> HIDE DEF m, n, w
<1>3. \A i \in 1 .. m : i \in 1 .. m + n /\ w[i] = s[i]
  BY <1>1, <1>2
<1>4. \A i \in 1 .. n : m + i \in 1 .. m + n /\ w[m + i] = u[i]
  <2> SUFFICES ASSUME NEW i \in 1 .. n PROVE m + i \in 1 .. m + n /\ w[m + i] = u[i]
    BY Zenon
  <2>1. PICK j : j = m + i
    BY Zenon
  <2>2. j \in 1 .. m + n /\ ~(j <= m) /\ j - m = i
    BY <1>2, <2>1
  <2> QED BY <1>1, <2>1, <2>2, Zenon
<1>5. \A i \in 1 .. m + n : i \in 1 .. m \/ i - m \in 1 .. n
  BY <1>2
<1>6. \A i \in 1 .. m + n : (i \in 1 .. m /\ w[i] = s[i]) \/ (i > m /\ i - m \in 1 .. n /\ w[i] = u[i - m])
  BY <1>1, <1>2
<1>7. Elements(w) = Elements(s) \cup Elements(u)
  <2>1. \A i \in 1 .. m + n : w[i] \in Elements(s) \cup Elements(u)
    BY <1>2, <1>6, Zenon DEF Elements
  <2>2. \A i \in 1 .. m : s[i] \in Elements(w)
    BY <1>2, <1>3, Zenon DEF Elements
  <2>3. \A i \in 1 .. n : u[i] \in Elements(w)
    BY <1>2, <1>4, Zenon DEF Elements
  <2> QED BY <1>2, <2>1, <2>2, <2>3, Zenon DEF Elements
<1>8. ASSUME Distinct(s), Distinct(u), Elements(s) \cap Elements(u) = {} PROVE Distinct(w)
  <2> SUFFICES ASSUME NEW i \in 1 .. m + n, NEW j \in 1 .. m + n, w[i] = w[j] PROVE i = j
    BY <1>2, Zenon DEF Distinct
  <2>1. \A k \in 1 .. m : s[k] \in Elements(s)
    BY <1>2, Zenon DEF Elements
  <2>2. \A k \in 1 .. n : u[k] \in Elements(u)
    BY <1>2, Zenon DEF Elements
  <2>3. CASE i \in 1 .. m /\ w[i] = s[i] /\ j \in 1 .. m /\ w[j] = s[j]
    BY <1>2, <1>8, <2>3, Zenon DEF Distinct
  <2>4. CASE i - m \in 1 .. n /\ w[i] = u[i - m] /\ j - m \in 1 .. n /\ w[j] = u[j - m]
    <3>1. i - m = j - m
      BY <1>2, <1>8, <2>4, Zenon DEF Distinct
    <3> QED BY <1>2, <3>1
  <2> QED BY <1>6, <1>8, <2>1, <2>2, <2>3, <2>4, Zenon
<1> QED BY <1>1, <1>7, <1>8, Zenon DEF w

LEMMA HeadTailElements ==
  ASSUME NEW B, NEW s \in Seq(B), s # <<>>
  PROVE  /\ Head(s) \in B /\ Head(s) \in Elements(s) /\ Tail(s) \in Seq(B)
         /\ Distinct(s) => Distinct(Tail(s)) /\ Elements(Tail(s)) = Elements(s) \ {Head(s)}
<1>1. /\ Head(s) \in B /\ Head(s) = s[1] /\ Tail(s) \in Seq(B) /\ Len(Tail(s)) = Len(s) - 1
      /\ \A i \in 1 .. Len(Tail(s)) : Tail(s)[i] = s[i + 1]
  BY SeqPop, Zenon
<1> DEFINE n == Len(s)
           v == Tail(s)
<1>2. n \in Nat \ {0} /\ DOMAIN s = 1 .. n
  BY SeqLen, Zenon
<1>3. DOMAIN v = 1 .. n - 1 /\ \A i \in 1 .. n - 1 : v[i] = s[i + 1]
  BY <1>1, SeqLen, Zenon
<1>4. Head(s) \in Elements(s)
  BY <1>1, <1>2 DEF Elements
<1>5. \A i \in 1 .. n - 1 : i + 1 \in 1 .. n /\ i + 1 # 1
  BY <1>2
<1> HIDE DEF n, v
<1>6. ASSUME Distinct(s) PROVE Distinct(v) /\ Elements(v) = Elements(s) \ {Head(s)}
  <2>1. Distinct(v)
    <3> SUFFICES ASSUME NEW i \in 1 .. n - 1, NEW j \in 1 .. n - 1, v[i] = v[j] PROVE i = j
      BY <1>3, Zenon DEF Distinct
    <3>1. i + 1 = j + 1
      BY <1>2, <1>3, <1>5, <1>6, Zenon DEF Distinct
    <3> QED BY <1>2, <3>1
  <2>2. \A i \in 1 .. n - 1 : v[i] \in Elements(s) /\ v[i] # Head(s)
    <3> SUFFICES ASSUME NEW i \in 1 .. n - 1 PROVE v[i] \in Elements(s) /\ v[i] # s[1]
      BY <1>1, Zenon
    <3>1. PICK j \in 1 .. n : j = i + 1 /\ j # 1
      BY <1>5, Zenon
    <3>2. v[i] = s[j] /\ 1 \in 1 .. n
      BY <1>2, <1>3, <3>1
    <3> QED BY <1>2, <1>6, <3>1, <3>2, Zenon DEF Elements, Distinct
  <2>3. \A i \in 1 .. n : s[i] # Head(s) => s[i] \in Elements(v)
    <3> SUFFICES ASSUME NEW i \in 1 .. n, s[i] # s[1] PROVE s[i] \in Elements(v)
      BY <1>1, Zenon
    <3>1. PICK j : j = i - 1
      BY Zenon
    <3>2. j \in 1 .. n - 1 /\ j + 1 = i
      BY <1>2, <3>1
    <3> QED BY <1>3, <3>2, Zenon DEF Elements
  <2> QED BY <1>2, <1>3, <2>1, <2>2, <2>3, Zenon DEF Elements
<1> QED BY <1>1, <1>4, <1>6, Zenon DEF v

LEMMA GotArenaStep ==
  ASSUME Ranking, MemoryInv, NEW t \in Thread, GotArena(t)
  PROVE  MemoryInv'
<1> USE DEF MemoryInv
<1>1. PICK c : c = call[t]
  BY Zenon
<1>2. c \in CallRecord /\ CallOK(t) /\ pc[t] = "got" /\ c.page # NULL /\ c.kind = "block"
  BY <1>1, Zenon DEF CallTypes, CallsOK, GotArena
<1>3. KindOK(c) /\ DescHeld(t) /\ InPool(c) /\ c.cnt = 1
  BY <1>1, <1>2, Zenon DEF CallOK, Getting, KindOK
<1>4. PICK d \in Desc : d = c.desc /\ desc_lock[d] = t
  BY <1>1, <1>2, <1>3, Zenon DEF KindOK, DescHeld
<1>5. PICK q : q = c.page
  BY Zenon
<1>6. q \in Page
  BY <1>3, <1>5, MemoryAssumption DEF InPool, Page
<1>7. PICK n \in Nat \ {0} : n = blocks_per_arena[d]
  BY MemoryAssumption, Zenon
<1>8. Moves(t, "pop", c)
  BY <1>1, Zenon DEF GotArena, Moves, Goto, CallTypes
<1>9. /\ pc'[t] = "pop" /\ call'[t] = c
      /\ \A u \in Thread : u # t => pc'[u] = pc[u] /\ call'[u] = call[u]
      /\ Flights' = [Flights EXCEPT ![t] = {}]
  BY <1>8, MovesSets, FlightIs
<1>10. Flights[t] = {q} /\ t \notin Closers /\ t \notin Freers
  <2>1. Run(c.page, c.cnt) = {q}
    BY <1>3, <1>5, SMTT(30) DEF Run, InPool
  <2> QED BY <1>1, <1>2, <2>1, FlightIs, Zenon DEF Flights, Closers, Freers
<1>11. Closers' = Closers /\ Freers' = Freers
  BY <1>8, <1>10, MovesSets
<1>12. q \notin Arenas /\ \A h \in Runs : h.page # q
  BY <1>10, FlightPages, Zenon DEF PageInv, PagesOwned, Owned
<1>13. arena' = [arena EXCEPT ![q] = [desc |-> d, free_cnt |-> n]]
  BY <1>1, <1>4, <1>5, <1>7, Zenon DEF GotArena
<1>14. /\ arena' \in [Page -> Arena \cup {NULL}]
       /\ arena'[q] = [desc |-> d, free_cnt |-> n]
       /\ \A p \in Page : p # q => arena'[p] = arena[p]
  <2>1. [desc |-> d, free_cnt |-> n] \in Arena
    BY <1>7 DEF Arena
  <2> QED BY <1>6, <1>13, <2>1, Zenon DEF TypeOK
<1>15. Arenas' = Arenas \cup {q} /\ \A p \in Arenas : arena'[p] = arena[p]
  <2>1. arena'[q] # NULL /\ arena'[q].desc # NULL
    <3>1. [desc |-> d, free_cnt |-> n] \in Arena
      BY <1>7 DEF Arena
    <3>2. arena'[q].desc = d
      BY <1>14
    <3> QED BY <1>14, <3>1, <3>2, MemoryAssumption, Zenon
  <2>2. \A p \in Page : p # q => (p \in Arenas' <=> p \in Arenas)
    BY <1>14, Zenon DEF Arenas
  <2>3. q \in Arenas'
    BY <1>6, <2>1, Zenon DEF Arenas
  <2>4. Arenas \subseteq Page /\ Arenas' \subseteq Page
    BY Zenon DEF Arenas
  <2>5. Arenas' = Arenas \cup {q}
    BY <1>6, <2>2, <2>3, <2>4, Zenon
  <2>6. \A p \in Arenas : arena'[p] = arena[p]
    BY <1>12, <1>14, <2>4, Zenon
  <2> QED BY <2>5, <2>6, Zenon
<1>16. PICK new : new = [i \in 1 .. n |-> <<q, i - 1>>]
  BY Zenon
<1>17. free_list' = [free_list EXCEPT ![d] = free_list[d] \o new]
  BY <1>1, <1>4, <1>5, <1>7, <1>16, Zenon DEF GotArena
<1>18. new \in Seq(Block(d)) /\ new \in Seq(Page \X Nat) /\ DOMAIN new = 1 .. n /\ Distinct(new)
  <2>1. \A i \in 1 .. n : i - 1 \in Nat /\ i - 1 \in 0 .. n - 1
    BY <1>7
  <2>2. \A i \in 1 .. n : new[i] = <<q, i - 1>> /\ new[i] \in Block(d) /\ new[i] \in Page \X Nat
    BY <1>6, <1>7, <1>16, <2>1, Zenon DEF Block
  <2>3. \A i, j \in 1 .. n : i - 1 = j - 1 => i = j
    BY <1>7
  <2>4. Distinct(new)
    BY <1>16, <2>2, <2>3, Zenon DEF Distinct
  <2>5. new \in Seq(Block(d)) /\ new \in Seq(Page \X Nat)
    <3>1. new \in [1 .. n -> Block(d)] /\ new \in [1 .. n -> Page \X Nat]
      BY <1>16, <2>2, Zenon
    <3>2. PICK B, C : B = Block(d) /\ C = Page \X Nat
      BY Zenon
    <3>3. new \in Seq(B) /\ new \in Seq(C)
      BY <1>7, <3>1, <3>2, SeqMade, Zenon
    <3> QED BY <3>2, <3>3, Zenon
  <2> QED BY <1>16, <2>4, <2>5, Zenon
<1>19. Elements(new) = {<<q, i>> : i \in 0 .. n - 1}
  <2>1. \A i \in 1 .. n : i - 1 \in 0 .. n - 1 /\ new[i] = <<q, i - 1>>
    BY <1>7, <1>16
  <2>2. ASSUME NEW i \in 0 .. n - 1 PROVE \E j \in 1 .. n : new[j] = <<q, i>>
    <3>1. PICK j : j = i + 1
      BY Zenon
    <3>2. j \in 1 .. n /\ j - 1 = i
      BY <1>7, <3>1
    <3> QED BY <2>1, <3>2, Zenon
  <2> QED BY <1>18, <2>1, <2>2, Zenon DEF Elements
<1>20. free_list[d] \in Seq(Block(d)) /\ free_list[d] \in Seq(Page \X Nat)
  BY Zenon DEF TypeOK
<1>21. Elements(free_list[d]) \cap Elements(new) = {}
  <2>1. \A b \in Lists[d] : b[1] \in Arenas
    BY Zenon DEF BlockInv, BlocksCounted, Counted
  <2>2. \A b \in Elements(new) : b[1] = q
    BY <1>19
  <2> QED BY <1>12, <2>1, <2>2, Zenon DEF Lists
<1>22. PICK w : w = free_list[d] \o new
  BY Zenon
<1>23. /\ w \in Seq(Block(d)) /\ w \in Seq(Page \X Nat) /\ Distinct(w)
       /\ Elements(w) = Elements(free_list[d]) \cup {<<q, i>> : i \in 0 .. n - 1}
  <2>1. w \in Seq(Block(d))
    BY <1>18, <1>20, <1>22, ConcatElements, Zenon
  <2>2. Distinct(free_list[d])
    BY Zenon DEF BlockInv, ListsDistinct
  <2> QED BY <1>18, <1>19, <1>20, <1>21, <1>22, <2>1, <2>2, ConcatElements
<1>24. w # <<>>
  <2>1. 0 \in 0 .. n - 1
    BY <1>7
  <2>2. <<q, 0>> \in Elements(w)
    BY <1>23, <2>1, Zenon
  <2> QED BY <2>2 DEF Elements
<1>25. free_list'[d] = w /\ \A e \in Desc : e # d => free_list'[e] = free_list[e]
  BY <1>17, <1>22, Zenon DEF TypeOK
<1>26. TypeOK'
  <2>1. free_list' \in [Desc -> Seq(Page \X Nat)]
    BY <1>17, <1>22, <1>23, Zenon DEF TypeOK
  <2>2. \A e \in Desc : free_list'[e] \in Seq(Block(e))
    BY <1>23, <1>25, Zenon DEF TypeOK
  <2> QED BY <1>8, <1>14, <2>1, <2>2, Zenon DEF TypeOK, GotArena, Moves
<1>27. CallTypes' /\ OldOK'
  BY <1>1, <1>2, <1>8, QuietCalls, Zenon DEF GotArena
<1>28. \A u \in Thread : u # t => CallOK(u)'
  BY <1>4, <1>9, <1>15, <1>25, CallFrame, Zenon DEF GotArena, CallsOK
<1>29. CallOK(t)'
  <2>1. DescHeld(t)'
    BY <1>4, <1>9, Zenon DEF DescHeld, GotArena
  <2> QED BY <1>2, <1>3, <1>4, <1>9, <1>24, <1>25, <2>1, Zenon DEF CallOK, Getting, Freeing
<1>30. PagesOwned'
  <2>1. Owned(Marked, Runs, Arenas \cup {q}, Flights', Closers)
    BY <1>9, <1>10, Shapes, ArenaOwned, Zenon DEF PageInv, PagesOwned
  <2>2. Marked' = Marked /\ Runs' = Runs
    BY Zenon DEF GotArena, Marked, Runs
  <2> QED BY <1>11, <1>15, <2>1, <2>2, NextPagesOwned, Zenon
<1>31. RunsOK'
  <2>1. \A h \in Runs : h.page \in Page /\ arena'[h.page] = arena[h.page]
    BY <1>12, <1>14 DEF Runs, TypeOK, Allocation
  <2>2. Runs' = Runs
    BY Zenon DEF GotArena, Runs
  <2> QED BY <2>1, <2>2, Zenon DEF RunsOK, PageInv
<1>32. BlockInv'
  <2>1. \A u \in Freers : Freed(u)' = Freed(u)
    BY <1>9, <1>10, Zenon DEF Freed, Freers
  <2>2. Blocks' = Blocks
    BY Zenon DEF GotArena, Blocks
  <2>3. Used' = Used /\ FreedOnce'
    BY <1>11, <2>1, <2>2 DEF Used, FreedOnce, BlockInv
  <2>4. Closing' = Closing
    BY <1>9, <1>10, <1>11 DEF Closing, Closers
  <2>5. ListsDistinct'
    <3>1. \A e \in Desc : Distinct(free_list'[e])
      BY <1>23, <1>25, Zenon DEF ListsDistinct, BlockInv
    <3> QED BY <3>1, Zenon DEF ListsDistinct, Distinct
  <2>6. Lists' = [Lists EXCEPT ![d] = Lists[d] \cup {<<q, i>> : i \in 0 .. n - 1}]
    <3>1. Lists' = [e \in Desc |-> Elements(free_list'[e])]
      BY Zenon DEF Lists, Elements
    <3> QED BY <1>23, <1>25, <3>1, Zenon DEF Lists
  <2>7. Counted(Arenas \cup {q}, arena', Lists', Used, Closing)
    <3>1. Counted(Arenas, arena, Lists, Used, Closing)
      BY Zenon DEF BlockInv, BlocksCounted
    <3> QED BY <1>7, <1>12, <1>14, <1>15, <2>6, <3>1, Shapes, ArenaCounted, Zenon
  <2>8. BlocksCounted'
    BY <1>15, <2>3, <2>4, <2>7, NextBlocksCounted, Zenon
  <2> QED BY <2>3, <2>5, <2>8, Zenon DEF BlockInv
<1> QED BY <1>26, <1>27, <1>28, <1>29, <1>30, <1>31, <1>32, NextCallsOK, Zenon DEF PageInv

LEMMA PopStep ==
  ASSUME Ranking, MemoryInv, NEW t \in Thread, Pop(t)
  PROVE  MemoryInv'
<1> USE DEF MemoryInv
<1>1. PICK c : c = call[t]
  BY Zenon
<1>2. c \in CallRecord /\ CallOK(t) /\ pc[t] = "pop"
  BY <1>1, Zenon DEF CallTypes, CallsOK, Pop
<1>3. KindOK(c) /\ DescHeld(t) /\ c.kind = "block" /\ free_list[c.desc] # <<>>
  BY <1>1, <1>2, Zenon DEF CallOK
<1>4. PICK d \in Desc : d = c.desc /\ desc_lock[d] = t /\ free_list[d] # <<>>
  BY <1>1, <1>3, Zenon DEF KindOK, DescHeld
<1>5. PICK list : list = free_list[d]
  BY Zenon
<1>6. list \in Seq(Block(d)) /\ list \in Seq(Page \X Nat) /\ list # <<>> /\ Distinct(list)
  BY <1>4, <1>5, Zenon DEF TypeOK, BlockInv, ListsDistinct
<1>7. /\ Head(list) \in Block(d) /\ Head(list) \in Elements(list)
      /\ Tail(list) \in Seq(Block(d)) /\ Tail(list) \in Seq(Page \X Nat)
      /\ Distinct(Tail(list)) /\ Elements(Tail(list)) = Elements(list) \ {Head(list)}
  <2>1. Tail(list) \in Seq(Page \X Nat)
    BY <1>6, HeadTailElements, Zenon
  <2> QED BY <1>6, <2>1, HeadTailElements, Zenon
<1>8. PICK q \in Page, k \in 0 .. blocks_per_arena[d] - 1 : Head(list) = <<q, k>>
  BY <1>7 DEF Block
<1>9. PICK g : g = [kind |-> "block", page |-> q, n |-> k]
  BY Zenon
<1>10. /\ free_list' = [free_list EXCEPT ![d] = Tail(list)]
       /\ arena' = [arena EXCEPT ![q].free_cnt = @ - 1]
       /\ desc_lock' = [desc_lock EXCEPT ![d] = NULL]
       /\ Hand(t, g)
       /\ UNCHANGED <<used_map, pool_lock>>
  <2>1. Head(free_list[d]) = <<q, k>> /\ <<q, k>>[1] = q /\ <<q, k>>[2] = k
    BY <1>5, <1>8, Zenon
  <2>2. /\ free_list' = [free_list EXCEPT ![d] = Tail(@)]
        /\ arena' = [arena EXCEPT ![<<q, k>>[1]].free_cnt = @ - 1]
        /\ desc_lock' = [desc_lock EXCEPT ![d] = NULL]
        /\ Hand(t, [kind |-> "block", page |-> <<q, k>>[1], n |-> <<q, k>>[2]])
        /\ UNCHANGED <<used_map, pool_lock>>
    BY <1>1, <1>4, <2>1, Zenon DEF Pop
  <2> QED BY <1>5, <1>9, <2>1, <2>2, Zenon
<1>11. PICK x, e : Handed(t, g, x, e)
  BY <1>10, HandIs, Zenon
<1>12. /\ pc'[t] = x /\ call'[t] = e
       /\ \A u \in Thread : u # t => pc'[u] = pc[u] /\ call'[u] = call[u]
       /\ Flights' = [Flights EXCEPT ![t] = Flight(x, e)]
  BY <1>11, MovesSets DEF Handed
<1>13. Flights[t] = {} /\ t \notin Closers /\ t \notin Freers
  BY <1>2, FlightIs, Zenon DEF Flights, Closers, Freers
<1>14. Closers' = Closers
  <2>1. ~(x = "scrub" /\ e.kind = "block") /\ Moves(t, x, e)
    BY <1>11, Zenon DEF Handed, Taken
  <2>2. Closers' = (Closers \ {t}) \cup {u \in {t} : x = "scrub" /\ e.kind = "block"}
    BY <2>1, MovesSets
  <2> QED BY <1>13, <2>1, <2>2, Zenon
<1>15. <<q, k>> \in Lists[d] /\ Lists[d] = Elements(list)
  BY <1>5, <1>7, <1>8, Zenon DEF Lists
<1>16. q \in Arenas /\ q \notin Closing /\ arena[q].desc = d /\ <<q, k>> \notin Used
  <2>1. q \in Arenas /\ q \notin Closing /\ arena[q].desc = d
    BY <1>15, Zenon DEF BlockInv, BlocksCounted, Counted
  <2>2. (<<q, k>> \in Lists[d]) # (<<q, k>> \in Used)
    BY <1>8, <2>1, Zenon DEF BlockInv, BlocksCounted, Counted
  <2> QED BY <1>15, <2>1, <2>2, Zenon
<1>17. PICK a \in Arena : a = arena[q]
  BY <1>16, Zenon DEF Arenas, TypeOK
<1>18. PICK a2 \in Arena : a2 = [a EXCEPT !.free_cnt = @ - 1] /\ a2.desc = d /\ a2.free_cnt = a.free_cnt - 1
  <2>1. a.desc = d /\ a.free_cnt \in Int /\ a = [desc |-> a.desc, free_cnt |-> a.free_cnt]
    BY <1>16, <1>17, Zenon DEF Arena
  <2>2. PICK m \in Int : m = a.free_cnt - 1
    BY <2>1
  <2>3. PICK a2 : a2 = [desc |-> d, free_cnt |-> m]
    BY Zenon
  <2>4. a2 = [a EXCEPT !.free_cnt = @ - 1] /\ a2.desc = d /\ a2.free_cnt = a.free_cnt - 1
    BY <2>1, <2>2, <2>3
  <2>5. a2 \in Arena
    BY <2>3, Zenon DEF Arena
  <2> QED BY <2>4, <2>5, Zenon
<1>19. arena' = [arena EXCEPT ![q] = a2]
  BY <1>10, <1>17, <1>18, Zenon DEF TypeOK
<1>20. /\ arena' \in [Page -> Arena \cup {NULL}]
       /\ arena'[q] = a2 /\ \A p \in Page : p # q => arena'[p] = arena[p]
  BY <1>19, Zenon DEF TypeOK
<1>21. Arenas' = Arenas /\ \A p \in Arenas : p \in Arenas' /\ arena'[p].desc = arena[p].desc
  <2>1. a2 # NULL /\ a2.desc # NULL
    BY <1>18, MemoryAssumption, Zenon
  <2>2. \A p \in Page : p \in Arenas' <=> p \in Arenas
    BY <1>16, <1>20, <2>1, Zenon DEF Arenas
  <2>3. Arenas \subseteq Page /\ Arenas' \subseteq Page
    BY Zenon DEF Arenas
  <2>4. Arenas' = Arenas
    BY <2>2, <2>3, Zenon
  <2>5. \A p \in Arenas : arena'[p].desc = arena[p].desc
    BY <1>16, <1>18, <1>20, <2>3, Zenon
  <2> QED BY <2>4, <2>5, Zenon
<1>22. CallTypes' /\ OldOK' /\ CallOK(t)'
  BY <1>11, <1>21, HandedCall, Zenon
<1>23. g \in Allocation /\ g.kind = "block" /\ g.page = q /\ g.n = k /\ g \notin held
  <2>1. <<q, k>> \in UNION {Block(f) : f \in Desc}
    BY <1>7, <1>8, Zenon
  <2>2. g = [kind |-> "block", page |-> <<q, k>>[1], n |-> <<q, k>>[2]]
    BY <1>9, Zenon
  <2>3. g \in Allocation
    BY <2>1, <2>2, Zenon DEF Allocation
  <2>4. g.kind = "block" /\ g.page = q /\ g.n = k
    BY <1>9, Zenon
  <2>5. g \notin held
    BY <1>16, <2>4, Zenon DEF Used, Blocks
  <2> QED BY <2>3, <2>4, <2>5, Zenon
<1>24. TypeOK'
  <2>1. held' \subseteq Allocation
    BY <1>11, <1>23, Zenon DEF Handed, TypeOK
  <2>2. free_list' \in [Desc -> Seq(Page \X Nat)]
    BY <1>7, <1>10, Zenon DEF TypeOK
  <2>3. \A f \in Desc : free_list'[f] \in Seq(Block(f))
    BY <1>7, <1>10, Zenon DEF TypeOK
  <2>4. desc_lock' \in [Desc -> Thread \cup {NULL}]
    BY <1>10, Zenon DEF TypeOK
  <2> QED BY <1>10, <1>11, <1>20, <2>1, <2>2, <2>3, <2>4, Zenon DEF TypeOK, Handed, Moves
<1>25. \A u \in Thread : u # t => CallOK(u)'
  <2>1. \A u \in Thread : u # t => \A f \in Desc : desc_lock[f] = u =>
          desc_lock'[f] = u /\ free_list'[f] = free_list[f]
    BY <1>4, <1>10, Zenon DEF TypeOK
  <2> QED BY <1>10, <1>12, <1>21, <2>1, CallFrame, Zenon DEF CallsOK
<1>26. \A h \in Runs : h.page \in Page /\ arena'[h.page] = arena[h.page]
  <2>1. ASSUME NEW h \in Runs PROVE h.page # q /\ h.page \in Page
    <3>1. h \in [kind : {"pages", "big"}, page : Page, n : 1 .. MaxRun]
      BY DEF Runs, TypeOK, Allocation
    <3>2. h.page \in Held(h)
      BY <3>1, MemoryAssumption DEF Held, Run, Page
    <3> QED BY <1>16, <3>1, <3>2, Zenon DEF PageInv, PagesOwned, Owned
  <2> QED BY <1>20, <2>1, Zenon
<1>27. RunsOK'
  <2>1. \A h \in Runs' : h \in Runs
    BY <1>11, <1>23, Zenon DEF Runs, Handed
  <2> QED BY <1>26, <2>1, Zenon DEF RunsOK, PageInv
<1>28. PagesOwned'
  <2>1. Marked' = Marked
    BY <1>10, Zenon DEF Marked
  <2>2. CASE x = "scrub"
    <3>1. PICK o : o = call[t].old
      BY Zenon
    <3>2. o \in held /\ o.kind # "block" /\ held' = (held \cup {g}) \ {o} /\ Flight(x, e) = Held(o)
      BY <1>11, <2>2, <3>1, Zenon DEF Handed, Taken
    <3>3. o \in Runs /\ Runs' = Runs \ {o}
      BY <1>23, <3>2, Zenon DEF Runs
    <3>4. Owned(Marked, Runs \ {o}, Arenas, Flights', Closers)
      BY <1>12, <1>13, <3>2, <3>3, Shapes, TakeOwned, Zenon DEF PageInv, PagesOwned
    <3> QED BY <1>14, <1>21, <2>1, <3>3, <3>4, NextPagesOwned, Zenon
  <2>3. CASE x # "scrub"
    <3>1. Flight(x, e) = {}
      BY <1>11, <2>3, FlightIs, Zenon DEF Handed
    <3>2. Flights' = Flights
      BY <1>12, <1>13, <3>1, Zenon DEF Flights
    <3>3. Runs' = Runs
      BY <1>11, <1>23, <2>3, Zenon DEF Runs, Handed, Taken
    <3> QED BY <1>14, <1>21, <2>1, <3>2, <3>3, NextPagesOwned, Zenon DEF PageInv, PagesOwned
  <2> QED BY <2>2, <2>3, Zenon
<1>29. Used' = Used \cup {<<q, k>>} /\ FreedOnce'
  <2>1. Moves(t, x, e) /\ pc[t] # "free" /\ {<<q, k>>} \cap Used = {}
    BY <1>2, <1>11, <1>16, Zenon DEF Handed
  <2>2. x # "free" => Blocks' = Blocks \cup {<<q, k>>}
    <3>1. ASSUME x # "free" PROVE \A h : (h \in held' /\ h.kind = "block") <=> ((h \in held /\ h.kind = "block") \/ h = g)
      BY <1>11, <1>23, <3>1, Zenon DEF Handed, Taken
    <3> QED BY <1>23, <3>1, Zenon DEF Blocks
  <2>3. x = "free" => /\ <<e.page, e.bit>> \in Blocks
                      /\ Blocks' = (Blocks \cup {<<q, k>>}) \ {<<e.page, e.bit>>}
    <3> SUFFICES ASSUME x = "free"
                 PROVE  /\ <<e.page, e.bit>> \in Blocks
                        /\ Blocks' = (Blocks \cup {<<q, k>>}) \ {<<e.page, e.bit>>}
      BY Zenon
    <3>1. PICK o : o = call[t].old
      BY Zenon
    <3>2. /\ o \in held /\ o.kind = "block" /\ held' = (held \cup {g}) \ {o}
          /\ <<e.page, e.bit>> = <<o.page, o.n>>
      BY <1>11, <3>1, Zenon DEF Handed, Taken
    <3>3. \A h \in held : h.kind = "block" /\ h # o => <<h.page, h.n>> # <<o.page, o.n>>
      BY <3>2, BlockIdentity, Zenon
    <3>4. <<o.page, o.n>> \in Blocks /\ <<o.page, o.n>> # <<q, k>>
      BY <1>16, <3>2, Zenon DEF Blocks, Used
    <3>5. Blocks' = (Blocks \cup {<<q, k>>}) \ {<<o.page, o.n>>}
      BY <1>23, <3>2, <3>3, <3>4, Zenon DEF Blocks
    <3> QED BY <3>2, <3>4, <3>5, Zenon
  <2> QED BY <2>1, <2>2, <2>3, UsedStep, Zenon
<1>30. BlockInv'
  <2>1. Closing' = Closing
    BY <1>12, <1>13, <1>14 DEF Closing, Closers
  <2>2. ListsDistinct'
    <3>1. \A f \in Desc : Distinct(free_list'[f])
      BY <1>7, <1>10, Zenon DEF ListsDistinct, BlockInv, TypeOK
    <3> QED BY <3>1, Zenon DEF ListsDistinct, Distinct
  <2>3. Lists' = [Lists EXCEPT ![d] = Lists[d] \ {<<q, k>>}]
    <3>1. Lists' = [f \in Desc |-> Elements(free_list'[f])]
      BY Zenon DEF Lists, Elements
    <3>2. free_list'[d] = Tail(list) /\ \A f \in Desc : f # d => free_list'[f] = free_list[f]
      BY <1>10, Zenon DEF TypeOK
    <3> QED BY <1>5, <1>7, <1>8, <3>1, <3>2, Zenon DEF Lists
  <2>4. Counted(Arenas, arena', Lists', Used \cup {<<q, k>>}, Closing)
    <3>1. Counted(Arenas, arena, Lists, Used, Closing)
      BY Zenon DEF BlockInv, BlocksCounted
    <3>2. arena'[q].desc = d /\ arena'[q].free_cnt = arena[q].free_cnt - 1
      BY <1>17, <1>18, <1>20, Zenon
    <3>3. \A p \in Arenas : p # q => arena'[p] = arena[p]
      BY <1>20, Shapes, Zenon
    <3>4. DOMAIN Lists = Desc
      BY Zenon DEF Lists
    <3> QED BY <1>8, <1>15, <2>3, <3>1, <3>2, <3>3, <3>4, Shapes, PopCounted, Zenon
  <2>5. BlocksCounted'
    BY <1>21, <1>29, <2>1, <2>4, NextBlocksCounted, Zenon
  <2> QED BY <1>29, <2>2, <2>5, Zenon DEF BlockInv
<1> QED BY <1>22, <1>24, <1>25, <1>27, <1>28, <1>30, NextCallsOK, Zenon DEF PageInv

-----------------------------------------------------------------------------
(* free. *)

LEMMA FreeBlockStep ==
  ASSUME Ranking, MemoryInv, NEW t \in Thread, FreeBlock(t)
  PROVE  MemoryInv'
<1> USE DEF MemoryInv
<1>1. PICK c : c = call[t]
  BY Zenon
<1>2. c \in CallRecord /\ CallOK(t) /\ pc[t] = "free" /\ c.old = NULL
  BY <1>1, Zenon DEF CallTypes, CallsOK, FreeBlock, OldOK, Getting
<1>3. KindOK(c) /\ c.kind = "block" /\ c.page \in Arenas /\ arena[c.page].desc = c.desc
  BY <1>1, <1>2, Zenon DEF CallOK
<1>4. PICK d \in Desc : d = c.desc /\ desc_lock[d] = NULL
  BY <1>1, <1>3, Zenon DEF KindOK, FreeBlock
<1>5. PICK q \in Page : q = c.page /\ q \in Arenas /\ arena[q].desc = d
  BY <1>3, <1>4, Shapes, Zenon
<1>6. PICK k \in Nat : k = c.bit
  BY <1>2, Zenon DEF CallRecord
<1>7. Freed(t) = <<q, k>> /\ t \in Freers /\ <<q, k>> \in Used
  BY <1>1, <1>2, <1>5, <1>6, Zenon DEF Freed, Freers, Used
<1>8. q \notin Closing /\ k \in 0 .. blocks_per_arena[d] - 1 /\ <<q, k>> \notin Lists[d]
  <2>1. Counted(Arenas, arena, Lists, Used, Closing)
    BY Zenon DEF BlockInv, BlocksCounted
  <2>2. q \notin Closing /\ k \in 0 .. blocks_per_arena[d] - 1
    BY <1>5, <1>7, <2>1, Zenon DEF Counted
  <2>3. (<<q, k>> \in Lists[d]) # (<<q, k>> \in Used)
    BY <1>5, <2>1, <2>2, Zenon DEF Counted
  <2> QED BY <1>7, <2>2, <2>3
<1>9. PICK list : list = free_list[d]
  BY Zenon
<1>10. /\ list \in Seq(Block(d)) /\ list \in Seq(Page \X Nat) /\ Distinct(list)
       /\ Elements(list) = Lists[d]
  BY <1>9, Zenon DEF TypeOK, BlockInv, ListsDistinct, Lists
<1>11. PICK longer : longer = <<<<q, k>>>> \o list
  BY Zenon
<1>12. /\ longer \in Seq(Block(d)) /\ longer \in Seq(Page \X Nat) /\ Distinct(longer)
       /\ Elements(longer) = Lists[d] \cup {<<q, k>>}
  <2>1. PICK s : s = <<<<q, k>>>>
    BY Zenon
  <2>2. <<q, k>> \in Block(d) /\ <<q, k>> \in Page \X Nat
    BY <1>8, Zenon DEF Block
  <2>3. s \in Seq(Block(d)) /\ s \in Seq(Page \X Nat) /\ DOMAIN s = {1} /\ s[1] = <<q, k>>
    <3>1. PICK b, B, C : b = <<q, k>> /\ B = Block(d) /\ C = Page \X Nat
      BY Zenon
    <3>2. s = <<b>> /\ b \in B /\ b \in C
      BY <2>1, <2>2, <3>1, Zenon
    <3>3. s \in Seq(B) /\ s \in Seq(C) /\ DOMAIN s = {1} /\ s[1] = b
      BY <3>2
    <3> QED BY <3>1, <3>3, Zenon
  <2>4. Elements(s) = {<<q, k>>} /\ Distinct(s)
    BY <2>3, Zenon DEF Elements, Distinct
  <2>5. Elements(s) \cap Elements(list) = {}
    BY <1>8, <1>10, <2>4, Zenon
  <2>6. longer \in Seq(Block(d))
    BY <1>10, <1>11, <2>1, <2>3, ConcatElements, Zenon
  <2>7. longer \in Seq(Page \X Nat) /\ Distinct(longer) /\ Elements(longer) = Elements(s) \cup Elements(list)
    <3>1. PICK B : B = Page \X Nat
      BY Zenon
    <3>2. s \in Seq(B) /\ list \in Seq(B) /\ longer = s \o list
      BY <1>10, <1>11, <2>1, <2>3, <3>1, Zenon
    <3>3. longer \in Seq(B) /\ Distinct(longer) /\ Elements(longer) = Elements(s) \cup Elements(list)
      <4>1. /\ s \o list \in Seq(B) /\ Elements(s \o list) = Elements(s) \cup Elements(list)
            /\ Distinct(s) /\ Distinct(list) /\ Elements(s) \cap Elements(list) = {} => Distinct(s \o list)
        BY <3>2, ConcatElements, Zenon
      <4> QED BY <1>10, <2>4, <2>5, <3>2, <4>1, Zenon
    <3> QED BY <3>1, <3>3, Zenon
  <2> QED BY <1>10, <2>4, <2>6, <2>7, Zenon
<1>13. PICK a \in Arena : a = arena[q]
  BY <1>5, Zenon DEF Arenas, TypeOK
<1>14. PICK a2 \in Arena : a2 = [a EXCEPT !.free_cnt = @ + 1] /\ a2.desc = d /\ a2.free_cnt = a.free_cnt + 1
  <2>1. a.desc = d /\ a.free_cnt \in Int /\ a = [desc |-> a.desc, free_cnt |-> a.free_cnt]
    BY <1>5, <1>13, Zenon DEF Arena
  <2>2. PICK m \in Int : m = a.free_cnt + 1
    BY <2>1
  <2>3. PICK a2 : a2 = [desc |-> d, free_cnt |-> m]
    BY Zenon
  <2>4. a2 = [a EXCEPT !.free_cnt = @ + 1] /\ a2.desc = d /\ a2.free_cnt = a.free_cnt + 1
    BY <2>1, <2>2, <2>3
  <2>5. a2 \in Arena
    BY <2>3, Zenon DEF Arena
  <2> QED BY <2>4, <2>5, Zenon
<1>15. PICK unused \in BOOLEAN : unused <=> arena[q].free_cnt + 1 >= blocks_per_arena[d]
  BY Zenon
<1>16. /\ arena' = [arena EXCEPT ![q].free_cnt = @ + 1]
       /\ free_list' = [free_list EXCEPT ![d] = IF unused THEN without(longer, q) ELSE longer]
       /\ unused => /\ desc_lock' = [desc_lock EXCEPT ![d] = t]
                    /\ call' = [call EXCEPT ![t].bit = 0]
                    /\ Goto(t, "scrub")
       /\ ~unused => Return(t) /\ UNCHANGED desc_lock
       /\ UNCHANGED <<used_map, pool_lock, held>>
  BY <1>1, <1>4, <1>5, <1>6, <1>9, <1>11, <1>15, Zenon DEF FreeBlock
<1>17. /\ arena' \in [Page -> Arena \cup {NULL}]
       /\ arena'[q] = a2 /\ \A p \in Page : p # q => arena'[p] = arena[p]
  <2>1. arena' = [arena EXCEPT ![q] = a2]
    BY <1>13, <1>14, <1>16, Zenon DEF TypeOK
  <2> QED BY <2>1, Zenon DEF TypeOK
<1>18. Arenas' = Arenas /\ \A p \in Arenas : p \in Arenas' /\ arena'[p].desc = arena[p].desc
  <2>1. a2 # NULL /\ a2.desc # NULL
    BY <1>14, MemoryAssumption, Zenon
  <2>2. \A p \in Page : p \in Arenas' <=> p \in Arenas
    BY <1>5, <1>17, <2>1, Zenon DEF Arenas
  <2>3. Arenas \subseteq Page /\ Arenas' \subseteq Page
    BY Zenon DEF Arenas
  <2>4. Arenas' = Arenas
    BY <2>2, <2>3, Zenon
  <2>5. \A p \in Arenas : arena'[p].desc = arena[p].desc
    BY <1>5, <1>14, <1>17, <2>3, Zenon
  <2> QED BY <2>4, <2>5, Zenon
<1>19. PICK list2 : list2 = IF unused THEN without(longer, q) ELSE longer
  BY Zenon
<1>20. /\ list2 \in Seq(Block(d)) /\ list2 \in Seq(Page \X Nat) /\ Distinct(list2)
       /\ unused => Elements(list2) = {b \in Lists[d] : b[1] # q}
       /\ ~unused => Elements(list2) = Lists[d] \cup {<<q, k>>}
  <2>1. CASE unused
    <3>1. list2 \in Seq(Block(d))
      BY <1>12, <1>19, <2>1, WithoutElements, Zenon
    <3>2. /\ list2 \in Seq(Page \X Nat) /\ Distinct(list2)
          /\ Elements(list2) = {b \in Elements(longer) : b[1] # q}
      BY <1>12, <1>19, <2>1, WithoutElements
    <3>3. {b \in Lists[d] \cup {<<q, k>>} : b[1] # q} = {b \in Lists[d] : b[1] # q}
      <4>1. <<q, k>>[1] = q
        BY Zenon
      <4> QED BY <4>1, Zenon
    <3> QED BY <1>12, <2>1, <3>1, <3>2, <3>3, Zenon
  <2>2. CASE ~unused
    BY <1>12, <1>19, <2>2, Zenon
  <2> QED BY <2>1, <2>2, Zenon
<1>21. free_list' = [free_list EXCEPT ![d] = list2]
       /\ free_list'[d] = list2 /\ \A f \in Desc : f # d => free_list'[f] = free_list[f]
  BY <1>16, <1>19, Zenon DEF TypeOK
<1> DEFINE Goal(x, e) ==
             /\ x \in {"scrub", "run"} /\ e \in CallRecord /\ e.old = NULL /\ Moves(t, x, e)
             /\ unused => x = "scrub" /\ e.kind = "block" /\ e.page = q /\ Flight(x, e) = {q}
             /\ ~unused => x = "run" /\ Flight(x, e) = {}
             /\ desc_lock' \in [Desc -> Thread \cup {NULL}]
             /\ \A f \in Desc : desc_lock[f] # NULL => desc_lock'[f] = desc_lock[f]
             /\ CallOK(t)'
<1>22. PICK x, e : Goal(x, e)
  <2>1. CASE unused
    <3>1. PICK e : e = [c EXCEPT !.bit = 0]
      BY Zenon
    <3>2. /\ e \in CallRecord /\ e.kind = "block" /\ e.desc = d /\ e.page = q /\ e.cnt = 1
          /\ e.bit = 0 /\ e.old = NULL
      BY <1>2, <1>3, <1>4, <1>5, <3>1, Zenon DEF CallRecord, KindOK
    <3>3. Moves(t, "scrub", e)
      BY <1>1, <1>16, <2>1, <3>1, Zenon DEF Moves, Goto, CallTypes
    <3>4. pc'[t] = "scrub" /\ call'[t] = e
      BY <3>3, MovesSets
    <3>5. Flight("scrub", e) = {q}
      <4>1. Run(e.page, e.cnt) = {q}
        BY <3>2, MemoryAssumption DEF Run, Page
      <4> QED BY <4>1, FlightIs, Zenon
    <3>6. desc_lock' = [desc_lock EXCEPT ![d] = t]
      BY <1>16, <2>1, Zenon
    <3>7. /\ desc_lock' \in [Desc -> Thread \cup {NULL}] /\ desc_lock'[d] = t
          /\ \A f \in Desc : desc_lock[f] # NULL => desc_lock'[f] = desc_lock[f]
      BY <1>4, <3>6, Zenon DEF TypeOK
    <3>8. InPool(e) /\ KindOK(e) /\ DescHeld(t)'
      BY <3>2, <3>4, <3>7, MemoryAssumption DEF InPool, KindOK, DescHeld, Page
    <3>9. e.page \in Arenas' /\ arena'[e.page].desc = e.desc
      BY <1>5, <1>18, <3>2, Zenon
    <3>10. CallOK(t)'
      BY <3>2, <3>4, <3>8, <3>9, Zenon DEF CallOK, Getting
    <3>11. Goal("scrub", e)
      BY <2>1, <3>2, <3>3, <3>5, <3>7, <3>10, Zenon
    <3> QED BY <3>11, Zenon
  <2>2. CASE ~unused
    <3>1. Moves(t, "run", NoCall) /\ desc_lock' = desc_lock
      BY <1>16, <2>2, Zenon DEF Return, Goto, Moves
    <3>2. pc'[t] = "run" /\ call'[t] = NoCall
      BY <3>1, MovesSets
    <3>3. Flight("run", NoCall) = {} /\ NoCall.old = NULL
      BY FlightIs, Zenon DEF NoCall
    <3>4. Goal("run", NoCall)
      BY <2>2, <3>1, <3>2, <3>3, Returned, Zenon DEF TypeOK
    <3> QED BY <3>4, Zenon
  <2> QED BY <2>1, <2>2, Zenon
<1>23. /\ pc'[t] = x /\ call'[t] = e
       /\ \A u \in Thread : u # t => pc'[u] = pc[u] /\ call'[u] = call[u]
       /\ Flights' = [Flights EXCEPT ![t] = Flight(x, e)]
       /\ Closers' = (Closers \ {t}) \cup {u \in {t} : x = "scrub" /\ e.kind = "block"}
       /\ Freers' = (Freers \ {t}) \cup {u \in {t} : x = "free"}
  BY <1>22, MovesSets, Zenon
<1>24. Flights[t] = {} /\ t \notin Closers
  BY <1>2, FlightIs, Zenon DEF Flights, Closers
<1>25. /\ Freers' = Freers \ {t}
       /\ unused => Closers' = Closers \cup {t}
       /\ ~unused => Closers' = Closers
  BY <1>22, <1>23, <1>24, Zenon
<1>26. CallTypes' /\ OldOK'
  BY <1>16, <1>22, QuietCalls, Zenon
<1>27. TypeOK'
  <2>1. free_list' \in [Desc -> Seq(Page \X Nat)] /\ \A f \in Desc : free_list'[f] \in Seq(Block(f))
    BY <1>20, <1>21, Zenon DEF TypeOK
  <2> QED BY <1>16, <1>17, <1>22, <2>1, Zenon DEF TypeOK, Moves
<1>28. \A u \in Thread : u # t => CallOK(u)'
  <2>1. \A u \in Thread : \A f \in Desc : desc_lock[f] = u =>
          desc_lock'[f] = u /\ free_list'[f] = free_list[f]
    BY <1>4, <1>21, <1>22, MemoryAssumption
  <2> QED BY <1>16, <1>18, <1>23, <2>1, CallFrame, Zenon DEF CallsOK
<1>29. Runs' = Runs /\ Blocks' = Blocks /\ Marked' = Marked
  BY <1>16, Zenon DEF Runs, Blocks, Marked
<1>30. RunsOK'
  <2>1. ASSUME NEW h \in Runs PROVE h.page # q /\ h.page \in Page
    <3>1. h \in [kind : {"pages", "big"}, page : Page, n : 1 .. MaxRun]
      BY DEF Runs, TypeOK, Allocation
    <3>2. h.page \in Held(h)
      BY <3>1, MemoryAssumption DEF Held, Run, Page
    <3> QED BY <1>5, <3>1, <3>2, Zenon DEF PageInv, PagesOwned, Owned
  <2>2. \A h \in Runs : arena'[h.page] = arena[h.page]
    BY <1>17, <2>1, Zenon
  <2> QED BY <1>29, <2>2, Zenon DEF RunsOK, PageInv
<1>31. PagesOwned'
  <2>1. CASE unused
    <3>1. \A u \in Closers : q \notin Flights[u]
      BY <1>8, CloserPage
    <3>2. Owned(Marked, Runs, Arenas, Flights', Closers \cup {t})
      BY <1>5, <1>22, <1>23, <1>24, <2>1, <3>1, Shapes, CloseOwned, Zenon DEF PageInv, PagesOwned
    <3> QED BY <1>18, <1>25, <1>29, <2>1, <3>2, NextPagesOwned, Zenon
  <2>2. CASE ~unused
    <3>1. Flights' = Flights
      BY <1>22, <1>23, <1>24, <2>2, Zenon DEF Flights
    <3> QED BY <1>18, <1>25, <1>29, <2>2, <3>1, NextPagesOwned, Zenon DEF PageInv, PagesOwned
  <2> QED BY <2>1, <2>2, Zenon
<1>32. Used' = Used \ {<<q, k>>} /\ FreedOnce'
  <2>1. \A u \in Freers \ {t} : Freed(u)' = Freed(u) /\ Freed(u) # <<q, k>>
    BY <1>7, <1>23, Zenon DEF Freed, Freers, FreedOnce, BlockInv
  <2>2. <<q, k>> \notin Blocks
    BY <1>7, Zenon DEF FreedOnce, BlockInv
  <2>3. Used' = Used \ {<<q, k>>}
    BY <1>7, <1>25, <1>29, <2>1, <2>2, Zenon DEF Used
  <2>4. FreedOnce'
    BY <1>25, <1>29, <2>1, Zenon DEF FreedOnce, BlockInv
  <2> QED BY <2>3, <2>4, Zenon
<1>33. ListsDistinct'
  <2>1. \A f \in Desc : Distinct(free_list'[f])
    BY <1>20, <1>21, Zenon DEF ListsDistinct, BlockInv
  <2> QED BY <2>1, Zenon DEF ListsDistinct, Distinct
<1>34. Lists' = [Lists EXCEPT ![d] = Elements(list2)] /\ DOMAIN Lists = Desc
  <2>1. Lists' = [f \in Desc |-> Elements(free_list'[f])]
    BY Zenon DEF Lists, Elements
  <2>2. \A f \in Desc : f # d => Elements(free_list'[f]) = Elements(free_list[f])
    BY <1>21, Zenon
  <2>3. Elements(free_list'[d]) = Elements(list2)
    BY <1>21, Zenon
  <2> QED BY <2>1, <2>2, <2>3, Zenon DEF Lists
<1>35. BlocksCounted'
  <2>1. Counted(Arenas, arena, Lists, Used, Closing)
    BY Zenon DEF BlockInv, BlocksCounted
  <2>2. arena'[q].desc = d /\ arena'[q].free_cnt = arena[q].free_cnt + 1
    BY <1>13, <1>14, <1>17, Zenon
  <2>3. \A p \in Arenas : p # q => arena'[p] = arena[p]
    BY <1>17, Shapes, Zenon
  <2>4. \A u \in Closers : call'[u] = call[u]
    BY <1>23, <1>24, Zenon DEF Closers
  <2>5. CASE unused
    <3>1. Closing' = Closing \cup {q}
      <4>1. Closers' = Closers \cup {t} /\ call'[t].page = q
        BY <1>22, <1>23, <1>25, <2>5, Zenon
      <4> QED BY <2>4, <4>1, Zenon DEF Closing
    <3>2. Lists' = [Lists EXCEPT ![d] = {b \in Lists[d] : b[1] # q}]
      BY <1>20, <1>34, <2>5, Zenon
    <3>3. arena[q].free_cnt + 1 >= blocks_per_arena[d]
      BY <1>15, <2>5, Zenon
    <3>4. Lists[d] \subseteq Page \X Nat
      BY Shapes, Zenon
    <3>5. Counted(Arenas, arena', Lists', Used \ {<<q, k>>}, Closing \cup {q})
      <4>1. Headers(Arenas, arena) /\ Closing \subseteq Arenas /\ Used \subseteq Page \X Nat
        BY Shapes, Zenon
      <4>2. PICK ar2, L2 : ar2 = arena' /\ L2 = Lists'
        BY Zenon
      <4>3. /\ \A p \in Arenas : p # q => ar2[p] = arena[p]
            /\ ar2[q].desc = d /\ ar2[q].free_cnt = arena[q].free_cnt + 1
            /\ L2 = [Lists EXCEPT ![d] = {b \in Lists[d] : b[1] # q}]
        BY <2>2, <2>3, <3>2, <4>2, Zenon
      <4>4. q \in Arenas /\ arena[q].desc = d /\ <<q, k>> \in Used /\ DOMAIN Lists = Desc
        BY <1>5, <1>7, <1>34, Zenon
      <4>5. Counted(Arenas, ar2, L2, Used \ {<<q, k>>}, Closing \cup {q})
        BY <2>1, <3>3, <3>4, <4>1, <4>3, <4>4, CloseCounted, Zenon
      <4> QED BY <4>2, <4>5, Zenon
    <3> QED BY <1>18, <1>32, <3>1, <3>5, NextBlocksCounted, Zenon
  <2>6. CASE ~unused
    <3>1. Closing' = Closing
      BY <1>25, <2>4, <2>6, Zenon DEF Closing
    <3>2. Lists' = [Lists EXCEPT ![d] = Lists[d] \cup {<<q, k>>}]
      BY <1>20, <1>34, <2>6, Zenon
    <3>3. Counted(Arenas, arena', Lists', Used \ {<<q, k>>}, Closing)
      <4>1. Headers(Arenas, arena) /\ Closing \subseteq Arenas
        BY Shapes, Zenon
      <4>2. PICK ar2, L2 : ar2 = arena' /\ L2 = Lists'
        BY Zenon
      <4>3. /\ \A p \in Arenas : p # q => ar2[p] = arena[p]
            /\ ar2[q].desc = d /\ ar2[q].free_cnt = arena[q].free_cnt + 1
            /\ L2 = [Lists EXCEPT ![d] = Lists[d] \cup {<<q, k>>}]
        BY <2>2, <2>3, <3>2, <4>2, Zenon
      <4>4. q \in Arenas /\ arena[q].desc = d /\ <<q, k>> \in Used /\ DOMAIN Lists = Desc
        BY <1>5, <1>7, <1>34, Zenon
      <4>5. Counted(Arenas, ar2, L2, Used \ {<<q, k>>}, Closing)
        BY <2>1, <4>1, <4>3, <4>4, FreeCounted, Zenon
      <4> QED BY <4>2, <4>5, Zenon
    <3> QED BY <1>18, <1>32, <3>1, <3>3, NextBlocksCounted, Zenon
  <2> QED BY <2>5, <2>6, Zenon
<1> QED BY <1>22, <1>26, <1>27, <1>28, <1>30, <1>31, <1>32, <1>33, <1>35, NextCallsOK, Zenon DEF PageInv, BlockInv

-----------------------------------------------------------------------------
(* The initial states, and every step. *)

LEMMA InitInv ==
  ASSUME Ranking, Init
  PROVE  MemoryInv
<1> USE DEF Init
<1>1. TypeOK
  <2>1. \A d \in Desc : <<>> \in Seq(Block(d)) /\ <<>> \in Seq(Page \X Nat)
    OBVIOUS
  <2>2. free_list \in [Desc -> Seq(Page \X Nat)] /\ \A d \in Desc : free_list[d] \in Seq(Block(d))
    BY <2>1, Zenon
  <2>3. /\ used_map \in [Page -> BOOLEAN] /\ desc_lock \in [Desc -> Thread \cup {NULL}]
        /\ arena \in [Page -> Arena \cup {NULL}] /\ held \subseteq Allocation
        /\ pc \in [Thread -> {"run", "desc", "pool", "scan", "flip", "unlock", "got", "pop",
                              "free", "scrub", "clear"}]
    BY Zenon
  <2> QED BY <2>2, <2>3, Zenon DEF TypeOK
<1>2. \A t \in Thread : pc[t] = "run" /\ call[t] = NoCall /\ call[t].old = NULL
  BY Zenon DEF NoCall
<1>3. CallTypes
  BY Returned, Zenon DEF CallTypes
<1>4. CallsOK
  <2>1. KindOK(NoCall)
    BY Zenon DEF KindOK, NoCall
  <2> SUFFICES ASSUME NEW t \in Thread PROVE CallOK(t)
    BY Zenon DEF CallsOK
  <2> QED BY <1>2, <2>1, Zenon DEF CallOK, Getting, Freeing
<1>5. OldOK
  BY <1>2, Zenon DEF OldOK
<1>6. /\ Marked = {} /\ Runs = {} /\ Arenas = {} /\ Blocks = {}
      /\ \A t \in Thread : Flights[t] = {}
  <2>1. Marked = {} /\ Arenas = {}
    BY Zenon DEF Marked, Arenas
  <2>2. Runs = {} /\ Blocks = {}
    BY Zenon DEF Runs, Blocks
  <2>3. \A t \in Thread : Flights[t] = {}
    BY <1>2, FlightIs, Zenon DEF Flights
  <2> QED BY <2>1, <2>2, <2>3, Zenon
<1>7. Freers = {} /\ Closers = {}
  BY <1>2, Zenon DEF Freers, Closers
<1>8. Used = {} /\ Closing = {}
  BY <1>6, <1>7, Zenon DEF Used, Closing
<1>9. PagesOwned /\ RunsOK
  BY <1>6, Zenon DEF PagesOwned, Owned, RunsOK
<1>10. \A d \in Desc : free_list[d] = <<>> /\ Lists[d] = {}
  BY DEF Lists, Elements
<1>11. ListsDistinct /\ BlocksCounted /\ FreedOnce
  <2>1. ListsDistinct
    BY <1>10 DEF ListsDistinct, Distinct
  <2>2. FreedOnce
    BY <1>7, Zenon DEF FreedOnce
  <2>3. BlocksCounted
    BY <1>6, <1>8, <1>10, Zenon DEF BlocksCounted, Counted
  <2> QED BY <2>1, <2>2, <2>3, Zenon
<1> QED BY <1>1, <1>3, <1>4, <1>5, <1>9, <1>11, Zenon DEF MemoryInv, PageInv, BlockInv

LEMMA StutterStep ==
  ASSUME MemoryInv, UNCHANGED vars
  PROVE  MemoryInv'
<1>1. /\ used_map' = used_map /\ pool_lock' = pool_lock /\ desc_lock' = desc_lock
      /\ free_list' = free_list /\ arena' = arena /\ held' = held /\ pc' = pc /\ call' = call
  BY Zenon DEF vars
<1>2. TypeOK' /\ CallTypes' /\ OldOK'
  BY <1>1, Zenon DEF MemoryInv, TypeOK, CallTypes, OldOK
<1>3. /\ Arenas' = Arenas /\ Marked' = Marked /\ Runs' = Runs /\ Blocks' = Blocks
      /\ Closers' = Closers /\ Freers' = Freers /\ \A t \in Thread : Freed(t)' = Freed(t)
  BY <1>1, Zenon DEF Arenas, Marked, Runs, Blocks, Closers, Freers, Freed
<1>4. /\ Lists' = Lists /\ Closing' = Closing /\ Flights' = Flights
  BY <1>1, <1>3, Zenon DEF Lists, Elements, Closing, Flights, Flight
<1>5. Used' = Used
  BY <1>3, Zenon DEF Used, Freers
<1>6. CallsOK'
  <2> SUFFICES ASSUME NEW t \in Thread PROVE CallOK(t)'
    BY Zenon DEF CallsOK
  <2>1. CallOK(t)
    BY Zenon DEF MemoryInv, CallsOK
  <2> QED BY <1>1, <1>3, <2>1, Zenon DEF CallOK, DescHeld
<1>7. PageInv'
  BY <1>1, <1>3, <1>4, NextPagesOwned, Zenon DEF MemoryInv, PageInv, PagesOwned, RunsOK
<1>8. BlockInv'
  <2>1. BlocksCounted'
    BY <1>1, <1>3, <1>4, <1>5, NextBlocksCounted, Zenon DEF MemoryInv, BlockInv, BlocksCounted
  <2>2. ListsDistinct' /\ FreedOnce'
    BY <1>1, <1>3, Zenon DEF MemoryInv, BlockInv, ListsDistinct, Distinct, FreedOnce, Freers
  <2> QED BY <2>1, <2>2, Zenon DEF BlockInv
<1> QED BY <1>2, <1>6, <1>7, <1>8, Zenon DEF MemoryInv

LEMMA StepInv ==
  ASSUME Ranking, MemoryInv, [Next]_vars
  PROVE  MemoryInv'
<1>1. ASSUME NEW t \in Thread, Request(t) PROVE MemoryInv'
  <2>1. ASSUME NEW n \in 1 .. MaxRun, Get(t, "pages", n, NULL) PROVE MemoryInv'
    BY <2>1, GetStep, Zenon
  <2>2. ASSUME NEW n \in 1 .. MaxRun, NEW old \in {NULL} \cup {h \in Freeable : h.kind # "pages"},
               Get(t, "big", n, old)
        PROVE MemoryInv'
    BY <2>2, GetStep, Zenon
  <2>3. ASSUME NEW d \in Desc, NEW old \in {NULL} \cup {h \in Freeable : h.kind # "pages"},
               Malloc(t, d, old)
        PROVE MemoryInv'
    BY <2>3, MallocStep, Zenon
  <2>4. ASSUME NEW h \in Freeable, Free(t, h) PROVE MemoryInv'
    BY <2>4, FreeStep, Zenon
  <2> QED BY <1>1, <2>1, <2>2, <2>3, <2>4, Zenon DEF Request
<1>2. ASSUME NEW t \in Thread, Step(t) PROVE MemoryInv'
  <2>1. CASE PoolLocked(t) \/ Scan(t) \/ Flip(t) \/ PoolUnlock(t)
    BY <2>1, PoolLockedStep, ScanStep, FlipStep, PoolUnlockStep, Zenon
  <2>2. CASE Scrub(t) \/ Clear(t)
    BY <2>2, ScrubStep, ClearStep, Zenon
  <2>3. CASE DescLocked(t) \/ GotNothing(t) \/ GotPages(t)
    BY <2>3, DescLockedStep, GotNothingStep, GotPagesStep, Zenon
  <2>4. CASE GotArena(t) \/ Pop(t) \/ FreeBlock(t)
    BY <2>4, GotArenaStep, PopStep, FreeBlockStep, Zenon
  <2> QED BY <1>2, <2>1, <2>2, <2>3, <2>4, Zenon DEF Step
<1>3. ASSUME NEW h \in Freeable, SchedulerFrees(h) PROVE MemoryInv'
  BY <1>3, SchedulerFreesStep, Zenon
<1>4. CASE UNCHANGED vars
  BY <1>4, StutterStep, Zenon
<1> QED BY <1>1, <1>2, <1>3, <1>4, Zenon DEF Next

-----------------------------------------------------------------------------
(* What the invariant says of the pages and of the blocks. *)

LEMMA InFlightIs ==
  ASSUME MemoryInv, NEW t \in Thread
  PROVE  InFlight(t) = Flights[t] /\ Flights[t] \subseteq Page
<1>1. PICK c, x : c = call[t] /\ x = pc[t]
  BY Zenon
<1>2. /\ c \in CallRecord /\ CallOK(t) /\ PageCnt \in Nat
      /\ x \in {"run", "desc", "pool", "scan", "flip", "unlock", "got", "pop", "free", "scrub", "clear"}
  BY <1>1, MemoryAssumption, Zenon DEF MemoryInv, CallTypes, CallsOK, TypeOK
<1>3. Flights[t] = Flight(x, c)
  BY <1>1, Zenon DEF Flights
<1>4. InFlight(t) = Flight(x, c)
  BY <1>1, <1>2, Zenon DEF InFlight, Flight
<1>5. c.cnt \in Nat /\ c.bit \in Nat
  BY <1>2, Zenon DEF CallRecord
<1>6. x \in {"flip", "unlock", "scrub", "clear"} \/ (x = "got" /\ c.page # NULL) => InPool(c)
  BY <1>1, <1>2, Zenon DEF CallOK, Freeing
<1>7. InPool(c) => /\ Run(c.page, c.bit) \subseteq Page /\ Run(c.page, c.cnt) \subseteq Page
                   /\ Run(c.page + c.bit, c.cnt - c.bit) \subseteq Page
  BY <1>2, <1>5 DEF InPool, Run, Page
<1>8. Flight(x, c) \subseteq Page
  BY <1>2, <1>6, <1>7, FlightIs
<1> QED BY <1>3, <1>4, <1>8, Zenon

LEMMA HeldIs ==
  ASSUME MemoryInv, NEW h \in held
  PROVE  /\ h.kind = "block" => /\ Held(h) = {h.page} /\ h.page \in Arenas
                                /\ <<h.page, h.n>> \in Used
         /\ h.kind # "block" => h \in Runs /\ Held(h) \subseteq Page
<1>1. CASE h.kind = "block"
  <2>1. <<h.page, h.n>> \in Used
    BY <1>1, Zenon DEF Used, Blocks
  <2>2. h.page \in Arenas
    <3>0. PICK b : b = <<h.page, h.n>>
      BY Zenon
    <3>1. b = <<h.page, h.n>> /\ b[1] = h.page
      BY <3>0, Zenon
    <3>2. b \in Used
      BY <2>1, <3>1, Zenon
    <3>3. b[1] \in Arenas
      BY <3>2, Zenon DEF MemoryInv, BlockInv, BlocksCounted, Counted
    <3> QED BY <3>1, <3>3, Zenon
  <2>3. Held(h) = {h.page}
    BY <1>1, Zenon DEF Held
  <2> QED BY <1>1, <2>1, <2>2, <2>3, Zenon
<1>2. CASE h.kind # "block"
  <2>1. h \in Runs
    BY <1>2, Zenon DEF Runs
  <2>2. h.page \in Nat /\ h.n \in Nat /\ h.page + h.n <= PageCnt /\ PageCnt \in Nat
    <3>1. h \in [kind : {"pages", "big"}, page : Page, n : 1 .. MaxRun]
      BY <1>2 DEF MemoryInv, TypeOK, Allocation
    <3>2. h.page \in Page /\ h.n \in 1 .. MaxRun
      BY <3>1, Zenon
    <3>3. h.page + h.n <= PageCnt
      BY <2>1, Zenon DEF MemoryInv, PageInv, RunsOK
    <3> QED BY <3>2, <3>3, MemoryAssumption, SMTT(30) DEF Page
  <2>3. Held(h) \subseteq Page
    BY <1>2, <2>2 DEF Held, Run, Page
  <2> QED BY <1>2, <2>1, <2>3, Zenon
<1> QED BY <1>1, <1>2, Zenon

LEMMA InvUsedExactly ==
  ASSUME MemoryInv
  PROVE  UsedExactly
<1>1. Owned(Marked, Runs, Arenas, Flights, Closers)
  BY Zenon DEF MemoryInv, PageInv, PagesOwned
<1>2. \A p \in Page :
        p \in Marked <=> (\E h \in Runs : p \in Held(h)) \/ p \in Arenas \/ (\E t \in Thread : p \in Flights[t])
  BY <1>1, Zenon DEF Owned
<1>3. \A t \in Thread : InFlight(t) = Flights[t] /\ Flights[t] \subseteq Page
  BY InFlightIs, Zenon
<1>4. \A h \in held : \A p \in Held(h) :
        p \in Page /\ (p \in Arenas \/ h \in Runs)
  <2>1. Arenas \subseteq Page
    BY Zenon DEF Arenas
  <2> SUFFICES ASSUME NEW h \in held, NEW p \in Held(h) PROVE p \in Page /\ (p \in Arenas \/ h \in Runs)
    BY Zenon
  <2>2. CASE h.kind = "block"
    <3>1. Held(h) = {h.page} /\ h.page \in Arenas
      BY <2>2, HeldIs, Zenon
    <3> QED BY <2>1, <3>1, Zenon
  <2>3. CASE h.kind # "block"
    BY <2>3, HeldIs, Zenon
  <2> QED BY <2>2, <2>3, Zenon
<1>5. Runs \subseteq held
  BY Zenon DEF Runs
<1> DEFINE H == UNION {Held(h) : h \in held}
           F == UNION {InFlight(t) : t \in Thread}
<1>6. \A p : (p \in H <=> \E h \in held : p \in Held(h)) /\ (p \in F <=> \E t \in Thread : p \in Flights[t])
  BY <1>3, Zenon
<1> HIDE DEF H, F
<1>7. ASSUME NEW p PROVE p \in Marked <=> p \in (H \cup Arenas) \cup F
  <2>1. p \in H => p \in Page /\ (p \in Arenas \/ \E h \in Runs : p \in Held(h))
    BY <1>4, <1>6, Zenon
  <2>2. p \in Arenas \/ p \in F => p \in Page
    BY <1>3, <1>6, Zenon DEF Arenas
  <2>3. (\E h \in Runs : p \in Held(h)) => p \in H
    BY <1>5, <1>6, Zenon
  <2>4. p \in Marked => p \in Page
    BY Zenon DEF Marked
  <2>5. CASE p \in Page
    BY <1>2, <1>6, <2>1, <2>3, <2>5, Zenon
  <2> QED BY <2>1, <2>2, <2>4, <2>5, Zenon
<1>8. Marked = (H \cup Arenas) \cup F
  BY <1>7, Zenon
<1>9. {p \in Page : used_map[p]} = (H \cup Arenas) \cup F
  BY <1>8, Zenon DEF Marked
<1> QED BY <1>9, Zenon DEF UsedExactly, H, F

LEMMA InvPagesExclusive ==
  ASSUME MemoryInv
  PROVE  PagesExclusive
<1>1. Owned(Marked, Runs, Arenas, Flights, Closers)
  BY Zenon DEF MemoryInv, PageInv, PagesOwned
<1>2. \A t \in Thread : InFlight(t) = Flights[t]
  BY InFlightIs, Zenon
<1>3. \A h, k \in Runs : h # k => Held(h) \cap Held(k) = {}
  BY <1>1, Zenon DEF Owned
<1>4. ASSUME NEW h \in Runs PROVE Held(h) \cap (Arenas \cup UNION {InFlight(t) : t \in Thread}) = {}
  <2>1. Held(h) \cap Arenas = {} /\ \A t \in Thread : Held(h) \cap InFlight(t) = {}
    BY <1>1, <1>2, Zenon DEF Owned
  <2> SUFFICES ASSUME NEW p \in Held(h), p \in Arenas \/ p \in UNION {InFlight(t) : t \in Thread}
               PROVE FALSE
    BY Zenon
  <2>2. CASE p \in UNION {InFlight(t) : t \in Thread}
    <3>1. PICK t \in Thread : p \in InFlight(t)
      BY <2>2, Zenon
    <3> QED BY <2>1, <3>1, Zenon
  <2> QED BY <2>1, <2>2, Zenon
<1>5. \A t, u \in Thread : t # u => InFlight(t) \cap InFlight(u) = {}
  BY <1>1, <1>2, Zenon DEF Owned
<1> QED BY <1>3, <1>4, <1>5, Zenon DEF PagesExclusive, Runs

\* The blocks of p in use are the ones that callers hold or are freeing, and
\* those of an arena that are not free.
LEMMA InUseIs ==
  ASSUME MemoryInv, NEW p
  PROVE  \A i : i \in InUse(p) <=> <<p, i>> \in Used
<1>1. ASSUME NEW i, i \in InUse(p) PROVE <<p, i>> \in Used
  <2>1. CASE i \in {h.n : h \in {x \in held : x.kind = "block" /\ x.page = p}}
    <3>1. PICK h \in held : h.kind = "block" /\ h.page = p /\ i = h.n
      BY <2>1, Zenon
    <3> QED BY <3>1, Zenon DEF Used, Blocks
  <2>2. CASE i \in {call[t].bit : t \in {u \in Thread : pc[u] = "free" /\ call[u].page = p}}
    <3>1. PICK t \in Thread : pc[t] = "free" /\ call[t].page = p /\ i = call[t].bit
      BY <2>2, Zenon
    <3>2. t \in Freers /\ Freed(t) = <<p, i>>
      BY <3>1, Zenon DEF Freers, Freed
    <3> QED BY <3>2, Zenon DEF Used
  <2> QED BY <1>1, <2>1, <2>2, Zenon DEF InUse
<1>2. ASSUME NEW i, <<p, i>> \in Used PROVE i \in InUse(p)
  <2>1. CASE <<p, i>> \in Blocks
    <3>1. PICK h \in held : h.kind = "block" /\ <<p, i>> = <<h.page, h.n>>
      BY <2>1, Zenon DEF Blocks
    <3>2. h.page = p /\ h.n = i
      BY <3>1, Zenon
    <3> QED BY <3>1, <3>2, Zenon DEF InUse
  <2>2. CASE <<p, i>> \in {Freed(t) : t \in Freers}
    <3>1. PICK t \in Freers : <<p, i>> = <<call[t].page, call[t].bit>>
      BY <2>2, Zenon DEF Freed
    <3>2. t \in Thread /\ pc[t] = "free" /\ call[t].page = p /\ call[t].bit = i
      BY <3>1, Zenon DEF Freers
    <3> QED BY <3>2, Zenon DEF InUse
  <2> QED BY <1>2, <2>1, <2>2, Zenon DEF Used
<1> QED BY <1>1, <1>2, Zenon

\* The positions of an arena's blocks on the free list are as many as the blocks.
LEMMA ListedCount ==
  ASSUME Ranking, MemoryInv, NEW p \in Arenas, NEW d \in Desc, arena[p].desc = d,
         NEW listed, listed = {i \in DOMAIN free_list[d] : free_list[d][i][1] = p}
  PROVE  Cardinality(listed) = Cardinality(FreeOf(Lists, p, d))
<1>1. PICK list, T : list = free_list[d] /\ T = FreeOf(Lists, p, d)
  BY Zenon
<1>2. list \in Seq(Block(d)) /\ Distinct(list) /\ Lists[d] = Elements(list)
  BY <1>1, Zenon DEF MemoryInv, TypeOK, BlockInv, ListsDistinct, Lists
<1>3. \A i \in DOMAIN list : list[i] \in Page \X (0 .. blocks_per_arena[d] - 1)
  BY <1>2, SeqLen DEF Block
<1>4. \A i \in listed : i \in DOMAIN list /\ list[i] = <<p, list[i][2]>>
                        /\ list[i][2] \in 0 .. blocks_per_arena[d] - 1
  BY <1>1, <1>3
<1>5. \A k : k \in T <=> k \in 0 .. blocks_per_arena[d] - 1 /\ \E i \in DOMAIN list : list[i] = <<p, k>>
  BY <1>1, <1>2, Zenon DEF FreeOf, Elements
<1> DEFINE f == [i \in listed |-> list[i][2]]
<1>6. f \in [listed -> T]
  BY <1>4, <1>5, Zenon
<1>7. \A i \in listed : f[i] = list[i][2]
  BY Zenon
<1>8. \A k \in T : \E i \in listed : f[i] = k
  <2> SUFFICES ASSUME NEW k \in T PROVE \E i \in listed : f[i] = k
    BY Zenon
  <2>1. PICK i \in DOMAIN list : list[i] = <<p, k>>
    BY <1>5, Zenon
  <2>2. list[i][1] = p /\ list[i][2] = k
    BY <2>1
  <2>3. i \in listed
    BY <1>1, <2>2, Zenon
  <2> QED BY <1>7, <2>2, <2>3, Zenon
<1> HIDE DEF f
<1>9. \A i, j \in listed : f[i] = f[j] => i = j
  <2> SUFFICES ASSUME NEW i \in listed, NEW j \in listed, f[i] = f[j] PROVE i = j
    BY Zenon
  <2>1. list[i] = list[j] /\ i \in DOMAIN list /\ j \in DOMAIN list
    <3>1. list[i][2] = list[j][2]
      BY <1>7, Zenon
    <3> QED BY <1>4, <3>1, Zenon
  <2> QED BY <1>2, <2>1, Zenon DEF Distinct
<1>10. IsFiniteSet(T)
  BY <1>1, FreeFinite, Zenon
<1>11. Cardinality(listed) = Cardinality(T)
  BY <1>6, <1>8, <1>9, <1>10 DEF Ranking, CountOnto
<1> QED BY <1>1, <1>11, Zenon

LEMMA InvBlocksAccounted ==
  ASSUME Ranking, MemoryInv
  PROVE  BlocksAccounted
<1>1. Counted(Arenas, arena, Lists, Used, Closing) /\ Owned(Marked, Runs, Arenas, Flights, Closers)
  BY Zenon DEF MemoryInv, BlockInv, BlocksCounted, PageInv, PagesOwned
<1>2. \A d \in Desc : \A i \in DOMAIN free_list[d] : free_list[d][i] \in Lists[d]
  BY Zenon DEF Lists, Elements
<1>3. \A d \in Desc : \A i \in DOMAIN free_list[d] :
        /\ free_list[d][i][1] \in Arenas /\ free_list[d][i][1] \notin Closing
        /\ arena[free_list[d][i][1]].desc = d
  BY <1>1, <1>2, Zenon DEF Counted
<1>4. \A p \in Arenas : arena[p] # NULL /\ arena[p].desc \in Desc /\ arena[p].desc # NULL
  BY Shapes, Zenon DEF Headers, Arenas
<1>5. \A p \in Arenas : p \in Closing <=> \E t \in Thread : pc[t] = "scrub" /\ call[t].page = p
  <2> SUFFICES ASSUME NEW p \in Arenas
               PROVE  p \in Closing <=> \E t \in Thread : pc[t] = "scrub" /\ call[t].page = p
    BY Zenon
  <2>1. ASSUME NEW t \in Thread, pc[t] = "scrub", call[t].page = p PROVE t \in Closers
    <3>1. PICK c : c = call[t]
      BY Zenon
    <3>2. InPool(c) /\ c \in CallRecord
      BY <2>1, <3>1, Zenon DEF MemoryInv, CallsOK, CallOK, Freeing, CallTypes
    <3>3. p \in Run(c.page, c.cnt)
      BY <2>1, <3>1, <3>2 DEF InPool, Run, CallRecord
    <3>4. Flights[t] = Run(c.page, c.cnt)
      BY <2>1, <3>1, FlightIs, Zenon DEF Flights
    <3>5. t \notin Closers => Flights[t] \cap Arenas = {}
      BY <1>1, Zenon DEF Owned
    <3> QED BY <3>3, <3>4, <3>5, Zenon
  <2>2. p \in Closing => \E t \in Thread : pc[t] = "scrub" /\ call[t].page = p
    BY Zenon DEF Closing, Closers
  <2> QED BY <2>1, <2>2, Zenon DEF Closing
<1>6. ASSUME NEW p \in Arenas, NEW d \in Desc, arena[p].desc = d, NEW n, n = blocks_per_arena[d],
             NEW listed, listed = {i \in DOMAIN free_list[d] : free_list[d][i][1] = p}
      PROVE  /\ p \in Closing => arena[p].free_cnt = n /\ InUse(p) = {} /\ listed = {}
             /\ p \notin Closing => /\ arena[p].free_cnt = Cardinality(listed)
                                    /\ arena[p].free_cnt + Cardinality(InUse(p)) = n
  <2>1. ASSUME p \in Closing PROVE arena[p].free_cnt = n /\ InUse(p) = {} /\ listed = {}
    <3>1. arena[p].free_cnt = n
      BY <1>1, <1>6, <2>1, Zenon DEF Counted
    <3>2. listed = {}
      BY <1>3, <1>6, <2>1, Zenon
    <3>3. ASSUME NEW i, <<p, i>> \in Used PROVE FALSE
      <4>1. PICK b : b = <<p, i>>
        BY Zenon
      <4>2. b \in Used /\ b[1] = p
        BY <3>3, <4>1, Zenon
      <4> QED BY <1>1, <2>1, <4>2, Zenon DEF Counted
    <3> QED BY <3>1, <3>2, <3>3, InUseIs, Zenon
  <2>2. ASSUME p \notin Closing
        PROVE  arena[p].free_cnt = Cardinality(listed) /\ arena[p].free_cnt + Cardinality(InUse(p)) = n
    <3>1. PICK T, B : T = FreeOf(Lists, p, d) /\ B = 0 .. n - 1
      BY Zenon
    <3>2. arena[p].free_cnt = Cardinality(T) /\ Cardinality(listed) = Cardinality(T)
      <4>1. arena[p].free_cnt = Cardinality(FreeOf(Lists, p, arena[p].desc))
        BY <1>1, <2>2, Zenon DEF Counted
      <4>2. Cardinality(listed) = Cardinality(FreeOf(Lists, p, d))
        BY <1>6, ListedCount
      <4> QED BY <1>6, <3>1, <4>1, <4>2, Zenon
    <3>3. /\ n \in Nat /\ IsFiniteSet(B) /\ Cardinality(B) = n /\ T \subseteq B /\ Cardinality(T) \in Nat
      BY <1>6, <3>1, FreeFinite, Zenon
    <3>4. \A i \in B : i \in T <=> <<p, i>> \notin Used
      <4>1. \A i \in 0 .. blocks_per_arena[arena[p].desc] - 1 :
              (<<p, i>> \in Lists[arena[p].desc]) # (<<p, i>> \in Used)
        BY <1>1, <2>2, Zenon DEF Counted
      <4>2. \A i \in B : <<p, i>> \in Lists[d] <=> <<p, i>> \notin Used
        BY <1>6, <3>1, <4>1
      <4>3. \A i \in B : i \in T <=> <<p, i>> \in Lists[d]
        BY <1>6, <3>1, Zenon DEF FreeOf
      <4> QED BY <4>2, <4>3, Zenon
    <3>5. \A i : <<p, i>> \in Used => i \in B
      <4> SUFFICES ASSUME NEW i, <<p, i>> \in Used PROVE i \in B
        BY Zenon
      <4>1. PICK b : b = <<p, i>>
        BY Zenon
      <4>2. b \in Used /\ b[1] = p /\ b[2] = i
        BY <4>1, Zenon
      <4> QED BY <1>1, <1>6, <3>1, <4>2, Zenon DEF Counted
    <3>6. InUse(p) = B \ T
      BY <3>4, <3>5, InUseIs, Zenon
    <3>7. Cardinality(B \ T) = Cardinality(B) - Cardinality(T)
      BY <3>3, Zenon DEF Ranking, CountRest
    <3>8. Cardinality(T) + Cardinality(B \ T) = n
      BY <3>3, <3>7
    <3> QED BY <3>2, <3>6, <3>8, Zenon
  <2> QED BY <2>1, <2>2, Zenon
<1>7. \A p \in Arenas :
        LET a == arena[p]
            listed == {i \in DOMAIN free_list[a.desc] : free_list[a.desc][i][1] = p}
            closing == \E t \in Thread : pc[t] = "scrub" /\ call[t].page = p
        IN /\ closing => a.free_cnt = blocks_per_arena[a.desc] /\ InUse(p) = {} /\ listed = {}
           /\ ~closing => /\ a.free_cnt = Cardinality(listed)
                          /\ a.free_cnt + Cardinality(InUse(p)) = blocks_per_arena[a.desc]
  <2> SUFFICES ASSUME NEW p \in Arenas
               PROVE  LET a == arena[p]
                          listed == {i \in DOMAIN free_list[a.desc] : free_list[a.desc][i][1] = p}
                          closing == \E t \in Thread : pc[t] = "scrub" /\ call[t].page = p
                      IN /\ closing => a.free_cnt = blocks_per_arena[a.desc] /\ InUse(p) = {} /\ listed = {}
                         /\ ~closing => /\ a.free_cnt = Cardinality(listed)
                                        /\ a.free_cnt + Cardinality(InUse(p)) = blocks_per_arena[a.desc]
    BY Zenon
  <2>1. PICK d \in Desc : d = arena[p].desc
    BY <1>4, Zenon
  <2>2. PICK listed : listed = {i \in DOMAIN free_list[d] : free_list[d][i][1] = p}
    BY Zenon
  <2>3. /\ p \in Closing => arena[p].free_cnt = blocks_per_arena[d] /\ InUse(p) = {} /\ listed = {}
        /\ p \notin Closing => /\ arena[p].free_cnt = Cardinality(listed)
                               /\ arena[p].free_cnt + Cardinality(InUse(p)) = blocks_per_arena[d]
    BY <1>6, <2>1, <2>2
  <2> QED BY <1>5, <2>1, <2>2, <2>3, Zenon
<1>8. ASSUME NEW h \in held, h.kind # "pages"
      PROVE  arena[h.page] # NULL /\ (arena[h.page].desc = NULL) = (h.kind = "big")
  <2>1. CASE h.kind = "block"
    <3>1. h.page \in Arenas
      BY <2>1, HeldIs, Zenon
    <3>2. arena[h.page] # NULL /\ arena[h.page].desc # NULL /\ h.kind # "big"
      BY <1>4, <2>1, <3>1, Zenon
    <3> QED BY <3>2, Zenon
  <2>2. CASE h.kind = "big"
    <3>1. h \in Runs
      BY <2>2, Zenon DEF Runs
    <3>2. arena[h.page] = [desc |-> NULL, free_cnt |-> h.n]
      BY <2>2, <3>1, Zenon DEF MemoryInv, PageInv, RunsOK
    <3>3. h.n \in Int
      BY <2>2 DEF MemoryInv, TypeOK, Allocation
    <3>4. [desc |-> NULL, free_cnt |-> h.n] \in Arena
      BY <3>3, Zenon DEF Arena
    <3>5. arena[h.page] # NULL /\ arena[h.page].desc = NULL
      BY <3>2, <3>4, MemoryAssumption, SMTT(30)
    <3> QED BY <2>2, <3>5, Zenon
  <2>3. h.kind = "block" \/ h.kind = "big"
    BY <1>8 DEF MemoryInv, TypeOK, Allocation
  <2> QED BY <2>1, <2>2, <2>3, Zenon
<1>9. ASSUME NEW t \in Thread, pc[t] \in {"scrub", "clear"},
             NEW p \in Run(call[t].page + call[t].bit, call[t].cnt - call[t].bit)
      PROVE  used_map[p]
  <2>1. PICK c : c = call[t]
    BY Zenon
  <2>2. c.page \in Nat /\ c.cnt \in Nat /\ (pc[t] = "scrub" => c.bit = 0)
    BY <1>9, <2>1, Zenon DEF MemoryInv, CallsOK, CallOK, Freeing, CallTypes, CallRecord, InPool
  <2>3. p \in Flights[t]
    <3>1. CASE pc[t] = "scrub"
      <4>1. c.page + c.bit = c.page /\ c.cnt - c.bit = c.cnt
        BY <2>2, <3>1
      <4> QED BY <1>9, <2>1, <3>1, <4>1, FlightIs, SMTT(30) DEF Flights
    <3>2. CASE pc[t] = "clear"
      BY <1>9, <2>1, <3>2, FlightIs, Zenon DEF Flights
    <3> QED BY <1>9, <3>1, <3>2, Zenon
  <2>4. p \in Page
    BY <2>3, InFlightIs, Zenon
  <2>5. p \in Marked
    BY <1>1, <2>3, <2>4, Zenon DEF Owned
  <2> QED BY <2>5, Zenon DEF Marked
<1> QED BY <1>3, <1>4, <1>7, <1>8, <1>9, Zenon DEF BlocksAccounted

-----------------------------------------------------------------------------
(* The theorems.  FiniteSetTheorems is needed for Ranking alone. *)

INSTANCE FiniteSetTheorems

LEMMA RankingHolds == Ranking
<1>1. Counting
  <2>1. CountNat /\ CountEmpty
    BY FS_CardinalityType, FS_EmptySet, Zenon DEF CountNat, CountEmpty
  <2>2. CountAdd /\ CountRemove
    BY FS_AddElement, FS_RemoveElement, Zenon DEF CountAdd, CountRemove
  <2>3. CountSubset
    BY FS_Subset, Zenon DEF CountSubset
  <2> QED BY <2>1, <2>2, <2>3, Zenon DEF Counting
<1>2. CountWhole
  BY FS_Subset, Zenon DEF CountWhole
<1>3. CountInterval
  BY FS_Interval DEF CountInterval
<1>4. CountRest
  <2> SUFFICES ASSUME NEW S, NEW T, IsFiniteSet(S), T \subseteq S
               PROVE  Cardinality(S \ T) = Cardinality(S) - Cardinality(T)
    BY Zenon DEF CountRest
  <2>1. S \cap T = T
    BY Zenon
  <2>2. Cardinality(S \ T) = Cardinality(S) - Cardinality(S \cap T)
    BY FS_Difference, Zenon
  <2> QED BY <2>1, <2>2, Zenon
<1>5. CountOnto
  <2> SUFFICES ASSUME NEW S, NEW T, NEW f \in [S -> T], IsFiniteSet(T),
                      \A x, y \in S : f[x] = f[y] => x = y
               PROVE  Cardinality(S) = Cardinality(T) <=> \A z \in T : \E x \in S : f[x] = z
    BY DEF CountOnto
  <2>1. f \in Injection(S, T)
    BY Zenon DEF Injection, IsInjective
  <2>2. Cardinality(S) = Cardinality(T) <=> f \in Surjection(S, T)
    BY <2>1, FS_Injection, Zenon
  <2>3. f \in Surjection(S, T) <=> \A z \in T : \E x \in S : f[x] = z
    BY Zenon DEF Surjection
  <2> QED BY <2>2, <2>3, Zenon
<1> QED BY <1>1, <1>2, <1>3, <1>4, <1>5, Zenon DEF Ranking

LEMMA MemoryInvariant == Spec => []MemoryInv
<1>1. Init => MemoryInv
  BY InitInv, RankingHolds, Zenon
<1>2. MemoryInv /\ [Next]_vars => MemoryInv'
  BY StepInv, RankingHolds, Zenon
<1> QED BY <1>1, <1>2, PTL DEF Spec

\* The bitmap, the locks, the free lists, the arena headers and the allocations
\* stay in their types: every block on a free list is a block of its descriptor,
\* and every allocation lies in the pool.
THEOREM MemoryTypes == Spec => []TypeOK
<1>1. MemoryInv => TypeOK
  BY Zenon DEF MemoryInv
<1> QED BY <1>1, MemoryInvariant, PTL

\* A page is marked used exactly if a caller, an arena or a call under way has
\* it, although palloc_free_multiple clears the bits without the pool's lock.
THEOREM PagesAccounted == Spec => []UsedExactly
<1>1. MemoryInv => UsedExactly
  BY InvUsedExactly, Zenon
<1> QED BY <1>1, MemoryInvariant, PTL

\* palloc_get_multiple never hands out a page that someone has.
THEOREM NoSharedPage == Spec => []PagesExclusive
<1>1. MemoryInv => PagesExclusive
  BY InvPagesExclusive, Zenon
<1> QED BY <1>1, MemoryInvariant, PTL

\* An arena's free_cnt is the number of its blocks on the free list, the others
\* are in use, and the assertions of free, block_to_arena and
\* palloc_free_multiple hold.
THEOREM BlockCountsExact == Spec => []BlocksAccounted
<1>1. MemoryInv => BlocksAccounted
  BY InvBlocksAccounted, RankingHolds, Zenon
<1> QED BY <1>1, MemoryInvariant, PTL
=============================================================================
