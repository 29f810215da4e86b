---------------------------- MODULE SerialProofs ----------------------------
(***************************************************************************)
(* Proofs about Serial, for queues of any size, any number of threads and  *)
(* any number of bytes: characters come out in the order they went in, and *)
(* whoever waits in a queue is known to it and will be served.             *)
(***************************************************************************)
EXTENDS Serial, Counting, TLAPS

-----------------------------------------------------------------------------
(* Sequences. *)

LEMMA SeqLen ==
  ASSUME NEW S, NEW q \in Seq(S)
  PROVE  /\ Len(q) \in Nat /\ DOMAIN q = 1 .. Len(q) /\ q \in [1 .. Len(q) -> S]
         /\ \A i \in 1 .. Len(q) : q[i] \in S
         /\ q = <<>> <=> Len(q) = 0
  OBVIOUS

LEMMA SeqMade ==
  ASSUME NEW S, NEW n \in Nat, NEW q \in [1 .. n -> S]
  PROVE  q \in Seq(S) /\ Len(q) = n
  OBVIOUS

LEMMA SeqPush ==
  ASSUME NEW S, NEW q \in Seq(S), NEW x \in S
  PROVE  /\ Append(q, x) \in Seq(S) /\ Append(q, x) # <<>>
         /\ Len(Append(q, x)) = Len(q) + 1
         /\ \A i \in 1 .. Len(q) : Append(q, x)[i] = q[i]
         /\ Append(q, x)[Len(q) + 1] = x
  OBVIOUS

LEMMA SeqPop ==
  ASSUME NEW S, NEW q \in Seq(S), q # <<>>
  PROVE  /\ Head(q) \in S /\ Tail(q) \in Seq(S)
         /\ Len(Tail(q)) = Len(q) - 1
         /\ \A i \in 1 .. Len(Tail(q)) : Tail(q)[i] = q[i + 1]
         /\ Head(q) = q[1]
  OBVIOUS

LEMMA SeqJoin ==
  ASSUME NEW S, NEW q \in Seq(S), NEW r \in Seq(S)
  PROVE  /\ q \o r \in Seq(S)
         /\ Len(q \o r) = Len(q) + Len(r)
         /\ \A i \in 1 .. (Len(q) + Len(r)) :
              (q \o r)[i] = IF i <= Len(q) THEN q[i] ELSE r[i - Len(q)]
  OBVIOUS

LEMMA SeqSame ==
  ASSUME NEW S, NEW q \in Seq(S), NEW r \in Seq(S), Len(q) = Len(r),
         \A i \in 1 .. Len(q) : q[i] = r[i]
  PROVE  q = r
  OBVIOUS

LEMMA JoinEmpty ==
  ASSUME NEW S, NEW q \in Seq(S)
  PROVE  q \o <<>> = q /\ <<>> \o q = q
  <1>1. <<>> \in Seq(S) /\ Len(<<>>) = 0
    OBVIOUS
  <1>2. q \o <<>> = q
    BY <1>1, SeqJoin, SeqSame, SeqLen
  <1>3. <<>> \o q = q
    BY <1>1, SeqJoin, SeqSame, SeqLen
  <1> QED  BY <1>2, <1>3, Zenon

LEMMA AppendIsJoin ==
  ASSUME NEW S, NEW q \in Seq(S), NEW x \in S
  PROVE  Append(q, x) = q \o <<x>>
  <1>1. <<x>> \in Seq(S) /\ Len(<<x>>) = 1 /\ <<x>>[1] = x
    OBVIOUS
  <1>2. q \o <<x>> \in Seq(S) /\ Len(q \o <<x>>) = Len(q) + 1
    BY <1>1, SeqJoin, Zenon
  <1>3. ASSUME NEW i \in 1 .. (Len(q) + 1)  PROVE Append(q, x)[i] = (q \o <<x>>)[i]
    <2>1. Len(q) \in Nat
      BY SeqLen, Zenon
    <2>2. (q \o <<x>>)[i] = IF i <= Len(q) THEN q[i] ELSE <<x>>[i - Len(q)]
      BY <1>1, SeqJoin, Zenon
    <2>3. CASE i = Len(q) + 1
      BY <1>1, <2>1, <2>2, <2>3, SeqPush
    <2>4. CASE i \in 1 .. Len(q)
      BY <2>1, <2>2, <2>4, SeqPush
    <2> QED  BY <2>1, <2>3, <2>4
  <1> QED  BY <1>2, <1>3, SeqPush, SeqSame

LEMMA SeqWider ==
  ASSUME NEW S, NEW T, S \subseteq T, NEW q \in Seq(S)
  PROVE  q \in Seq(T)
  OBVIOUS

LEMMA JoinAssoc ==
  ASSUME NEW S, NEW q \in Seq(S), NEW r \in Seq(S), NEW s \in Seq(S)
  PROVE  (q \o r) \o s = q \o (r \o s)
  <1> DEFINE a == (q \o r) \o s
             b == q \o (r \o s)
  <1>1. /\ q \o r \in Seq(S) /\ Len(q \o r) = Len(q) + Len(r)
        /\ r \o s \in Seq(S) /\ Len(r \o s) = Len(r) + Len(s)
    BY SeqJoin, Zenon
  <1>2. a \in Seq(S) /\ b \in Seq(S) /\ Len(a) = Len(b) /\ Len(a) = Len(q) + Len(r) + Len(s)
    BY <1>1, SeqJoin, SeqLen
  <1>3. ASSUME NEW i \in 1 .. Len(a)  PROVE a[i] = b[i]
    <2>1. Len(q) \in Nat /\ Len(r) \in Nat /\ Len(s) \in Nat /\ i \in 1 .. (Len(q) + Len(r) + Len(s))
      BY <1>2, SeqLen, Zenon
    <2>2. a[i] = IF i <= Len(q) + Len(r) THEN (q \o r)[i] ELSE s[i - (Len(q) + Len(r))]
      BY <1>1, <2>1, SeqJoin
    <2>3. b[i] = IF i <= Len(q) THEN q[i] ELSE (r \o s)[i - Len(q)]
      BY <1>1, <2>1, SeqJoin
    <2>4. i <= Len(q) + Len(r) => (q \o r)[i] = IF i <= Len(q) THEN q[i] ELSE r[i - Len(q)]
      BY <2>1, SeqJoin
    <2>5. i > Len(q) => (r \o s)[i - Len(q)] = IF i - Len(q) <= Len(r) THEN r[i - Len(q)]
                                             ELSE s[(i - Len(q)) - Len(r)]
      BY <2>1, SeqJoin
    <2> QED  BY <2>1, <2>2, <2>3, <2>4, <2>5
  <1> HIDE DEF a, b
  <1>4. a = b
    BY <1>2, <1>3, SeqSame, Zenon
  <1> QED  BY <1>4, Zenon DEF a, b

LEMMA PrefixIs ==
  ASSUME NEW S, NEW q \in Seq(S), NEW n \in 0 .. Len(q)
  PROVE  /\ SubSeq(q, 1, n) \in Seq(S) /\ Len(SubSeq(q, 1, n)) = n
         /\ \A i \in 1 .. n : SubSeq(q, 1, n)[i] = q[i]
  OBVIOUS

LEMMA PrefixGrows ==
  ASSUME NEW S, NEW q \in Seq(S), NEW n \in 1 .. Len(q)
  PROVE  SubSeq(q, 1, n) = SubSeq(q, 1, n - 1) \o <<q[n]>>
  <1>1. q[n] \in S /\ <<q[n]>> \in Seq(S) /\ Len(<<q[n]>>) = 1 /\ <<q[n]>>[1] = q[n]
    OBVIOUS
  <1>2. n \in 0 .. Len(q) /\ n - 1 \in 0 .. Len(q)
    BY SeqLen
  <1> QED  BY <1>1, <1>2, PrefixIs, SeqJoin, SeqSame

LEMMA PrefixFull ==
  ASSUME NEW S, NEW q \in Seq(S)
  PROVE  SubSeq(q, 1, Len(q)) = q
  <1>1. Len(q) \in 0 .. Len(q)
    BY SeqLen
  <1> QED  BY <1>1, PrefixIs, SeqSame

-----------------------------------------------------------------------------
(* The ring buffer. *)

B == INTQ_BUFSIZE
Pos == 0 .. B - 1

LEMMA ModB ==
  ASSUME NEW a \in Nat, a < 2 * B
  PROVE  (a < B => a % B = a) /\ (~(a < B) => a % B = a - B)
  <1>1. B \in Nat /\ B >= 2
    BY IntQueueAssumption, Zenon DEF B
  <1> HIDE DEF B
  <1>2. a \in Int /\ B \in Int /\ B > 0
    BY <1>1
  <1>3. a = B * (a \div B) + (a % B) /\ a % B \in 0 .. B - 1 /\ (a \div B) \in Int
    BY <1>2
  <1>4. CASE a < B
    BY <1>1, <1>3, <1>4
  <1>5. CASE a >= B
    BY <1>1, <1>3, <1>5
  <1> QED  BY <1>1, <1>4, <1>5

\* How many bytes a queue holds, and where its i'th oldest byte is.
Count(q) == IF q.head >= q.tail THEN q.head - q.tail ELSE q.head + B - q.tail
At(q, i) == IF q.tail + i - 1 < B THEN q.tail + i - 1 ELSE (q.tail + i - 1) - B

LEMMA NextIs ==
  ASSUME NEW p \in Pos
  PROVE  next(p) \in Pos /\ next(p) = IF p = B - 1 THEN 0 ELSE p + 1
  <1>1. B \in Nat /\ B >= 2
    BY IntQueueAssumption, Zenon DEF B
  <1>2. (p + 1) % B = IF p + 1 < B THEN p + 1 ELSE (p + 1) - B
    <2> DEFINE a == p + 1
    <2>1. a \in Nat /\ a < 2 * B
      BY <1>1 DEF Pos
    <2> HIDE DEF a
    <2>2. (a < B => a % B = a) /\ (~(a < B) => a % B = a - B)
      BY <2>1, ModB, Zenon
    <2>3. a % B = IF a < B THEN a ELSE a - B
      BY <2>2, Zenon
    <2> QED  BY <2>3, Zenon DEF a
  <1>3. next(p) = (p + 1) % B
    BY Zenon DEF next, B
  <1> HIDE DEF B
  <1> QED  BY <1>1, <1>2, <1>3 DEF Pos

LEMMA ContentsIs ==
  ASSUME NEW Owner, NEW Byte, NEW q \in IntQueueOf(Owner, Byte)
  PROVE  /\ q.head \in Pos /\ q.tail \in Pos /\ q.buf \in [Pos -> Byte]
         /\ Count(q) \in 0 .. B - 1
         /\ \A i \in 1 .. B : At(q, i) \in Pos
         /\ Contents(q) = [i \in 1 .. Count(q) |-> q.buf[At(q, i)]]
         /\ intq_empty(q) <=> Count(q) = 0
         /\ intq_full(q) <=> Count(q) = B - 1
  <1>1. B \in Nat /\ B >= 2
    BY IntQueueAssumption, Zenon DEF B
  <1>2. q.head \in Pos /\ q.tail \in Pos /\ q.buf \in [Pos -> Byte]
    BY Zenon DEF IntQueueOf, Pos, B
  <1>3. (q.head + B - q.tail) % B = Count(q)
    <2> DEFINE a == q.head + B - q.tail
    <2>1. a \in Nat /\ a < 2 * B
      BY <1>1, <1>2 DEF Pos
    <2> HIDE DEF a
    <2>2. (a < B => a % B = a) /\ (~(a < B) => a % B = a - B)
      BY <2>1, ModB, Zenon
    <2>3. a % B = Count(q)
      <3>1. a = q.head + B - q.tail
        BY Zenon DEF a
      <3> QED  BY <1>1, <1>2, <2>2, <3>1, SMTT(30) DEF Count, Pos
    <2> QED  BY <2>3, Zenon DEF a
  <1>4. \A i \in 1 .. B : (q.tail + i - 1) % B = At(q, i)
    <2> SUFFICES ASSUME NEW i \in 1 .. B  PROVE (q.tail + i - 1) % B = At(q, i)
      BY Zenon
    <2> DEFINE a == q.tail + i - 1
    <2>1. a \in Nat /\ a < 2 * B
      BY <1>1, <1>2 DEF Pos
    <2> HIDE DEF a
    <2>2. (a < B => a % B = a) /\ (~(a < B) => a % B = a - B)
      BY <2>1, ModB, Zenon
    <2>3. a % B = IF a < B THEN a ELSE a - B
      BY <2>2, Zenon
    <2> QED  BY <2>3, Zenon DEF a, At
  <1>5. Contents(q) = [i \in 1 .. ((q.head + B - q.tail) % B) |-> q.buf[(q.tail + i - 1) % B]]
    BY Zenon DEF Contents, B
  <1> HIDE DEF B
  <1>6. Count(q) \in 0 .. B - 1 /\ \A i \in 1 .. B : At(q, i) \in Pos
    BY <1>1, <1>2, SMTT(30) DEF Count, At, Pos
  <1>7. Contents(q) = [i \in 1 .. Count(q) |-> q.buf[At(q, i)]]
    <2>1. 1 .. Count(q) \subseteq 1 .. B
      BY <1>1, <1>6
    <2> QED  BY <1>3, <1>4, <1>5, <2>1, Zenon
  <1>8. intq_empty(q) <=> Count(q) = 0
    BY <1>1, <1>2, SMTT(30) DEF intq_empty, Count, Pos
  <1>9. intq_full(q) <=> Count(q) = B - 1
    BY <1>1, <1>2, NextIs, SMTT(30) DEF intq_full, Count, Pos
  <1> QED  BY <1>2, <1>6, <1>7, <1>8, <1>9, Zenon

LEMMA ContentsSeq ==
  ASSUME NEW Owner, NEW Byte, NEW q \in IntQueueOf(Owner, Byte)
  PROVE  /\ Contents(q) \in Seq(Byte) /\ Len(Contents(q)) = Count(q) /\ Count(q) \in Nat
         /\ intq_empty(q) <=> Contents(q) = <<>>
         /\ ~(intq_empty(q) /\ intq_full(q))
  <1>1. B \in Nat /\ B >= 2
    BY IntQueueAssumption, Zenon DEF B
  <1> HIDE DEF B
  <1>2. /\ Count(q) \in 0 .. B - 1 /\ \A i \in 1 .. B : At(q, i) \in Pos
        /\ Contents(q) = [i \in 1 .. Count(q) |-> q.buf[At(q, i)]]
        /\ q.buf \in [Pos -> Byte]
        /\ intq_empty(q) <=> Count(q) = 0
        /\ intq_full(q) <=> Count(q) = B - 1
    BY ContentsIs
  <1>3. \A i \in 1 .. Count(q) : q.buf[At(q, i)] \in Byte
    BY <1>1, <1>2
  <1>4. Contents(q) \in Seq(Byte) /\ Len(Contents(q)) = Count(q)
    BY <1>1, <1>2, <1>3
  <1>5. Count(q) = 0 <=> Contents(q) = <<>>
    BY <1>4, SeqLen, Zenon
  <1> QED  BY <1>1, <1>2, <1>4, <1>5

\* intq_putc adds the byte at the end.
LEMMA PutAppends ==
  ASSUME NEW Owner, NEW Byte, NEW q \in IntQueueOf(Owner, Byte), ~intq_full(q), NEW b \in Byte
  PROVE  /\ intq_putc(q, b) \in IntQueueOf(Owner, Byte)
         /\ Contents(intq_putc(q, b)) = Append(Contents(q), b)
         /\ ~intq_empty(intq_putc(q, b))
  <1>1. B \in Nat /\ B >= 2
    BY IntQueueAssumption, Zenon DEF B
  <1>2. q.head \in Pos /\ q.tail \in Pos /\ q.buf \in [Pos -> Byte] /\ Count(q) \in 0 .. B - 2
    <2> HIDE DEF B
    <2> QED  BY <1>1, ContentsIs
  <1> DEFINE r == intq_putc(q, b)
  <1>3. r \in IntQueueOf(Owner, Byte)
    BY <1>2, NextIs, Zenon DEF intq_putc, IntQueueOf, Pos, B
  <1>4. /\ r.tail = q.tail /\ r.head = next(q.head) /\ r.buf = [q.buf EXCEPT ![q.head] = b]
    BY Zenon DEF intq_putc, IntQueueOf
  <1> HIDE DEF r, B
  <1>5. Count(r) = Count(q) + 1 /\ \A i \in 1 .. B : At(r, i) = At(q, i)
    <2>1. next(q.head) = IF q.head = B - 1 THEN 0 ELSE q.head + 1
      BY <1>2, NextIs, Zenon
    <2> QED  BY <1>1, <1>2, <1>4, <2>1, SMTT(30) DEF Count, At, Pos
  <1>6. At(q, Count(q) + 1) = q.head /\ \A i \in 1 .. Count(q) : At(q, i) # q.head
    <2>1. At(q, Count(q) + 1) = q.head
      <3>1. q.tail + (Count(q) + 1) - 1 = q.tail + Count(q)
        BY <1>1, <1>2 DEF Pos
      <3>2. CASE q.head >= q.tail
        BY <1>1, <1>2, <3>1, <3>2 DEF Count, At, Pos
      <3>3. CASE ~(q.head >= q.tail)
        BY <1>1, <1>2, <3>1, <3>3, SMTT(30) DEF Count, At, Pos
      <3> QED  BY <3>2, <3>3, Zenon
    <2>2. ASSUME NEW i \in 1 .. Count(q)  PROVE At(q, i) # q.head
      BY <1>1, <1>2 DEF Count, At, Pos
    <2> QED  BY <2>1, <2>2, Zenon
  <1>7. \A i \in 1 .. Count(r) : r.buf[At(r, i)] = Append(Contents(q), b)[i]
    <2> SUFFICES ASSUME NEW i \in 1 .. Count(r)  PROVE r.buf[At(r, i)] = Append(Contents(q), b)[i]
      BY Zenon
    <2>1. i \in 1 .. B /\ At(r, i) = At(q, i) /\ At(q, i) \in Pos
      BY <1>1, <1>2, <1>5, ContentsIs
    <2>2. CASE i = Count(q) + 1
      <3>1. Append(Contents(q), b)[i] = b
        BY <2>2, ContentsSeq
      <3> QED  BY <1>2, <1>4, <1>6, <2>1, <2>2, <3>1, Zenon
    <2>3. CASE i # Count(q) + 1
      <3>1. i \in 1 .. Count(q)
        BY <1>2, <1>5, <2>3
      <3>2. Append(Contents(q), b)[i] = Contents(q)[i]
        BY <3>1, ContentsSeq
      <3>3. Contents(q)[i] = q.buf[At(q, i)]
        BY <3>1, ContentsIs, Zenon
      <3> QED  BY <1>2, <1>4, <1>6, <2>1, <3>1, <3>2, <3>3, Zenon
    <2> QED  BY <2>2, <2>3, Zenon
  <1>8. Contents(r) = [i \in 1 .. Count(r) |-> r.buf[At(r, i)]]
    BY <1>3, ContentsIs
  <1>9. /\ Append(Contents(q), b) \in Seq(Byte) /\ Len(Append(Contents(q), b)) = Count(r)
        /\ Contents(r) \in Seq(Byte) /\ Len(Contents(r)) = Count(r)
    BY <1>3, <1>5, ContentsSeq
  <1>10. Contents(r) = Append(Contents(q), b)
    BY <1>7, <1>8, <1>9, SeqSame, Zenon
  <1>11. ~intq_empty(r)
    BY <1>2, <1>3, <1>5, ContentsIs
  <1> QED  BY <1>3, <1>10, <1>11, Zenon DEF r

\* intq_getc removes the oldest byte, the one that it returns.
LEMMA GetTails ==
  ASSUME NEW Owner, NEW Byte, NEW q \in IntQueueOf(Owner, Byte), ~intq_empty(q)
  PROVE  /\ intq_getc(q) \in IntQueueOf(Owner, Byte)
         /\ Contents(q) # <<>> /\ Contents(q) \in Seq(Byte)
         /\ intq_front(q) = Head(Contents(q))
         /\ Contents(intq_getc(q)) = Tail(Contents(q))
         /\ ~intq_full(intq_getc(q))
  <1>1. B \in Nat /\ B >= 2
    BY IntQueueAssumption, Zenon DEF B
  <1>2. q.head \in Pos /\ q.tail \in Pos /\ q.buf \in [Pos -> Byte] /\ Count(q) \in 1 .. B - 1
    <2> HIDE DEF B
    <2> QED  BY <1>1, ContentsIs
  <1> DEFINE r == intq_getc(q)
  <1>3. r \in IntQueueOf(Owner, Byte)
    BY <1>2, NextIs, Zenon DEF intq_getc, IntQueueOf, Pos, B
  <1>4. /\ r.tail = next(q.tail) /\ r.head = q.head /\ r.buf = q.buf
    BY Zenon DEF intq_getc, IntQueueOf
  <1> HIDE DEF r, B
  <1>5. Count(r) = Count(q) - 1 /\ \A i \in 1 .. Count(r) : At(r, i) = At(q, i + 1)
    <2>1. next(q.tail) = IF q.tail = B - 1 THEN 0 ELSE q.tail + 1
      BY <1>2, NextIs, Zenon
    <2>2. Count(r) = Count(q) - 1
      BY <1>1, <1>2, <1>4, <2>1, SMTT(30) DEF Count, Pos
    <2> QED  BY <1>1, <1>2, <1>4, <2>1, <2>2 DEF At, Pos
  <1>6. /\ Contents(q) = [i \in 1 .. Count(q) |-> q.buf[At(q, i)]]
        /\ Contents(r) = [i \in 1 .. Count(r) |-> r.buf[At(r, i)]]
    BY <1>3, ContentsIs
  <1>7. /\ Contents(q) \in Seq(Byte) /\ Len(Contents(q)) = Count(q) /\ Contents(q) # <<>>
        /\ Contents(r) \in Seq(Byte) /\ Len(Contents(r)) = Count(r)
    BY <1>2, <1>3, ContentsSeq, Zenon
  <1>8. Tail(Contents(q)) \in Seq(Byte) /\ Len(Tail(Contents(q))) = Count(r)
        /\ \A i \in 1 .. Count(r) : Tail(Contents(q))[i] = Contents(q)[i + 1]
    BY <1>5, <1>7, SeqPop
  <1>9. \A i \in 1 .. Count(r) : Contents(r)[i] = Tail(Contents(q))[i]
    <2> SUFFICES ASSUME NEW i \in 1 .. Count(r)  PROVE Contents(r)[i] = Tail(Contents(q))[i]
      BY Zenon
    <2>1. i + 1 \in 1 .. Count(q)
      BY <1>2, <1>5
    <2>2. Contents(q)[i + 1] = q.buf[At(q, i + 1)]
      BY <1>6, <2>1, Zenon
    <2>3. Contents(r)[i] = q.buf[At(q, i + 1)]
      BY <1>4, <1>5, <1>6, Zenon
    <2> QED  BY <1>8, <2>2, <2>3, Zenon
  <1>10. Contents(r) = Tail(Contents(q))
    BY <1>7, <1>8, <1>9, SeqSame, Zenon
  <1>11. intq_front(q) = Head(Contents(q))
    <2>1. At(q, 1) = q.tail /\ 1 \in 1 .. Count(q)
      BY <1>1, <1>2 DEF At, Pos
    <2>2. Head(Contents(q)) = Contents(q)[1]
      BY <1>7
    <2> QED  BY <1>6, <2>1, <2>2, Zenon DEF intq_front
  <1>12. ~intq_full(r)
    <2>1. intq_full(r) <=> Count(r) = B - 1
      BY <1>3, ContentsIs, Zenon
    <2> QED  BY <1>1, <1>2, <1>5, <2>1
  <1> QED  BY <1>3, <1>7, <1>10, <1>11, <1>12, Zenon DEF r

-----------------------------------------------------------------------------
(* The inductive invariant: of the output side, of the input side, and of   *)
(* the interrupt enable register that serves both.                          *)

PcInv == pc \in [Thread -> PC] /\ panic \in Thread \cup {NULL}

\* n consecutive bytes, after m others.
Numbers(m, n) == [i \in 1 .. n |-> m + i]

TxTypes ==
  /\ mode \in {"UNINIT", "POLL", "QUEUE"}
  /\ txq \in IntQueueOf(Thread, 0 .. MaxOut)
  /\ thr \in Seq(1 .. MaxOut) /\ Len(thr) <= 1
  /\ line \in Seq(1 .. MaxOut)
  /\ out \in 0 .. MaxOut
  /\ console \in Writer \cup {NULL}

TxOrder == (line \o thr) \o Contents(txq) = Numbers(0, out)

\* A thread that prints has the console, so there is only one; the queue knows
\* the one that waits, and is full then.
Printing == {"print", "putc_wait", "putc_woken"}
TxWait ==
  /\ \A t \in Thread : pc[t] \in Printing => t \in Writer /\ console = t
  /\ \A t \in Thread : pc[t] = "putc_wait" => txq.not_full = t /\ txq.lock = t
  /\ txq.not_full # NULL => pc[txq.not_full] = "putc_wait" /\ intq_full(txq)

\* Out of bytes that may be printed, one is set aside for each waiting writer.
Waiting == {t \in Writer : pc[t] \in {"putc_wait", "putc_woken"}}
TxBound == out + Cardinality(Waiting) <= MaxOut

\* Nothing is queued before serial_init_queue.
TxPoll == mode # "QUEUE" => intq_empty(txq)

TxInv == TxTypes /\ TxOrder /\ TxWait /\ TxBound /\ TxPoll

RxTypes ==
  /\ buffer \in IntQueueOf(Thread, 0 .. MaxIn)
  /\ rbr \in BOOLEAN
  /\ in \in 0 .. MaxIn /\ got \in 0 .. in
  /\ rbr => in < MaxIn

RxOrder == Contents(buffer) = Numbers(got, in - got)

\* The buffer knows the reader that waits, and is empty then; a reader that
\* signal() has unblocked still has its lock.
RxWait ==
  /\ \A t \in Thread : pc[t] = "getc_wait" => buffer.not_empty = t /\ buffer.lock = t
  /\ \A t \in Thread : pc[t] = "getc_woken" => buffer.lock = t
  /\ buffer.not_empty # NULL => pc[buffer.not_empty] = "getc_wait" /\ intq_empty(buffer)

RxInv == RxTypes /\ RxOrder /\ RxWait

IerInv ==
  /\ ier \subseteq {"XMIT", "RECV"}
  /\ Booted => /\ ~intq_empty(txq) => "XMIT" \in ier
               /\ "RECV" \in ier <=> ~intq_full(buffer)

SerialInv == PcInv /\ TxInv /\ RxInv /\ IerInv

-----------------------------------------------------------------------------
(* Sequences of bytes. *)

LEMMA NumbersSeq ==
  ASSUME NEW m \in Nat, NEW n \in Nat
  PROVE  /\ Numbers(m, n) \in Seq(Nat) /\ Len(Numbers(m, n)) = n
         /\ \A i \in 1 .. n : Numbers(m, n)[i] = m + i
  BY DEF Numbers

LEMMA NumbersAppend ==
  ASSUME NEW m \in Nat, NEW n \in Nat
  PROVE  Append(Numbers(m, n), m + n + 1) = Numbers(m, n + 1)
  <1> DEFINE a == Append(Numbers(m, n), m + n + 1)
             b == Numbers(m, n + 1)
  <1>1. b \in Seq(Nat) /\ Len(b) = n + 1 /\ \A i \in 1 .. n + 1 : b[i] = m + i
    BY NumbersSeq
  <1>2. /\ a \in Seq(Nat) /\ Len(a) = n + 1
        /\ \A i \in 1 .. n : a[i] = m + i
        /\ a[n + 1] = m + n + 1
    <2> PICK s : s = Numbers(m, n)
      BY Zenon
    <2>1. s \in Seq(Nat) /\ Len(s) = n /\ \A i \in 1 .. n : s[i] = m + i
      BY NumbersSeq, Zenon
    <2>2. m + n + 1 \in Nat
      OBVIOUS
    <2>3. /\ Append(s, m + n + 1) \in Seq(Nat) /\ Len(Append(s, m + n + 1)) = Len(s) + 1
          /\ \A i \in 1 .. Len(s) : Append(s, m + n + 1)[i] = s[i]
          /\ Append(s, m + n + 1)[Len(s) + 1] = m + n + 1
      BY <2>1, <2>2, SeqPush
    <2> QED  BY <2>1, <2>3, Zenon
  <1> HIDE DEF a, b
  <1>3. a = b
    <2>1. \A i \in 1 .. n + 1 : a[i] = b[i]
      BY <1>1, <1>2, SMTT(30)
    <2> QED  BY <1>1, <1>2, <2>1, SeqSame, Zenon
  <1> QED  BY <1>3, Zenon DEF a, b

LEMMA NumbersTail ==
  ASSUME NEW m \in Nat, NEW n \in Nat, n > 0
  PROVE  Tail(Numbers(m, n)) = Numbers(m + 1, n - 1)
  <1> DEFINE s == Numbers(m, n)
             a == Tail(s)
             b == Numbers(m + 1, n - 1)
  <1>1. b \in Seq(Nat) /\ Len(b) = n - 1 /\ \A i \in 1 .. n - 1 : b[i] = m + 1 + i
    BY NumbersSeq, SMTT(30)
  <1>2. s \in Seq(Nat) /\ Len(s) = n /\ s # <<>> /\ \A i \in 1 .. n : s[i] = m + i
    BY NumbersSeq
  <1>3. a \in Seq(Nat) /\ Len(a) = n - 1 /\ \A i \in 1 .. n - 1 : a[i] = s[i + 1]
    <2> HIDE DEF s
    <2> QED  BY <1>2, SeqPop
  <1> HIDE DEF a, b, s
  <1>4. a = b
    <2>1. \A i \in 1 .. n - 1 : a[i] = b[i]
      BY <1>1, <1>2, <1>3
    <2> QED  BY <1>1, <1>3, <2>1, SeqSame, Zenon
  <1> QED  BY <1>4, Zenon DEF a, b, s

LEMMA AppendOut ==
  ASSUME NEW L \in Seq(Nat), NEW C \in Seq(Nat), NEW b \in Nat
  PROVE  L \o Append(C, b) = Append(L \o C, b)
  <1>1. Append(C, b) = C \o <<b>> /\ Append(L \o C, b) = (L \o C) \o <<b>>
    <2>1. L \o C \in Seq(Nat)
      BY SeqJoin, Zenon
    <2> QED  BY <2>1, AppendIsJoin, Zenon
  <1>2. <<b>> \in Seq(Nat)
    OBVIOUS
  <1> QED  BY <1>1, <1>2, JoinAssoc

LEMMA MoveFirst ==
  ASSUME NEW L \in Seq(Nat), NEW C \in Seq(Nat), C # <<>>
  PROVE  (L \o <<Head(C)>>) \o Tail(C) = L \o C
  <1>1. Head(C) \in Nat /\ Tail(C) \in Seq(Nat)
    BY SeqPop, Zenon
  <1>2. <<Head(C)>> \in Seq(Nat)
    BY <1>1
  <1>3. <<Head(C)>> \o Tail(C) = C
    <2> DEFINE D == <<Head(C)>> \o Tail(C)
    <2>1. D \in Seq(Nat) /\ Len(D) = Len(C)
      BY <1>1, <1>2, SeqPop, SeqJoin
    <2>2. \A i \in 1 .. Len(C) : D[i] = C[i]
      <3> SUFFICES ASSUME NEW i \in 1 .. Len(C)  PROVE D[i] = C[i]
        BY Zenon
      <3>1. Len(<<Head(C)>>) = 1 /\ Len(Tail(C)) = Len(C) - 1 /\ Len(C) \in Nat
        BY SeqPop
      <3>2. D[i] = IF i <= 1 THEN <<Head(C)>>[i] ELSE Tail(C)[i - 1]
        BY <1>1, <1>2, <3>1, SeqJoin
      <3>3. CASE i = 1
        BY <3>2, <3>3
      <3>4. CASE i # 1
        <4>1. i - 1 \in 1 .. Len(Tail(C)) /\ ~(i <= 1) /\ (i - 1) + 1 = i
          BY <3>1, <3>4
        <4>2. Tail(C)[i - 1] = C[(i - 1) + 1]
          BY <4>1, SeqPop, Zenon
        <4> QED  BY <3>2, <4>1, <4>2, Zenon
      <3> QED  BY <3>3, <3>4, Zenon
    <2> HIDE DEF D
    <2>3. D = C
      BY <2>1, <2>2, SeqSame, Zenon
    <2> QED  BY <2>3, Zenon DEF D
  <1> QED  BY <1>1, <1>2, <1>3, JoinAssoc, SMTT(30)

-----------------------------------------------------------------------------
(* The output side. *)

\* The bytes in thr, in line and in the queue have been accepted.
LEMMA TxBytes ==
  ASSUME TxTypes, TxOrder
  PROVE  /\ line \o thr \in Seq(1 .. MaxOut) /\ Contents(txq) \in Seq(1 .. MaxOut)
         /\ line \in Seq(Nat) /\ thr \in Seq(Nat)
         /\ line \o thr \in Seq(Nat) /\ Contents(txq) \in Seq(Nat)
         /\ out \in Nat
  <1>1. out \in Nat /\ out <= MaxOut /\ MaxOut \in Nat
    BY SerialAssumption DEF TxTypes
  <1> DEFINE L == line \o thr
             C == Contents(txq)
  <1>2. L \in Seq(1 .. MaxOut)
    BY SeqJoin, Zenon DEF TxTypes
  <1>3. L \in Seq(Nat) /\ line \in Seq(Nat) /\ thr \in Seq(Nat)
    <2>1. 1 .. MaxOut \subseteq Nat
      BY <1>1
    <2> QED  BY <1>2, <2>1, SeqWider, Zenon DEF TxTypes
  <1>4. C \in Seq(Nat)
    <2>1. C \in Seq(0 .. MaxOut)
      BY ContentsSeq, Zenon DEF TxTypes
    <2>2. 0 .. MaxOut \subseteq Nat
      BY <1>1
    <2> HIDE DEF C
    <2> QED  BY <2>1, <2>2, SeqWider, Zenon
  <1>5. L \o C = Numbers(0, out)
    BY Zenon DEF TxOrder
  <1> HIDE DEF L, C
  <1>6. Len(L) \in Nat /\ Len(C) \in Nat /\ Len(L) + Len(C) = out
    <2>1. Len(Numbers(0, out)) = out
      BY <1>1, NumbersSeq, Zenon
    <2>2. Len(L \o C) = Len(L) + Len(C)
      BY <1>3, <1>4, SeqJoin, Zenon
    <2>3. Len(L) \in Nat /\ Len(C) \in Nat
      BY <1>3, <1>4, SeqLen, Zenon
    <2>4. Len(L \o C) = out
      BY <1>5, <2>1, Zenon
    <2> QED  BY <2>2, <2>3, <2>4, Zenon
  <1>7. ASSUME NEW i \in 1 .. Len(C)  PROVE C[i] \in 1 .. MaxOut
    <2> DEFINE j == Len(L) + i
    <2>1. j \in 1 .. Len(L) + Len(C) /\ ~(j <= Len(L)) /\ j - Len(L) = i /\ j \in 1 .. out
      BY <1>6
    <2> HIDE DEF j
    <2>2. (L \o C)[j] = C[i]
      BY <1>3, <1>4, <2>1, SeqJoin, Zenon
    <2>3. (L \o C)[j] = 0 + j
      BY <1>1, <1>5, <2>1, NumbersSeq, Zenon
    <2> QED  BY <1>1, <2>1, <2>2, <2>3
  <1>8. C \in Seq(1 .. MaxOut)
    <2>1. C = [i \in 1 .. Len(C) |-> C[i]]
      BY <1>4
    <2>2. C \in [1 .. Len(C) -> 1 .. MaxOut]
      BY <1>7, <2>1, Zenon
    <2> QED  BY <1>6, <2>2, SeqMade, Zenon
  <1> QED  BY <1>1, <1>2, <1>3, <1>4, <1>8, Zenon DEF L, C

\* What a step that is not about output leaves as it is.
LEMMA TxFrame ==
  ASSUME TxInv, UNCHANGED <<mode, txq, thr, line, out, console>>,
         \A t \in Thread : pc'[t] = pc[t] \/ (pc[t] \notin Printing /\ pc'[t] \notin Printing)
  PROVE  TxInv'
  <1>1. TxTypes' /\ TxOrder' /\ TxPoll'
    BY Zenon DEF TxInv, TxTypes, TxOrder, TxPoll
  <1>2. TxWait'
    <2>1. txq.not_full # NULL => txq.not_full \in Thread
      BY Zenon DEF TxInv, TxTypes, IntQueueOf
    <2> QED  BY <2>1, Zenon DEF TxInv, TxWait, Printing
  <1>3. Waiting' = Waiting
    BY Zenon DEF Waiting, Thread, Printing
  <1> QED  BY <1>1, <1>2, <1>3, Zenon DEF TxInv, TxBound

\* The queue, its waiter and the bound on bytes when a byte is taken from it,
\* by the interrupt, by polling or in a flush: r is the queue left behind.
LEMMA TxWoken ==
  ASSUME TxInv, ~intq_empty(txq), NEW r \in IntQueueOf(Thread, 0 .. MaxOut), r.not_full = NULL,
         UNCHANGED console, txq' = r, pc \in [Thread -> PC],
         \A t \in Thread : IF t = txq.not_full THEN pc'[t] = "putc_woken"
                           ELSE pc'[t] = pc[t] \/ (pc[t] \notin Printing /\ pc'[t] \notin Printing)
  PROVE  TxWait' /\ Waiting' = Waiting
  <1>1. \A t \in Thread : t = txq.not_full => pc[t] = "putc_wait"
    BY SerialAssumption, Zenon DEF TxInv, TxWait, Thread
  <1>2. \A t \in Thread : pc'[t] # "putc_wait"
    BY <1>1, Zenon DEF TxInv, TxWait, Printing
  <1>3. \A t \in Thread : pc'[t] \in Printing => t \in Writer /\ console' = t
    BY <1>1, Zenon DEF TxInv, TxWait, Printing
  <1>4. Waiting' = Waiting
    BY <1>1, Zenon DEF Waiting, Thread, Printing
  <1> QED  BY <1>2, <1>3, <1>4, Zenon DEF TxWait

LEMMA WaitingFinite ==
  ASSUME Counting  PROVE IsFiniteSet(Waiting) /\ Cardinality(Waiting) \in Nat
  <1>1. Waiting \subseteq Writer /\ IsFiniteSet(Writer)
    BY SerialAssumption, Zenon DEF Waiting
  <1> QED  BY <1>1, Zenon DEF Counting, CountSubset, CountNat

\* Room for a byte keeps within the bound.
LEMMA RoomLeft ==
  ASSUME Counting, TxInv, Room
  PROVE  out + 1 \in 1 .. MaxOut /\ out + 1 + Cardinality(Waiting) <= MaxOut
  <1>1. out + Cardinality(Waiting) < MaxOut
    BY Zenon DEF Room, Waiting
  <1> QED  BY <1>1, WaitingFinite, SerialAssumption DEF TxInv, TxTypes

LEMMA ConsoleStep ==
  ASSUME SerialInv, NEW t \in Writer, AcquireConsole(t) \/ ReleaseConsole(t)
  PROVE  TxInv'
  <1> USE DEF SerialInv
  <1>1. t \in Thread
    BY Zenon DEF Thread
  <1>2. TxTypes' /\ TxOrder' /\ TxPoll' /\ UNCHANGED out
    BY Zenon DEF AcquireConsole, ReleaseConsole, TxInv, TxTypes, TxOrder, TxPoll, txVars
  <1>3. pc' \in [Thread -> PC] /\ \A u \in Thread \ {t} : pc'[u] = pc[u] /\ pc[u] \notin Printing
    <2>1. \A u \in Thread \ {t} : pc[u] \notin Printing
      BY SerialAssumption DEF AcquireConsole, ReleaseConsole, TxInv, TxWait, Thread, Printing
    <2> QED  BY <1>1, <2>1, Zenon DEF AcquireConsole, ReleaseConsole, PcInv, PC
  <1>4. pc[t] \in {"run", "print"} /\ pc'[t] \in {"run", "print"} /\ (pc'[t] = "print" => console' = t)
    BY <1>1, Zenon DEF AcquireConsole, ReleaseConsole, PcInv
  <1>5. Waiting' = Waiting
    BY <1>3, <1>4, Zenon DEF Waiting, Thread, Printing
  <1>6. TxWait'
    <2>1. txq' = txq
      BY Zenon DEF AcquireConsole, ReleaseConsole
    <2>2. txq.not_full = NULL
      <3>1. txq.not_full # NULL => txq.not_full \in Thread
        BY Zenon DEF TxInv, TxTypes, IntQueueOf
      <3>2. \A u \in Thread : pc[u] # "putc_wait"
        BY <1>3, <1>4, Zenon DEF Printing
      <3> QED  BY <3>1, <3>2, Zenon DEF TxInv, TxWait
    <2> QED  BY <1>3, <1>4, <2>1, <2>2, Zenon DEF TxWait, Printing
  <1> QED  BY <1>2, <1>5, <1>6, Zenon DEF TxInv, TxBound

LEMMA SameContents ==
  ASSUME NEW q, NEW r, r.buf = q.buf, r.head = q.head, r.tail = q.tail
  PROVE  Contents(r) = Contents(q) /\ (intq_empty(r) <=> intq_empty(q)) /\ (intq_full(r) <=> intq_full(q))
  BY Zenon DEF Contents, intq_empty, intq_full

\* One more byte behind those accepted so far, however they are distributed.
LEMMA OneMore ==
  ASSUME TxTypes, TxOrder, NEW L \in Seq(Nat), NEW C \in Seq(Nat),
         L \o C = (line \o thr) \o Contents(txq)
  PROVE  L \o Append(C, out + 1) = Numbers(0, out + 1)
  <1>1. out \in Nat /\ out + 1 \in Nat /\ 0 + out + 1 = out + 1
    <2>1. out \in Nat
      BY TxBytes, Zenon
    <2> QED  BY <2>1
  <1>2. L \o Append(C, out + 1) = Append(L \o C, out + 1)
    BY <1>1, AppendOut, Zenon
  <1>3. L \o C = Numbers(0, out)
    BY Zenon DEF TxOrder
  <1>4. Append(Numbers(0, out), 0 + out + 1) = Numbers(0, out + 1)
    BY <1>1, NumbersAppend, Zenon
  <1>5. Append(Numbers(0, out), out + 1) = Numbers(0, out + 1)
    BY <1>1, <1>4, Zenon
  <1> QED  BY <1>2, <1>3, <1>5, Zenon

LEMMA PollQueue ==
  ASSUME TxInv, mode # "QUEUE"
  PROVE  /\ poll_txq \in IntQueueOf(Thread, 0 .. MaxOut)
         /\ intq_empty(poll_txq) /\ Contents(poll_txq) = <<>> /\ Contents(txq) = <<>>
         /\ poll_txq.not_full = NULL
         /\ \A t \in Thread : pc[t] # "putc_wait"
  <1>1. txq \in IntQueueOf(Thread, 0 .. MaxOut) /\ intq_empty(txq)
    BY Zenon DEF TxInv, TxTypes, TxPoll
  <1>2. ~intq_full(txq) /\ Contents(txq) = <<>>
    BY <1>1, ContentsSeq, Zenon
  <1>3. txq.not_full = NULL
    BY <1>2, Zenon DEF TxInv, TxWait
  <1>4. \A t \in Thread : pc[t] # "putc_wait"
    BY <1>3, SerialAssumption, Zenon DEF TxInv, TxWait, Thread
  <1>5. /\ intq_init \in IntQueueOf(Thread, 0 .. MaxOut)
        /\ intq_empty(intq_init) /\ intq_init.not_full = NULL
    <2>1. 0 \in 0 .. MaxOut /\ 0 \in 0 .. INTQ_BUFSIZE - 1
      BY SerialAssumption, IntQueueAssumption
    <2> QED  BY <2>1, Zenon DEF intq_init, IntQueueOf, intq_empty
  <1>6. Contents(intq_init) = <<>>
    BY <1>5, ContentsSeq, Zenon
  <1> QED  BY <1>1, <1>2, <1>3, <1>4, <1>5, <1>6, Zenon DEF poll_txq

LEMMA PollWait ==
  ASSUME TxInv, mode # "QUEUE", txq' = poll_txq, UNCHANGED console,
         \A t \in Thread : pc'[t] = pc[t] \/ (pc[t] \notin Printing /\ pc'[t] \notin Printing)
  PROVE  TxWait' /\ Waiting' = Waiting
  <1>1. \A t \in Thread : pc'[t] # "putc_wait"
    BY PollQueue, Zenon DEF Printing
  <1>2. Waiting' = Waiting
    BY Zenon DEF Waiting, Thread, Printing
  <1> QED  BY <1>1, <1>2, PollQueue, Zenon DEF TxInv, TxWait

LEMMA PutcPollStep ==
  ASSUME Counting, SerialInv, SerialPutcPoll
  PROVE  TxInv'
  <1> USE DEF SerialInv, SerialPutcPoll
  <1>1. out + 1 \in 1 .. MaxOut /\ out + 1 + Cardinality(Waiting) <= MaxOut
    BY RoomLeft, Zenon
  <1>2. TxWait' /\ Waiting' = Waiting
    BY PollWait, Zenon
  <1> DEFINE b == <<out + 1>>
             L == line \o thr
  <1>3. L \in Seq(1 .. MaxOut) /\ L \in Seq(Nat) /\ out \in Nat
    BY TxBytes, Zenon DEF TxInv
  <1>4. b \in Seq(1 .. MaxOut) /\ Len(b) <= 1 /\ b \in Seq(Nat) /\ b = Append(<<>>, out + 1)
    BY <1>1, <1>3
  <1>5. line' = L /\ thr' = b /\ txq' = poll_txq /\ out' = out + 1
    BY Zenon DEF putc_poll
  <1> HIDE DEF b, L
  <1>6. TxTypes'
    BY <1>1, <1>3, <1>4, <1>5, PollQueue DEF TxInv, TxTypes
  <1>7. TxOrder'
    <2>1. <<>> \in Seq(Nat) /\ Contents(txq) = <<>>
      BY PollQueue
    <2>2. L \o b = Numbers(0, out + 1)
      <3>1. L \o <<>> = (line \o thr) \o Contents(txq)
        BY <2>1, Zenon DEF L
      <3> QED  BY <1>3, <1>4, <2>1, <3>1, OneMore, Zenon DEF TxInv
    <2>3. L \o b \in Seq(Nat)
      BY <1>3, <1>4, SeqJoin, Zenon
    <2>4. (L \o b) \o <<>> = L \o b
      BY <2>3, JoinEmpty, Zenon
    <2>5. Contents(txq') = <<>>
      BY PollQueue, Zenon
    <2> QED  BY <1>5, <2>2, <2>4, <2>5, Zenon DEF TxOrder
  <1>8. TxPoll'
    BY <1>5, PollQueue, Zenon DEF TxPoll
  <1>9. TxBound'
    BY <1>1, <1>2, <1>5, Zenon DEF TxBound
  <1> QED  BY <1>2, <1>6, <1>7, <1>8, <1>9, Zenon DEF TxInv

LEMMA InitQueueStep ==
  ASSUME SerialInv, SerialInitQueue
  PROVE  TxInv'
  <1> USE DEF SerialInv, SerialInitQueue, txVars
  <1>1. \A t \in Thread : pc'[t] = pc[t] \/ (pc[t] \notin Printing /\ pc'[t] \notin Printing)
    BY Zenon DEF PcInv, Printing
  <1>2. TxWait' /\ Waiting' = Waiting
    BY <1>1, PollWait, Zenon
  <1>3. TxTypes' /\ TxPoll'
    BY PollQueue, Zenon DEF TxInv, TxTypes, TxPoll
  <1>4. TxOrder'
    BY PollQueue, Zenon DEF TxInv, TxOrder
  <1>5. TxBound'
    BY <1>2, Zenon DEF TxInv, TxBound
  <1> QED  BY <1>2, <1>3, <1>4, <1>5, Zenon DEF TxInv

LEMMA PutKeeps ==
  ASSUME NEW Owner, NEW Byte, NEW q \in IntQueueOf(Owner, Byte), NEW b
  PROVE  intq_putc(q, b).not_full = q.not_full /\ intq_putc(q, b).lock = q.lock
         /\ intq_putc(q, b).not_empty = NULL
  BY Zenon DEF intq_putc, IntQueueOf

LEMMA GetKeeps ==
  ASSUME NEW Owner, NEW Byte, NEW q \in IntQueueOf(Owner, Byte)
  PROVE  intq_getc(q).not_full = NULL /\ intq_getc(q).lock = q.lock
         /\ intq_getc(q).not_empty = q.not_empty
  BY Zenon DEF intq_getc, IntQueueOf

\* intq_putc of byte m + 1 on a queue of bytes up to n.
LEMMA PutNumber ==
  ASSUME NEW n \in Nat, NEW m \in Nat, m + 1 <= n,
         NEW q \in IntQueueOf(Thread, 0 .. n), ~intq_full(q)
  PROVE  /\ intq_putc(q, m + 1) \in IntQueueOf(Thread, 0 .. n)
         /\ Contents(intq_putc(q, m + 1)) = Append(Contents(q), m + 1)
         /\ ~intq_empty(intq_putc(q, m + 1))
  <1> DEFINE S == 0 .. n
             b == m + 1
  <1>1. q \in IntQueueOf(Thread, S) /\ b \in S
    OBVIOUS
  <1> HIDE DEF S, b
  <1>2. /\ intq_putc(q, b) \in IntQueueOf(Thread, S)
        /\ Contents(intq_putc(q, b)) = Append(Contents(q), b)
        /\ ~intq_empty(intq_putc(q, b))
    BY <1>1, PutAppends, Zenon
  <1> QED  BY <1>2, Zenon DEF S, b

\* serial_putc by the owner of the console, with interrupts on.
LEMMA PutcStep ==
  ASSUME Counting, SerialInv, NEW t \in Writer, SerialPutc(t)
  PROVE  TxInv'
  <1> USE DEF SerialInv
  <1>1. /\ t \in Thread /\ t # NULL /\ mode = "QUEUE" /\ mode' = "QUEUE"
        /\ pc[t] = "putc_woken" \/ (pc[t] = "print" /\ Room)
        /\ UNCHANGED <<thr, line, console>>
    BY SerialAssumption, Zenon DEF SerialPutc, Thread
  <1>2. console = t /\ \A u \in Thread \ {t} : pc[u] \notin Printing
    BY <1>1, Zenon DEF TxInv, TxWait, Printing
  <1>3. txq \in IntQueueOf(Thread, 0 .. MaxOut) /\ out \in Nat /\ MaxOut \in Nat
    BY SerialAssumption DEF TxInv, TxTypes
  <1>4. IsFiniteSet(Waiting) /\ Cardinality(Waiting) \in Nat
    BY WaitingFinite, Zenon
  <1>5. \A u \in Thread : pc[u] # "putc_wait"
    BY <1>1, <1>2, Zenon DEF Printing
  <1>6. txq.not_full = NULL
    <2>1. txq.not_full # NULL => txq.not_full \in Thread
      BY Zenon DEF TxInv, TxTypes, IntQueueOf
    <2> QED  BY <1>5, <2>1, Zenon DEF TxInv, TxWait
  <1>7. CASE intq_full(txq)
    <2>1. /\ txq' = wait_not_full(txq, t) /\ pc' = [pc EXCEPT ![t] = "putc_wait"]
          /\ out' = out
      BY <1>7, Zenon DEF SerialPutc
    <2>2. /\ txq' \in IntQueueOf(Thread, 0 .. MaxOut)
          /\ txq'.buf = txq.buf /\ txq'.head = txq.head /\ txq'.tail = txq.tail
          /\ txq'.lock = t /\ txq'.not_full = t
      BY <1>1, <1>3, <2>1, Zenon DEF wait_not_full, IntQueueOf
    <2>3. Contents(txq') = Contents(txq) /\ intq_full(txq')
      BY <1>7, <2>2, SameContents, Zenon
    <2>4. /\ \A u \in Thread \ {t} : pc'[u] = pc[u] /\ pc'[u] \notin Printing
          /\ pc'[t] = "putc_wait"
      BY <1>1, <1>2, <2>1, Zenon DEF PcInv
    <2>5. TxTypes' /\ TxOrder' /\ TxPoll'
      BY <1>1, <2>1, <2>2, <2>3, Zenon DEF TxInv, TxTypes, TxOrder, TxPoll
    <2>6. TxWait'
      BY <1>1, <1>2, <2>2, <2>3, <2>4, Zenon DEF TxWait, Printing
    <2>7. Waiting' = Waiting \cup {t}
      BY <1>1, <2>4, Zenon DEF Waiting, Thread, Printing
    <2>8. TxBound'
      <3>1. CASE pc[t] = "putc_woken"
        <4>1. Waiting' = Waiting
          BY <2>7, <3>1, Zenon DEF Waiting
        <4> QED  BY <2>1, <4>1, Zenon DEF TxInv, TxBound
      <3>2. CASE pc[t] = "print" /\ Room
        <4>1. t \notin Waiting
          BY <3>2, Zenon DEF Waiting
        <4>2. Cardinality(Waiting \cup {t}) = Cardinality(Waiting) + 1
          BY <1>4, <4>1, Zenon DEF Counting, CountAdd
        <4>3. out + 1 + Cardinality(Waiting) <= MaxOut
          BY <3>2, RoomLeft, Zenon
        <4>4. Cardinality(Waiting') = Cardinality(Waiting) + 1
          BY <2>7, <4>2, Zenon
        <4>5. out' + Cardinality(Waiting') <= MaxOut
          BY <1>3, <1>4, <2>1, <4>3, <4>4
        <4> QED  BY <4>5, Zenon DEF TxBound
      <3> QED  BY <1>1, <3>1, <3>2, Zenon
    <2> QED  BY <2>5, <2>6, <2>8, Zenon DEF TxInv
  <1>8. CASE ~intq_full(txq)
    <2> DEFINE q == [txq EXCEPT !.lock = NULL]
    <2>1. /\ txq' = intq_putc(q, out + 1) /\ pc' = [pc EXCEPT ![t] = "print"]
          /\ out' = out + 1
      BY <1>8, Zenon DEF SerialPutc, Enqueue
    <2>2. /\ q \in IntQueueOf(Thread, 0 .. MaxOut)
          /\ q.buf = txq.buf /\ q.head = txq.head /\ q.tail = txq.tail
          /\ q.not_full = NULL
      BY <1>3, <1>6, Zenon DEF IntQueueOf
    <2> HIDE DEF q
    <2>3. Contents(q) = Contents(txq) /\ ~intq_full(q)
      BY <1>8, <2>2, SameContents, Zenon
    <2>4. Waiting' = Waiting \ {t}
      BY <1>1, <1>2, <2>1, Zenon DEF Waiting, Thread, Printing, PcInv
    <2>5. out + 1 + Cardinality(Waiting') <= MaxOut /\ Cardinality(Waiting') \in Nat
      <3>1. CASE pc[t] = "putc_woken"
        <4>1. t \in Waiting
          BY <3>1, Zenon DEF Waiting
        <4>2. Cardinality(Waiting \ {t}) = Cardinality(Waiting) - 1
          BY <1>4, <4>1, Zenon DEF Counting, CountRemove
        <4>3. Cardinality(Waiting \ {t}) \in Nat
          BY <1>4, Zenon DEF Counting, CountRemove, CountNat
        <4>4. out + Cardinality(Waiting) <= MaxOut
          BY Zenon DEF TxInv, TxBound
        <4> QED  BY <1>3, <1>4, <2>4, <4>2, <4>3, <4>4
      <3>2. CASE pc[t] = "print" /\ Room
        <4>1. Waiting' = Waiting
          BY <2>4, <3>2, Zenon DEF Waiting
        <4> QED  BY <1>4, <3>2, <4>1, RoomLeft, Zenon
      <3> QED  BY <1>1, <3>1, <3>2, Zenon
    <2>6. out + 1 \in 0 .. MaxOut
      BY <1>3, <2>5
    <2>7. /\ txq' \in IntQueueOf(Thread, 0 .. MaxOut)
          /\ Contents(txq') = Append(Contents(txq), out + 1) /\ txq'.not_full = NULL
      <3>1. /\ intq_putc(q, out + 1) \in IntQueueOf(Thread, 0 .. MaxOut)
            /\ Contents(intq_putc(q, out + 1)) = Append(Contents(q), out + 1)
        BY <1>3, <2>2, <2>3, <2>6, PutNumber
      <3>2. intq_putc(q, out + 1).not_full = q.not_full
        BY <2>2, <2>3, <2>6, PutKeeps, Zenon
      <3> QED  BY <2>1, <2>2, <2>3, <2>6, <3>1, <3>2, Zenon
    <2>8. TxTypes' /\ TxPoll'
      BY <1>1, <2>1, <2>6, <2>7, Zenon DEF TxInv, TxTypes, TxPoll
    <2>9. TxOrder'
      <3>1. (line \o thr) \o Append(Contents(txq), out + 1) = Numbers(0, out + 1)
        BY OneMore, TxBytes, Zenon DEF TxInv
      <3> QED  BY <1>1, <2>1, <2>7, <3>1, Zenon DEF TxOrder
    <2>10. /\ \A u \in Thread \ {t} : pc'[u] = pc[u] /\ pc'[u] \notin Printing
           /\ pc'[t] = "print"
      BY <1>1, <1>2, <2>1, Zenon DEF PcInv
    <2>11. TxWait'
      BY <1>1, <1>2, <2>7, <2>10, Zenon DEF TxWait, Printing
    <2> QED  BY <2>1, <2>5, <2>8, <2>9, <2>11, Zenon DEF TxInv, TxBound
  <1> QED  BY <1>7, <1>8, Zenon

\* What Unblock does to the writer that waits for room, if there is one.
LEMMA UnblockWriter ==
  ASSUME SerialInv
  PROVE  \A t \in Thread : Unblock(pc, txq.not_full)[t] = IF t = txq.not_full THEN "putc_woken" ELSE pc[t]
  BY SerialAssumption, Zenon DEF Unblock, SerialInv, TxInv, TxWait, Thread

\* serial_putc with interrupts off.
LEMMA PutcOffStep ==
  ASSUME Counting, SerialInv, SerialPutcOff
  PROVE  TxInv'
  <1> USE DEF SerialInv
  <1>1. /\ mode = "QUEUE" /\ mode' = "QUEUE" /\ out' = out + 1 /\ UNCHANGED console
        /\ out + 1 \in 1 .. MaxOut /\ out + 1 \in 0 .. MaxOut
        /\ out + 1 + Cardinality(Waiting) <= MaxOut
    <2>1. out + 1 \in 1 .. MaxOut /\ out + 1 + Cardinality(Waiting) <= MaxOut
      BY RoomLeft, Zenon DEF SerialPutcOff
    <2> QED  BY <2>1 DEF SerialPutcOff, Enqueue
  <1>2. txq \in IntQueueOf(Thread, 0 .. MaxOut) /\ out \in Nat /\ MaxOut \in Nat
    BY SerialAssumption DEF TxInv, TxTypes
  <1>3. CASE intq_full(txq)
    <2>1. /\ line' = line \o thr /\ thr' = <<intq_front(txq)>>
          /\ pc' = Unblock(pc, txq.not_full)
          /\ txq' = intq_putc(intq_getc(txq), out + 1)
      BY <1>3, Zenon DEF SerialPutcOff, putc_poll, Enqueue
    <2>2. ~intq_empty(txq)
      BY <1>2, <1>3, ContentsSeq, Zenon
    <2> DEFINE r == intq_getc(txq)
    <2>3. /\ r \in IntQueueOf(Thread, 0 .. MaxOut) /\ ~intq_full(r) /\ r.not_full = NULL
          /\ Contents(txq) # <<>> /\ intq_front(txq) = Head(Contents(txq))
          /\ Contents(r) = Tail(Contents(txq))
      BY <1>2, <2>2, GetTails, GetKeeps, Zenon
    <2> HIDE DEF r
    <2>4. /\ txq' \in IntQueueOf(Thread, 0 .. MaxOut) /\ txq'.not_full = NULL
          /\ Contents(txq') = Append(Tail(Contents(txq)), out + 1)
      <3>1. /\ intq_putc(r, out + 1) \in IntQueueOf(Thread, 0 .. MaxOut)
            /\ Contents(intq_putc(r, out + 1)) = Append(Contents(r), out + 1)
        BY <1>1, <1>2, <2>3, PutNumber
      <3>2. intq_putc(r, out + 1).not_full = r.not_full
        BY <1>1, <2>3, PutKeeps, Zenon
      <3> QED  BY <1>1, <2>1, <2>3, <3>1, <3>2, Zenon DEF r
    <2>5. TxWait' /\ Waiting' = Waiting
      BY <1>1, <2>1, <2>2, <2>4, UnblockWriter, TxWoken, Zenon DEF PcInv
    <2>6. /\ Contents(txq) \in Seq(1 .. MaxOut) /\ Contents(txq) \in Seq(Nat)
          /\ line \o thr \in Seq(1 .. MaxOut) /\ line \o thr \in Seq(Nat)
      BY TxBytes, Zenon DEF TxInv
    <2>7. Head(Contents(txq)) \in 1 .. MaxOut /\ Tail(Contents(txq)) \in Seq(Nat)
      BY <2>3, <2>6, SeqPop, Zenon
    <2>8. TxTypes'
      <3>1. thr' \in Seq(1 .. MaxOut) /\ Len(thr') <= 1
        BY <2>1, <2>3, <2>7
      <3> QED  BY <1>1, <2>1, <2>4, <2>6, <3>1, Zenon DEF TxInv, TxTypes
    <2>9. TxOrder'
      <3> DEFINE L == (line \o thr) \o <<Head(Contents(txq))>>
      <3>1. L \o Tail(Contents(txq)) = (line \o thr) \o Contents(txq)
        BY <2>3, <2>6, MoveFirst, Zenon
      <3>2. L \in Seq(Nat)
        <4>1. <<Head(Contents(txq))>> \in Seq(Nat)
          BY <2>7
        <4> QED  BY <2>6, <4>1, SeqJoin, Zenon
      <3>3. line' \o thr' = L
        BY <2>1, <2>3, Zenon
      <3> HIDE DEF L
      <3>4. L \o Append(Tail(Contents(txq)), out + 1) = Numbers(0, out + 1)
        BY <2>7, <3>1, <3>2, OneMore, Zenon DEF TxInv
      <3> QED  BY <1>1, <2>4, <3>3, <3>4, Zenon DEF TxOrder
    <2> QED  BY <1>1, <2>5, <2>8, <2>9, Zenon DEF TxInv, TxBound, TxPoll
  <1>4. CASE ~intq_full(txq)
    <2>1. txq' = intq_putc(txq, out + 1) /\ UNCHANGED <<pc, thr, line>>
      BY <1>4, Zenon DEF SerialPutcOff, Enqueue
    <2>2. txq.not_full = NULL
      BY <1>4, Zenon DEF TxInv, TxWait
    <2>3. /\ txq' \in IntQueueOf(Thread, 0 .. MaxOut) /\ txq'.not_full = NULL
          /\ Contents(txq') = Append(Contents(txq), out + 1)
      <3>1. /\ intq_putc(txq, out + 1) \in IntQueueOf(Thread, 0 .. MaxOut)
            /\ Contents(intq_putc(txq, out + 1)) = Append(Contents(txq), out + 1)
        BY <1>1, <1>2, <1>4, PutNumber
      <3>2. intq_putc(txq, out + 1).not_full = txq.not_full
        BY <1>1, <1>2, <1>4, PutKeeps, Zenon
      <3> QED  BY <1>1, <1>2, <1>4, <2>1, <2>2, <3>1, <3>2, Zenon
    <2>4. TxTypes'
      BY <1>1, <2>1, <2>3, Zenon DEF TxInv, TxTypes
    <2>5. TxOrder'
      <3>1. (line \o thr) \o Append(Contents(txq), out + 1) = Numbers(0, out + 1)
        BY OneMore, TxBytes, Zenon DEF TxInv
      <3> QED  BY <1>1, <2>1, <2>3, <3>1, Zenon DEF TxOrder
    <2>6. TxWait'
      <3>1. \A t \in Thread : pc[t] # "putc_wait"
        BY <2>2, SerialAssumption, Zenon DEF TxInv, TxWait, Thread
      <3> QED  BY <1>1, <2>1, <2>3, <3>1, Zenon DEF TxInv, TxWait
    <2>7. Waiting' = Waiting
      BY <2>1, Zenon DEF Waiting
    <2> QED  BY <1>1, <2>4, <2>5, <2>6, <2>7, Zenon DEF TxInv, TxBound, TxPoll
  <1> QED  BY <1>3, <1>4, Zenon

\* serial_flush: all but the last byte go out, the last one is in the register.
LEMMA FlushStep ==
  ASSUME SerialInv, serial_flush
  PROVE  TxInv'
  <1> USE DEF SerialInv
  <1>1. CASE intq_empty(txq)
    BY <1>1, TxFrame DEF serial_flush
  <1>2. CASE ~intq_empty(txq)
    <2> DEFINE C == Contents(txq)
               sent == thr \o C
               n == Len(sent)
               front == SubSeq(sent, 1, n - 1)
               r == [txq EXCEPT !.tail = txq.head, !.not_full = NULL]
    <2>1. /\ txq' = r /\ line' = line \o front /\ thr' = <<sent[n]>>
          /\ pc' = Unblock(pc, txq.not_full) /\ UNCHANGED <<mode, out, console>>
      BY <1>2, Zenon DEF serial_flush
    <2>2. txq \in IntQueueOf(Thread, 0 .. MaxOut)
      BY Zenon DEF TxInv, TxTypes
    <2>3. r \in IntQueueOf(Thread, 0 .. MaxOut) /\ r.not_full = NULL /\ intq_empty(r)
      BY <2>2, Zenon DEF IntQueueOf, intq_empty
    <2>4. Contents(r) = <<>>
      BY <2>3, ContentsSeq, Zenon
    <2>5. /\ C \in Seq(1 .. MaxOut) /\ thr \in Seq(1 .. MaxOut) /\ line \in Seq(1 .. MaxOut)
          /\ C \in Seq(Nat) /\ thr \in Seq(Nat) /\ line \in Seq(Nat) /\ Len(C) > 0 /\ Len(C) \in Nat
      <3>1. C # <<>>
        BY <1>2, <2>2, ContentsSeq, Zenon
      <3> QED  BY <3>1, TxBytes, SeqLen DEF TxInv, TxTypes
    <2> HIDE DEF C, r
    <2>6. sent \in Seq(1 .. MaxOut) /\ sent \in Seq(Nat) /\ n \in Nat /\ n >= 1
      <3>1. sent \in Seq(1 .. MaxOut) /\ sent \in Seq(Nat)
        BY <2>5, SeqJoin, Zenon
      <3>2. n = Len(thr) + Len(C) /\ Len(thr) \in Nat
        BY <2>5, SeqJoin, SeqLen
      <3> QED  BY <2>5, <3>1, <3>2
    <2> HIDE DEF sent, n
    <2>7. front \in Seq(1 .. MaxOut) /\ sent[n] \in 1 .. MaxOut
      <3>1. \A i \in 1 .. n : sent[i] \in 1 .. MaxOut
        BY <2>6, SeqLen, Zenon DEF n
      <3>2. n - 1 \in 0 .. Len(sent)
        BY <2>6 DEF n
      <3>3. front \in Seq(1 .. MaxOut)
        BY <2>6, <3>2, PrefixIs, Zenon
      <3> QED  BY <2>6, <3>1, <3>3
    <2>8. front \o <<sent[n]>> = sent
      <3>1. n \in 1 .. Len(sent)
        BY <2>6 DEF n
      <3>2. SubSeq(sent, 1, n) = SubSeq(sent, 1, n - 1) \o <<sent[n]>>
        BY <2>6, <3>1, PrefixGrows, Zenon
      <3> QED  BY <2>6, <3>2, PrefixFull, Zenon DEF n
    <2> HIDE DEF front
    <2>9. <<sent[n]>> \in Seq(1 .. MaxOut) /\ Len(<<sent[n]>>) <= 1 /\ line \o front \in Seq(1 .. MaxOut)
      BY <2>5, <2>7, SeqJoin
    <2>10. TxTypes'
      BY <2>1, <2>3, <2>9, Zenon DEF TxInv, TxTypes
    <2>11. TxOrder'
      <3>1. (line \o front) \o <<sent[n]>> = line \o (front \o <<sent[n]>>)
        BY <2>5, <2>7, <2>9, JoinAssoc, SMTT(30)
      <3>2. line \o sent = (line \o thr) \o C
        <4>1. (line \o thr) \o C = line \o (thr \o C)
          BY <2>5, JoinAssoc, SMTT(30)
        <4> QED  BY <4>1, Zenon DEF sent
      <3>3. line' \o thr' = Numbers(0, out)
        BY <2>1, <2>8, <3>1, <3>2, Zenon DEF TxInv, TxOrder, C
      <3>4. Numbers(0, out) \o <<>> = Numbers(0, out)
        <4>1. Numbers(0, out) \in Seq(Nat)
          BY TxBytes, NumbersSeq, Zenon DEF TxInv
        <4> QED  BY <4>1, JoinEmpty, Zenon
      <3>5. (line' \o thr') \o Contents(txq') = Numbers(0, out')
        BY <2>1, <2>4, <3>3, <3>4, Zenon
      <3> QED  BY <3>5, Zenon DEF TxOrder
    <2>12. TxWait' /\ Waiting' = Waiting
      BY <1>2, <2>1, <2>3, UnblockWriter, TxWoken, Zenon DEF PcInv
    <2>13. TxPoll' /\ TxBound'
      BY <2>1, <2>3, <2>12, Zenon DEF TxInv, TxPoll, TxBound
    <2> QED  BY <2>10, <2>11, <2>12, <2>13, Zenon DEF TxInv
  <1> QED  BY <1>1, <1>2, Zenon

\* The port sends the byte in the holding register.
LEMMA ShiftStep ==
  ASSUME SerialInv, ShiftOut
  PROVE  TxInv'
  <1> USE DEF SerialInv, ShiftOut
  <1>1. line \o thr \in Seq(1 .. MaxOut)
    BY TxBytes, Zenon DEF TxInv
  <1>2. TxTypes'
    BY <1>1 DEF TxInv, TxTypes
  <1>3. (line \o thr) \o <<>> = line \o thr
    BY <1>1, JoinEmpty, Zenon
  <1>4. TxOrder'
    BY <1>3, Zenon DEF TxInv, TxOrder
  <1>5. TxWait' /\ TxBound' /\ TxPoll'
    BY Zenon DEF TxInv, TxWait, TxBound, TxPoll, Waiting
  <1> QED  BY <1>2, <1>4, <1>5, Zenon DEF TxInv

\* serial_interrupt moves the oldest byte from the queue to the free register.
LEMMA SendStep ==
  ASSUME SerialInv, thr = <<>>, ~intq_empty(txq),
         thr' = <<intq_front(txq)>>, txq' = intq_getc(txq), UNCHANGED <<mode, line, out, console>>,
         \A t \in Thread : IF t = txq.not_full THEN pc'[t] = "putc_woken"
                           ELSE pc'[t] = pc[t] \/ (pc[t] \notin Printing /\ pc'[t] \notin Printing),
         mode = "QUEUE"
  PROVE  TxInv'
  <1> USE DEF SerialInv
  <1> DEFINE C == Contents(txq)
  <1>1. txq \in IntQueueOf(Thread, 0 .. MaxOut)
    BY Zenon DEF TxInv, TxTypes
  <1>2. /\ txq' \in IntQueueOf(Thread, 0 .. MaxOut) /\ txq'.not_full = NULL
        /\ C # <<>> /\ intq_front(txq) = Head(C) /\ Contents(txq') = Tail(C)
    BY <1>1, GetTails, GetKeeps, Zenon
  <1>3. /\ C \in Seq(1 .. MaxOut) /\ C \in Seq(Nat) /\ line \in Seq(Nat)
        /\ line \o <<>> = line
    BY TxBytes, JoinEmpty, Zenon DEF TxInv, TxTypes
  <1>4. Head(C) \in 1 .. MaxOut
    BY <1>2, <1>3, SeqPop, Zenon
  <1> HIDE DEF C
  <1>5. TxTypes'
    <2>1. <<Head(C)>> \in Seq(1 .. MaxOut) /\ Len(<<Head(C)>>) <= 1
      BY <1>4
    <2> QED  BY <1>2, <2>1, Zenon DEF TxInv, TxTypes
  <1>6. TxOrder'
    <2>1. (line \o <<Head(C)>>) \o Tail(C) = line \o C
      BY <1>2, <1>3, MoveFirst, Zenon
    <2>2. line \o C = Numbers(0, out)
      BY <1>3, Zenon DEF TxInv, TxOrder, C
    <2> QED  BY <1>2, <2>1, <2>2, Zenon DEF TxOrder
  <1>7. TxWait' /\ Waiting' = Waiting
    BY <1>2, TxWoken, Zenon DEF PcInv
  <1> QED  BY <1>5, <1>6, <1>7, Zenon DEF TxInv, TxPoll, TxBound

-----------------------------------------------------------------------------
(* The input side. *)

Reading == {"getc_wait", "getc_woken"}

LEMMA RxFrame ==
  ASSUME RxInv, UNCHANGED <<buffer, rbr, in, got>>,
         \A t \in Thread : pc'[t] = pc[t] \/ (pc[t] \notin Reading /\ pc'[t] \notin Reading)
  PROVE  RxInv'
  <1>1. RxTypes' /\ RxOrder'
    BY Zenon DEF RxInv, RxTypes, RxOrder
  <1>2. buffer.not_empty # NULL => buffer.not_empty \in Thread
    BY Zenon DEF RxInv, RxTypes, IntQueueOf
  <1>3. RxWait'
    BY <1>2, Zenon DEF RxInv, RxWait, Reading
  <1> QED  BY <1>1, <1>3, Zenon DEF RxInv

LEMMA RxNumbers ==
  ASSUME RxInv
  PROVE  /\ buffer \in IntQueueOf(Thread, 0 .. MaxIn)
         /\ in \in Nat /\ got \in Nat /\ MaxIn \in Nat /\ got <= in /\ in <= MaxIn
         /\ in - got \in Nat /\ (~intq_empty(buffer) => in - got > 0)
  <1>1. /\ buffer \in IntQueueOf(Thread, 0 .. MaxIn)
        /\ in \in Nat /\ got \in Nat /\ MaxIn \in Nat /\ got <= in /\ in <= MaxIn
        /\ in - got \in Nat
    BY SerialAssumption DEF RxInv, RxTypes
  <1>2. ASSUME ~intq_empty(buffer)  PROVE in - got > 0
    <2>1. Len(Contents(buffer)) = in - got
      <3> PICK n \in Nat : n = in - got
        BY <1>1, Zenon
      <3>1. Len(Numbers(got, n)) = n
        BY <1>1, NumbersSeq, Zenon
      <3> QED  BY <3>1, Zenon DEF RxInv, RxOrder
    <2>2. Contents(buffer) # <<>> /\ Contents(buffer) \in Seq(0 .. MaxIn)
      BY <1>1, <1>2, ContentsSeq, Zenon
    <2> QED  BY <2>1, <2>2, SeqLen
  <1> QED  BY <1>1, <1>2, Zenon

\* A key is stored, by the keyboard or by the serial interrupt, and the reader
\* that waits for it is unblocked.
LEMMA StoreKey ==
  ASSUME SerialInv, ~intq_full(buffer), in < MaxIn,
         buffer' = intq_putc(buffer, in + 1), in' = in + 1, got' = got,
         rbr' \in BOOLEAN, rbr' => in + 1 < MaxIn,
         \A t \in Thread : IF t = buffer.not_empty THEN pc'[t] = "getc_woken"
                           ELSE pc'[t] = pc[t] \/ (pc[t] \notin Reading /\ pc'[t] \notin Reading)
  PROVE  RxInv'
  <1> USE DEF SerialInv
  <1>1. /\ buffer \in IntQueueOf(Thread, 0 .. MaxIn)
        /\ in \in Nat /\ got \in Nat /\ MaxIn \in Nat /\ got <= in /\ in <= MaxIn /\ in - got \in Nat
    BY RxNumbers, Zenon
  <1>2. in + 1 <= MaxIn
    BY <1>1
  <1>3. /\ buffer' \in IntQueueOf(Thread, 0 .. MaxIn)
        /\ Contents(buffer') = Append(Contents(buffer), in + 1)
    BY <1>1, <1>2, PutNumber, Zenon
  <1>4. buffer'.not_empty = NULL /\ buffer'.lock = buffer.lock
    BY <1>1, PutKeeps
  <1>5. RxTypes'
    <2>1. in' \in 0 .. MaxIn /\ got' \in 0 .. in'
      BY <1>1, <1>2
    <2>2. rbr' => in' < MaxIn
      BY Zenon
    <2> QED  BY <1>3, <2>1, <2>2, Zenon DEF RxTypes
  <1>6. RxOrder'
    <2>1. Append(Numbers(got, in - got), got + (in - got) + 1) = Numbers(got, (in - got) + 1)
      BY <1>1, NumbersAppend, Zenon
    <2>2. got + (in - got) + 1 = in + 1 /\ (in - got) + 1 = in' - got'
      BY <1>1
    <2>3. Contents(buffer) = Numbers(got, in - got)
      BY Zenon DEF RxInv, RxOrder
    <2> QED  BY <1>3, <2>1, <2>2, <2>3, Zenon DEF RxOrder
  <1>7. RxWait'
    <2>1. \A t \in Thread : t = buffer.not_empty => pc[t] = "getc_wait"
      BY SerialAssumption, Zenon DEF RxInv, RxWait, Thread
    <2>2. \A t \in Thread : pc'[t] # "getc_wait"
      BY <2>1, Zenon DEF RxInv, RxWait, Reading
    <2>3. \A t \in Thread : pc'[t] = "getc_woken" => buffer.lock = t
      BY <2>1, Zenon DEF RxInv, RxWait, Reading
    <2> QED  BY <1>4, <2>2, <2>3, Zenon DEF RxWait
  <1> QED  BY <1>5, <1>6, <1>7, Zenon DEF RxInv

\* One turn of the loop in intq_getc; rx is the buffer without the lock, if t
\* had it.
LEMMA GetcLoop ==
  ASSUME SerialInv, NEW t \in Thread, NEW rx \in IntQueueOf(Thread, 0 .. MaxIn),
         rx.buf = buffer.buf, rx.head = buffer.head, rx.tail = buffer.tail,
         rx.not_empty = buffer.not_empty,
         \A u \in Thread \ {t} : pc[u] = "getc_woken" => rx.lock = u,
         intq_empty(buffer) => \A u \in Thread \ {t} : pc[u] # "getc_wait" /\ pc[u] # "getc_woken",
         pc[t] \in {"run", "getc_woken", "getc_lock"},
         getc_loop(t, rx), UNCHANGED <<rbr, in>>
  PROVE  RxInv'
  <1> USE DEF SerialInv
  <1>1. /\ buffer \in IntQueueOf(Thread, 0 .. MaxIn)
        /\ in \in Nat /\ got \in Nat /\ MaxIn \in Nat /\ got <= in /\ in <= MaxIn /\ in - got \in Nat
        /\ ~intq_empty(buffer) => in - got > 0
    BY RxNumbers, Zenon
  <1>2. Contents(rx) = Contents(buffer) /\ (intq_empty(rx) <=> intq_empty(buffer))
    BY SameContents, Zenon
  <1>3. Contents(buffer) = Numbers(got, in - got)
    BY Zenon DEF RxInv, RxOrder
  <1>4. pc \in [Thread -> PC]
    BY Zenon DEF PcInv
  <1>5. CASE ~intq_empty(rx)
    <2>1. buffer' = intq_getc(rx) /\ got' = got + 1 /\ pc' = [pc EXCEPT ![t] = "run"]
      BY <1>5, Zenon DEF getc_loop
    <2>2. /\ buffer' \in IntQueueOf(Thread, 0 .. MaxIn)
          /\ Contents(buffer') = Tail(Contents(rx))
      BY <1>5, <2>1, GetTails, Zenon
    <2>3. buffer'.not_empty = buffer.not_empty /\ buffer'.lock = rx.lock
      BY <2>1, GetKeeps
    <2>4. in - got > 0 /\ (in - got) - 1 = in' - got' /\ got' \in 0 .. in'
      BY <1>1, <1>2, <1>5, <2>1
    <2>5. RxTypes'
      BY <2>2, <2>4, Zenon DEF RxInv, RxTypes
    <2>6. RxOrder'
      <3>1. Tail(Numbers(got, in - got)) = Numbers(got + 1, (in - got) - 1)
        BY <1>1, <2>4, NumbersTail, Zenon
      <3> QED  BY <1>2, <1>3, <2>1, <2>2, <2>4, <3>1, Zenon DEF RxOrder
    <2>7. RxWait'
      <3>1. buffer.not_empty = NULL
        BY <1>2, <1>5, Zenon DEF RxInv, RxWait
      <3>2. \A u \in Thread : pc[u] # "getc_wait"
        BY <3>1, SerialAssumption, Zenon DEF RxInv, RxWait, Thread
      <3> QED  BY <1>4, <2>1, <2>3, <3>1, <3>2, Zenon DEF RxWait
    <2> QED  BY <2>5, <2>6, <2>7, Zenon DEF RxInv
  <1>6. CASE intq_empty(rx)
    <2>1. buffer' = wait_not_empty(rx, t) /\ got' = got /\ pc' = [pc EXCEPT ![t] = "getc_wait"]
      BY <1>6, Zenon DEF getc_loop
    <2>2. /\ buffer' \in IntQueueOf(Thread, 0 .. MaxIn) /\ buffer'.lock = t /\ buffer'.not_empty = t
          /\ buffer'.buf = buffer.buf /\ buffer'.head = buffer.head /\ buffer'.tail = buffer.tail
      BY <2>1, Zenon DEF wait_not_empty, IntQueueOf
    <2>3. Contents(buffer') = Contents(buffer) /\ intq_empty(buffer')
      BY <1>2, <1>6, <2>2, SameContents, Zenon
    <2>4. RxTypes' /\ RxOrder'
      BY <1>3, <2>1, <2>2, <2>3, Zenon DEF RxInv, RxTypes, RxOrder
    <2>5. RxWait'
      BY <1>2, <1>4, <1>6, <2>1, <2>2, <2>3, Zenon DEF RxWait
    <2> QED  BY <2>4, <2>5, Zenon DEF RxInv
  <1> QED  BY <1>5, <1>6, Zenon

LEMMA GetcStep ==
  ASSUME SerialInv, NEW t \in Reader, InputGetc(t)
  PROVE  RxInv'
  <1> USE DEF SerialInv
  <1>1. t \in Thread /\ UNCHANGED <<rbr, in>> /\ buffer \in IntQueueOf(Thread, 0 .. MaxIn)
    BY Zenon DEF InputGetc, Thread, RxInv, RxTypes
  <1>2. CASE /\ pc[t] = "run" /\ (buffer.lock = NULL \/ ~intq_empty(buffer)) /\ getc_loop(t, buffer)
    <2>1. intq_empty(buffer) => \A u \in Thread : pc[u] # "getc_wait" /\ pc[u] # "getc_woken"
      BY <1>2, SerialAssumption, Zenon DEF RxInv, RxWait, Thread
    <2> QED  BY <1>1, <1>2, <2>1, GetcLoop, Zenon DEF RxInv, RxWait
  <1>3. CASE pc[t] = "getc_woken" /\ getc_loop(t, [buffer EXCEPT !.lock = NULL])
    <2>1. \A u \in Thread \ {t} : pc[u] # "getc_wait" /\ pc[u] # "getc_woken"
      BY <1>1, <1>3, Zenon DEF RxInv, RxWait
    <2> DEFINE rx == [buffer EXCEPT !.lock = NULL]
    <2>2. /\ rx \in IntQueueOf(Thread, 0 .. MaxIn)
          /\ rx.buf = buffer.buf /\ rx.head = buffer.head /\ rx.tail = buffer.tail
          /\ rx.not_empty = buffer.not_empty
      BY <1>1, Zenon DEF IntQueueOf
    <2>3. getc_loop(t, rx)
      BY <1>3, Zenon
    <2> HIDE DEF rx
    <2> QED  BY <1>1, <1>3, <2>1, <2>2, <2>3, GetcLoop, Zenon
  <1> QED  BY <1>2, <1>3, Zenon DEF InputGetc

LEMMA GetcLockedStep ==
  ASSUME SerialInv, NEW t \in Reader, InputGetcLocked(t)
  PROVE  RxInv'
  <1> USE DEF SerialInv
  <1>1. /\ t \in Thread /\ UNCHANGED <<rbr, in, got>> /\ buffer \in IntQueueOf(Thread, 0 .. MaxIn)
        /\ buffer.lock = NULL /\ pc[t] = "getc_lock"
    BY Zenon DEF InputGetcLocked, Thread, RxInv, RxTypes, inVars
  <1>2. /\ \A u \in Thread : pc[u] # "getc_wait" /\ pc[u] # "getc_woken"
    BY <1>1, SerialAssumption, Zenon DEF RxInv, RxWait, Thread
  <1>3. /\ buffer' \in IntQueueOf(Thread, 0 .. MaxIn) /\ buffer'.lock = t
        /\ buffer'.buf = buffer.buf /\ buffer'.head = buffer.head /\ buffer'.tail = buffer.tail
        /\ buffer'.not_empty = IF intq_empty(buffer) THEN t ELSE buffer.not_empty
        /\ pc' = [pc EXCEPT ![t] = IF intq_empty(buffer) THEN "getc_wait" ELSE "assert"]
    BY <1>1, Zenon DEF InputGetcLocked, wait_not_empty, IntQueueOf
  <1>4. Contents(buffer') = Contents(buffer) /\ (intq_empty(buffer') <=> intq_empty(buffer))
    BY <1>3, SameContents, Zenon
  <1>5. RxTypes' /\ RxOrder'
    BY <1>1, <1>3, <1>4, Zenon DEF RxInv, RxTypes, RxOrder
  <1>6. RxWait'
    BY <1>1, <1>2, <1>3, <1>4, Zenon DEF RxInv, RxWait, PcInv
  <1> QED  BY <1>5, <1>6, Zenon DEF RxInv

-----------------------------------------------------------------------------
(* The interrupt enable register. *)

LEMMA IerWritten ==
  ASSUME ier' = write_ier(txq', buffer')
  PROVE  IerInv'
  <1>1. /\ ier' \subseteq {"XMIT", "RECV"}
        /\ ~intq_empty(txq') => "XMIT" \in ier'
        /\ "RECV" \in ier' <=> ~intq_full(buffer')
    BY Zenon DEF write_ier
  <1> QED  BY <1>1, Zenon DEF IerInv

LEMMA IerKept ==
  ASSUME IerInv, ier' = ier, mode' = mode, pc'[Main] = pc[Main] \/ pc[Main] # "init_queue",
         intq_empty(txq) => intq_empty(txq'), intq_full(buffer') <=> intq_full(buffer)
  PROVE  IerInv'
  BY Zenon DEF IerInv, Booted

LEMMA IerNotified ==
  ASSUME IerInv, serial_notify(txq', buffer'), mode' = mode
  PROVE  IerInv'
  <1>1. CASE mode = "QUEUE"
    BY <1>1, IerWritten, Zenon DEF serial_notify
  <1>2. CASE mode # "QUEUE"
    BY <1>2, Zenon DEF serial_notify, IerInv, Booted
  <1> QED  BY <1>1, <1>2, Zenon

-----------------------------------------------------------------------------
(* The steps. *)

\* What Unblock does to the reader that waits for a key, if there is one.
LEMMA UnblockReader ==
  ASSUME SerialInv
  PROVE  \A t \in Thread : Unblock(pc, buffer.not_empty)[t] = IF t = buffer.not_empty THEN "getc_woken" ELSE pc[t]
  BY SerialAssumption, Zenon DEF Unblock, SerialInv, RxInv, RxWait, Thread

LEMMA UnblockType ==
  ASSUME NEW p \in [Thread -> PC], NEW w
  PROVE  Unblock(p, w) \in [Thread -> PC]
  BY Zenon DEF Unblock, PC

LEMMA MainThread == Main \in Thread
  BY SerialAssumption, Zenon DEF Thread

\* Who waits in one queue does not wait in the other.
LEMMA WaiterStates ==
  ASSUME SerialInv, NEW t \in Thread
  PROVE  /\ t = txq.not_full => pc[t] = "putc_wait"
         /\ t = buffer.not_empty => pc[t] = "getc_wait"
  BY SerialAssumption, Zenon DEF SerialInv, TxInv, TxWait, RxInv, RxWait, Thread

LEMMA StepConsole ==
  ASSUME SerialInv, NEW t \in Writer, AcquireConsole(t) \/ ReleaseConsole(t)
  PROVE  SerialInv'
  <1> USE DEF SerialInv
  <1>1. /\ t \in Thread /\ pc[t] \in {"run", "print"} /\ UNCHANGED <<mode, txq, buffer, ier, rbr, in, got, panic>>
        /\ \E s \in {"run", "print"} : pc' = [pc EXCEPT ![t] = s]
    BY Zenon DEF AcquireConsole, ReleaseConsole, Thread, inVars
  <1>2. PcInv' /\ \A u \in Thread : pc'[u] = pc[u] \/ (u = t /\ pc'[u] \in {"run", "print"})
    BY <1>1, Zenon DEF PcInv, PC
  <1>3. RxInv'
    BY <1>1, <1>2, RxFrame, Zenon DEF Reading
  <1>4. IerInv'
    BY <1>1, <1>2, IerKept, MainThread, Zenon
  <1> QED  BY <1>2, <1>3, <1>4, ConsoleStep, Zenon

LEMMA StepPutc ==
  ASSUME Counting, SerialInv, NEW t \in Writer, SerialPutc(t)
  PROVE  SerialInv'
  <1> USE DEF SerialInv
  <1>1. /\ t \in Thread /\ pc[t] \in {"putc_woken", "print"} /\ UNCHANGED <<mode, buffer, rbr, in, got, panic>>
        /\ \E s \in {"putc_wait", "print"} : pc' = [pc EXCEPT ![t] = s]
    BY Zenon DEF SerialPutc, Thread, inVars
  <1>2. PcInv' /\ \A u \in Thread : pc'[u] = pc[u] \/ (u = t /\ pc'[u] \in {"putc_wait", "print"})
    BY <1>1, Zenon DEF PcInv, PC
  <1>3. RxInv'
    BY <1>1, <1>2, RxFrame, Zenon DEF Reading
  <1>4. IerInv'
    <2>1. CASE intq_full(txq)
      <3>1. ier' = ier /\ txq' = wait_not_full(txq, t) /\ txq \in IntQueueOf(Thread, 0 .. MaxOut)
        BY <2>1, Zenon DEF SerialPutc, TxInv, TxTypes
      <3>2. intq_empty(txq) => intq_empty(txq')
        BY <3>1, Zenon DEF wait_not_full, intq_empty, IntQueueOf
      <3> QED  BY <1>1, <1>2, <3>1, <3>2, IerKept, MainThread, Zenon
    <2>2. CASE ~intq_full(txq)
      <3>1. ier' = write_ier(txq', buffer')
        BY <1>1, <2>2, Zenon DEF SerialPutc, Enqueue
      <3> QED  BY <3>1, IerWritten, Zenon
    <2> QED  BY <2>1, <2>2, Zenon
  <1> QED  BY <1>2, <1>3, <1>4, PutcStep, Zenon

LEMMA StepPutcPoll ==
  ASSUME Counting, SerialInv, SerialPutcPoll
  PROVE  SerialInv'
  <1> USE DEF SerialInv, SerialPutcPoll, inVars
  <1>1. PcInv'
    BY Zenon DEF PcInv
  <1>2. RxInv'
    BY RxFrame, Zenon
  <1>3. IerInv'
    BY Zenon DEF IerInv, Booted
  <1> QED  BY <1>1, <1>2, <1>3, PutcPollStep, Zenon

LEMMA StepPutcOff ==
  ASSUME Counting, SerialInv, SerialPutcOff
  PROVE  SerialInv'
  <1> USE DEF SerialInv
  <1>1. /\ UNCHANGED <<buffer, rbr, in, got, panic>> /\ ier' = write_ier(txq', buffer')
        /\ pc' = pc \/ pc' = Unblock(pc, txq.not_full)
    BY Zenon DEF SerialPutcOff, Enqueue, inVars
  <1>2. PcInv'
    BY <1>1, UnblockType, Zenon DEF PcInv
  <1>3. \A t \in Thread : pc'[t] = pc[t] \/ (pc[t] \notin Reading /\ pc'[t] \notin Reading)
    BY <1>1, UnblockWriter, WaiterStates, Zenon DEF Reading
  <1>4. RxInv'
    BY <1>1, <1>3, RxFrame, Zenon
  <1>5. IerInv'
    BY <1>1, IerWritten, Zenon
  <1> QED  BY <1>2, <1>4, <1>5, PutcOffStep, Zenon

LEMMA StepFlush ==
  ASSUME SerialInv, serial_flush
  PROVE  SerialInv'
  <1> USE DEF SerialInv
  <1>1. /\ UNCHANGED <<mode, buffer, ier, rbr, in, got, panic>>
        /\ pc' = pc \/ pc' = Unblock(pc, txq.not_full)
    BY Zenon DEF serial_flush, inVars
  <1>2. PcInv'
    BY <1>1, UnblockType, Zenon DEF PcInv
  <1>3. \A t \in Thread : pc'[t] = pc[t] \/ (pc[t] = "putc_wait" /\ pc'[t] = "putc_woken")
    BY <1>1, UnblockWriter, WaiterStates, Zenon
  <1>4. RxInv'
    BY <1>1, <1>3, RxFrame, Zenon DEF Reading
  <1>5. intq_empty(txq')
    <2>1. txq \in IntQueueOf(Thread, 0 .. MaxOut)
      BY Zenon DEF TxInv, TxTypes
    <2> QED  BY <2>1, Zenon DEF serial_flush, intq_empty, IntQueueOf
  <1>6. IerInv'
    BY <1>1, <1>3, <1>5, IerKept, MainThread, Zenon
  <1> QED  BY <1>2, <1>4, <1>6, FlushStep, Zenon

LEMMA StepInitQueue ==
  ASSUME SerialInv, SerialInitQueue \/ SerialInitQueueIer
  PROVE  SerialInv'
  <1> USE DEF SerialInv
  <1>1. /\ UNCHANGED <<buffer, rbr, in, got, panic>> /\ Main \in Thread
        /\ pc[Main] \in {"run", "init_queue"}
        /\ \E s \in {"run", "init_queue"} : pc' = [pc EXCEPT ![Main] = s]
    BY MainThread, Zenon DEF SerialInitQueue, SerialInitQueueIer, inVars
  <1>2. PcInv' /\ \A u \in Thread : pc'[u] = pc[u] \/ (pc[u] \in {"run", "init_queue"} /\ pc'[u] \in {"run", "init_queue"})
    BY <1>1, Zenon DEF PcInv, PC
  <1>3. RxInv'
    BY <1>1, <1>2, RxFrame, Zenon DEF Reading
  <1>4. CASE SerialInitQueue
    <2>1. ier' = ier /\ pc'[Main] = "init_queue"
      BY <1>1, <1>4, Zenon DEF SerialInitQueue, PcInv
    <2>2. IerInv'
      BY <2>1, Zenon DEF IerInv, Booted
    <2> QED  BY <1>2, <1>3, <1>4, <2>2, InitQueueStep, Zenon
  <1>5. CASE SerialInitQueueIer
    <2>1. ier' = write_ier(txq', buffer') /\ UNCHANGED <<mode, txq, thr, line, out, console>>
      BY <1>5, Zenon DEF SerialInitQueueIer, txVars
    <2>2. TxInv'
      BY <1>2, <2>1, TxFrame, Zenon DEF Printing
    <2> QED  BY <1>2, <1>3, <2>1, <2>2, IerWritten, Zenon
  <1> QED  BY <1>4, <1>5, Zenon

LEMMA StepGetc ==
  ASSUME SerialInv, NEW t \in Reader, InputGetc(t)
  PROVE  SerialInv'
  <1> USE DEF SerialInv
  <1>1. /\ t \in Thread /\ pc[t] \in {"run", "getc_woken"}
        /\ UNCHANGED <<mode, txq, thr, line, out, console, panic>>
        /\ \E s \in {"run", "getc_wait"} : pc' = [pc EXCEPT ![t] = s]
    BY Zenon DEF InputGetc, Thread, txVars, getc_loop
  <1>2. PcInv' /\ \A u \in Thread : pc'[u] = pc[u] \/ (u = t /\ pc'[u] \in {"run", "getc_wait"})
    BY <1>1, Zenon DEF PcInv, PC
  <1>3. TxInv'
    BY <1>1, <1>2, TxFrame, Zenon DEF Printing
  <1>4. PICK rx \in {buffer, [buffer EXCEPT !.lock = NULL]} : getc_loop(t, rx)
    BY Zenon DEF InputGetc
  <1>5. IerInv'
    <2>1. CASE ~intq_empty(rx)
      <3>1. serial_notify(txq', buffer')
        BY <1>1, <1>4, <2>1, Zenon DEF getc_loop
      <3> QED  BY <1>1, <3>1, IerNotified, Zenon
    <2>2. CASE intq_empty(rx)
      <3>1. ier' = ier /\ buffer' = wait_not_empty(rx, t) /\ buffer \in IntQueueOf(Thread, 0 .. MaxIn)
        BY <1>4, <2>2, Zenon DEF getc_loop, RxInv, RxTypes
      <3>2. buffer'.head = buffer.head /\ buffer'.tail = buffer.tail
        BY <1>4, <3>1, Zenon DEF wait_not_empty, IntQueueOf
      <3>3. intq_full(buffer') <=> intq_full(buffer)
        BY <3>2, Zenon DEF intq_full
      <3> QED  BY <1>1, <1>2, <3>1, <3>3, IerKept, MainThread, Zenon
    <2> QED  BY <2>1, <2>2, Zenon
  <1> QED  BY <1>2, <1>3, <1>5, GetcStep, Zenon

LEMMA StepGetcBlocks ==
  ASSUME SerialInv, NEW t \in Reader, InputGetcBlocks(t)
  PROVE  SerialInv'
  <1> USE DEF SerialInv
  <1>1. /\ t \in Thread /\ pc[t] = "run" /\ pc' = [pc EXCEPT ![t] = "getc_lock"]
        /\ UNCHANGED <<mode, txq, buffer, ier, thr, line, out, rbr, in, got, console, panic>>
    BY Zenon DEF InputGetcBlocks, Thread, txVars, inVars
  <1>2. PcInv' /\ \A u \in Thread : pc'[u] = pc[u] \/ (u = t /\ pc'[u] = "getc_lock")
    BY <1>1, Zenon DEF PcInv, PC
  <1>3. TxInv' /\ RxInv'
    BY <1>1, <1>2, TxFrame, RxFrame, Zenon DEF Printing, Reading
  <1>4. IerInv'
    BY <1>1, <1>2, IerKept, MainThread, Zenon
  <1> QED  BY <1>2, <1>3, <1>4, Zenon

LEMMA StepGetcLocked ==
  ASSUME SerialInv, NEW t \in Reader, InputGetcLocked(t)
  PROVE  SerialInv'
  <1> USE DEF SerialInv
  <1>1. /\ t \in Thread /\ pc[t] = "getc_lock" /\ \E s \in {"getc_wait", "assert"} : pc' = [pc EXCEPT ![t] = s]
        /\ UNCHANGED <<mode, txq, ier, thr, line, out, console>>
        /\ panic' \in {panic, t}
        /\ buffer' \in {wait_not_empty(buffer, t), [buffer EXCEPT !.lock = t]}
    BY Zenon DEF InputGetcLocked, Thread, txVars
  <1>2. PcInv' /\ \A u \in Thread : pc'[u] = pc[u] \/ (u = t /\ pc'[u] \in {"getc_wait", "assert"})
    BY <1>1, Zenon DEF PcInv, PC
  <1>3. TxInv'
    BY <1>1, <1>2, TxFrame, Zenon DEF Printing
  <1>4. IerInv'
    <2>1. buffer \in IntQueueOf(Thread, 0 .. MaxIn)
      BY Zenon DEF RxInv, RxTypes
    <2>2. buffer'.head = buffer.head /\ buffer'.tail = buffer.tail
      BY <1>1, <2>1, Zenon DEF wait_not_empty, IntQueueOf
    <2>3. intq_full(buffer') <=> intq_full(buffer)
      BY <2>2, Zenon DEF intq_full
    <2> QED  BY <1>1, <1>2, <2>3, IerKept, MainThread, Zenon
  <1> QED  BY <1>2, <1>3, <1>4, GetcLockedStep, Zenon

LEMMA StepKeyboard ==
  ASSUME SerialInv, KeyboardInterrupt
  PROVE  SerialInv'
  <1> USE DEF SerialInv
  <1>1. /\ ~intq_full(buffer) /\ buffer' = intq_putc(buffer, in + 1) /\ in' = in + 1 /\ got' = got
        /\ rbr' = rbr /\ pc' = Unblock(pc, buffer.not_empty) /\ serial_notify(txq', buffer')
        /\ UNCHANGED <<mode, txq, thr, line, out, console, panic>>
    BY Zenon DEF KeyboardInterrupt, txVars
  <1>2. in < MaxIn /\ (rbr => in + 1 < MaxIn) /\ rbr \in BOOLEAN
    <2>1. in + (IF rbr THEN 1 ELSE 0) < MaxIn /\ in \in Nat /\ MaxIn \in Nat /\ rbr \in BOOLEAN
      BY RxNumbers, Zenon DEF KeyboardInterrupt, KeyRoom, RxInv, RxTypes
    <2>2. CASE rbr
      BY <2>1, <2>2
    <2>3. CASE ~rbr
      BY <2>1, <2>3
    <2> QED  BY <2>2, <2>3, Zenon
  <1>3. PcInv'
    BY <1>1, UnblockType, Zenon DEF PcInv
  <1>4. \A t \in Thread : pc'[t] = IF t = buffer.not_empty THEN "getc_woken" ELSE pc[t]
    BY <1>1, UnblockReader, Zenon
  <1>5. RxInv'
    <2>1. rbr' \in BOOLEAN /\ (rbr' => in + 1 < MaxIn)
      BY <1>1, <1>2, Zenon
    <2> QED  BY <1>1, <1>2, <1>4, <2>1, StoreKey, Zenon
  <1>6. TxInv'
    BY <1>1, <1>4, WaiterStates, TxFrame, Zenon DEF Printing
  <1>7. IerInv'
    BY <1>1, IerNotified, Zenon
  <1> QED  BY <1>3, <1>5, <1>6, <1>7, Zenon

LEMMA StepInterrupt ==
  ASSUME SerialInv, SerialInterrupt
  PROVE  SerialInv'
  <1> USE DEF SerialInv
  <1> DEFINE receive == rbr /\ ~intq_full(buffer)
             send == thr = <<>> /\ ~intq_empty(txq)
             p == IF receive THEN Unblock(pc, buffer.not_empty) ELSE pc
             w == IF send THEN txq.not_full ELSE NULL
  <1>1. /\ buffer' = IF receive THEN intq_putc(buffer, in + 1) ELSE buffer
        /\ in' = IF receive THEN in + 1 ELSE in
        /\ rbr' = (rbr /\ ~receive)
        /\ thr' = IF send THEN <<intq_front(txq)>> ELSE thr
        /\ txq' = IF send THEN intq_getc(txq) ELSE txq
        /\ pc' = Unblock(p, w)
        /\ ier' = write_ier(txq', buffer')
        /\ UNCHANGED <<mode, line, out, got, console, panic>>
        /\ mode = "QUEUE"
    BY Zenon DEF SerialInterrupt, SerialPending
  <1>2. p \in [Thread -> PC] /\ \A t \in Thread : p[t] = IF receive /\ t = buffer.not_empty THEN "getc_woken" ELSE pc[t]
    BY UnblockReader, UnblockType, Zenon DEF PcInv
  <1> HIDE DEF p, receive, send, w
  <1>3. PcInv'
    BY <1>1, <1>2, UnblockType, Zenon DEF PcInv
  <1>4. \A t \in Thread : t = w => send /\ t = txq.not_full /\ pc[t] = "putc_wait" /\ p[t] = "putc_wait"
    BY <1>2, WaiterStates, SerialAssumption DEF w, Thread
  <1>5. \A t \in Thread : pc'[t] = IF t = w THEN "putc_woken" ELSE p[t]
    BY <1>1, <1>4, Zenon DEF Unblock
  <1>6. IerInv'
    BY <1>1, IerWritten, Zenon
  <1>7. TxInv'
    <2>1. \A t \in Thread : p[t] = pc[t] \/ (pc[t] \notin Printing /\ p[t] \notin Printing)
      BY <1>2, WaiterStates, Zenon DEF Printing
    <2>2. CASE send
      <3>1. thr = <<>> /\ ~intq_empty(txq) /\ w = txq.not_full
        BY <2>2, Zenon DEF send, w
      <3>2. \A t \in Thread : IF t = txq.not_full THEN pc'[t] = "putc_woken"
                              ELSE pc'[t] = pc[t] \/ (pc[t] \notin Printing /\ pc'[t] \notin Printing)
        BY <1>5, <2>1, <3>1, Zenon
      <3> QED  BY <1>1, <2>2, <3>1, <3>2, SendStep, Zenon
    <2>3. CASE ~send
      <3>1. \A t \in Thread : pc'[t] = p[t]
        BY <1>4, <1>5, <2>3, Zenon
      <3> QED  BY <1>1, <2>1, <2>3, <3>1, TxFrame, Zenon
    <2> QED  BY <2>2, <2>3, Zenon
  <1>8. RxInv'
    <2>1. CASE receive
      <3>1. \A t \in Thread : IF t = buffer.not_empty THEN pc'[t] = "getc_woken"
                              ELSE pc'[t] = pc[t] \/ (pc[t] \notin Reading /\ pc'[t] \notin Reading)
        BY <1>2, <1>4, <1>5, <2>1, Zenon DEF Reading
      <3>2. ~intq_full(buffer) /\ in < MaxIn /\ rbr' = FALSE
        BY <1>1, <2>1, Zenon DEF receive, RxInv, RxTypes
      <3> QED  BY <1>1, <2>1, <3>1, <3>2, StoreKey, Zenon
    <2>2. CASE ~receive
      <3>1. rbr' = rbr
        BY <1>1, <2>2, Zenon DEF RxInv, RxTypes
      <3>2. \A t \in Thread : pc'[t] = pc[t] \/ (pc[t] \notin Reading /\ pc'[t] \notin Reading)
        BY <1>2, <1>4, <1>5, <2>2, Zenon DEF Reading
      <3> QED  BY <1>1, <2>2, <3>1, <3>2, RxFrame, Zenon
    <2> QED  BY <2>1, <2>2, Zenon
  <1> QED  BY <1>3, <1>6, <1>7, <1>8, Zenon

LEMMA StepPort ==
  ASSUME SerialInv, ShiftOut \/ Arrive
  PROVE  SerialInv'
  <1> USE DEF SerialInv, inVars, txVars
  <1>1. PcInv'
    BY Zenon DEF ShiftOut, Arrive, PcInv
  <1>2. IerInv'
    BY Zenon DEF ShiftOut, Arrive, IerInv, Booted
  <1>3. CASE ShiftOut
    <2>1. RxInv'
      BY <1>3, RxFrame, Zenon DEF ShiftOut
    <2> QED  BY <1>1, <1>2, <1>3, <2>1, ShiftStep, Zenon
  <1>4. CASE Arrive
    <2>1. TxInv'
      BY <1>4, TxFrame, Zenon DEF Arrive
    <2>2. rbr' = TRUE /\ UNCHANGED <<buffer, in, got, pc>> /\ ~rbr
      BY <1>4, Zenon DEF Arrive
    <2>3. in < MaxIn
      <3>1. in + (IF rbr THEN 1 ELSE 0) < MaxIn /\ in \in Nat /\ MaxIn \in Nat
        BY <1>4, RxNumbers, Zenon DEF Arrive, KeyRoom
      <3> QED  BY <2>2, <3>1
    <2>4. RxTypes' /\ RxOrder' /\ RxWait'
      BY <2>2, <2>3, Zenon DEF RxInv, RxTypes, RxOrder, RxWait
    <2> QED  BY <1>1, <1>2, <2>1, <2>4, Zenon DEF RxInv
  <1> QED  BY <1>3, <1>4, Zenon

LEMMA StepPanic ==
  ASSUME SerialInv, NEW t \in Thread, Panic(t)
  PROVE  SerialInv'
  <1> USE DEF SerialInv
  <1>1. /\ pc[t] \in {"run", "print"} /\ pc' = [pc EXCEPT ![t] = "panic"] /\ panic' = t
        /\ UNCHANGED <<mode, txq, buffer, ier, thr, line, out, rbr, in, got, console>>
    BY Zenon DEF Panic, txVars, inVars
  <1>2. PcInv' /\ \A u \in Thread : pc'[u] = IF u = t THEN "panic" ELSE pc[u]
    BY <1>1, Zenon DEF PcInv, PC
  <1>3. RxInv'
    BY <1>1, <1>2, RxFrame DEF Reading
  <1>4. IerInv'
    BY <1>1, <1>2, IerKept, MainThread, Zenon
  <1>5. TxInv'
    <2>1. TxTypes' /\ TxOrder' /\ TxPoll'
      BY <1>1, Zenon DEF TxInv, TxTypes, TxOrder, TxPoll
    <2>2. Waiting' = Waiting
      BY <1>1, <1>2 DEF Waiting, Thread
    <2>3. txq.not_full # NULL => txq.not_full \in Thread
      BY Zenon DEF TxInv, TxTypes, IntQueueOf
    <2>4. TxWait'
      BY <1>1, <1>2, <2>3 DEF TxInv, TxWait, Printing
    <2> QED  BY <1>1, <2>1, <2>2, <2>4, Zenon DEF TxInv, TxBound
  <1> QED  BY <1>2, <1>3, <1>4, <1>5, Zenon

-----------------------------------------------------------------------------
(* The theorems. *)

LEMMA InitInv ==
  ASSUME Counting  PROVE Init => SerialInv
  <1> SUFFICES ASSUME Init  PROVE SerialInv
    BY Zenon
  <1> USE DEF Init
  <1>1. PcInv
    BY Zenon DEF PcInv, PC
  <1>2. 0 \in 0 .. MaxOut /\ 0 \in 0 .. MaxIn /\ 0 \in 0 .. INTQ_BUFSIZE - 1
    BY SerialAssumption, IntQueueAssumption
  <1>3. /\ txq \in IntQueueOf(Thread, 0 .. MaxOut) /\ buffer \in IntQueueOf(Thread, 0 .. MaxIn)
        /\ txq.not_full = NULL /\ buffer.not_empty = NULL /\ intq_empty(txq) /\ intq_empty(buffer)
    BY <1>2, Zenon DEF intq_init, IntQueueOf, intq_empty
  <1>4. Contents(txq) = <<>> /\ Contents(buffer) = <<>>
    BY <1>3, ContentsSeq, Zenon
  <1>5. Numbers(0, 0) = <<>>
    <2>1. Numbers(0, 0) \in Seq(Nat) /\ Len(Numbers(0, 0)) = 0
      BY NumbersSeq, Zenon
    <2> QED  BY <2>1, SeqLen, Zenon
  <1>6. <<>> \o <<>> = <<>> /\ <<>> \in Seq(1 .. MaxOut) /\ Len(<<>>) <= 1
    OBVIOUS
  <1>7. TxTypes
    BY <1>2, <1>3, <1>6, Zenon DEF TxTypes
  <1>8. TxOrder
    BY <1>4, <1>5, <1>6, Zenon DEF TxOrder
  <1>9. TxWait /\ TxPoll /\ Waiting = {}
    BY <1>3, Zenon DEF TxWait, TxPoll, Waiting, Thread, Printing
  <1>10. TxBound
    BY <1>9, SerialAssumption DEF TxBound, Counting, CountEmpty
  <1>11. RxInv
    <2>1. RxTypes
      <3>1. rbr \in BOOLEAN /\ ~rbr
        BY Zenon
      <3>2. in \in 0 .. MaxIn /\ got \in 0 .. in
        BY <1>2
      <3> QED  BY <1>3, <3>1, <3>2, Zenon DEF RxTypes
    <2>2. RxOrder
      <3>1. in - got = 0
        OBVIOUS
      <3> QED  BY <1>4, <1>5, <3>1, Zenon DEF RxOrder
    <2>3. RxWait
      BY <1>3, Zenon DEF RxWait
    <2> QED  BY <2>1, <2>2, <2>3, Zenon DEF RxInv
  <1>12. IerInv
    BY Zenon DEF IerInv, Booted
  <1> QED  BY <1>1, <1>7, <1>8, <1>9, <1>10, <1>11, <1>12, Zenon DEF SerialInv, TxInv

LEMMA StepInv ==
  ASSUME Counting  PROVE SerialInv /\ [Next]_vars => SerialInv'
  <1> SUFFICES ASSUME SerialInv, [Next]_vars  PROVE SerialInv'
    BY Zenon
  <1>1. CASE UNCHANGED vars
    <2>1. /\ UNCHANGED <<mode, txq, thr, line, out, console>> /\ UNCHANGED <<buffer, rbr, in, got>>
          /\ UNCHANGED <<pc, panic, ier>>
      BY <1>1, Zenon DEF vars, txVars, inVars
    <2>2. TxInv' /\ RxInv'
      BY <2>1, TxFrame, RxFrame, Zenon DEF SerialInv
    <2>3. PcInv' /\ IerInv'
      BY <2>1, Zenon DEF SerialInv, PcInv, IerInv, Booted
    <2> QED  BY <2>2, <2>3, Zenon DEF SerialInv
  <1>2. CASE \E t \in Writer : AcquireConsole(t) \/ ReleaseConsole(t) \/ SerialPutc(t)
    BY <1>2, StepConsole, StepPutc, Zenon
  <1>3. CASE \E t \in Thread : SerialFlush(t) \/ Panic(t)
    BY <1>3, StepFlush, StepPanic, Zenon DEF SerialFlush
  <1>4. CASE \E t \in Reader : InputGetc(t) \/ InputGetcBlocks(t) \/ InputGetcLocked(t)
    BY <1>4, StepGetc, StepGetcBlocks, StepGetcLocked, Zenon
  <1>5. CASE SerialPutcPoll \/ SerialPutcOff
    BY <1>5, StepPutcPoll, StepPutcOff, Zenon
  <1>6. CASE SerialInitQueue \/ SerialInitQueueIer
    BY <1>6, StepInitQueue, Zenon
  <1>7. CASE KeyboardInterrupt \/ SerialInterrupt
    BY <1>7, StepKeyboard, StepInterrupt, Zenon
  <1>8. CASE ShiftOut \/ Arrive
    BY <1>8, StepPort, Zenon
  <1> QED  BY <1>1, <1>2, <1>3, <1>4, <1>5, <1>6, <1>7, <1>8, Zenon DEF Next

\* The facts on finite sets that the lemmas above assume hold. They are taken
\* from the library only here: in scope earlier they would burden every proof.
INSTANCE FiniteSetTheorems

LEMMA CountingHolds == Counting
  <1>1. CountNat /\ CountEmpty
    BY FS_CardinalityType, FS_EmptySet, Zenon DEF CountNat, CountEmpty
  <1>2. CountAdd /\ CountRemove
    BY FS_AddElement, FS_RemoveElement, Zenon DEF CountAdd, CountRemove
  <1>3. CountSubset
    BY FS_Subset, Zenon DEF CountSubset
  <1> QED  BY <1>1, <1>2, <1>3, Zenon DEF Counting

LEMMA SerialInvariant == Spec => []SerialInv
  <1>1. Init => SerialInv
    BY InitInv, CountingHolds, Zenon
  <1>2. SerialInv /\ [Next]_vars => SerialInv'
    BY StepInv, CountingHolds, Zenon
  <1> QED  BY <1>1, <1>2, PTL DEF Spec

\* Types: a queue's head and tail stay within its buffer, the holding register
\* has one byte at most, and no more keys are read than were accepted.
THEOREM SerialTypes == Spec => []TypeOK
  <1>1. SerialInv => TypeOK
    BY Zenon DEF SerialInv, PcInv, TxInv, TxTypes, RxInv, RxTypes, IerInv, TypeOK
  <1> QED  BY <1>1, SerialInvariant, PTL

\* What has left the port, what is in its register and what is queued are the
\* bytes accepted by serial_putc, each once and in order, whether they were
\* queued, polled past a full queue or flushed; and input_getc returns the keys
\* in the order in which they were stored.
THEOREM BytesInOrder == Spec => []CharactersInOrder
  <1>1. SerialInv => CharactersInOrder
    <2> SUFFICES ASSUME SerialInv  PROVE CharactersInOrder
      BY Zenon
    <2>1. Numbers(0, out) = [i \in 1 .. out |-> i]
      BY DEF Numbers, SerialInv, TxInv, TxTypes
    <2>2. line \o thr \o Contents(txq) = [i \in 1 .. out |-> i]
      BY <2>1, Zenon DEF SerialInv, TxInv, TxOrder
    <2>3. Contents(buffer) = [i \in 1 .. (in - got) |-> got + i]
      BY Zenon DEF SerialInv, RxInv, RxOrder, Numbers
    <2> QED  BY <2>2, <2>3, Zenon DEF CharactersInOrder
  <1> QED  BY <1>1, SerialInvariant, PTL

\* A thread that sleeps in wait() is the one that signal() will unblock, its
\* condition is still false, and the interrupt that will change it is enabled.
THEOREM WaitersKnown == Spec => []WaitersServed
  <1>1. SerialInv => WaitersServed
    <2> SUFFICES ASSUME SerialInv  PROVE WaitersServed
      BY Zenon
    <2>1. Booted => /\ ~intq_empty(txq) => "XMIT" \in ier
                    /\ ("RECV" \in ier) = ~intq_full(buffer)
      <3> SUFFICES ASSUME Booted  PROVE /\ ~intq_empty(txq) => "XMIT" \in ier
                                       /\ ("RECV" \in ier) = ~intq_full(buffer)
        BY Zenon
      <3>1. "RECV" \in ier <=> ~intq_full(buffer)
        BY Zenon DEF SerialInv, IerInv
      <3>2. ("RECV" \in ier) = ~intq_full(buffer)
        BY <3>1
      <3> QED  BY <3>2, Zenon DEF SerialInv, IerInv
    <2>2. /\ \A t \in Thread : pc[t] = "putc_wait" => txq.not_full = t /\ txq.lock = t
          /\ txq.not_full # NULL => pc[txq.not_full] = "putc_wait" /\ intq_full(txq)
      BY Zenon DEF SerialInv, TxInv, TxWait
    <2>3. /\ \A t \in Thread : pc[t] = "getc_wait" => buffer.not_empty = t /\ buffer.lock = t
          /\ buffer.not_empty # NULL => pc[buffer.not_empty] = "getc_wait" /\ intq_empty(buffer)
      BY Zenon DEF SerialInv, RxInv, RxWait
    <2> QED  BY <2>1, <2>2, <2>3, Zenon DEF WaitersServed
  <1> QED  BY <1>1, SerialInvariant, PTL
=============================================================================
