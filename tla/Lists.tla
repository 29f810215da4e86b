------------------------------- MODULE Lists -------------------------------
(***************************************************************************)
(* The algorithms of lib/kernel/list.c.  A list is a sequence of elements  *)
(* with a key, which less compares; a position in it is an index, and the  *)
(* one after the last element stands for the tail.  The operations on      *)
(* links are also given as they are coded, on prev and next pointers.      *)
(***************************************************************************)
EXTENDS Naturals, Sequences, SequencesExt, FiniteSetsExt

LOCAL less(a, b) == a.key < b.key

\* list_insert before the position i, and list_remove.
list_insert(s, i, e) == SubSeq(s, 1, i - 1) \o <<e>> \o SubSeq(s, i, Len(s))
list_remove(s, i) == SubSeq(s, 1, i - 1) \o SubSeq(s, i + 1, Len(s))

is_sorted(s, a, b) == \A i \in a + 1 .. b - 1 : ~less(s[i], s[i - 1])

\* find_end_of_run: the first position after a that is b or out of order.
find_end_of_run(s, a, b) == Min({i \in a + 1 .. b : i = b \/ less(s[i], s[i - 1])})

\* Mutant: equal elements of the second run go first.
RECURSIVE MergeUnstable(_, _, _, _)
MergeUnstable(s, a0, a1b0, b1) ==
  IF a0 = a1b0 \/ a1b0 = b1 THEN s
  ELSE IF less(s[a0], s[a1b0]) THEN MergeUnstable(s, a0 + 1, a1b0, b1)
  ELSE MergeUnstable(list_insert(list_remove(s, a1b0), a0, s[a1b0]), a0 + 1, a1b0 + 1, b1)

\* inplace_merge: the head of the second run moves before a0 while it is less.
RECURSIVE inplace_merge(_, _, _, _)
inplace_merge(s, a0, a1b0, b1) ==
  IF a0 = a1b0 \/ a1b0 = b1 THEN s
  ELSE IF ~less(s[a1b0], s[a0]) THEN inplace_merge(s, a0 + 1, a1b0, b1)
  ELSE inplace_merge(list_insert(list_remove(s, a1b0), a0, s[a1b0]), a0 + 1, a1b0 + 1, b1)

\* One pass of list_sort from the position a0: pairs of adjacent runs are merged.
RECURSIVE merge_pass(_, _, _)
merge_pass(s, a0, output_run_cnt) ==
  LET end == Len(s) + 1
  IN IF a0 = end THEN [list |-> s, runs |-> output_run_cnt]
     ELSE LET a1b0 == find_end_of_run(s, a0, end)
          IN IF a1b0 = end THEN [list |-> s, runs |-> output_run_cnt + 1]
             ELSE LET b1 == find_end_of_run(s, a1b0, end)
                  IN merge_pass(inplace_merge(s, a0, a1b0, b1), b1, output_run_cnt + 1)

RECURSIVE list_sort(_)
list_sort(s) ==
  LET pass == merge_pass(s, 1, 0)
  IN IF pass.runs > 1 THEN list_sort(pass.list) ELSE pass.list

\* list_insert_ordered: before the first element that is greater.
list_insert_ordered(s, e) ==
  list_insert(s, Min({i \in 1 .. Len(s) + 1 : i = Len(s) + 1 \/ less(e, s[i])}), e)

\* list_unique from the position elem.
RECURSIVE list_unique(_, _, _)
list_unique(s, elem, duplicates) ==
  IF elem >= Len(s) THEN [list |-> s, duplicates |-> duplicates]
  ELSE IF ~less(s[elem], s[elem + 1]) /\ ~less(s[elem + 1], s[elem])
    THEN list_unique(list_remove(s, elem + 1), elem, Append(duplicates, s[elem + 1]))
    ELSE list_unique(s, elem + 1, duplicates)

\* list_max and list_min: the position of the element, or the tail.
list_max(s) ==
  IF s = <<>> THEN 1
  ELSE FoldLeft(LAMBDA max, i : IF less(s[max], s[i]) THEN i ELSE max, 1,
                [i \in 1 .. Len(s) |-> i])

list_min(s) ==
  IF s = <<>> THEN 1
  ELSE FoldLeft(LAMBDA min, i : IF less(s[i], s[min]) THEN i ELSE min, 1,
                [i \in 1 .. Len(s) |-> i])

-----------------------------------------------------------------------------
(* Links.  The nodes of a list of n elements are its head 0, the elements   *)
(* 1 .. n and the tail n + 1; a second list may use nodes from another      *)
(* range.  A link structure is a record of the functions next and prev.     *)

\* list_init followed by list_push_back of each element.
Linked(first, n) ==
  [next |-> [i \in first .. first + n |-> i + 1],
   prev |-> [i \in first + 1 .. first + n + 1 |-> i - 1]]

Joined(l, m) == [next |-> l.next @@ m.next, prev |-> l.prev @@ m.prev]

\* list_splice.
list_splice(l, before, first, last) ==
  IF first = last THEN l
  ELSE LET end == l.prev[last]
           cut == [l EXCEPT !.next[l.prev[first]] = l.next[end],
                            !.prev[l.next[end]] = l.prev[first]]
           p == cut.prev[before]
       IN [cut EXCEPT !.prev[first] = p, !.next[end] = before,
                      !.next[p] = first, !.prev[before] = end]

\* The loop of list_reverse from the element e on.
RECURSIVE swap_links(_, _, _)
swap_links(l, e, tail) ==
  IF e = tail THEN l
  ELSE swap_links([l EXCEPT !.prev[e] = l.next[e], !.next[e] = l.prev[e]], l.next[e], tail)

\* list_reverse.
list_reverse(l, head, tail) ==
  IF l.next[head] = tail THEN l
  ELSE LET s == swap_links(l, l.next[head], tail)
           t == [s EXCEPT !.next[head] = s.prev[tail], !.prev[tail] = s.next[head]]
           f == t.next[head]
           b == t.prev[tail]
       IN [t EXCEPT !.prev[f] = t.next[b], !.next[b] = t.prev[f]]

\* The elements of a list as its links give them, forwards and backwards; at
\* most n of them.
RECURSIVE Walk(_, _, _, _)
Walk(link, node, stop, n) ==
  IF n = 0 \/ link[node] = stop THEN <<>>
  ELSE <<link[node]>> \o Walk(link, link[node], stop, n - 1)

Forwards(l, head, tail, n) == Walk(l.next, head, tail, n)
Backwards(l, head, tail, n) == Walk(l.prev, tail, head, n)
=============================================================================
