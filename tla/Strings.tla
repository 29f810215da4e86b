------------------------------ MODULE Strings ------------------------------
(***************************************************************************)
(* lib/string.c.  Memory is a sequence of bytes, of which 0 is the null    *)
(* character, and a pointer is an index into it; 0 is the null pointer.    *)
(* Strings given by value are sequences that end with their null character.*)
(***************************************************************************)
EXTENDS Integers, Sequences, SequencesExt

NUL == 0

\* The loops of memcpy and memmove, one byte after the other.
Up(mem, dst, src, size) ==
  FoldLeft(LAMBDA x, i : [x EXCEPT ![dst + i - 1] = x[src + i - 1]], mem, [i \in 1 .. size |-> i])
Down(mem, dst, src, size) ==
  FoldLeft(LAMBDA x, i : [x EXCEPT ![dst + i - 1] = x[src + i - 1]], mem,
           [i \in 1 .. size |-> size + 1 - i])

memcpy(mem, dst, src, size) == Up(mem, dst, src, size)

\* Mutant: the copy always goes up.
MoveUp(mem, dst, src, size) == [ret |-> dst + size, mem |-> Up(mem, dst, src, size)]

\* memmove returns the pointer with which it has copied: it has moved past the
\* block if the copy went up.
memmove(mem, dst, src, size) ==
  IF dst < src THEN [ret |-> dst + size, mem |-> Up(mem, dst, src, size)]
  ELSE [ret |-> dst, mem |-> Down(mem, dst, src, size)]

memset(mem, dst, value, size) ==
  FoldLeft(LAMBDA x, i : [x EXCEPT ![dst + i - 1] = value], mem, [i \in 1 .. size |-> i])

RECURSIVE memcmp(_, _, _)
memcmp(a, b, size) ==
  IF size = 0 THEN 0
  ELSE IF Head(a) # Head(b) THEN (IF Head(a) > Head(b) THEN 1 ELSE -1)
  ELSE memcmp(Tail(a), Tail(b), size - 1)

RECURSIVE strcmp(_, _)
strcmp(a, b) ==
  IF Head(a) # NUL /\ Head(a) = Head(b) THEN strcmp(Tail(a), Tail(b))
  ELSE IF Head(a) < Head(b) THEN -1 ELSE IF Head(a) > Head(b) THEN 1 ELSE 0

\* memchr from byte i on.
RECURSIVE memchr(_, _, _, _)
memchr(block, i, ch, size) ==
  IF size = 0 THEN 0 ELSE IF block[i] = ch THEN i ELSE memchr(block, i + 1, ch, size - 1)

\* The following scan the string at index i of s.
RECURSIVE strchr(_, _, _)
strchr(s, i, c) == IF s[i] = c THEN i ELSE IF s[i] = NUL THEN 0 ELSE strchr(s, i + 1, c)

Occurs(c, set) == strchr(set, 1, c) # 0

RECURSIVE strcspn(_, _, _)
strcspn(s, i, stop) ==
  IF s[i] = NUL THEN 0 ELSE IF Occurs(s[i], stop) THEN 0 ELSE 1 + strcspn(s, i + 1, stop)

RECURSIVE strspn(_, _, _)
strspn(s, i, skip) ==
  IF s[i] = NUL THEN 0 ELSE IF ~Occurs(s[i], skip) THEN 0 ELSE 1 + strspn(s, i + 1, skip)

RECURSIVE strpbrk(_, _, _)
strpbrk(s, i, stop) ==
  IF s[i] = NUL THEN 0 ELSE IF Occurs(s[i], stop) THEN i ELSE strpbrk(s, i + 1, stop)

\* p is the last occurrence found so far.
RECURSIVE strrchr(_, _, _, _)
strrchr(s, i, c, p) ==
  IF s[i] = NUL THEN p ELSE strrchr(s, i + 1, c, IF s[i] = c THEN i ELSE p)

RECURSIVE strlen(_, _)
strlen(s, i) == IF s[i] = NUL THEN 0 ELSE 1 + strlen(s, i + 1)

RECURSIVE strnlen(_, _, _)
strnlen(s, i, maxlen) ==
  IF s[i] # NUL /\ maxlen > 0 THEN 1 + strnlen(s, i + 1, maxlen - 1) ELSE 0

\* The loop of strstr, from offset i on.
RECURSIVE search(_, _, _)
search(haystack, needle, i) ==
  LET n == strlen(needle, 1)
  IN IF i > strlen(haystack, 1) - n THEN 0
     ELSE IF memcmp(SubSeq(haystack, i + 1, i + n), needle, n) = 0 THEN i + 1
     ELSE search(haystack, needle, i + 1)

strstr(haystack, needle) ==
  IF strlen(haystack, 1) >= strlen(needle, 1) THEN search(haystack, needle, 0) ELSE 0

\* strlcpy and strlcat into the memory at dst; returned is the length of src,
\* and of both.
strlcpy(mem, dst, src, size) ==
  LET n == strlen(src, 1)
      cnt == IF n < size - 1 THEN n ELSE size - 1
  IN [ret |-> n,
      mem |-> IF size = 0 THEN mem
              ELSE [i \in DOMAIN mem |-> CASE i \in dst .. dst + cnt - 1 -> src[i - dst + 1]
                                           [] i = dst + cnt -> NUL
                                           [] OTHER -> mem[i]]]

strlcat(mem, dst, src, size) ==
  LET n == strlen(src, 1)
      have == strlen(mem, dst)
      cnt == IF n < size - have - 1 THEN n ELSE size - have - 1
  IN [ret |-> n + have,
      mem |-> IF size = 0 \/ have >= size THEN mem
              ELSE [i \in DOMAIN mem |->
                      CASE i \in dst + have .. dst + have + cnt - 1 -> src[i - dst - have + 1]
                        [] i = dst + have + cnt -> NUL
                        [] OTHER -> mem[i]]]

\* strtok_r: the loop over delimiters, the loop over the token, and a call at
\* position i, which gives the token, the memory and the saved position.
RECURSIVE skip_delimiters(_, _, _)
skip_delimiters(mem, i, delimiters) ==
  IF Occurs(mem[i], delimiters) /\ mem[i] # NUL THEN skip_delimiters(mem, i + 1, delimiters) ELSE i

RECURSIVE skip_token(_, _, _)
skip_token(mem, i, delimiters) ==
  IF Occurs(mem[i], delimiters) THEN i ELSE skip_token(mem, i + 1, delimiters)

strtok_r(mem, i, delimiters) ==
  LET s == skip_delimiters(mem, i, delimiters)
      e == skip_token(mem, s, delimiters)
  IN IF mem[s] = NUL THEN [token |-> 0, mem |-> mem, save |-> s]
     ELSE IF mem[e] # NUL THEN [token |-> s, mem |-> [mem EXCEPT ![e] = NUL], save |-> e + 1]
     ELSE [token |-> s, mem |-> mem, save |-> e]

\* The loop of process.c over the tokens of a command line: where they start,
\* and the memory that is left.
RECURSIVE tokens(_, _, _, _)
tokens(mem, i, delimiters, found) ==
  LET t == strtok_r(mem, i, delimiters)
  IN IF t.token = 0 THEN [starts |-> found, mem |-> t.mem]
     ELSE tokens(t.mem, t.save, delimiters, Append(found, t.token))
=============================================================================
