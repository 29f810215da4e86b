------------------------------- MODULE Format ------------------------------
(***************************************************************************)
(* The printf family of lib/stdio.c.  A format and the output are          *)
(* sequences of characters; arguments are words as va_arg finds them.      *)
(* Integers have CharBits, ShortBits, IntBits and MaxBits bits: 8, 16, 32  *)
(* and 64 in the code, where long, size_t and ptrdiff_t are as wide as int.*)
(***************************************************************************)
EXTENDS Strings, FiniteSets

CONSTANTS CharBits, ShortBits, IntBits, MaxBits,
          BufSize     \* sizeof buf in format_integer

Digit == <<"0", "1", "2", "3", "4", "5", "6", "7", "8", "9">>
isdigit(c) == c \in ToSet(Digit)
Value(c) == CHOOSE v \in 0 .. 9 : Digit[v + 1] = c

Lower == Digit \o <<"a", "b", "c", "d", "e", "f">>
Upper == Digit \o <<"A", "B", "C", "D", "E", "F">>
base_d == [base |-> 10, digits |-> Digit, x |-> "", group |-> 3]
base_o == [base |-> 8, digits |-> Digit, x |-> "", group |-> 3]
base_x == [base |-> 16, digits |-> Lower, x |-> "x", group |-> 4]
base_X == [base |-> 16, digits |-> Upper, x |-> "X", group |-> 4]

-----------------------------------------------------------------------------
(* parse_conversion.  The parse is a record: the rest of the format, the    *)
(* arguments that are left, and the conversion so far.                      *)

Flag == {"-", "+", " ", "#", "0", "'"}

\* The character at which the rest of a format starts; a string ends in "".
At(f) == IF f = <<>> THEN "" ELSE Head(f)

RECURSIVE parse_flags(_)
parse_flags(p) ==
  IF At(p.f) \in Flag
    THEN parse_flags([p EXCEPT !.f = Tail(@), !.flags = @ \cup {Head(p.f)}])
    ELSE [p EXCEPT !.flags = @ \ ((IF "-" \in @ THEN {"0"} ELSE {}) \cup
                                  (IF "+" \in @ THEN {" "} ELSE {}))]

\* A number in decimal, or an argument.
RECURSIVE parse_digits(_, _)
parse_digits(p, n) ==
  IF isdigit(At(p.f)) THEN parse_digits([p EXCEPT !.f = Tail(@)], n * 10 + Value(Head(p.f)))
                      ELSE [p EXCEPT !.n = n]

AsSigned(v, bits) == IF v % 2 ^ bits < 2 ^ (bits - 1) THEN v % 2 ^ bits
                                                    ELSE (v % 2 ^ bits) - 2 ^ bits

parse_number(p) ==
  IF At(p.f) = "*"
    THEN [p EXCEPT !.f = Tail(@), !.args = Tail(@), !.n = AsSigned(Head(p.args), IntBits)]
    ELSE parse_digits(p, 0)

parse_width(p) ==
  LET q == parse_number(p)
  IN IF q.n < 0 THEN [q EXCEPT !.width = -q.n, !.flags = @ \cup {"-"}]
                ELSE [q EXCEPT !.width = q.n]

\* Mutant: a precision leaves the 0 flag in place.
PrecisionKeepsZero(p) ==
  IF At(p.f) # "." THEN [p EXCEPT !.precision = -1]
  ELSE LET q == parse_number([p EXCEPT !.f = Tail(@)])
       IN [q EXCEPT !.precision = IF q.n < 0 THEN -1 ELSE q.n]

parse_precision(p) ==
  IF At(p.f) # "." THEN [p EXCEPT !.precision = -1]
  ELSE LET q == parse_number([p EXCEPT !.f = Tail(@)])
       IN IF q.n < 0 THEN [q EXCEPT !.precision = -1]
                     ELSE [q EXCEPT !.precision = q.n, !.flags = @ \ {"0"}]

parse_type(p) ==
  LET c == At(p.f)
      rest == Tail(p.f)
      twice == At(rest) = c
  IN CASE c \in {"h", "l"} /\ ~twice -> [p EXCEPT !.f = rest, !.type = c]
       [] c \in {"h", "l"} /\ twice -> [p EXCEPT !.f = Tail(rest), !.type = IF c = "h" THEN "hh" ELSE "ll"]
       [] c \in {"j", "t", "z"} -> [p EXCEPT !.f = rest, !.type = c]
       [] OTHER -> [p EXCEPT !.type = "int"]

parse_conversion(f, args) ==
  parse_type(parse_precision(parse_width(parse_flags(
    [f |-> f, args |-> args, flags |-> {}, width |-> 0, precision |-> -1, type |-> "int", n |-> 0]))))

-----------------------------------------------------------------------------
(* Conversions. *)

Dup(c, cnt) == [i \in 1 .. cnt |-> c]         \* output_dup

BitsOf(type) == CASE type = "hh" -> CharBits [] type = "h" -> ShortBits
                [] type \in {"j", "ll"} -> MaxBits [] OTHER -> IntBits

\* The digits of value in base b, last one first, with separators between
\* groups; done digits have been output so far.
RECURSIVE digits(_, _, _, _)
digits(value, b, group, done) ==
  IF value = 0 THEN <<>>
  ELSE (IF group /\ done > 0 /\ done % b.group = 0 THEN <<",">> ELSE <<>>)
         \o <<b.digits[(value % b.base) + 1]>> \o digits(value \div b.base, b, group, done + 1)

\* Zeros up to the precision, as far as the buffer goes, and the 0 of %#o.
zeros(buf, b, c) ==
  LET precision == IF c.precision < 0 THEN 1 ELSE c.precision
      most == IF precision < BufSize - 1 THEN precision ELSE BufSize - 1
      padded == buf \o Dup("0", most - Len(buf))
      octal == /\ "#" \in c.flags /\ b.base = 8
               /\ IF padded = <<>> THEN TRUE ELSE Last(padded) # "0"
  IN IF octal THEN Append(padded, "0") ELSE padded

sign_of(signed, negative, flags) ==
  CASE ~signed -> ""
    [] signed /\ negative -> "-"
    [] signed /\ ~negative /\ "+" \in flags -> "+"
    [] signed /\ ~negative /\ " " \in flags -> " "
    [] OTHER -> ""

\* The buffer of format_integer, in reverse.
buffer_of(value, b, c) == zeros(digits(value, b, "'" \in c.flags, 0), b, c)

format_integer(value, signed, negative, b, c) ==
  LET sign == sign_of(signed, negative, c.flags)
      x == IF "#" \in c.flags /\ value # 0 THEN b.x ELSE ""
      buf == buffer_of(value, b, c)
      used == Len(buf) + (IF x = "" THEN 0 ELSE 2) + (IF sign = "" THEN 0 ELSE 1)
      pad == IF c.width > used THEN c.width - used ELSE 0
  IN (IF c.flags \cap {"-", "0"} = {} THEN Dup(" ", pad) ELSE <<>>)
       \o (IF sign = "" THEN <<>> ELSE <<sign>>)
       \o (IF x = "" THEN <<>> ELSE <<"0", x>>)
       \o (IF "0" \in c.flags THEN Dup("0", pad) ELSE <<>>)
       \o Reverse(buf)
       \o (IF "-" \in c.flags THEN Dup(" ", pad) ELSE <<>>)

format_string(s, length, c) ==
  LET pad == IF c.width > length THEN c.width - length ELSE 0
  IN (IF "-" \in c.flags THEN <<>> ELSE Dup(" ", pad)) \o SubSeq(s, 1, length)
       \o (IF "-" \in c.flags THEN Dup(" ", pad) ELSE <<>>)

NullPointer == <<"NULL">>       \* in place of a string

\* One conversion: c is parsed, and c.f starts at its last character.  A string
\* argument is a sequence of characters; its length is cut to the precision.
convert(c) ==
  LET conv == At(c.f)
      bits == BitsOf(c.type)
      value == AsSigned(Head(c.args), bits)
      unsigned == Head(c.args) % 2 ^ bits
      s == IF Head(c.args) = NullPointer THEN <<"(", "n", "u", "l", "l", ")">> ELSE Head(c.args)
      length == IF c.precision < 0 \/ Len(s) < c.precision THEN Len(s) ELSE c.precision
  IN CASE conv \in {"d", "i"} ->
            format_integer(IF value < 0 THEN -value ELSE value, TRUE, value < 0, base_d, c)
       [] conv = "u" -> format_integer(unsigned, FALSE, FALSE, base_d, c)
       [] conv = "o" -> format_integer(unsigned, FALSE, FALSE, base_o, c)
       [] conv = "x" -> format_integer(unsigned, FALSE, FALSE, base_x, c)
       [] conv = "X" -> format_integer(unsigned, FALSE, FALSE, base_X, c)
       [] conv = "p" -> format_integer(Head(c.args) % 2 ^ IntBits, FALSE, FALSE, base_x,
                                       [c EXCEPT !.flags = {"#"}])
       [] conv = "c" -> format_string(<<Head(c.args)>>, 1, c)
       [] conv = "s" -> format_string(s, length, c)
       [] OTHER -> <<"unsupported">>

Converts == {"d", "i", "u", "o", "x", "X", "p", "c", "s"}

\* __vprintf.  After a format that ends inside a conversion the code reads on past
\* its null character: what it then prints is not determined ("beyond").
RECURSIVE vprintf(_, _)
vprintf(format, args) ==
  IF format = <<>> THEN <<>>
  ELSE IF Head(format) # "%" THEN <<Head(format)>> \o vprintf(Tail(format), args)
  ELSE IF At(Tail(format)) = "%" THEN <<"%">> \o vprintf(Tail(Tail(format)), args)
  ELSE LET c == parse_conversion(Tail(format), args)
       IN IF c.f = <<>> THEN convert(c) \o <<"beyond">>
          ELSE convert(c) \o vprintf(Tail(c.f), IF At(c.f) \in Converts THEN Tail(c.args) ELSE c.args)

\* vsnprintf, fed by vsnprintf_helper: the bytes it stores and what it returns.
vsnprintf(size, output) ==
  LET max_length == IF size > 0 THEN size - 1 ELSE 0
  IN [buffer |-> SubSeq(output, 1, IF Len(output) < max_length THEN Len(output) ELSE max_length)
                   \o (IF size > 0 THEN <<"NUL">> ELSE <<>>),
      ret |-> Len(output)]
=============================================================================
