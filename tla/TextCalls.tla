----------------------------- MODULE TextCalls -----------------------------
(***************************************************************************)
(* Calls of the string functions, of the printf family and of the keyboard *)
(* driver, and what they should do.                                        *)
(***************************************************************************)
EXTENDS Calls, Format, Keyboard, FiniteSetsExt, TLC

CONSTANTS
  MaxText,   \* bound: the longest string
  MaxTyped   \* bound: characters typed

Texts(n) == UNION {[1 .. k -> {1, 2}] : k \in 0 .. n}
BufLen == MaxText + 3
JUNK == 9

\* Conversions: flags, a width, a precision and a type, each as it is written.
\* Then come the arguments for "*", a value or a string, and the character that
\* the conversion after this one shows.
FlagText == {<<>>} \cup {<<a>> : a \in Flag} \cup (Flag \X Flag)
WidthText == {<<>>, <<"3">>, <<"1", "0">>, <<"*">>}
PrecisionText == {<<>>, <<".">>, <<".", "2">>, <<".", "9">>, <<".", "*">>}
TypeText == {<<>>, <<"h">>, <<"h", "h">>, <<"l">>, <<"l", "l">>, <<"j">>, <<"t">>, <<"z">>}
Number == {0, 5, 2 ^ (IntBits - 1), 2 ^ IntBits - 1}
STAR == 2 ^ IntBits - 3        \* -3 as an argument

TextInit ==
  \/ call \in [op : {"string"}, s : Texts(MaxText), t : Texts(2), size : 0 .. MaxText + 2]
  \/ call \in [op : {"move"}, dst : 1 .. BufLen, src : 1 .. BufLen, size : 0 .. BufLen]
     /\ call.dst + call.size <= BufLen + 1 /\ call.src + call.size <= BufLen + 1
  \/ call \in [op : {"format"}, flags : FlagText, width : WidthText, precision : PrecisionText,
               type : {<<>>}, conv : {"d", "u", "o", "x", "X", "p"}, arg : Number]
  \/ call \in [op : {"format"}, flags : {<<>>, <<"'">>}, width : {<<>>}, precision : {<<>>},
               type : TypeText, conv : {"i", "u", "o"},
               arg : Number \cup {2 ^ MaxBits - 1, 2 ^ (MaxBits - 1) + 9, 2 ^ CharBits + 1}]
  \/ call \in [op : {"format"}, flags : FlagText, width : WidthText, precision : PrecisionText,
               type : {<<>>}, conv : {"s"}, arg : {<<>>, <<"a">>, <<"a", "b", "c", "d">>, NullPointer}]
  \/ call \in [op : {"keyboard"}, held : {{}}, caps : {FALSE}, last : {"none"}, full : {FALSE}]

-----------------------------------------------------------------------------
(* Strings. *)

CallString ==
  /\ call.op = "string" /\ result = NULL
  /\ LET s == Append(call.s, NUL)
         t == Append(call.t, NUL)
         room == [i \in 1 .. BufLen |-> IF i <= Len(s) THEN s[i] ELSE JUNK]
         n == Min({Len(s), Len(t)})
     IN result' = [chr |-> [c \in 0 .. 2 |-> strchr(s, 1, c)],
                   mchr |-> [c \in 0 .. 2 |-> memchr(s, 1, c, Min({Len(s), call.size}))],
                   rchr |-> [c \in 1 .. 2 |-> strrchr(s, 1, c, 0)],
                   spn |-> strspn(s, 1, t), cspn |-> strcspn(s, 1, t), pbrk |-> strpbrk(s, 1, t),
                   cmp |-> strcmp(s, t), mcmp |-> memcmp(s, t, n), str |-> strstr(s, t),
                   len |-> strlen(s, 1), nlen |-> strnlen(s, 1, call.size),
                   copied |-> strlcpy([i \in 1 .. BufLen |-> JUNK], 1, s, call.size),
                   joined |-> strlcat(room, 1, t, call.size),
                   tokens |-> tokens(s, 1, t, <<>>)]
  /\ UNCHANGED call

\* memmove, memcpy and memset on a buffer whose bytes are all different.
CallMove ==
  /\ call.op = "move" /\ result = NULL
  /\ LET mem == [i \in 1 .. BufLen |-> i]
     IN result' = [moved |-> memmove(mem, call.dst, call.src, call.size),
                   copied |-> memcpy(mem, call.dst, call.src, call.size),
                   set |-> memset(mem, call.dst, 0, call.size)]
  /\ UNCHANGED call

\* Two exceptions to what string.c says of its functions.  strlcat leaves a
\* string that fills SIZE bytes or more as it is, where "the concatenated string
\* is limited to SIZE - 1 characters" and a null character "is always written".
\* memmove, after it has copied upwards, does not return DST.
AlreadyFull(length, size) == 0 < size /\ size <= length
MovedUp(dst, src, size) == dst < src /\ size > 0

\* The functions on strings find what they are asked for, first or last, or
\* return a null pointer or the length; strcmp and memcmp order by the first
\* difference; strlcpy and strlcat store as much as fits into "size" bytes with
\* the null character, nothing after it, and return what they tried to make;
\* the tokens of a string are its stretches without delimiters, in order, each
\* with its null character; and memmove keeps the bytes it moves also where the
\* two blocks overlap, and returns DST; all with the exceptions named above.
StringsRight ==
  /\ Returned("string") =>
       LET s == call.s
           t == call.t
           size == call.size
           S == Append(s, NUL)
           set == ToSet(t)
           first(I) == IF I = {} THEN 0 ELSE Min(I)
           last(I) == IF I = {} THEN 0 ELSE Max(I)
           at(c) == {i \in DOMAIN S : S[i] = c}
           sign(a, b) == LET D == {i \in 1 .. Min({Len(a), Len(b)}) : a[i] # b[i]}
                         IN IF D = {} THEN 0 ELSE IF a[Min(D)] < b[Min(D)] THEN -1 ELSE 1
           begins == {i \in DOMAIN s : s[i] \notin set /\ (IF i = 1 THEN TRUE ELSE s[i - 1] \in set)}
           end(i) == Min({j \in i .. Len(S) : S[j] \in set \cup {NUL}})
           both == s \o t
           cut(a) == SubSeq(a, 1, Min({Len(a), size - 1}))
           r == result
       IN /\ \A c \in 0 .. 2 : /\ r.chr[c] = first(at(c))
                               /\ r.mchr[c] = first(at(c) \cap 1 .. size)
                               /\ c # NUL => r.rchr[c] = last(at(c))
          /\ r.spn = Max({n \in 0 .. Len(s) : ToSet(SubSeq(s, 1, n)) \subseteq set})
          /\ r.cspn = Max({n \in 0 .. Len(s) : ToSet(SubSeq(s, 1, n)) \cap set = {}})
          /\ r.pbrk = first({i \in DOMAIN s : s[i] \in set})
          /\ r.str = first({i \in 1 .. Len(S) : IsPrefix(t, SubSeq(s, i, Len(s)))})
          /\ r.cmp = sign(S, Append(t, NUL)) /\ r.mcmp = r.cmp
          /\ r.len = Len(s) /\ r.nlen = Min({Len(s), size})
          /\ r.copied.ret = Len(s) /\ r.joined.ret = Len(both)
          /\ \A i \in 1 .. BufLen :
               r.copied.mem[i] = IF size = 0 \/ i > Len(cut(s)) + 1 THEN JUNK
                                 ELSE Append(cut(s), NUL)[i]
          /\ size = 0 => SubSeq(r.joined.mem, 1, Len(S)) = S
          /\ (size > 0 /\ ~AlreadyFull(Len(s), size)) =>
               SubSeq(r.joined.mem, 1, Len(cut(both)) + 1) = Append(cut(both), NUL)
          /\ \A i \in 1 .. BufLen :
               i > Max({Len(S), size}) => r.joined.mem[i] = JUNK
          /\ ToSet(r.tokens.starts) = begins
          /\ \A i, j \in DOMAIN r.tokens.starts : i < j => r.tokens.starts[i] < r.tokens.starts[j]
          /\ \A i \in begins : SubSeq(r.tokens.mem, i, end(i)) = Append(SubSeq(s, i, end(i) - 1), NUL)
  /\ Returned("move") =>
       LET dst == call.dst
           inside(i) == i \in dst .. dst + call.size - 1
       IN /\ ~MovedUp(dst, call.src, call.size) => result.moved.ret = dst
          /\ \A i \in 1 .. BufLen :
               /\ result.moved.mem[i] = IF inside(i) THEN call.src + i - dst ELSE i
               /\ result.set[i] = IF inside(i) THEN 0 ELSE i
               /\ (call.src >= dst \/ call.src + call.size <= dst) =>
                    result.copied[i] = result.moved.mem[i]

-----------------------------------------------------------------------------
(* printf. *)

Stars == (IF call.width = <<"*">> THEN <<STAR>> ELSE <<>>)
           \o (IF Last(<<".">> \o call.precision) = "*" THEN <<STAR>> ELSE <<>>)

CallFormat ==
  /\ call.op = "format" /\ result = NULL
  /\ LET format == <<"%">> \o call.flags \o call.width \o call.precision \o call.type
                     \o <<call.conv, "%", "%", "%", "c">>
         out == vprintf(format, Stars \o <<call.arg, "z">>)
     IN result' = [out |-> out, stored |-> [n \in 0 .. 4 |-> vsnprintf(n, out)]]
  /\ UNCHANGED call

\* Here the code goes wrong: "0" with a width that is a negative argument pads
\* with zeros and then with spaces as well.
PaddedTwice ==
  call.width = <<"*">> /\ "0" \in ToSet(call.flags) /\ "-" \notin ToSet(call.flags)
    /\ call.precision \in {<<>>, <<".", "*">>}

\* printf shows the whole number or the right part of the string, with the
\* sign, prefix and digits that the flags, the precision and the type ask for,
\* on the right side of just enough padding; the precision is honoured as far
\* as the buffer goes, and the digits stay within it; each "*" takes an
\* argument of its own, a negative width asks for "-" and a negative precision
\* for none.  vsnprintf stores what fits with its null character and returns the
\* length of all.
FormatsRight ==
  Returned("format") /\ (call.conv \notin {"s", "p"} => ~PaddedTwice) =>
    LET flags == IF call.conv = "p" THEN {"#"} ELSE ToSet(call.flags)
        width == CASE call.width = <<>> -> 0 [] call.width = <<"*">> -> 3
                   [] call.width = <<"3">> -> 3 [] OTHER -> 10
        minus == call.conv # "p" /\ ("-" \in flags \/ call.width = <<"*">>)
        given == call.precision \notin {<<>>, <<".", "*">>}
        precision == CASE ~given -> 1 [] call.precision = <<".">> -> 0
                       [] call.precision = <<".", "2">> -> 2 [] OTHER -> 9
        zero == "0" \in flags /\ ~minus /\ ~given
        out == SubSeq(result.out, 1, Len(result.out) - 2)
        bits == CASE call.type = <<"h", "h">> -> CharBits [] call.type = <<"h">> -> ShortBits
                  [] call.type \in {<<"j">>, <<"l", "l">>} -> MaxBits [] OTHER -> IntBits
        low == call.arg % 2 ^ bits
        signed == call.conv \in {"d", "i"}
        negative == signed /\ low >= 2 ^ (bits - 1)
        value == IF negative THEN 2 ^ bits - low ELSE low
        sign == CASE ~signed -> <<>> [] signed /\ negative -> <<"-">>
                  [] signed /\ ~negative /\ "+" \in flags -> <<"+">>
                  [] signed /\ ~negative /\ {"+", " "} \cap flags = {" "} -> <<" ">>
                  [] OTHER -> <<>>
        hex == call.conv \in {"x", "X", "p"}
        base == IF hex THEN 16 ELSE IF call.conv = "o" THEN 8 ELSE 10
        prefix == IF hex /\ "#" \in flags /\ value # 0 THEN <<"0", IF call.conv = "p" THEN "x" ELSE call.conv>> ELSE <<>>
        table == IF call.conv \in {"x", "p"} THEN Lower ELSE Upper
        shown == SelectSeq(out, LAMBDA c : c \in ToSet(table))
        read == FoldLeft(LAMBDA v, c : v * base + (CHOOSE i \in 0 .. 15 : table[i + 1] = c), 0, shown)
        needed == Min({n \in 0 .. BufSize - 2 : base ^ n > value})
        commas == IF "'" \in flags THEN Max({0, needed - 1}) \div (IF hex THEN 4 ELSE 3) ELSE 0
        filled == Max({needed + commas, Min({precision, BufSize - 1})})
        octal == IF call.conv = "o" /\ "#" \in flags /\ filled = needed + commas THEN 1 ELSE 0
        text == IF call.arg = NullPointer THEN <<"(", "n", "u", "l", "l", ")">> ELSE call.arg
        string == SubSeq(text, 1, IF given THEN Min({precision, Len(text)}) ELSE Len(text))
        length == IF call.conv = "s" THEN Len(string)
                  ELSE Len(sign) + Len(prefix) + filled + octal
        pad == Dup(" ", Max({0, width - length}))
        start == IF zero \/ minus THEN 0 ELSE Len(pad)
        number == SubSeq(out, start + Len(sign) + Len(prefix) + 1, IF minus THEN length ELSE Len(out))
    IN /\ SubSeq(result.out, Len(out) + 1, Len(out) + 2) = <<"%", "z">>
       /\ Len(out) = length + Len(pad)
       /\ IF call.conv = "s"
            THEN out = IF minus THEN string \o pad ELSE pad \o string
            ELSE /\ SubSeq(out, 1, start + Len(sign) + Len(prefix)) = Dup(" ", start) \o sign \o prefix
                 /\ minus => SubSeq(out, length + 1, Len(out)) = pad
                 /\ ToSet(number) \subseteq ToSet(table) \cup {","}
                 /\ Len(SelectSeq(number, LAMBDA c : c = ",")) = commas
                 /\ read = value
                 /\ filled + octal <= BufSize
       /\ \A n \in 0 .. 4 :
            LET stored == result.stored[n]
            IN /\ stored.ret = Len(result.out)
               /\ Len(stored.buffer) = Min({n, Len(result.out) + 1})
               /\ n > 0 => stored.buffer = Append(SubSeq(result.out, 1, Len(stored.buffer) - 1), "NUL")

-----------------------------------------------------------------------------
(* The keyboard.  "held" are the modifier keys that are down, "caps" whether *)
(* Caps Lock has been pressed an odd number of times, and "last" the key of  *)
(* the last interrupt if it was pressed, with whether the buffer was full.   *)

Key_Code == [a |-> 30, one |-> 2, bracket |-> 26, del |-> 83, f1 |-> 59, caps |-> CAPS_LOCK] @@ shift_keys
Typing == call.op = "keyboard" /\ result # NULL

KbdInit == call.op = "keyboard" /\ result = NULL /\ result' = kbd_init /\ UNCHANGED call

\* A key that is held down is pressed again and again.
Press(key, full) ==
  /\ Typing /\ result.out # REBOOT /\ result.key_cnt < MaxTyped
  /\ result' = keyboard_interrupt(result, Key_Code[key], FALSE, full)
  /\ call' = [call EXCEPT !.held = @ \cup ({key} \cap DOMAIN shift_keys), !.last = key,
                          !.caps = @ # (key = "caps"), !.full = full]

Release(key) ==
  /\ Typing /\ result.out # REBOOT
  /\ key \in DOMAIN shift_keys => key \in call.held
  /\ result' = keyboard_interrupt(result, Key_Code[key], TRUE, FALSE)
  /\ call' = [call EXCEPT !.held = @ \ {key}, !.last = "none"]

Texting ==
  \/ CallString \/ CallMove \/ CallFormat \/ KbdInit
  \/ \E key \in DOMAIN Key_Code : Release(key) \/ \E full \in BOOLEAN : Press(key, full)

\* The driver knows which modifiers are held, whichever of two keys it is and
\* also after the key repeats, and how often Caps Lock was pressed; a key that is
\* pressed gives its character under these, if there is room for it, and
\* Ctrl+Alt+Del reboots.
ModifiersTracked ==
  Typing =>
    LET alt == call.held \cap {"left_alt", "right_alt"} # {}
        ctrl == call.held \cap {"left_ctrl", "right_ctrl"} # {}
        shift == call.held \cap {"left_shift", "right_shift"} # {}
        char == CASE call.last = "a" -> IF ctrl THEN 1 ELSE IF shift # call.caps THEN 65 ELSE 97
                  [] call.last = "one" -> IF shift THEN 33 ELSE 49
                  [] call.last = "bracket" -> IF shift THEN 123 ELSE IF ctrl THEN 27 ELSE 91
                  [] call.last = "del" -> 127
                  [] OTHER -> 0
    IN /\ result.down = call.held /\ result.caps_lock = call.caps
       /\ result.out = CASE call.last = "del" /\ ctrl /\ alt -> REBOOT
                         [] char = 0 \/ call.full -> NOTHING
                         [] OTHER -> char + (IF alt THEN 128 ELSE 0)
=============================================================================
