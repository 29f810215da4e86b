------------------------------ MODULE Keyboard -----------------------------
(***************************************************************************)
(* The keyboard driver, devices/kbd.c.  Scan codes and characters are      *)
(* numbers; the input buffer is full or not.                               *)
(***************************************************************************)
EXTENDS Integers, Sequences

\* A keymap: pairs of a first scan code and the characters from there on.
invariant_keymap ==
  << <<1, <<27>> >>, <<14, <<8>> >>,
     <<15, <<9, 81, 87, 69, 82, 84, 89, 85, 73, 79, 80>> >>,     \* Tab, QWERTYUIOP
     <<28, <<13>> >>,
     <<30, <<65, 83, 68, 70, 71, 72, 74, 75, 76>> >>,            \* ASDFGHJKL
     <<44, <<90, 88, 67, 86, 66, 78, 77>> >>,                    \* ZXCVBNM
     <<55, <<42>> >>, <<57, <<32>> >>, <<83, <<127>> >> >>
unshifted_keymap ==
  << <<2, <<49, 50, 51, 52, 53, 54, 55, 56, 57, 48, 45, 61>> >>, \* 1234567890-=
     <<26, <<91, 93>> >>, <<39, <<59, 39, 96>> >>,               \* [] ;'`
     <<43, <<92>> >>, <<51, <<44, 46, 47>> >> >>                 \* \ ,./
shifted_keymap ==
  << <<2, <<33, 64, 35, 36, 37, 94, 38, 42, 40, 41, 95, 43>> >>, \* !@#$%^&*()_+
     <<26, <<123, 125>> >>, <<39, <<58, 34, 126>> >>,            \* {} :"~
     <<43, <<124>> >>, <<51, <<60, 62, 63>> >> >>                \* | <>?

\* Mutant: the range of a keymap entry is one too long.
MapKeyLong(k, code) ==
  {k[i][2][Len(k[i][2])] : i \in {j \in DOMAIN k : code = k[j][1] + Len(k[j][2])}} \cup
  {k[i][2][code - k[i][1] + 1] : i \in {j \in DOMAIN k : code \in k[j][1] .. k[j][1] + Len(k[j][2]) - 1}}

\* map_key: the character, if there is one.
map_key(k, code) ==
  {k[i][2][code - k[i][1] + 1] : i \in {j \in DOMAIN k : code \in k[j][1] .. k[j][1] + Len(k[j][2]) - 1}}

\* shift_keys: codes after the prefix 0xe0 are 0xe000 and up.
E0 == 57344
shift_keys == [left_shift |-> 42, right_shift |-> 54, left_alt |-> 56, right_alt |-> E0 + 56,
               left_ctrl |-> 29, right_ctrl |-> E0 + 29]
CAPS_LOCK == 58

\* The state of the driver: the modifiers that are down, caps_lock, key_cnt and
\* what the last interrupt did: it stored a character, nothing, or rebooted.
NOTHING == -1
REBOOT == -2
kbd_init == [down |-> {}, caps_lock |-> FALSE, key_cnt |-> 0, out |-> NOTHING]

tolower(c) == IF c \in 65 .. 90 THEN c + 32 ELSE c

\* keyboard_interrupt, for a code without its release bit.
keyboard_interrupt(k, code, release, input_full) ==
  LET shift == k.down \cap {"left_shift", "right_shift"} # {}
      alt == k.down \cap {"left_alt", "right_alt"} # {}
      ctrl == k.down \cap {"left_ctrl", "right_ctrl"} # {}
      c == map_key(invariant_keymap, code) \cup
           map_key(IF shift THEN shifted_keymap ELSE unshifted_keymap, code)
      ch == CHOOSE x \in c : TRUE
      base == IF ctrl /\ ch \in 64 .. 95 THEN ch - 64
              ELSE IF shift = k.caps_lock THEN tolower(ch) ELSE ch
      mods == {m \in DOMAIN shift_keys : shift_keys[m] = code}
  IN CASE code = CAPS_LOCK -> [k EXCEPT !.caps_lock = IF release THEN @ ELSE ~@, !.out = NOTHING]
       [] code # CAPS_LOCK /\ c # {} /\ release -> [k EXCEPT !.out = NOTHING]
       [] code # CAPS_LOCK /\ c # {} /\ ~release /\ ch = 127 /\ ctrl /\ alt ->
            [k EXCEPT !.out = REBOOT]
       [] code # CAPS_LOCK /\ c # {} /\ ~release /\ ~(ch = 127 /\ ctrl /\ alt) ->
            IF input_full THEN [k EXCEPT !.out = NOTHING]
            ELSE [k EXCEPT !.key_cnt = @ + 1, !.out = base + (IF alt THEN 128 ELSE 0)]
       [] OTHER -> [k EXCEPT !.down = IF release THEN @ \ mods ELSE @ \cup mods, !.out = NOTHING]
=============================================================================
