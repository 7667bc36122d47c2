------------------------------ MODULE WireShift ------------------------------
(***************************************************************************)
(* Session::shift of crates/rdp-hyper/src/wire.rs as the code does it: the  *)
(* replay window is WINDOW_WORDS words of WORD bits, aged in place from the *)
(* last word to the first.  It is checked against Shift of module Wire, on  *)
(* the windows a session reaches and every distance.  A word is the set of  *)
(* its set bits.  NoCarry is a plausible bug of Carry.                      *)
(***************************************************************************)
EXTENDS Wire

CONSTANTS WORD, WINDOW_WORDS     \* 64 and 16 in the code

ASSUME ShiftAssumption == /\ WORD \in Nat \ {0} /\ WINDOW_WORDS \in Nat \ {0}
                          /\ REPLAY_WINDOW = WORD * WINDOW_WORDS

Words(win) == [i \in 0..(WINDOW_WORDS - 1) |-> {b \in 0..(WORD - 1) : i * WORD + b \in win}]
Bits(words) == {i \in 0..(REPLAY_WINDOW - 1) : i % WORD \in words[i \div WORD]}

Left(word, k) == {b \in 0..(WORD - 1) : b - k \in word}         \* word << k
Right(word, k) == {b \in 0..(WORD - 1) : b + k \in word}        \* word >> k

\* The carry from the word below.
NoCarry(words, i, skip, bits) == {}
Carry(words, i, skip, bits) ==
  IF bits > 0 /\ i > skip THEN Right(words[i - skip - 1], WORD - bits) ELSE {}

\* One turn of the loop: word i takes its bits from words[i - skip] and the one
\* below it.
Turn(words, i, skip, bits) ==
  [words EXCEPT ![i] = (IF i >= skip THEN Left(words[i - skip], bits) ELSE {})
                       \union Carry(words, i, skip, bits)]

\* The loop, from the last word down: the words after the turns for i and above.
ShiftWords(words, n) ==
  LET after[i \in 0..WINDOW_WORDS] ==
        IF i = WINDOW_WORDS THEN words ELSE Turn(after[i + 1], i, n \div WORD, n % WORD)
  IN IF n >= REPLAY_WINDOW THEN [i \in DOMAIN words |-> {}] ELSE after[0]

\* Ageing the array word by word, in place, moves every bit i to i + n and
\* drops what leaves the window: no bit is lost or doubled where words meet.
ShiftsEveryBit ==
  \A n \in 1..(REPLAY_WINDOW + 1) : Bits(ShiftWords(Words(recv_window), n)) = Shift(recv_window, n)
=============================================================================
