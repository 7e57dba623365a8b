------------------------------ MODULE EVMWord -------------------------------
(***************************************************************************)
(* The 256-bit words that the contracts pack settings, flags and arguments *)
(* into, each as the set of the positions of its one bits: exact at full   *)
(* width, however large the number.                                        *)
(***************************************************************************)
EXTENDS Integers, FiniteSets

WordBits == 0 .. 255
Word == SUBSET WordBits

Zero == {}
Ones(width) == 0 .. width - 1     \* type(uint<width>).max
MaxUint128 == Ones(128)
MaxUint256 == Ones(256)

And(u, v) == u \cap v
Or(u, v) == u \cup v
Not(u) == WordBits \ u
Shl(n, u) == {b + n : b \in u} \cap WordBits
Shr(n, u) == {b - n : b \in {c \in u : c >= n}}

\* The sum without its overflow: a carry reaches a bit from a pair of ones
\* below it through bits that pass it on.
Add(u, v) ==
    LET Carries == {b \in WordBits : \E c \in u \cap v :
                       c < b /\ (c + 1) .. (b - 1) \subseteq u \cup v}
    IN  {b \in WordBits : (b \in u) # ((b \in v) # (b \in Carries))}

\* The word before u: its lowest one becomes zero and the zeros below it ones,
\* and before zero, unchecked, comes the largest word.
MinusOne(u) ==
    LET Lowest == CHOOSE b \in u : \A c \in u : b <= c
    IN  IF u = Zero THEN MaxUint256 ELSE (u \ {Lowest}) \cup Ones(Lowest)

\* u <= v: they are equal, or the highest bit in which they differ is one of v.
AtMost(u, v) ==
    \/ u = v
    \/ \E b \in v \ u : \A c \in u \ v : c < b

BoolWord(b) == IF b THEN {0} ELSE Zero
=============================================================================
