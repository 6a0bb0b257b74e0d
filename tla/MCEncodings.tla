----------------------------- MODULE MCEncodings -----------------------------
(* An instance of Encodings for TLC.  "a", "A" and "1b" are human-readable *)
(* parts; "q", "1" and "Z" are typed by mistake.                          *)
EXTENDS Encodings

MCHRPs == {<<97>>, <<65>>, <<49, 98>>}
MCCapabilities == {{}, {1, 2}, {0, 8}}
MCForeignDigits ==
    UNION {[1 .. n -> {0, 1, 8, 24}] : n \in 0 .. 3}
    \union {[i \in 1 .. n |-> IF i = n THEN d ELSE (5 * i) % 32] : n \in 4 .. 12, d \in 0 .. 31}
    \union {Base32Encode(<<t, 7>> \o rest) : t \in {0, 40, 99}, rest \in {<<0>>, <<0, 1>>}}
    \union {Base32Encode(<<48, t, 7>> \o rest) : t \in {8, 40}, rest \in {<<>>, <<2, 1>>, <<0, 0>>, <<1, 0>>}}
MCTyped == {113, 49, 90}

(* Two values, and one with the bytes of the node above them. *)
MCValues == {<<<<"a">>>>, <<<<"b">>>>, <<hashLeaf(<<<<"a">>>>), hashLeaf(<<<<"b">>>>)>>}
=============================================================================
