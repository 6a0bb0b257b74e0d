------------------------------- MODULE Bech32 -------------------------------
(***************************************************************************)
(* Package bech32: bytes as a text of a human-readable part, a separator   *)
(* and base32 digits, the last six of them a checksum.  A text is a        *)
(* sequence of ASCII codes.  An encoding or a decoding that fails is       *)
(* Failed; where in the text is left out.                                  *)
(***************************************************************************)
EXTENDS Integers, Sequences, SequencesExt, Bitwise

CONSTANT MaxStringLength    \* 90 in the code

ChecksumLength == 6
Separator == 49             \* "1"

Failed == [ok |-> FALSE]

-----------------------------------------------------------------------------
(* Package base32. *)
EncodedLen(n) == (n * 8 + 4) \div 5

(* The digits of a group of up to five bytes; an absent byte carries 0. *)
EncodeGroup(src) ==
    LET b(i) == IF i <= Len(src) THEN src[i] ELSE 0
        digits == << b(1) \div 8,
                     ((b(1) * 4) % 32) + b(2) \div 64,
                     (b(2) \div 2) % 32,
                     ((b(2) * 16) % 32) + b(3) \div 16,
                     ((b(3) * 2) % 32) + b(4) \div 128,
                     (b(4) \div 4) % 32,
                     ((b(4) * 8) % 32) + b(5) \div 32,
                     b(5) % 32 >>
    IN  SubSeq(digits, 1, EncodedLen(Len(src)))

(* The bytes of a group of up to eight digits. *)
DecodeGroup(d) ==
    LET byte(i) == CASE i = 1 -> d[1] * 8 + d[2] \div 4
                     [] i = 2 -> ((d[2] * 64 + d[3] * 2) % 256) + d[4] \div 16
                     [] i = 3 -> ((d[4] * 16) % 256) + d[5] \div 2
                     [] i = 4 -> ((d[5] * 128 + d[6] * 4) % 256) + d[7] \div 8
                     [] i = 5 -> ((d[7] * 32) % 256) + d[8]
    IN  [i \in 1 .. (Len(d) * 5) \div 8 |-> byte(i)]

(* Mutant: only the length of a group is checked. *)
LengthOnly(d) == Len(d) \notin {1, 3, 6}

(* The last group has a length some bytes encode to, and the bits after    *)
(* the last byte are zero.                                                 *)
CanonicalGroup(d) ==
    /\ Len(d) \notin {1, 3, 6}
    /\ Len(d) = 2 => d[2] % 4 = 0
    /\ Len(d) = 4 => d[4] % 16 = 0
    /\ Len(d) = 5 => d[5] % 2 = 0
    /\ Len(d) = 7 => d[7] % 8 = 0

(* The groups of n elements that s is read in. *)
Groups(s, n) ==
    [k \in 1 .. (Len(s) + n - 1) \div n |-> SubSeq(s, (k - 1) * n + 1, Min({k * n, Len(s)}))]

Base32Encode(src) == FlattenSeq([k \in DOMAIN Groups(src, 5) |-> EncodeGroup(Groups(src, 5)[k])])

Base32Decode(d) ==
    LET groups == Groups(d, 8)
    IN  IF \A k \in DOMAIN groups : CanonicalGroup(groups[k])
        THEN [ok |-> TRUE, data |-> FlattenSeq([k \in DOMAIN groups |-> DecodeGroup(groups[k])])]
        ELSE Failed

-----------------------------------------------------------------------------
(* The characters of the digits, "qpzry9x8gf2tvdw0s3jn54khce6mua7l". *)
charset == <<113, 112, 122, 114, 121, 57, 120, 56, 103, 102, 50, 116, 118, 100, 119, 48,
             115, 51, 106, 110, 53, 52, 107, 104, 99, 101, 54, 109, 117, 97, 55, 108>>

decMap == [c \in ToSet(charset) |-> CHOOSE d \in 0 .. 31 : charset[d + 1] = c]

encode(digits) == [i \in DOMAIN digits |-> charset[digits[i] + 1]]

decode(s) ==
    IF ToSet(s) \subseteq DOMAIN decMap
    THEN [ok |-> TRUE, data |-> [i \in DOMAIN s |-> decMap[s[i]]]]
    ELSE Failed

-----------------------------------------------------------------------------
(* The generator polynomials, and for five bits the sum of those that are  *)
(* set.                                                                    *)
gen == <<996825010, 642813549, 513874426, 1027748829, 705979059>>

genSum ==
    [b \in 0 .. 31 |->
        FoldLeft(LAMBDA acc, i : IF (b \div 2 ^ (i - 1)) % 2 = 1 THEN acc ^^ gen[i] ELSE acc,
                 0, <<1, 2, 3, 4, 5>>)]

bech32Polymod(values) ==
    FoldLeft(LAMBDA chk, v : (((chk % 2 ^ 25) * 32) + v) ^^ genSum[chk \div 2 ^ 25], 1, values)

(* Mutant: the human-readable part is not protected. *)
bech32HrpExpandEmpty(s) == <<0>>

bech32HrpExpand(s) ==
    [i \in DOMAIN s |-> s[i] \div 32] \o <<0>> \o [i \in DOMAIN s |-> s[i] % 32]

bech32CreateChecksum(hrp, blocks) ==
    LET polymod == bech32Polymod(bech32HrpExpand(hrp) \o blocks \o <<0, 0, 0, 0, 0, 0>>) ^^ 1
    IN  [i \in 1 .. ChecksumLength |-> (polymod \div 2 ^ (5 * (6 - i))) % 32]

bech32VerifyChecksum(hrp, data) == bech32Polymod(bech32HrpExpand(hrp) \o data) = 1

-----------------------------------------------------------------------------
IsUpper(c) == c \in 65 .. 90
IsLower(c) == c \in 97 .. 122
ToLower(s) == [i \in DOMAIN s |-> IF IsUpper(s[i]) THEN s[i] + 32 ELSE s[i]]
ToUpper(s) == [i \in DOMAIN s |-> IF IsLower(s[i]) THEN s[i] - 32 ELSE s[i]]

validateCase(s) == ~ \E i, j \in DOMAIN s : IsUpper(s[i]) /\ IsLower(s[j])

isValidHRP(hrp) == \A i \in DOMAIN hrp : hrp[i] \in 33 .. 126

(* Mutant: the checksum is of the human-readable part as given. *)
EncodeAsGiven(hrp, src) ==
    LET digits == Base32Encode(src)
        text == hrp \o <<Separator>> \o encode(digits \o bech32CreateChecksum(hrp, digits))
    IN  IF \/ Len(text) > MaxStringLength
           \/ Len(hrp) < 1 \/ ~ isValidHRP(hrp) \/ ~ validateCase(hrp)
        THEN Failed
        ELSE [ok |-> TRUE, text |-> IF hrp = ToLower(hrp) THEN text ELSE ToUpper(text)]

Encode(hrp, src) ==
    LET digits == Base32Encode(src)
        text == hrp \o <<Separator>> \o encode(digits \o bech32CreateChecksum(ToLower(hrp), digits))
    IN  IF \/ Len(text) > MaxStringLength
           \/ Len(hrp) < 1 \/ ~ isValidHRP(hrp) \/ ~ validateCase(hrp)
        THEN Failed
        ELSE [ok |-> TRUE, text |-> IF hrp = ToLower(hrp) THEN text ELSE ToUpper(text)]

(* The part before the last separator, and the digits after it. *)
Decode(s) ==
    LET positions == {i \in DOMAIN s : s[i] = Separator}
        hrpLen == IF positions = {} THEN -1 ELSE Max(positions) - 1
        hrp == SubSeq(ToLower(s), 1, hrpLen)
        digits == decode(SubSeq(ToLower(s), hrpLen + 2, Len(s)))
    IN  IF \/ Len(s) > MaxStringLength
           \/ hrpLen < 1 \/ hrpLen + ChecksumLength > Len(s)
           \/ ~ isValidHRP(SubSeq(s, 1, hrpLen))
           \/ ~ validateCase(s)
        THEN Failed
        ELSE IF ~ digits.ok THEN Failed
        ELSE IF Len(digits.data) < ChecksumLength \/ ~ bech32VerifyChecksum(hrp, digits.data)
             THEN Failed
        ELSE LET bytes == Base32Decode(SubSeq(digits.data, 1, Len(digits.data) - ChecksumLength))
             IN  IF bytes.ok THEN [ok |-> TRUE, hrp |-> hrp, data |-> bytes.data] ELSE Failed
=============================================================================
