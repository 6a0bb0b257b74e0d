------------------------------ MODULE Addresses ------------------------------
(***************************************************************************)
(* Addresses and their bech32 texts (address.go and address_*.go).  An     *)
(* address is a type and an identifier (a byte stands for the 32), or a    *)
(* restricted address around one, with the bit mask of what it allows.     *)
(*                                                                         *)
(* Somebody writes an address down; it is typed in again, with or without  *)
(* mistakes, or a text comes from another encoder, with a checksum that    *)
(* fits whatever its digits are.                                           *)
(***************************************************************************)
EXTENDS Bech32

CONSTANTS
    HRPs,                   \* human-readable parts
    IDs,                    \* identifiers, bytes
    Capabilities,           \* sets of capabilities, bit indexes
    ForeignDigits,          \* sequences of digits of the other encoder
    Typed,                  \* characters typed by mistake
    MaxTypos

AddressEd25519 == 0
AddressAccount == 8
AddressNFT == 16
AddressAnchor == 24
AddressImplicitAccountCreation == 32
AddressMulti == 40
AddressRestricted == 48

IDTypes == {AddressEd25519, AddressAccount, AddressNFT, AddressAnchor,
            AddressImplicitAccountCreation}

VARIABLES
    written,                \* what the text was written for, or Nothing
    text,
    typos

addressVars == <<written, text, typos>>

Nothing == [type |-> -1]

-----------------------------------------------------------------------------
BitMaskHasBit(bm, bit) ==
    bit \div 8 < Len(bm) /\ (bm[bit \div 8 + 1] \div 2 ^ (bit % 8)) % 2 = 1

(* AddressCapabilitiesBitMaskWithCapabilities sets the bits one by one,    *)
(* and BitMaskSetBit adds the bytes a bit needs.                           *)
BitMaskWithCapabilities(bits) ==
    [k \in 1 .. (IF bits = {} THEN 0 ELSE Max(bits) \div 8 + 1) |->
        MapThenSumSet(LAMBDA b : 2 ^ (b % 8), {b \in bits : b \div 8 = k - 1})]

(* ID: the bytes of an address, and for a multi address, its hash. *)
ID(a) ==
    IF a.type = AddressRestricted
    THEN <<AddressRestricted, a.address.type, a.address.id>> \o <<Len(a.allowed)>> \o a.allowed
    ELSE <<a.type, a.id>>

Address == [type : IDTypes \union {AddressMulti}, id : IDs]

RestrictedAddress ==
    [type : {AddressRestricted},
     address : [type : (IDTypes \ {AddressImplicitAccountCreation}) \union {AddressMulti},
                id : IDs],
     allowed : {BitMaskWithCapabilities(bits) : bits \in Capabilities}]

-----------------------------------------------------------------------------
(* What serix reads from the bytes b on from position i: an address with   *)
(* an identifier, or a length and as many bytes.                           *)
ReadAddress(b, i) ==
    IF i < Len(b) /\ b[i] \in IDTypes
    THEN [ok |-> TRUE, value |-> [type |-> b[i], id |-> b[i + 1]], next |-> i + 2]
    ELSE Failed

ReadCapabilities(b, i) ==
    IF i <= Len(b) /\ i + b[i] <= Len(b)
    THEN [ok |-> TRUE, value |-> SubSeq(b, i + 1, i + b[i]), next |-> i + 1 + b[i]]
    ELSE Failed

(* MultiAddressReferenceFromBytes: the hash is taken as it is. *)
MultiAddressReference(b, i) ==
    IF i < Len(b) /\ b[i] = AddressMulti
    THEN [ok |-> TRUE, value |-> [type |-> AddressMulti, id |-> b[i + 1]], next |-> i + 2]
    ELSE Failed

(* A restricted address, from what was read of the underlying one. *)
Restricted(b, address) ==
    LET allowed == IF address.ok THEN ReadCapabilities(b, address.next) ELSE Failed
    IN  IF ~ allowed.ok THEN Failed
        ELSE [ok |-> TRUE, next |-> allowed.next,
              value |-> [type |-> AddressRestricted, address |-> address.value,
                         allowed |-> allowed.value]]

AllConsumed(r, b) == IF r.ok THEN (IF r.next = Len(b) + 1 THEN r ELSE Failed) ELSE Failed

(* ParseBech32.  Multi addresses are references, and are read without a    *)
(* look at the bytes that follow.  (A restricted address inside a          *)
(* restricted one, which nobody writes, is left out.)                      *)
ParseBech32(s) ==
    LET decoded == Decode(s)
        b == IF decoded.ok THEN decoded.data ELSE <<>>
    IN  IF b = <<>> THEN Failed
        ELSE IF b[1] = AddressMulti THEN MultiAddressReference(b, 1)
        ELSE IF b[1] = AddressRestricted THEN
            IF Len(b) = 1 THEN Failed
            ELSE IF b[2] = AddressMulti THEN Restricted(b, MultiAddressReference(b, 2))
            ELSE AllConsumed(Restricted(b, ReadAddress(b, 2)), b)
        ELSE AllConsumed(ReadAddress(b, 1), b)

-----------------------------------------------------------------------------
AddressInit == written = Nothing /\ text = <<>> /\ typos = 0

(* Bech32, of every type of address; a text that is too long panics. *)
WriteAddress(hrp, a) ==
    /\ text = <<>>
    /\ Encode(hrp, ID(a)).ok
    /\ text' = Encode(hrp, ID(a)).text
    /\ written' = [type |-> a.type, hrp |-> hrp, address |-> a]
    /\ UNCHANGED typos

(* The other encoder. *)
WriteForeign(hrp, digits) ==
    /\ text = <<>>
    /\ text' = hrp \o <<Separator>> \o encode(digits \o bech32CreateChecksum(hrp, digits))
    /\ UNCHANGED <<written, typos>>

Mistype(i, c) ==
    /\ written # Nothing
    /\ typos < MaxTypos
    /\ ToLower(<<text[i]>>) # ToLower(<<c>>)
    /\ text' = [text EXCEPT ![i] = c]
    /\ typos' = typos + 1
    /\ UNCHANGED written

WriteAddresses == \E hrp \in HRPs : \E a \in Address \union RestrictedAddress : WriteAddress(hrp, a)
WriteForeigns == \E hrp \in HRPs, digits \in ForeignDigits : WriteForeign(hrp, digits)
MistypeOne == \E i \in DOMAIN text, c \in Typed : Mistype(i, c)

AddressNext == WriteAddresses \/ WriteForeigns \/ MistypeOne

-----------------------------------------------------------------------------
(* An address that was written down and typed in without a mistake is      *)
(* parsed to the same address, with the same capabilities.                 *)
WrittenIsParsed ==
    written # Nothing /\ typos = 0 =>
        LET parsed == ParseBech32(text)
        IN  /\ parsed.ok
            /\ Decode(text).hrp = ToLower(written.hrp)
            /\ parsed.value = written.address
            /\ written.type = AddressRestricted =>
                  \E bits \in Capabilities : \A bit \in 0 .. 8 :
                      BitMaskHasBit(parsed.value.allowed, bit) <=> bit \in bits

(* A text with up to MaxTypos wrong characters is never taken for an       *)
(* address, also when the human-readable part or the separator is hit, or  *)
(* when a character becomes a separator.                                   *)
TyposAreDetected ==
    typos > 0 /\ ParseBech32(text).ok =>
        ToLower(text) = ToLower(Encode(written.hrp, ID(written.address)).text)

(* A text that is decoded is the only one of its bytes: encoding them      *)
(* again gives it back.                                                    *)
DecodedIsCanonical ==
    LET decoded == Decode(text)
    IN  decoded.ok => ToLower(text) = ToLower(Encode(decoded.hrp, decoded.data).text)

(* Two texts are not the same address, unless a multi address is in it:    *)
(* what is parsed, written again, gives the text back.                     *)
ParsedIsCanonical ==
    LET parsed == ParseBech32(text)
        multi(a) == a.type = AddressMulti
                    \/ (a.type = AddressRestricted /\ a.address.type = AddressMulti)
    IN  IF ~ parsed.ok THEN TRUE
        ELSE multi(parsed.value) \/
             ToLower(text) = ToLower(Encode(Decode(text).hrp, ID(parsed.value)).text)

(* There is one text for the bytes, and one for the address. *)
TextsAreCanonical == DecodedIsCanonical /\ ParsedIsCanonical
=============================================================================
