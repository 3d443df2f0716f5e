------------------------------- MODULE Tokens -------------------------------
(***************************************************************************)
(* The text of a credential (internal/token/token.go): a prefix, the class,*)
(* a key id and a secret in fixed-width digits, and a checksum over all of *)
(* it.  A text is a sequence of symbols: digits 0..Base-1, the separator,  *)
(* the prefix and a symbol outside the alphabet.                           *)
(***************************************************************************)
EXTENDS Integers, FiniteSets, SequencesExt

CONSTANTS
  Base,                 \* 62 in the code
  Classes,              \* the digits that name a class
  KIDLen, SecretLen,    \* digits
  SecretRange,          \* secrets are 0..SecretRange-1
  CRCLen, CRCRange,
  RandomByte, RandomLimit, RandomBase,   \* of randomBase62: 256, 248, 62
  MaxEdits              \* changes to a minted text, for checking

TokensConstants ==
  /\ Base \in Nat \ {0, 1} /\ Classes \subseteq 0..Base - 1
  /\ SecretRange <= Base ^ SecretLen /\ CRCRange <= Base ^ CRCLen

Digits == 0..Base - 1
Sep == -1
Prefix == -2
Foreign == -3
Symbols == Digits \cup {Sep, Prefix, Foreign}

headLen == 3                                \* prefix, class, separator
kidEnd == headLen + KIDLen
bodyLen == kidEnd + SecretLen
crcSep == bodyLen + 1
Total == crcSep + CRCLen

(* Big-endian, exactly width digits. *)
encodeBase62(n, width) == [i \in 1..width |-> (n \div Base ^ (width - i)) % Base]

decodeBase62(s) == FoldLeft(LAMBDA n, d : n * Base + d, 0, s)

(* A checksum that no change of one symbol leaves as it was, as CRC-32C. *)
Checksum(body) == FoldLeft(LAMBDA n, d : (n * 2 + d + 4) % CRCRange, 0, body)

Summed(body) == body \o <<Sep>> \o encodeBase62(Checksum(body), CRCLen)

mintWith(class, kid, secret) ==
  Summed(<<Prefix, class, Sep>> \o kid \o encodeBase62(secret, SecretLen))

Bad(why) == [err |-> why]
InAlphabet(raw, a, b) == \A i \in a..b : raw[i] \in Digits

(* Shape, alphabet, checksum, class, range of the secret: in this order. *)
Parse(raw) ==
  IF Len(raw) # Total \/ raw[1] # Prefix \/ raw[headLen] # Sep \/ raw[crcSep] # Sep
     \/ ~ InAlphabet(raw, 2, 2) \/ ~ InAlphabet(raw, headLen + 1, bodyLen)
     \/ ~ InAlphabet(raw, crcSep + 1, Total) THEN Bad("malformed")
  ELSE IF Summed(SubSeq(raw, 1, bodyLen)) # raw THEN Bad("checksum")
  ELSE IF raw[2] \notin Classes THEN Bad("class")
  ELSE IF decodeBase62(SubSeq(raw, kidEnd + 1, bodyLen)) >= SecretRange THEN Bad("malformed")
  ELSE [err |-> "none", class |-> raw[2], kid |-> SubSeq(raw, headLen + 1, kidEnd),
        secret |-> decodeBase62(SubSeq(raw, kidEnd + 1, bodyLen))]

(* What a scanner finds: shape, not validity. *)
Pattern(raw) ==
  /\ Len(raw) = Total
  /\ raw[1] = Prefix /\ raw[2] \in Classes /\ raw[headLen] = Sep /\ raw[crcSep] = Sep
  /\ InAlphabet(raw, headLen + 1, bodyLen) /\ InAlphabet(raw, crcSep + 1, Total)

(* randomBase62: the bytes that give digit d; bytes from the limit up are   *)
(* drawn again.                                                             *)
Kept62(d) == {b \in 0..RandomByte - 1 : b < RandomLimit /\ b % RandomBase = d}

-----------------------------------------------------------------------------
(* A credential is minted; its text is then mistyped, cut or extended, or   *)
(* given a fresh checksum by someone who knows the format.                  *)
VARIABLES minted, raw, edits
vars == <<minted, raw, edits>>

Credentials == [class : Classes, kid : [1..KIDLen -> Digits], secret : 0..SecretRange - 1]

Init ==
  /\ minted \in Credentials
  /\ raw = mintWith(minted.class, minted.kid, minted.secret) /\ edits = 0

Edit ==
  /\ edits < MaxEdits /\ edits' = edits + 1
  /\ \/ \E i \in DOMAIN raw, s \in Symbols : s # raw[i] /\ raw' = [raw EXCEPT ![i] = s]
     \/ raw # <<>> /\ raw' = Front(raw)
     \/ Len(raw) = Total /\ \E s \in Symbols : raw' = Append(raw, s)
  /\ UNCHANGED minted

Recompute ==
  /\ Len(raw) = Total /\ raw' = Summed(SubSeq(raw, 1, bodyLen))
  /\ raw' # raw
  /\ edits' = MaxEdits /\ UNCHANGED minted

Next == Edit \/ Recompute
Spec == Init /\ [][Next]_vars

(* A minted credential reads back as itself. *)
RoundTrip == edits = 0 => Parse(raw) = [err |-> "none"] @@ minted

(* A text that parses is the one text of what it parses to: the caches of   *)
(* the verifier are keyed by the text and its records by the key id, and no *)
(* second spelling of a credential can make the two disagree.               *)
OneSpelling ==
  LET p == Parse(raw) IN p.err = "none" => raw = mintWith(p.class, p.kid, p.secret)

(* One mistyped, missing or extra symbol never goes past Parse, so a typo   *)
(* costs no store lookup.                                                   *)
TypoStopsHere == edits = 1 => Parse(raw).err # "none"

(* What the hub accepts the published pattern finds. *)
ScannerFindsIt == Parse(raw).err = "none" => Pattern(raw)

(* Every digit of a random key id is as likely as any other. *)
UniformKID ==
  \A d \in 0..RandomBase - 1 : Cardinality(Kept62(d)) = RandomLimit \div RandomBase

=============================================================================
