-------------------------- MODULE HexToHashProofs --------------------------
(***************************************************************************)
(* Proofs about the byte-level conversions of tests/decode.go for every    *)
(* hash length: what SetBytes keeps of a byte string of any length, and    *)
(* that FromHex's prefix stripping and padding leave an even number of     *)
(* digits.  What HexToHash computes as a number is a statement about every *)
(* digit string, which needs induction over the string and stays with TLC *)
(* (HexToHashIsNumeric).                                                   *)
(***************************************************************************)
EXTENDS HexToHash, SequenceTheorems, TLAPS

Bytes == 0 .. 255

(* The bytes SetBytes keeps of b, and the zero bytes it puts before them. *)
Kept(b) == IF Len(b) > HashLength THEN SubSeq(b, Len(b) - HashLength + 1, Len(b)) ELSE b
PadLen(b) == HashLength - Len(Kept(b))

(* SetBytes copies the kept bytes behind PadLen(b) zero bytes.            *)
LEMMA SetBytesKept ==
  ASSUME NEW b
  PROVE  SetBytes(b) = [i \in 1 .. HashLength |->
                          IF i <= PadLen(b) THEN 0 ELSE Kept(b)[i - PadLen(b)]]
  BY DEF SetBytes, Kept, PadLen

(* A string longer than the hash keeps exactly its last HashLength bytes, *)
(* with no padding.                                                       *)
LEMMA KeptLong ==
  ASSUME NEW b \in Seq(Bytes), Len(b) > HashLength
  PROVE  /\ PadLen(b) = 0
         /\ \A j \in 1 .. HashLength : Kept(b)[j] = b[Len(b) - HashLength + j]
<1>1. Kept(b) = SubSeq(b, Len(b) - HashLength + 1, Len(b))
  BY DEF Kept
<1>2. \A i \in (Len(b) - HashLength + 1) .. Len(b) : b[i] \in Bytes
  BY LengthAssumption, LenProperties
<1>3. /\ Len(SubSeq(b, Len(b) - HashLength + 1, Len(b))) = HashLength
      /\ \A j \in 1 .. HashLength :
           SubSeq(b, Len(b) - HashLength + 1, Len(b))[j] = b[Len(b) - HashLength + j]
  BY <1>2, LengthAssumption, SubSeqProperties
<1>. QED
  BY <1>1, <1>3, LengthAssumption DEF PadLen

(* A string no longer than the hash is kept whole.                        *)
LEMMA KeptShort ==
  ASSUME NEW b \in Seq(Bytes), Len(b) <= HashLength
  PROVE  Kept(b) = b /\ PadLen(b) = HashLength - Len(b)
  BY LengthAssumption DEF Kept, PadLen

(* SetBytes (common.Hash.SetBytes, as BytesToHash calls it): for every    *)
(* hash length and every byte string, the hash holds the last HashLength  *)
(* bytes of b right-aligned, b cropped from the left when it is longer    *)
(* and zero-padded on the left when it is shorter.                        *)
THEOREM SetBytesCropsLeft ==
  ASSUME NEW b \in Seq(Bytes)
  PROVE  /\ SetBytes(b) \in [1 .. HashLength -> Bytes]
         /\ \A i \in 1 .. HashLength :
              SetBytes(b)[i] = IF i <= HashLength - Len(b) THEN 0
                               ELSE b[Len(b) - HashLength + i]
<1>0. Len(b) \in Nat /\ b \in [1 .. Len(b) -> Bytes] /\ HashLength \in Nat \ {0}
  BY LenProperties, LengthAssumption
<1>1. CASE Len(b) > HashLength
  <2>0. /\ PadLen(b) = 0
        /\ \A j \in 1 .. HashLength : Kept(b)[j] = b[Len(b) - HashLength + j]
    BY <1>1, KeptLong
  <2>1. \A i \in 1 .. HashLength : SetBytes(b)[i] = b[Len(b) - HashLength + i]
    BY <2>0, SetBytesKept, LengthAssumption
  <2>2. \A i \in 1 .. HashLength : b[Len(b) - HashLength + i] \in Bytes
    BY <1>0, <1>1
  <2>3. SetBytes(b) \in [1 .. HashLength -> Bytes]
    BY <2>1, <2>2, SetBytesKept, LengthAssumption
  <2>. QED
    BY <1>0, <1>1, <2>1, <2>3
<1>2. CASE Len(b) <= HashLength
  <2>1. \A i \in 1 .. HashLength :
          SetBytes(b)[i] = IF i <= HashLength - Len(b) THEN 0 ELSE b[Len(b) - HashLength + i]
    <3>1. Kept(b) = b /\ PadLen(b) = HashLength - Len(b)
      BY <1>2, KeptShort
    <3>. QED
      BY <3>1, SetBytesKept, LengthAssumption
  <2>2. \A i \in 1 .. HashLength : i > HashLength - Len(b) => b[Len(b) - HashLength + i] \in Bytes
    BY <1>0, <1>2
  <2>3. ASSUME NEW i \in 1 .. HashLength PROVE SetBytes(b)[i] \in Bytes
    <3>1. CASE i <= HashLength - Len(b)
      <4>1. SetBytes(b)[i] = 0
        BY <3>1, <2>1
      <4>. QED
        BY <4>1 DEF Bytes
    <3>2. CASE ~(i <= HashLength - Len(b))
      <4>1. SetBytes(b)[i] = b[Len(b) - HashLength + i]
        BY <3>2, <2>1
      <4>2. b[Len(b) - HashLength + i] \in Bytes
        BY <3>2, <2>2, <1>0, LengthAssumption
      <4>. QED
        BY <4>1, <4>2
    <3>. QED
      BY <3>1, <3>2
  <2>4. SetBytes(b) \in [1 .. HashLength -> Bytes]
    BY <2>3, SetBytesKept, Zenon
  <2>. QED
    BY <2>1, <2>4
<1>. QED
  BY <1>0, <1>1, <1>2

(* FromHex's input to Hex2Bytes: whatever string is given, dropping a     *)
(* "0x"/"0X" prefix and left-padding an odd length with "0" leaves an     *)
(* even number of characters, the last of them those of the string.      *)
THEOREM PaddedEven ==
  ASSUME NEW s \in Seq(Chars)
  PROVE  LET t == PadOdd(StripPrefix(s))
         IN  /\ t \in Seq(Chars)
             /\ Len(t) % 2 = 0
             /\ Len(t) >= Len(StripPrefix(s))
<1>1. StripPrefix(s) \in Seq(Chars)
  <2>1. CASE Len(s) > 1 /\ s[1] = "0" /\ s[2] \in {"x", "X"}
    <3>1. \A i \in 3 .. Len(s) : s[i] \in Chars
      BY LenProperties
    <3>. QED
      BY <2>1, <3>1, SubSeqProperties DEF StripPrefix
  <2>. QED
    BY <2>1 DEF StripPrefix
<1>2. <<"0">> \in Seq(Chars) /\ Len(<<"0">>) = 1
  BY DEF Chars
<1> DEFINE t0 == StripPrefix(s)
<1>3. t0 \in Seq(Chars) /\ Len(t0) \in Nat
  BY <1>1, LenProperties DEF t0
<1>4. CASE Len(t0) % 2 = 1
  <2>1. PadOdd(t0) = <<"0">> \o t0
    BY <1>4 DEF PadOdd
  <2>2. <<"0">> \o t0 \in Seq(Chars) /\ Len(<<"0">> \o t0) = 1 + Len(t0)
    BY <1>2, <1>3, ConcatProperties
  <2>3. (1 + Len(t0)) % 2 = 0
    BY <1>3, <1>4
  <2>. QED
    BY <2>1, <2>2, <2>3 DEF t0
<1>5. CASE Len(t0) % 2 # 1
  <2>1. PadOdd(t0) = t0
    BY <1>5 DEF PadOdd
  <2>2. Len(t0) % 2 = 0
    BY <1>3, <1>5
  <2>. QED
    BY <1>3, <2>1, <2>2 DEF t0
<1>. QED
  BY <1>4, <1>5

=============================================================================
