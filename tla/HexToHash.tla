----------------------------- MODULE HexToHash -----------------------------
(***************************************************************************)
(* The hash conversions of tests/decode.go: FromHex, Hex2Bytes, SetBytes,  *)
(* BytesToHash, HexToHash and the program's main.  A string is a sequence  *)
(* of characters from a small alphabet (three hex digits, the two prefix   *)
(* letters and one character that is not hex), a byte string a sequence   *)
(* of naturals below 256, a Hash a sequence of HashLength bytes.  The      *)
(* conversions are checked against a reference that reads the hex digits  *)
(* as one number.                                                          *)
(***************************************************************************)
EXTENDS Naturals, Sequences

CONSTANTS
  HashLength,  \* bytes in a Hash (32 in the code)
  MaxLen       \* longest input string enumerated

ASSUME LengthAssumption == HashLength \in Nat \ {0} /\ MaxLen \in Nat

Chars == {"0", "1", "f", "x", "X", "g"}
HexVal == [c \in {"0", "1", "f"} |-> IF c = "0" THEN 0 ELSE IF c = "1" THEN 1 ELSE 15]
IsHex(c) == c \in DOMAIN HexVal

(* The ASCII codes of the characters: what []byte(str) produces.          *)
Ascii == [c \in Chars |-> CASE c = "0" -> 48 [] c = "1" -> 49 [] c = "f" -> 102
                            [] c = "x" -> 120 [] c = "X" -> 88 [] c = "g" -> 103]

Strings == UNION {[1 .. n -> Chars] : n \in 0 .. MaxLen}

(* FromHex: drop a "0x" or "0X" prefix, then left-pad an odd length with  *)
(* "0" and decode.                                                        *)
StripPrefix(s) ==
  IF Len(s) > 1 /\ s[1] = "0" /\ s[2] \in {"x", "X"}
  THEN SubSeq(s, 3, Len(s)) ELSE s
PadOdd(s) == IF Len(s) % 2 = 1 THEN <<"0">> \o s ELSE s

(* Hex2Bytes: hex.DecodeString with its error dropped, which keeps the    *)
(* bytes of the pairs decoded before the first invalid character.         *)
PairOk(t, i) == IsHex(t[2 * i - 1]) /\ IsHex(t[2 * i])
DecodedPairs(t) ==
  CHOOSE n \in 0 .. (Len(t) \div 2) :
    /\ \A i \in 1 .. n : PairOk(t, i)
    /\ n < Len(t) \div 2 => ~PairOk(t, n + 1)
Hex2Bytes(t) ==
  [i \in 1 .. DecodedPairs(t) |-> 16 * HexVal[t[2 * i - 1]] + HexVal[t[2 * i]]]

(* Mutant of FromHex: the odd digit is padded at the wrong end.         *)
FromHexPadRight(s) ==
  LET t == StripPrefix(s)
  IN Hex2Bytes(IF Len(t) % 2 = 1 THEN t \o <<"0">> ELSE t)

FromHex(s) == Hex2Bytes(PadOdd(StripPrefix(s)))

(* Mutant of SetBytes: a long input keeps its first HashLength bytes.    *)
SetBytesKeepFirst(b) ==
  LET c == IF Len(b) > HashLength THEN SubSeq(b, 1, HashLength) ELSE b
      pad == HashLength - Len(c)
  IN [i \in 1 .. HashLength |-> IF i <= pad THEN 0 ELSE c[i - pad]]

(* SetBytes on a zero Hash: keep the last HashLength bytes of b and copy  *)
(* them right-aligned.                                                     *)
SetBytes(b) ==
  LET c == IF Len(b) > HashLength THEN SubSeq(b, Len(b) - HashLength + 1, Len(b)) ELSE b
      pad == HashLength - Len(c)
  IN [i \in 1 .. HashLength |-> IF i <= pad THEN 0 ELSE c[i - pad]]

BytesToHash(b) == SetBytes(b)

HexToHash(s) == BytesToHash(FromHex(s))

(* main: BytesToHash([]byte(literal)), the literal's ASCII bytes.          *)
MainHash(s) == BytesToHash([i \in 1 .. Len(s) |-> Ascii[s[i]]])

-----------------------------------------------------------------------------
(* Reference: the longest run of valid leading digits of the padded     *)
(* string, cut to an even length, read as a number, reduced modulo       *)
(* 256^HashLength and written big-endian.                                *)
RefDigits(s) ==
  LET t == PadOdd(StripPrefix(s))
      m == CHOOSE m \in 0 .. Len(t) :
             /\ \A i \in 1 .. m : IsHex(t[i])
             /\ m < Len(t) => ~IsHex(t[m + 1])
  IN SubSeq(t, 1, m - (m % 2))
RefValue(d) ==
  LET v[i \in 0 .. Len(d)] == IF i = 0 THEN 0 ELSE 16 * v[i - 1] + HexVal[d[i]]
  IN v[Len(d)]
Pow256(n) == LET p[i \in 0 .. n] == IF i = 0 THEN 1 ELSE 256 * p[i - 1] IN p[n]
RefHexToHash(s) ==
  LET v == RefValue(RefDigits(s)) % Pow256(HashLength)
  IN [i \in 1 .. HashLength |-> (v \div Pow256(HashLength - i)) % 256]

VARIABLE input
Init == input \in Strings
Next == UNCHANGED input
Spec == Init /\ [][Next]_input

(* HexToHash reads every string as the number its valid leading digit     *)
(* pairs spell, kept to its low HashLength bytes: the prefix is optional, *)
(* an odd digit count gains a leading zero, and an invalid character ends *)
(* the number silently (Hex2Bytes drops the decoding error).              *)
HexToHashIsNumeric == HexToHash(input) = RefHexToHash(input)

(* main prints the hash its hex literal denotes.                          *)
MainPrintsLiteral ==
  (Len(input) > 1 /\ input[1] = "0" /\ input[2] = "x")
    => MainHash(input) = HexToHash(input)

=============================================================================
