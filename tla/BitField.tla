-------------------------------- MODULE BitField --------------------------------
(***************************************************************************)
(* src/util/avBitField.c: a bit field in a block of bytes, and the byte    *)
(* that happens to lie behind it.  Memory is the set of bits that are 1.   *)
(***************************************************************************)
EXTENDS Integers, FiniteSets

CONSTANTS ByteSize,     (* stands for the 8 bits of a byte                  *)
          MaxBits       (* bound: the largest bitCount                      *)

ASSUME BytesHaveBits == ByteSize \in Nat \ {0} /\ MaxBits \in Nat

VARIABLES bitCount, ones

bitVars == <<bitCount, ones>>

(* getByteCount *)
ByteCount == bitCount \div ByteSize + (IF bitCount % ByteSize # 0 THEN 1 ELSE 0)
AllocatedBits == 0..(ByteCount * ByteSize - 1)
Behind == (ByteCount * ByteSize)..((ByteCount + 1) * ByteSize - 1)

(* avBitFieldCreate: what lies behind the field belongs to something else. *)
BitInit ==
    /\ bitCount \in 1..MaxBits
    /\ ones = Behind

BitTest(bit) == bit < bitCount /\ bit \in ones

(* avBitFieldWrite only ever adds a bit; avBitFieldSet, avBitFieldReset    *)
(* and avBitFieldToggle come down to it.                                   *)
BitWrite(bit, state) ==
    /\ ones' = IF bit < bitCount /\ state THEN ones \cup {bit} ELSE ones
    /\ UNCHANGED bitCount
BitSet(bit) == BitWrite(bit, TRUE)
BitReset(bit) == BitWrite(bit, FALSE)
BitToggle(bit) == BitWrite(bit, ~BitTest(bit))

(* The bits of byte i that MASK_ONES(remainder) keeps.                     *)
MaskOnes(i, remainder) == (i * ByteSize)..(i * ByteSize + remainder - 1)
Byte(i) == (i * ByteSize)..((i + 1) * ByteSize - 1)

(* Mutation: the padding of the last byte is counted too. *)
CountOnesUnmasked == Cardinality(ones \cap AllocatedBits)

(* avBitFieldCountOnes: the last byte is masked when it is not full.       *)
CountOnes ==
    LET last == bitCount \div ByteSize
        Masked(i) == IF bitCount % ByteSize # 0 /\ i = last
                     THEN ones \cap MaskOnes(i, bitCount % ByteSize) ELSE ones \cap Byte(i)
    IN  Cardinality(UNION {Masked(i) : i \in 0..(ByteCount - 1)})

(* avBitFieldWriteAll fills the padding too, and its mask is applied to    *)
(* the byte behind the field.                                              *)
WriteAll(state) ==
    /\ ones' = IF state
               THEN AllocatedBits \cup (ones \cap MaskOnes(ByteCount, bitCount % ByteSize))
               ELSE ones \cap Behind
    /\ UNCHANGED bitCount

BitNext ==
    \/ \E bit \in 0..MaxBits : BitSet(bit) \/ BitReset(bit) \/ BitToggle(bit)
    \/ \E state \in BOOLEAN : WriteAll(state)

--------------------------------------------------------------------------------

(* The count is the number of bits that test as 1, also after every byte   *)
(* was filled with ones.                                                   *)
CountIsOfTests == CountOnes = Cardinality({bit \in 0..(bitCount - 1) : BitTest(bit)})

(* A bit once set stays set: neither avBitFieldReset nor avBitFieldToggle  *)
(* clears it, only avBitFieldWriteAll.  And only avBitFieldWriteAll(true)  *)
(* damages the byte behind the field.                                      *)
BitsOnlyGather ==
    [][ \/ ones \subseteq ones'
        \/ ones' \cap AllocatedBits = {} /\ ones' \cap Behind = ones \cap Behind
        \/ AllocatedBits \subseteq ones' ]_bitVars
================================================================================
