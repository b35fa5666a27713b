-------------------------- MODULE PageTableProofs --------------------------
(***************************************************************************)
(* Proofs about the page tables, for any pages, frames and swap places:    *)
(* no frame is lost or handed out twice, no two pages share one, and the   *)
(* five-level table of bit fields implements the map PageMap.              *)
(***************************************************************************)
EXTENDS PageTable, SequenceTheorems, WellFoundedInduction, TLAPS

-----------------------------------------------------------------------------
(* Words *)

FpnBits == SUBSET (0..12)
TypBits == SUBSET (0..4)
OffBits == SUBSET (0..20)

\* A field reads back what was put into it.
LEMMA FieldRoundTrip ==
  ASSUME NEW lo \in Nat, NEW mask, mask \subseteq Nat,
         NEW v, NEW value, value \subseteq Nat, \A b \in value : b + lo \in mask
  PROVE  GETVAL(SETVAL(v, value, mask, lo), mask, lo) = value
<1>1. SETVAL(v, value, mask, lo) \cap mask = SHL(value, lo)
  BY DEF SETVAL, SHL
<1>2. SHR(SHL(value, lo), lo) = value
  <2>1. \A b \in value : b + lo >= lo /\ (b + lo) - lo = b
    OBVIOUS
  <2>2. {c \in SHL(value, lo) : c >= lo} = SHL(value, lo)
    BY <2>1 DEF SHL
  <2>3. SHR(SHL(value, lo), lo) = {c - lo : c \in SHL(value, lo)}
    BY <2>2, Zenon DEF SHR
  <2>4. {c - lo : c \in {b + lo : b \in value}} = value
    BY <2>1
  <2> QED
    BY <2>3, <2>4, Zenon DEF SHL
<1> QED
  BY <1>1, <1>2 DEF GETVAL

\* Setting a field leaves the bits outside it.
LEMMA FieldElsewhere ==
  ASSUME NEW v, NEW value, NEW mask, NEW lo, NEW other, other \cap mask = {}
  PROVE  SETVAL(v, value, mask, lo) \cap other = v \cap other
BY DEF SETVAL

\* An entry of a frame says that the page is online in it, whatever it was.
LEMMA OnlineEntry ==
  ASSUME NEW v \in Word, NEW fpn \in FpnBits
  PROVE  /\ WithFpn(v, fpn) \in Word
         /\ Decode(WithFpn(v, fpn)) = Online(fpn)
<1> DEFINE w == (v \cup {PRESENT}) \ {SWAPPED}
           e == SETVAL(w, fpn, FPN_MASK, 0)
<1>1. WithFpn(v, fpn) = e
  BY DEF WithFpn
<1>2. fpn \subseteq Nat /\ FPN_MASK \subseteq Nat /\ 0 \in Nat /\ \A b \in fpn : b + 0 \in FPN_MASK
  BY DEF FpnBits, FPN_MASK
<1>3. GETVAL(e, FPN_MASK, 0) = fpn
  BY <1>2, FieldRoundTrip
<1>4. PRESENT \in e /\ SWAPPED \notin e
  <2> DEFINE flags == {PRESENT, SWAPPED}
  <2>1. flags \cap FPN_MASK = {}
    BY DEF PRESENT, SWAPPED, FPN_MASK
  <2>2. PRESENT \in flags /\ PRESENT \in w /\ SWAPPED \in flags /\ SWAPPED \notin w
    BY DEF PRESENT, SWAPPED
  <2> HIDE DEF w, flags
  <2>3. e \cap flags = w \cap flags
    BY <2>1, FieldElsewhere
  <2> HIDE DEF e
  <2> QED
    BY <2>2, <2>3
<1>5. e \in Word
  <2>1. v \subseteq 0..31 /\ PRESENT \in 0..31 /\ FPN_MASK \subseteq 0..31
    BY DEF Word, PRESENT, FPN_MASK
  <2> QED
    BY <2>1 DEF SETVAL, Word
<1> HIDE DEF e
<1> QED
  BY <1>1, <1>3, <1>4, <1>5 DEF Decode

\* An entry of a swap place says where the page is, whatever it was.
LEMMA SwappedEntry ==
  ASSUME NEW v \in Word, NEW t \in TypBits, NEW o \in OffBits
  PROVE  /\ WithSwap(v, t, o) \in Word
         /\ Decode(WithSwap(v, t, o)) = Swapped(t, o)
         /\ Decode(WithSwap(v, t, o) \ {DIRTY}) = Swapped(t, o)
<1> DEFINE w == v \cup {PRESENT, SWAPPED}
           x == SETVAL(w, t, SWPTYP_MASK, 0)
           e == SETVAL(x, o, SWPOFF_MASK, SWPOFF_LOBIT)
<1>1. WithSwap(v, t, o) = e
  BY DEF WithSwap
<1>2. t \subseteq Nat /\ SWPTYP_MASK \subseteq Nat /\ 0 \in Nat /\ \A b \in t : b + 0 \in SWPTYP_MASK
  BY DEF TypBits, SWPTYP_MASK
<1>3. /\ o \subseteq Nat /\ SWPOFF_MASK \subseteq Nat /\ SWPOFF_LOBIT \in Nat
      /\ \A b \in o : b + SWPOFF_LOBIT \in SWPOFF_MASK
  BY DEF OffBits, SWPOFF_MASK, SWPOFF_LOBIT
<1>4. GETVAL(e, SWPOFF_MASK, SWPOFF_LOBIT) = o
  BY <1>3, FieldRoundTrip
<1>5. GETVAL(x, SWPTYP_MASK, 0) = t
  BY <1>2, FieldRoundTrip
<1>6. /\ SWPTYP_MASK \cap SWPOFF_MASK = {}
      /\ {PRESENT, SWAPPED} \cap SWPOFF_MASK = {}
      /\ {PRESENT, SWAPPED} \cap SWPTYP_MASK = {}
      /\ DIRTY \notin SWPTYP_MASK /\ DIRTY \notin SWPOFF_MASK
      /\ DIRTY # PRESENT /\ DIRTY # SWAPPED
  BY DEF SWPTYP_MASK, SWPOFF_MASK, PRESENT, SWAPPED, DIRTY
<1>7. e \cap SWPTYP_MASK = x \cap SWPTYP_MASK
  BY <1>6, FieldElsewhere
<1>9. PRESENT \in e /\ SWAPPED \in e
  <2> DEFINE flags == {PRESENT, SWAPPED}
  <2>1. flags \cap SWPOFF_MASK = {} /\ flags \cap SWPTYP_MASK = {} /\ flags \subseteq w
    BY <1>6
  <2>2. PRESENT \in flags /\ SWAPPED \in flags
    OBVIOUS
  <2> HIDE DEF w, flags
  <2>3. x \cap flags = w \cap flags
    BY <2>1, FieldElsewhere
  <2> HIDE DEF x
  <2>4. e \cap flags = x \cap flags
    BY <2>1, FieldElsewhere
  <2> HIDE DEF e
  <2> QED
    BY <2>1, <2>2, <2>3, <2>4
<1>10. e \in Word
  <2>1. /\ v \subseteq 0..31 /\ PRESENT \in 0..31 /\ SWAPPED \in 0..31
        /\ SWPTYP_MASK \subseteq 0..31 /\ SWPOFF_MASK \subseteq 0..31
    BY DEF Word, PRESENT, SWAPPED, SWPTYP_MASK, SWPOFF_MASK
  <2>2. x \subseteq 0..31
    BY <2>1 DEF SETVAL
  <2> HIDE DEF x
  <2> QED
    BY <2>1, <2>2 DEF SETVAL, Word
<1>11. GETVAL(e, SWPTYP_MASK, 0) = t
  BY <1>5, <1>7 DEF GETVAL
<1>12. /\ (e \ {DIRTY}) \cap SWPTYP_MASK = e \cap SWPTYP_MASK
       /\ (e \ {DIRTY}) \cap SWPOFF_MASK = e \cap SWPOFF_MASK
       /\ PRESENT \in e \ {DIRTY} /\ SWAPPED \in e \ {DIRTY}
  BY <1>6, <1>9
<1>13. /\ GETVAL(e \ {DIRTY}, SWPTYP_MASK, 0) = t
       /\ GETVAL(e \ {DIRTY}, SWPOFF_MASK, SWPOFF_LOBIT) = o
  BY <1>4, <1>11, <1>12 DEF GETVAL
<1> HIDE DEF e
<1> QED
  BY <1>1, <1>4, <1>9, <1>10, <1>11, <1>12, <1>13 DEF Decode

\* A zero word says that nothing is known of the page.
LEMMA EmptyEntry == {} \in Word /\ Decode({}) = Unmapped
BY DEF Word, Decode

\* A new entry of a frame; for frame 0 init_pte leaves the word zero.
LEMMA NewOnlineEntry ==
  ASSUME NEW fpn \in FpnBits
  PROVE  /\ init_pte(TRUE, fpn, FALSE, {}, {}) \in Word
         /\ Decode(init_pte(TRUE, fpn, FALSE, {}, {}))
              = IF fpn = {} THEN Unmapped ELSE Online(fpn)
<1>1. CASE fpn = {}
  BY <1>1, EmptyEntry DEF init_pte
<1>2. CASE fpn # {}
  <2> DEFINE e == WithFpn({}, fpn)
  <2>1. e \in Word /\ Decode(e) = Online(fpn)
    BY OnlineEntry, EmptyEntry
  <2>2. init_pte(TRUE, fpn, FALSE, {}, {}) = e \ {DIRTY}
    BY <1>2 DEF init_pte
  <2>3. DIRTY \notin e
    BY DEF WithFpn, SETVAL, PRESENT, SWAPPED, DIRTY, FPN_MASK
  <2> HIDE DEF e
  <2>4. e \ {DIRTY} = e
    BY <2>3
  <2> QED
    BY <1>2, <2>1, <2>2, <2>4
<1> QED
  BY <1>1, <1>2

\* A new entry of a swap place, and of a page that is not present.
LEMMA NewSwappedEntry ==
  ASSUME NEW t \in TypBits, NEW o \in OffBits
  PROVE  /\ init_pte(TRUE, {}, TRUE, t, o) \in Word
         /\ Decode(init_pte(TRUE, {}, TRUE, t, o)) = Swapped(t, o)
<1> DEFINE e == WithSwap({}, t, o)
<1>1. e \in Word /\ Decode(e \ {DIRTY}) = Swapped(t, o)
  BY SwappedEntry, EmptyEntry
<1>2. init_pte(TRUE, {}, TRUE, t, o) = e \ {DIRTY}
  BY DEF init_pte
<1> HIDE DEF e
<1> QED
  BY <1>1, <1>2 DEF Word

\* A new entry of a page that is not present is 0.
LEMMA NewAbsentEntry == init_pte(FALSE, {}, FALSE, {}, {}) = {}
BY DEF init_pte

\* A number is known by its half and its last bit.
LEMMA SameHalf ==
  ASSUME NEW x \in Nat, NEW y \in Nat, x \div 2 = y \div 2, x % 2 = 1 <=> y % 2 = 1
  PROVE  x = y
<1>1. x % 2 \in {0, 1} /\ y % 2 \in {0, 1}
  OBVIOUS
<1> QED
  BY <1>1

\* The bits of a frame number, one by one.
LEMMA BitOf ==
  ASSUME NEW x \in Nat
  PROVE  /\ 0 \in BitsOf(x) <=> (x \div 1) % 2 = 1
         /\ 1 \in BitsOf(x) <=> (x \div 2) % 2 = 1
         /\ 2 \in BitsOf(x) <=> (x \div 4) % 2 = 1
         /\ 3 \in BitsOf(x) <=> (x \div 8) % 2 = 1
         /\ 4 \in BitsOf(x) <=> (x \div 16) % 2 = 1
         /\ 5 \in BitsOf(x) <=> (x \div 32) % 2 = 1
         /\ 6 \in BitsOf(x) <=> (x \div 64) % 2 = 1
         /\ 7 \in BitsOf(x) <=> (x \div 128) % 2 = 1
         /\ 8 \in BitsOf(x) <=> (x \div 256) % 2 = 1
         /\ 9 \in BitsOf(x) <=> (x \div 512) % 2 = 1
         /\ 10 \in BitsOf(x) <=> (x \div 1024) % 2 = 1
         /\ 11 \in BitsOf(x) <=> (x \div 2048) % 2 = 1
         /\ 12 \in BitsOf(x) <=> (x \div 4096) % 2 = 1
<1>1. 0 \in BitsOf(x) <=> (x \div 1) % 2 = 1
  BY SMT DEF BitsOf
<1>2. 1 \in BitsOf(x) <=> (x \div 2) % 2 = 1
  BY SMT DEF BitsOf
<1>3. 2 \in BitsOf(x) <=> (x \div 4) % 2 = 1
  BY SMT DEF BitsOf
<1>4. 3 \in BitsOf(x) <=> (x \div 8) % 2 = 1
  BY SMT DEF BitsOf
<1>5. 4 \in BitsOf(x) <=> (x \div 16) % 2 = 1
  BY SMT DEF BitsOf
<1>6. 5 \in BitsOf(x) <=> (x \div 32) % 2 = 1
  BY SMT DEF BitsOf
<1>7. 6 \in BitsOf(x) <=> (x \div 64) % 2 = 1
  BY SMT DEF BitsOf
<1>8. 7 \in BitsOf(x) <=> (x \div 128) % 2 = 1
  BY SMT DEF BitsOf
<1>9. 8 \in BitsOf(x) <=> (x \div 256) % 2 = 1
  BY SMT DEF BitsOf
<1>10. 9 \in BitsOf(x) <=> (x \div 512) % 2 = 1
  BY SMT DEF BitsOf
<1>11. 10 \in BitsOf(x) <=> (x \div 1024) % 2 = 1
  BY SMT DEF BitsOf
<1>12. 11 \in BitsOf(x) <=> (x \div 2048) % 2 = 1
  BY SMT DEF BitsOf
<1>13. 12 \in BitsOf(x) <=> (x \div 4096) % 2 = 1
  BY SMT DEF BitsOf
<1> QED
  BY <1>1, <1>2, <1>3, <1>4, <1>5, <1>6, <1>7, <1>8, <1>9, <1>10, <1>11, <1>12, <1>13

\* Shifting by one more bit is halving.
LEMMA Halving ==
  ASSUME NEW x \in Nat
  PROVE  /\ x \div 1 \in Nat /\ x \div 2 = (x \div 1) \div 2
         /\ x \div 2 \in Nat /\ x \div 4 = (x \div 2) \div 2
         /\ x \div 4 \in Nat /\ x \div 8 = (x \div 4) \div 2
         /\ x \div 8 \in Nat /\ x \div 16 = (x \div 8) \div 2
         /\ x \div 16 \in Nat /\ x \div 32 = (x \div 16) \div 2
         /\ x \div 32 \in Nat /\ x \div 64 = (x \div 32) \div 2
         /\ x \div 64 \in Nat /\ x \div 128 = (x \div 64) \div 2
         /\ x \div 128 \in Nat /\ x \div 256 = (x \div 128) \div 2
         /\ x \div 256 \in Nat /\ x \div 512 = (x \div 256) \div 2
         /\ x \div 512 \in Nat /\ x \div 1024 = (x \div 512) \div 2
         /\ x \div 1024 \in Nat /\ x \div 2048 = (x \div 1024) \div 2
         /\ x \div 2048 \in Nat /\ x \div 4096 = (x \div 2048) \div 2
         /\ x \div 4096 \in Nat /\ x \div 8192 = (x \div 4096) \div 2
<1>1. x \div 1 \in Nat /\ x \div 2 = (x \div 1) \div 2
  OBVIOUS
<1>2. x \div 2 \in Nat /\ x \div 4 = (x \div 2) \div 2
  OBVIOUS
<1>3. x \div 4 \in Nat /\ x \div 8 = (x \div 4) \div 2
  OBVIOUS
<1>4. x \div 8 \in Nat /\ x \div 16 = (x \div 8) \div 2
  OBVIOUS
<1>5. x \div 16 \in Nat /\ x \div 32 = (x \div 16) \div 2
  OBVIOUS
<1>6. x \div 32 \in Nat /\ x \div 64 = (x \div 32) \div 2
  OBVIOUS
<1>7. x \div 64 \in Nat /\ x \div 128 = (x \div 64) \div 2
  OBVIOUS
<1>8. x \div 128 \in Nat /\ x \div 256 = (x \div 128) \div 2
  OBVIOUS
<1>9. x \div 256 \in Nat /\ x \div 512 = (x \div 256) \div 2
  OBVIOUS
<1>10. x \div 512 \in Nat /\ x \div 1024 = (x \div 512) \div 2
  OBVIOUS
<1>11. x \div 1024 \in Nat /\ x \div 2048 = (x \div 1024) \div 2
  OBVIOUS
<1>12. x \div 2048 \in Nat /\ x \div 4096 = (x \div 2048) \div 2
  OBVIOUS
<1>13. x \div 4096 \in Nat /\ x \div 8192 = (x \div 4096) \div 2
  OBVIOUS
<1> QED
  BY <1>1, <1>2, <1>3, <1>4, <1>5, <1>6, <1>7, <1>8, <1>9, <1>10, <1>11, <1>12, <1>13

FrameNumbers == 0..8191

\* What 13 bits are needed for.
LEMMA Within13Bits ==
  ASSUME NEW x \in FrameNumbers
  PROVE  x \in Nat /\ x \div 8192 = 0
BY DEF FrameNumbers

\* Within 13 bits a frame number is known by its one-bits.
LEMMA BitsDetermine ==
  ASSUME NEW m \in FrameNumbers, NEW n \in FrameNumbers, BitsOf(m) = BitsOf(n)
  PROVE  m = n
<1>0. m \in Nat /\ n \in Nat
  BY Within13Bits
<1>1. m \div 8192 = n \div 8192
  BY Within13Bits
<1>2. m \div 4096 = n \div 4096
  <2>1. (m \div 4096) % 2 = 1 <=> (n \div 4096) % 2 = 1
    BY <1>0, BitOf
  <2>2. /\ m \div 4096 \in Nat /\ m \div 8192 = (m \div 4096) \div 2
        /\ n \div 4096 \in Nat /\ n \div 8192 = (n \div 4096) \div 2
    BY <1>0, Halving
  <2> QED
    BY <1>1, <2>1, <2>2, SameHalf
<1>3. m \div 2048 = n \div 2048
  <2>1. (m \div 2048) % 2 = 1 <=> (n \div 2048) % 2 = 1
    BY <1>0, BitOf
  <2>2. /\ m \div 2048 \in Nat /\ m \div 4096 = (m \div 2048) \div 2
        /\ n \div 2048 \in Nat /\ n \div 4096 = (n \div 2048) \div 2
    BY <1>0, Halving
  <2> QED
    BY <1>2, <2>1, <2>2, SameHalf
<1>4. m \div 1024 = n \div 1024
  <2>1. (m \div 1024) % 2 = 1 <=> (n \div 1024) % 2 = 1
    BY <1>0, BitOf
  <2>2. /\ m \div 1024 \in Nat /\ m \div 2048 = (m \div 1024) \div 2
        /\ n \div 1024 \in Nat /\ n \div 2048 = (n \div 1024) \div 2
    BY <1>0, Halving
  <2> QED
    BY <1>3, <2>1, <2>2, SameHalf
<1>5. m \div 512 = n \div 512
  <2>1. (m \div 512) % 2 = 1 <=> (n \div 512) % 2 = 1
    BY <1>0, BitOf
  <2>2. /\ m \div 512 \in Nat /\ m \div 1024 = (m \div 512) \div 2
        /\ n \div 512 \in Nat /\ n \div 1024 = (n \div 512) \div 2
    BY <1>0, Halving
  <2> QED
    BY <1>4, <2>1, <2>2, SameHalf
<1>6. m \div 256 = n \div 256
  <2>1. (m \div 256) % 2 = 1 <=> (n \div 256) % 2 = 1
    BY <1>0, BitOf
  <2>2. /\ m \div 256 \in Nat /\ m \div 512 = (m \div 256) \div 2
        /\ n \div 256 \in Nat /\ n \div 512 = (n \div 256) \div 2
    BY <1>0, Halving
  <2> QED
    BY <1>5, <2>1, <2>2, SameHalf
<1>7. m \div 128 = n \div 128
  <2>1. (m \div 128) % 2 = 1 <=> (n \div 128) % 2 = 1
    BY <1>0, BitOf
  <2>2. /\ m \div 128 \in Nat /\ m \div 256 = (m \div 128) \div 2
        /\ n \div 128 \in Nat /\ n \div 256 = (n \div 128) \div 2
    BY <1>0, Halving
  <2> QED
    BY <1>6, <2>1, <2>2, SameHalf
<1>8. m \div 64 = n \div 64
  <2>1. (m \div 64) % 2 = 1 <=> (n \div 64) % 2 = 1
    BY <1>0, BitOf
  <2>2. /\ m \div 64 \in Nat /\ m \div 128 = (m \div 64) \div 2
        /\ n \div 64 \in Nat /\ n \div 128 = (n \div 64) \div 2
    BY <1>0, Halving
  <2> QED
    BY <1>7, <2>1, <2>2, SameHalf
<1>9. m \div 32 = n \div 32
  <2>1. (m \div 32) % 2 = 1 <=> (n \div 32) % 2 = 1
    BY <1>0, BitOf
  <2>2. /\ m \div 32 \in Nat /\ m \div 64 = (m \div 32) \div 2
        /\ n \div 32 \in Nat /\ n \div 64 = (n \div 32) \div 2
    BY <1>0, Halving
  <2> QED
    BY <1>8, <2>1, <2>2, SameHalf
<1>10. m \div 16 = n \div 16
  <2>1. (m \div 16) % 2 = 1 <=> (n \div 16) % 2 = 1
    BY <1>0, BitOf
  <2>2. /\ m \div 16 \in Nat /\ m \div 32 = (m \div 16) \div 2
        /\ n \div 16 \in Nat /\ n \div 32 = (n \div 16) \div 2
    BY <1>0, Halving
  <2> QED
    BY <1>9, <2>1, <2>2, SameHalf
<1>11. m \div 8 = n \div 8
  <2>1. (m \div 8) % 2 = 1 <=> (n \div 8) % 2 = 1
    BY <1>0, BitOf
  <2>2. /\ m \div 8 \in Nat /\ m \div 16 = (m \div 8) \div 2
        /\ n \div 8 \in Nat /\ n \div 16 = (n \div 8) \div 2
    BY <1>0, Halving
  <2> QED
    BY <1>10, <2>1, <2>2, SameHalf
<1>12. m \div 4 = n \div 4
  <2>1. (m \div 4) % 2 = 1 <=> (n \div 4) % 2 = 1
    BY <1>0, BitOf
  <2>2. /\ m \div 4 \in Nat /\ m \div 8 = (m \div 4) \div 2
        /\ n \div 4 \in Nat /\ n \div 8 = (n \div 4) \div 2
    BY <1>0, Halving
  <2> QED
    BY <1>11, <2>1, <2>2, SameHalf
<1>13. m \div 2 = n \div 2
  <2>1. (m \div 2) % 2 = 1 <=> (n \div 2) % 2 = 1
    BY <1>0, BitOf
  <2>2. /\ m \div 2 \in Nat /\ m \div 4 = (m \div 2) \div 2
        /\ n \div 2 \in Nat /\ n \div 4 = (n \div 2) \div 2
    BY <1>0, Halving
  <2> QED
    BY <1>12, <2>1, <2>2, SameHalf
<1>14. m \div 1 = n \div 1
  <2>1. (m \div 1) % 2 = 1 <=> (n \div 1) % 2 = 1
    BY <1>0, BitOf
  <2>2. /\ m \div 1 \in Nat /\ m \div 2 = (m \div 1) \div 2
        /\ n \div 1 \in Nat /\ n \div 2 = (n \div 1) \div 2
    BY <1>0, Halving
  <2> QED
    BY <1>13, <2>1, <2>2, SameHalf
<1> QED
  BY <1>0, <1>14

\* What the model uses of the frame numbers.
LEMMA FrameFacts ==
  /\ Frames \subseteq Nat
  /\ \A f \in Frames : BitsOf(f) \in FpnBits
  /\ \A f, g \in Frames : BitsOf(f) = BitsOf(g) => f = g
<1>1. 2^13 = 8192
  OBVIOUS
<1>2. Frames \subseteq FrameNumbers
  BY <1>1, FramesAssumption DEF Frames, FrameNumbers
<1>3. \A f : BitsOf(f) \in FpnBits
  BY DEF BitsOf, FpnBits
<1>4. \A f, g \in Frames : BitsOf(f) = BitsOf(g) => f = g
  <2> SUFFICES ASSUME NEW f \in Frames, NEW g \in Frames, BitsOf(f) = BitsOf(g)
               PROVE  f = g
    OBVIOUS
  <2>1. f \in FrameNumbers /\ g \in FrameNumbers
    BY <1>2
  <2> QED
    BY <2>1, BitsDetermine, Zenon
<1> QED
  BY <1>2, <1>3, <1>4, Within13Bits

-----------------------------------------------------------------------------
(* The walk *)

\* The index at a level is the nine bits of the page number that belong to it.
LEMMA IndexBits ==
  ASSUME NEW pgn, pgn \subseteq 0..44, NEW lo \in {12, 21, 30, 39, 48}, NEW x \in 0..44,
         x + 12 \in lo..(lo + 8)
  PROVE  x \in pgn <=> x + 12 - lo \in GETVAL(SHL(pgn, 12), lo..(lo + 8), lo)
<1>1. ASSUME x \in pgn PROVE x + 12 - lo \in GETVAL(SHL(pgn, 12), lo..(lo + 8), lo)
  <2>1. x + 12 \in SHL(pgn, 12) \cap (lo..(lo + 8)) /\ x + 12 >= lo
    BY <1>1 DEF SHL
  <2> QED
    BY <2>1 DEF GETVAL, SHR
<1>2. ASSUME x + 12 - lo \in GETVAL(SHL(pgn, 12), lo..(lo + 8), lo) PROVE x \in pgn
  <2>1. PICK c \in SHL(pgn, 12) \cap (lo..(lo + 8)) : c >= lo /\ x + 12 - lo = c - lo
    BY <1>2 DEF GETVAL, SHR
  <2>2. PICK b \in pgn : c = b + 12
    BY <2>1 DEF SHL
  <2>3. b \in 0..44
    BY <2>2
  <2>4. b = x
    BY <2>1, <2>2, <2>3
  <2> QED
    BY <2>2, <2>4
<1> QED
  BY <1>1, <1>2

\* Two pages never share a path: the five indices cover the page number.
LEMMA PathsDiffer ==
  ASSUME NEW p \in Pages, NEW q \in Pages, Path[p] = Path[q]
  PROVE  p = q
<1>1. p \subseteq 0..44 /\ q \subseteq 0..44
  BY PagesAssumption
<1>2. get_pd_from_pagenum(p) = get_pd_from_pagenum(q)
  BY DEF Path
<1> DEFINE index(pgn, lo) == GETVAL(SHL(pgn, 12), lo..(lo + 8), lo)
<1>3. \A pgn : get_pd_from_pagenum(pgn) =
        <<index(pgn, 48), index(pgn, 39), index(pgn, 30), index(pgn, 21), index(pgn, 12)>>
  BY DEF get_pd_from_pagenum, PGD, P4D, PUD, PMD, PT
<1> HIDE DEF index
<1>4. \A lo \in {12, 21, 30, 39, 48} : index(p, lo) = index(q, lo)
  BY <1>2, <1>3
<1>5. ASSUME NEW x \in 0..44 PROVE x \in p <=> x \in q
  <2>1. PICK lo \in {12, 21, 30, 39, 48} : x + 12 \in lo..(lo + 8)
    <3>1. \/ x + 12 \in 12..(12 + 8) \/ x + 12 \in 21..(21 + 8) \/ x + 12 \in 30..(30 + 8)
          \/ x + 12 \in 39..(39 + 8) \/ x + 12 \in 48..(48 + 8)
      OBVIOUS
    <3> QED
      BY <3>1
  <2>2. x \in p <=> x + 12 - lo \in index(p, lo)
    BY <1>1, <2>1, IndexBits DEF index
  <2>3. x \in q <=> x + 12 - lo \in index(q, lo)
    BY <1>1, <2>1, IndexBits DEF index
  <2> QED
    BY <1>4, <2>2, <2>3
<1> QED
  BY <1>1, <1>5

-----------------------------------------------------------------------------
(* The table *)

\* Words only where the walk finds them.
TableShape ==
  /\ pt_tbl \in [Paths -> Word]
  /\ \A p \in Pages : ~(Directories[p] \subseteq dirs) => pt_tbl[Path[p]] = {}

\* The entry of a page is a word.
LEMMA EntryIsWord ==
  ASSUME TableShape, NEW p \in Pages
  PROVE  EntryOf(p) \in Word
<1>1. Path[p] \in Paths
  BY DEF Paths
<1> QED
  BY <1>1, EmptyEntry DEF TableShape, EntryOf

\* Setting an entry makes the directories it needs, sets that entry, and changes
\* no other page's.
LEMMA SetOneEntry ==
  ASSUME TableShape, NEW p \in Pages, NEW word \in Word, SetEntry(p, word)
  PROVE  /\ TableShape'
         /\ \A q \in Pages : EntryOf(q)' = IF q = p THEN word ELSE EntryOf(q)
<1>1. /\ dirs' = dirs \cup Directories[p]
      /\ pt_tbl' = [pt_tbl EXCEPT ![Path[p]] = word]
      /\ pt_tbl \in [Paths -> Word]
  BY DEF SetEntry, Walk, TableShape
<1>2. \A q \in Pages : Path[q] \in Paths
  BY DEF Paths
<1>3. /\ pt_tbl' \in [Paths -> Word]
      /\ \A q \in Pages : pt_tbl'[Path[q]] = IF Path[q] = Path[p] THEN word ELSE pt_tbl[Path[q]]
  BY <1>1, <1>2
<1>4. \A q \in Pages : pt_tbl'[Path[q]] = IF q = p THEN word ELSE pt_tbl[Path[q]]
  BY <1>3, PathsDiffer
<1>5. \A q \in Pages : Directories[q] \subseteq dirs => Directories[q] \subseteq dirs'
  BY <1>1
<1>6. Directories[p] \subseteq dirs'
  BY <1>1
<1>7. \A q \in Pages : ~(Directories[q] \subseteq dirs) => pt_tbl[Path[q]] = {}
  BY DEF TableShape
<1>8. TableShape'
  <2>1. ASSUME NEW q \in Pages, ~(Directories[q] \subseteq dirs') PROVE pt_tbl'[Path[q]] = {}
    <3>1. q # p /\ ~(Directories[q] \subseteq dirs)
      BY <1>5, <1>6, <2>1
    <3> QED
      BY <3>1, <1>4, <1>7
  <2> QED
    BY <1>3, <2>1 DEF TableShape
<1>9. ASSUME NEW q \in Pages PROVE EntryOf(q)' = IF q = p THEN word ELSE EntryOf(q)
  <2>1. EntryOf(q)' = IF Directories[q] \subseteq dirs' THEN pt_tbl'[Path[q]] ELSE {}
    BY DEF EntryOf
  <2>2. EntryOf(q) = IF Directories[q] \subseteq dirs THEN pt_tbl[Path[q]] ELSE {}
    BY DEF EntryOf
  <2> QED
    BY <2>1, <2>2, <1>4, <1>5, <1>6, <1>7
<1> QED
  BY <1>8, <1>9

-----------------------------------------------------------------------------
(* Lists of frames *)

Elems(s) == {s[k] : k \in 1..Len(s)}
Distinct(s) == \A j, k \in 1..Len(s) : j # k => s[j] # s[k]

\* Appending a list appends its elements; they are distinct if the lists share none.
LEMMA ConcatElems ==
  ASSUME NEW S, NEW s \in Seq(S), NEW t \in Seq(S)
  PROVE  /\ Elems(s \o t) = Elems(s) \cup Elems(t)
         /\ Distinct(s \o t) <=>
              Distinct(s) /\ Distinct(t) /\ Elems(s) \cap Elems(t) = {}
<1> DEFINE u == s \o t
           m == Len(s)
           n == Len(t)
<1>1. /\ m \in Nat /\ n \in Nat /\ Len(u) = m + n
      /\ \A i \in 1..(m + n) : u[i] = IF i <= m THEN s[i] ELSE t[i - m]
  BY ConcatProperties, LenProperties
<1> HIDE DEF u
<1>2. Elems(s) = {s[k] : k \in 1..m} /\ Elems(t) = {t[k] : k \in 1..n}
  BY DEF Elems
<1>3. Elems(u) = {u[k] : k \in 1..(m + n)}
  BY <1>1 DEF Elems
<1>4. /\ Distinct(s) <=> \A j, k \in 1..m : j # k => s[j] # s[k]
      /\ Distinct(t) <=> \A j, k \in 1..n : j # k => t[j] # t[k]
  BY DEF Distinct
<1>5. Distinct(u) <=> \A j, k \in 1..(m + n) : j # k => u[j] # u[k]
  BY <1>1 DEF Distinct
<1> HIDE DEF m, n
<1>6. \A k \in 1..m : k \in 1..(m + n) /\ u[k] = s[k]
  BY <1>1
<1>7. \A k \in 1..n : m + k \in 1..(m + n) /\ u[m + k] = t[k]
  <2> TAKE k \in 1..n
  <2>1. m + k \in 1..(m + n) /\ ~(m + k <= m) /\ (m + k) - m = k
    BY <1>1
  <2> QED
    BY <2>1, <1>1
<1>8. \A i \in 1..(m + n) : i \in 1..m \/ \E k \in 1..n : i = m + k
  <2> TAKE i \in 1..(m + n)
  <2>1. CASE i <= m
    BY <2>1, <1>1
  <2>2. CASE ~(i <= m)
    <3>1. i - m \in 1..n /\ i = m + (i - m)
      BY <2>2, <1>1
    <3> QED
      BY <3>1
  <2> QED
    BY <2>1, <2>2
<1>9. Elems(u) = Elems(s) \cup Elems(t)
  <2>1. Elems(u) \subseteq Elems(s) \cup Elems(t)
    BY <1>2, <1>3, <1>6, <1>7, <1>8
  <2>2. Elems(s) \cup Elems(t) \subseteq Elems(u)
    BY <1>2, <1>3, <1>6, <1>7
  <2> QED
    BY <2>1, <2>2
<1>10. ASSUME Distinct(u)
       PROVE  Distinct(s) /\ Distinct(t) /\ Elems(s) \cap Elems(t) = {}
  <2>0. \A j, k \in 1..(m + n) : j # k => u[j] # u[k]
    BY <1>5, <1>10
  <2>1. Distinct(s)
    BY <2>0, <1>4, <1>6
  <2>2. ASSUME NEW j \in 1..n, NEW k \in 1..n, j # k PROVE t[j] # t[k]
    <3>1. m + j # m + k
      BY <2>2, <1>1
    <3> QED
      BY <3>1, <2>0, <1>7
  <2>3. ASSUME NEW j \in 1..m, NEW k \in 1..n PROVE s[j] # t[k]
    <3>1. j # m + k
      BY <1>1
    <3> QED
      BY <3>1, <2>0, <1>6, <1>7
  <2> QED
    BY <2>1, <2>2, <2>3, <1>2, <1>4
<1>11. ASSUME Distinct(s), Distinct(t), Elems(s) \cap Elems(t) = {}
       PROVE  Distinct(u)
  <2> SUFFICES ASSUME NEW i \in 1..(m + n), NEW j \in 1..(m + n), i # j PROVE u[i] # u[j]
    BY <1>5
  <2>0. \A a \in 1..m, b \in 1..n : s[a] # t[b]
    BY <1>2, <1>11
  <2>1. CASE i \in 1..m /\ j \in 1..m
    BY <2>1, <1>4, <1>6, <1>11
  <2>2. ASSUME NEW b \in 1..n, i \in 1..m, j = m + b PROVE u[i] # u[j]
    BY <2>0, <2>2, <1>6, <1>7
  <2>3. ASSUME NEW a \in 1..n, i = m + a, j \in 1..m PROVE u[i] # u[j]
    BY <2>0, <2>3, <1>6, <1>7
  <2>4. ASSUME NEW a \in 1..n, NEW b \in 1..n, i = m + a, j = m + b PROVE u[i] # u[j]
    <3>1. a # b
      BY <2>4
    <3> QED
      BY <3>1, <2>4, <1>4, <1>7, <1>11
  <2> QED
    BY <2>1, <2>2, <2>3, <2>4, <1>8
<1> QED
  BY <1>9, <1>10, <1>11 DEF u

\* A list is its first n elements and the others.
LEMMA SplitList ==
  ASSUME NEW S, NEW s \in Seq(S), NEW n \in 0..Len(s)
  PROVE  /\ SubSeq(s, 1, n) \in Seq(S)
         /\ SubSeq(s, n + 1, Len(s)) \in Seq(S)
         /\ SubSeq(s, 1, n) \o SubSeq(s, n + 1, Len(s)) = s
<1> DEFINE L == Len(s)
<1>1. L \in Nat /\ \A i \in 1..L : s[i] \in S
  BY LenProperties, ElementOfSeq
<1>2. /\ 1 \in 1..(L + 1) /\ n \in (1 - 1)..L /\ L \in n..L
      /\ n \in Int /\ L \in Int /\ 1 \in Int /\ n + 1 \in Int
      /\ 1..n \subseteq 1..L /\ (n + 1)..L \subseteq 1..L
  BY <1>1
<1>3. SubSeq(s, 1, n) \in Seq(S)
  <2>1. \A i \in 1..n : s[i] \in S
    BY <1>1, <1>2
  <2> QED
    BY <1>2, <2>1, SubSeqProperties
<1>4. SubSeq(s, n + 1, L) \in Seq(S)
  <2>1. \A i \in (n + 1)..L : s[i] \in S
    BY <1>1, <1>2
  <2> HIDE DEF L
  <2> QED
    BY <1>2, <2>1, SubSeqProperties
<1>5. SubSeq(s, 1, L) = s
  BY SubSeqFull
<1>6. SubSeq(s, 1, n) \o SubSeq(s, n + 1, L) = SubSeq(s, 1, L)
  BY <1>2, ConcatAdjacentSubSeq
<1> QED
  BY <1>3, <1>4, <1>5, <1>6

\* A list that is not empty is its first element and the others.
LEMMA SplitHead ==
  ASSUME NEW S, NEW s \in Seq(S), s # <<>>
  PROVE  /\ Head(s) \in S /\ Tail(s) \in Seq(S)
         /\ Elems(s) = {Head(s)} \cup Elems(Tail(s))
         /\ Distinct(s) <=> Distinct(Tail(s)) /\ Head(s) \notin Elems(Tail(s))
<1> DEFINE h == <<Head(s)>>
           t == Tail(s)
<1>1. Head(s) \in S /\ t \in Seq(S)
  BY HeadTailProperties
<1>2. h \in Seq(S) /\ Len(h) = 1 /\ h[1] = Head(s)
  BY <1>1
<1>3. Elems(h) = {Head(s)} /\ Distinct(h)
  BY <1>2 DEF Elems, Distinct
<1>4. s = h \o t
  OBVIOUS
<1> HIDE DEF h, t
<1>5. /\ Elems(h \o t) = Elems(h) \cup Elems(t)
      /\ Distinct(h \o t) <=> Distinct(h) /\ Distinct(t) /\ Elems(h) \cap Elems(t) = {}
  BY <1>1, <1>2, ConcatElems
<1> QED
  BY <1>1, <1>3, <1>4, <1>5 DEF t

\* Putting frames back one by one turns their order round.
LEMMA ReverseElems ==
  ASSUME NEW S, NEW s \in Seq(S)
  PROVE  /\ Reverse(s) \in Seq(S)
         /\ Elems(Reverse(s)) = Elems(s)
         /\ Distinct(s) => Distinct(Reverse(s))
<1> DEFINE L == Len(s)
           r == Reverse(s)
<1>0. L \in Nat /\ \A k \in 1..L : s[k] \in S
  BY LenProperties, ElementOfSeq
<1>1. r = [k \in 1..L |-> s[(L - k) + 1]]
  BY Zenon DEF Reverse
<1>2. /\ Elems(s) = {s[k] : k \in 1..L}
      /\ Distinct(s) <=> \A j, k \in 1..L : j # k => s[j] # s[k]
  BY DEF Elems, Distinct
<1> HIDE DEF L, r
<1>3. /\ \A k \in 1..L : (L - k) + 1 \in 1..L /\ (L - ((L - k) + 1)) + 1 = k
      /\ \A j, k \in 1..L : j # k => (L - j) + 1 # (L - k) + 1
  BY <1>0
<1>4. \A k \in 1..L : r[k] = s[(L - k) + 1] /\ r[k] \in S
  BY <1>0, <1>1, <1>3
<1>5. r \in [1..L -> S]
  BY <1>1, <1>4
<1>6. r \in Seq(S) /\ Len(r) = L
  <2>1. r \in Seq(S)
    BY <1>0, <1>5, SeqDef
  <2>2. DOMAIN r = 1..L /\ DOMAIN r = 1..Len(r) /\ Len(r) \in Nat
    BY <1>5, <2>1, LenProperties
  <2> QED
    BY <1>0, <2>1, <2>2
<1>7. /\ Elems(r) = {r[k] : k \in 1..L}
      /\ Distinct(r) <=> \A j, k \in 1..L : j # k => r[j] # r[k]
  BY <1>6 DEF Elems, Distinct
<1>8. Elems(r) \subseteq Elems(s)
  BY <1>2, <1>3, <1>4, <1>7
<1>9. Elems(s) \subseteq Elems(r)
  <2> SUFFICES ASSUME NEW k \in 1..L PROVE s[k] \in Elems(r)
    BY <1>2
  <2>1. r[(L - k) + 1] = s[k] /\ (L - k) + 1 \in 1..L
    BY <1>3, <1>4
  <2> QED
    BY <2>1, <1>7
<1>10. ASSUME Distinct(s) PROVE Distinct(r)
  BY <1>2, <1>3, <1>4, <1>7, <1>10
<1> QED
  BY <1>6, <1>8, <1>9, <1>10 DEF r

\* The cells of a device are those of its whole frames.
LEMMA WholeFrames ==
  ASSUME NEW n \in Nat, NEW c \in Nat \ {0}
  PROVE  (n * c) \div c = n
OBVIOUS

\* A set of natural numbers has a least element.
LEMMA LeastNumber ==
  ASSUME NEW S, S \subseteq Nat, S # {}
  PROVE  \E x \in S : \A y \in S : x <= y
<1> DEFINE R == {ss \in Nat \X Nat : ss[1] < ss[2]}
<1>1. IsWellFoundedOn(R, Nat)
  BY NatLessThanWellFounded, Zenon DEF OpToRel
<1> HIDE DEF R
<1>2. PICK x \in S : \A y \in S : ~(<<y, x>> \in R)
  BY <1>1, WFMin, Zenon
<1>3. \A y \in S : ~(y < x)
  BY <1>2 DEF R
<1> QED
  BY <1>3

-----------------------------------------------------------------------------
(* The inductive invariant *)

Types ==
  /\ free_fp_list \in Seq(Frames) /\ frm_lst \in Seq(Frames)
  /\ fifo_pgn \in Seq(Pages) /\ vmap \in Seq(Pages)
  /\ entered \subseteq Frames

\* vmap_page_range stops when it is out of frames.
VmapHasFrames == vmap # <<>> => frm_lst # <<>>

\* Every frame is free, handed out or entered, and only one of these.
Partition ==
  /\ Distinct(free_fp_list) /\ Distinct(frm_lst)
  /\ Elems(free_fp_list) \cap Elems(frm_lst) = {}
  /\ Elems(free_fp_list) \cup Elems(frm_lst) = Frames \ entered

\* A page is online only in a frame that was entered ...
OnlineEntered ==
  \A p \in Pages : Decode(EntryOf(p))[1] = "online" =>
    \E f \in entered : Decode(EntryOf(p)) = Online(BitsOf(f))

\* ... and no other page is.
Entries == OnlineEntered /\ NoFrameShared

PInv ==
  /\ Types
  /\ TableShape
  /\ VmapHasFrames
  /\ Partition
  /\ Entries

\* What a step of the table is to PageMap.
MapStep == Map!MapNext \/ UNCHANGED <<req, map>>

\* What a step must do.
Keeps == PInv' /\ MapStep

\* The partition is what the run checks.
LEMMA PartitionSays ==
  ASSUME Types
  PROVE  Partition <=> FramesPartitioned
<1> DEFINE u == free_fp_list \o frm_lst
<1>1. /\ Elems(u) = Elems(free_fp_list) \cup Elems(frm_lst)
      /\ Distinct(u) <=> Distinct(free_fp_list) /\ Distinct(frm_lst)
                         /\ Elems(free_fp_list) \cap Elems(frm_lst) = {}
  BY ConcatElems DEF Types
<1>2. FramesPartitioned <=> Distinct(u) /\ Elems(u) = Frames \ entered
  BY Zenon DEF FramesPartitioned, Distinct, Elems
<1> HIDE DEF u
<1> QED
  BY <1>1, <1>2 DEF Partition

\* The formatted device has every frame, once.
LEMMA FormatFacts ==
  LET free == MEMPHY_format(NumFrames * PAGING_PAGESZ) IN
  free \in Seq(Frames) /\ Distinct(free) /\ Elems(free) = Frames
<1> DEFINE free == MEMPHY_format(NumFrames * PAGING_PAGESZ)
<1>0. NumFrames \in Nat /\ PAGING_PAGESZ \in Nat \ {0}
  BY FramesAssumption, PageSizeAssumption
<1>1. (NumFrames * PAGING_PAGESZ) \div PAGING_PAGESZ = NumFrames
  BY <1>0, WholeFrames
<1>2. free = [n \in 1..NumFrames |-> n - 1]
  BY <1>1 DEF MEMPHY_format
<1>3. \A n \in 1..NumFrames : n - 1 \in Frames
  BY <1>0 DEF Frames
<1>4. free \in [1..NumFrames -> Frames]
  BY <1>2, <1>3
<1> HIDE DEF free
<1>5. free \in Seq(Frames) /\ Len(free) = NumFrames
  <2>1. free \in Seq(Frames)
    BY <1>0, <1>4, SeqDef
  <2>2. DOMAIN free = 1..NumFrames /\ DOMAIN free = 1..Len(free) /\ Len(free) \in Nat
    BY <1>4, <2>1, LenProperties
  <2> QED
    BY <1>0, <2>1, <2>2
<1>6. Distinct(free)
  <2> SUFFICES ASSUME NEW j \in 1..NumFrames, NEW k \in 1..NumFrames, j # k
               PROVE  free[j] # free[k]
    BY <1>5 DEF Distinct
  <2>1. free[j] = j - 1 /\ free[k] = k - 1
    BY <1>2
  <2> QED
    BY <2>1, <1>0
<1>7. Elems(free) = Frames
  <2>1. Elems(free) = {n - 1 : n \in 1..NumFrames}
    BY <1>2, <1>5 DEF Elems
  <2>2. ASSUME NEW f \in Frames PROVE \E n \in 1..NumFrames : f = n - 1
    <3>1. f + 1 \in 1..NumFrames /\ f = (f + 1) - 1
      BY <1>0 DEF Frames
    <3> QED
      BY <3>1
  <2> QED
    BY <2>1, <2>2, <1>3
<1> QED
  BY <1>5, <1>6, <1>7 DEF free

\* The devices after MEMPHY_format and the table after init_mm satisfy the invariant,
\* and no page is mapped.
LEMMA InitPInv == Init => PInv /\ Map!MapInit
<1> SUFFICES ASSUME Init PROVE PInv /\ Map!MapInit
  OBVIOUS
<1>1. Types
  BY FormatFacts, EmptySeq DEF Init, Types
<1>2. TableShape
  BY DEF Init, TableShape, Word, Paths
<1>3. VmapHasFrames
  BY DEF Init, VmapHasFrames
<1>4. Partition
  <2>1. Distinct(<<>>) /\ Elems(<<>>) = {}
    BY DEF Distinct, Elems
  <2> QED
    BY <2>1, FormatFacts DEF Init, Partition
<1>5. \A p \in Pages : EntryOf(p) = {}
  BY DEF Init, EntryOf, Paths
<1>6. \A p \in Pages : Decode(EntryOf(p)) = Unmapped
  BY <1>5, EmptyEntry
<1>7. Entries
  BY <1>6 DEF Entries, OnlineEntered, NoFrameShared, Unmapped
<1>8. Map!MapInit
  BY <1>6 DEF Init, Map!MapInit, Map!NoRequest, Map!Unmapped, Unmapped, map
<1> QED
  BY <1>1, <1>2, <1>3, <1>4, <1>7, <1>8 DEF PInv

-----------------------------------------------------------------------------
(* The steps *)

\* An entry that does not put its page online keeps the frames apart.
LEMMA EntryOffline ==
  ASSUME TableShape, Entries, NEW p \in Pages, NEW word \in Word, SetEntry(p, word),
         Decode(word)[1] # "online", entered \subseteq entered'
  PROVE  Entries'
<1>1. \A q \in Pages : EntryOf(q)' = IF q = p THEN word ELSE EntryOf(q)
  BY SetOneEntry
<1>2. \A q \in Pages : Decode(EntryOf(q))' = IF q = p THEN Decode(word) ELSE Decode(EntryOf(q))
  BY <1>1 DEF Decode
<1>3. OnlineEntered'
  BY <1>2 DEF Entries, OnlineEntered
<1>4. NoFrameShared'
  BY <1>2 DEF Entries, NoFrameShared
<1> QED
  BY <1>3, <1>4 DEF Entries

\* Putting a page into a frame that was not entered keeps the frames apart.
LEMMA EntryIntoFreshFrame ==
  ASSUME TableShape, Entries, NEW p \in Pages, NEW word \in Word, SetEntry(p, word),
         NEW f \in Frames, f \notin entered, entered \subseteq Frames,
         Decode(word) = Online(BitsOf(f)), entered' = entered \cup {f}
  PROVE  Entries'
<1>1. \A q \in Pages : EntryOf(q)' = IF q = p THEN word ELSE EntryOf(q)
  BY SetOneEntry
<1>2. \A q \in Pages :
        Decode(EntryOf(q))' = IF q = p THEN Online(BitsOf(f)) ELSE Decode(EntryOf(q))
  BY <1>1 DEF Decode
<1>3. OnlineEntered'
  BY <1>2 DEF Entries, OnlineEntered
<1>4. ASSUME NEW q \in Pages, q # p, Decode(EntryOf(q))[1] = "online"
      PROVE  Decode(EntryOf(q)) # Online(BitsOf(f))
  <2>1. PICK g \in entered : Decode(EntryOf(q)) = Online(BitsOf(g))
    BY <1>4 DEF Entries, OnlineEntered
  <2>2. BitsOf(g) # BitsOf(f)
    BY FrameFacts
  <2> QED
    BY <2>1, <2>2 DEF Online
<1>5. ASSUME NEW q \in Pages, NEW r \in Pages, q # r, Decode(EntryOf(q))'[1] = "online"
      PROVE  Decode(EntryOf(q))' # Decode(EntryOf(r))'
  <2>1. CASE q = p
    <3>1. Decode(EntryOf(r))' = Decode(EntryOf(r)) /\ Decode(EntryOf(q))' = Online(BitsOf(f))
      BY <1>2, <1>5, <2>1
    <3>2. Decode(EntryOf(r)) = Online(BitsOf(f)) => Decode(EntryOf(r))[1] = "online"
      BY DEF Online
    <3> QED
      BY <3>1, <3>2, <1>4, <1>5, <2>1
  <2>2. CASE r = p
    BY <1>2, <1>4, <1>5, <2>2
  <2>3. CASE q # p /\ r # p
    BY <1>2, <1>5, <2>3 DEF Entries, NoFrameShared
  <2> QED
    BY <2>1, <2>2, <2>3
<1>6. NoFrameShared'
  BY <1>5 DEF NoFrameShared
<1> QED
  BY <1>3, <1>6 DEF Entries

\* Setting an entry to a word is, to PageMap, entering what the word says.
LEMMA EntryIsEntered ==
  ASSUME TableShape, NEW p \in Pages, NEW word \in Word, SetEntry(p, word),
         NEW s \in PageStates, Decode(word) = s, req' = <<p, s>>
  PROVE  MapStep
<1>1. \A q \in Pages : EntryOf(q)' = IF q = p THEN word ELSE EntryOf(q)
  BY SetOneEntry
<1>2. \A q \in Pages : Decode(EntryOf(q))' = IF q = p THEN s ELSE Decode(EntryOf(q))
  BY <1>1 DEF Decode
<1>3. map' = [q \in Pages |-> Decode(EntryOf(q))']
  BY DEF map
<1>4. map' = [map EXCEPT ![p] = s]
  BY <1>2, <1>3 DEF map
<1>5. Map!Enter(p, s)
  BY <1>4 DEF Map!Enter
<1> QED
  BY <1>5 DEF MapStep, Map!MapNext

\* A step that leaves the table alone is none to PageMap, and changes no entry.
LEMMA TableUnchanged ==
  ASSUME UNCHANGED table
  PROVE  /\ MapStep
         /\ TableShape => TableShape'
         /\ Entries /\ entered \subseteq entered' => Entries'
<1>1. dirs' = dirs /\ pt_tbl' = pt_tbl /\ req' = req
  BY DEF table
<1>2. \A q \in Pages : EntryOf(q)' = EntryOf(q)
  BY <1>1 DEF EntryOf
<1>3. \A q \in Pages : Decode(EntryOf(q))' = Decode(EntryOf(q))
  BY <1>2 DEF Decode
<1>4. MapStep
  BY <1>1, <1>3 DEF MapStep, map
<1>5. TableShape => TableShape'
  BY <1>1 DEF TableShape
<1>6. ASSUME Entries, entered \subseteq entered' PROVE Entries'
  BY <1>3, <1>6 DEF Entries, OnlineEntered, NoFrameShared
<1> QED
  BY <1>4, <1>5, <1>6

\* alloc_pages_range takes frames off the list, or gives back what it has taken.
LEMMA AllocKeeps ==
  ASSUME PInv, NEW n \in 1..MaxRequest, alloc_pages_range(n)
  PROVE  Keeps
<1> DEFINE free == free_fp_list
           L == Len(free)
<1>0. /\ UNCHANGED table /\ UNCHANGED <<vmap, fifo_pgn, entered>>
      /\ frm_lst = <<>> /\ free \in Seq(Frames) /\ Types
  BY DEF alloc_pages_range, PInv, Types
<1>1. L \in Nat /\ n \in Nat /\ n >= 1
  BY <1>0, LenProperties, FramesAssumption
<1>2. Distinct(<<>>) /\ Elems(<<>>) = {}
  BY DEF Distinct, Elems
<1>3. Distinct(free) /\ Elems(free) = Frames \ entered
  BY <1>0, <1>2 DEF PInv, Partition
<1>4. CASE n <= L
  <2> DEFINE a == SubSeq(free, 1, n)
             b == SubSeq(free, n + 1, L)
  <2>1. frm_lst' = a /\ free_fp_list' = b
    BY <1>4 DEF alloc_pages_range, Taken, LeftAfter
  <2>2. a \in Seq(Frames) /\ b \in Seq(Frames) /\ a \o b = free
    <3>1. n \in 0..L
      BY <1>1, <1>4
    <3> QED
      BY <1>0, <3>1, SplitList
  <2> HIDE DEF a, b, free
  <2>3. /\ Elems(free) = Elems(a) \cup Elems(b)
        /\ Distinct(a) /\ Distinct(b) /\ Elems(a) \cap Elems(b) = {}
    BY <1>3, <2>2, ConcatElems
  <2>4. Distinct(b) /\ Distinct(a) /\ Elems(b) \cap Elems(a) = {}
        /\ Elems(b) \cup Elems(a) = Frames \ entered
    BY <1>3, <2>3
  <2>5. Partition'
    <3>1. /\ Distinct(free_fp_list') /\ Distinct(frm_lst')
          /\ Elems(free_fp_list') \cap Elems(frm_lst') = {}
          /\ Elems(free_fp_list') \cup Elems(frm_lst') = Frames \ entered'
      BY <1>0, <2>1, <2>4
    <3> QED
      BY <3>1 DEF Partition
  <2>6. Types'
    BY <1>0, <2>1, <2>2 DEF Types
  <2>7. VmapHasFrames'
    BY <1>0 DEF PInv, VmapHasFrames
  <2> QED
    BY <1>0, <2>5, <2>6, <2>7, TableUnchanged DEF Keeps, PInv
<1>5. CASE ~(n <= L)
  <2>1. frm_lst' = <<>> /\ free_fp_list' = IF free = <<>> THEN <<>> ELSE RollBack(n)
    BY <1>0, <1>5 DEF alloc_pages_range
  <2>2. RollBack(n) = Reverse(free)
    <3>1. Taken(free, n) = SubSeq(free, 1, L)
      BY <1>5 DEF Taken
    <3>2. SubSeq(free, 1, L) = free
      BY <1>0, SubSeqFull
    <3>3. LeftAfter(free, n) = <<>>
      <4>1. n + 1 \in Int /\ L \in Int /\ L < n + 1
        BY <1>1, <1>5
      <4> HIDE DEF L
      <4>2. SubSeq(free, n + 1, L) = <<>>
        BY <4>1, SubSeqEmpty
      <4> QED
        BY <4>2 DEF LeftAfter, L
    <3>4. RollBack(n) = Reverse(free) \o <<>>
      BY <3>1, <3>2, <3>3 DEF RollBack, PutBack
    <3>5. Reverse(free) \in Seq(Frames)
      BY <1>0, ReverseElems
    <3> QED
      BY <3>4, <3>5, ConcatEmptySeq
  <2>3. /\ free_fp_list' \in Seq(Frames) /\ Distinct(free_fp_list')
        /\ Elems(free_fp_list') = Elems(free)
    <3>1. CASE free = <<>>
      BY <1>0, <1>2, <2>1, <3>1
    <3>2. CASE free # <<>>
      <4>1. free_fp_list' = Reverse(free)
        BY <2>1, <2>2, <3>2
      <4> QED
        BY <1>0, <1>3, <4>1, ReverseElems
    <3> QED
      BY <3>1, <3>2
  <2>4. Partition'
    <3> DEFINE new == free_fp_list'
    <3>1. /\ Distinct(new) /\ Distinct(<<>>) /\ Elems(new) \cap Elems(<<>>) = {}
          /\ Elems(new) \cup Elems(<<>>) = Frames \ entered
      BY <1>2, <1>3, <2>3
    <3>2. /\ Distinct(free_fp_list') /\ Distinct(frm_lst')
          /\ Elems(free_fp_list') \cap Elems(frm_lst') = {}
          /\ Elems(free_fp_list') \cup Elems(frm_lst') = Frames \ entered'
      BY <1>0, <2>1, <3>1
    <3> QED
      BY <3>2 DEF Partition
  <2>5. Types'
    BY <1>0, <2>1, <2>3, EmptySeq DEF Types
  <2>6. VmapHasFrames'
    BY <1>0 DEF PInv, VmapHasFrames
  <2> QED
    BY <1>0, <2>4, <2>5, <2>6, TableUnchanged DEF Keeps, PInv
<1> QED
  BY <1>4, <1>5

\* A call of vmap_page_range begins: it only notes its pages.
LEMMA VmapBeginKeeps ==
  ASSUME PInv, NEW p \in Pages, NEW n \in 1..MaxRequest, VmapBegin(p, n)
  PROVE  Keeps
<1>1. /\ UNCHANGED table /\ UNCHANGED <<free_fp_list, frm_lst, fifo_pgn, entered>>
      /\ frm_lst # <<>> /\ vmap' = Consecutive(p, n) /\ \A k \in 1..n : vmap'[k] \in Pages
  BY DEF VmapBegin
<1>2. vmap' \in Seq(Pages)
  <2>1. vmap' = [k \in 1..n |-> vmap'[k]]
    BY <1>1 DEF Consecutive
  <2>2. vmap' \in [1..n -> Pages]
    BY <1>1, <2>1
  <2>3. n \in Nat
    BY FramesAssumption
  <2> QED
    BY <2>2, <2>3, SeqDef
<1>3. Types'
  BY <1>1, <1>2 DEF PInv, Types
<1>4. Partition'
  BY <1>1 DEF PInv, Partition
<1>5. VmapHasFrames'
  BY <1>1 DEF VmapHasFrames
<1> QED
  BY <1>1, <1>3, <1>4, <1>5, TableUnchanged DEF Keeps, PInv

\* The first frame handed out is not entered, and is no longer handed out once it is.
LEMMA FirstFrame ==
  ASSUME Types, Partition, frm_lst # <<>>
  PROVE  /\ Head(frm_lst) \in Frames /\ Head(frm_lst) \notin entered
         /\ Tail(frm_lst) \in Seq(Frames)
         /\ frm_lst' = Tail(frm_lst) /\ free_fp_list' = free_fp_list
            /\ entered' = entered \cup {Head(frm_lst)}
              => Partition'
<1> DEFINE h == Head(frm_lst)
           t == Tail(frm_lst)
<1>1. /\ h \in Frames /\ t \in Seq(Frames)
      /\ Elems(frm_lst) = {h} \cup Elems(t)
      /\ Distinct(frm_lst) <=> Distinct(t) /\ h \notin Elems(t)
  BY SplitHead DEF Types
<1> HIDE DEF h, t
<1>2. /\ Distinct(free_fp_list) /\ Distinct(t) /\ h \notin Elems(t)
      /\ Elems(free_fp_list) \cap ({h} \cup Elems(t)) = {}
      /\ Elems(free_fp_list) \cup ({h} \cup Elems(t)) = Frames \ entered
  BY <1>1 DEF Partition
<1>3. h \notin entered
  BY <1>2
<1>4. /\ Elems(free_fp_list) \cap Elems(t) = {}
      /\ Elems(free_fp_list) \cup Elems(t) = Frames \ (entered \cup {h})
  BY <1>2
<1>5. ASSUME frm_lst' = t, free_fp_list' = free_fp_list, entered' = entered \cup {h}
      PROVE  Partition'
  <2>1. Distinct(free_fp_list') /\ Distinct(frm_lst')
    BY <1>2, <1>5
  <2>2. /\ Elems(free_fp_list') \cap Elems(frm_lst') = {}
        /\ Elems(free_fp_list') \cup Elems(frm_lst') = Frames \ entered'
    BY <1>4, <1>5
  <2> QED
    BY <2>1, <2>2 DEF Partition
<1> QED
  BY <1>1, <1>3, <1>5 DEF h, t

\* vmap_page_range maps a page.
LEMMA VmapPageKeeps ==
  ASSUME PInv, VmapPage
  PROVE  Keeps
<1> DEFINE p == Head(vmap)
           f == Head(frm_lst)
           word == WithFpn(EntryOf(p), BitsOf(f))
<1>1. /\ Types /\ Partition /\ TableShape /\ Entries /\ vmap # <<>> /\ frm_lst # <<>>
      /\ entered \subseteq Frames
  BY DEF PInv, VmapPage, VmapHasFrames, Types
<1>2. /\ frm_lst' = Tail(frm_lst) /\ free_fp_list' = free_fp_list
      /\ entered' = entered \cup {f}
      /\ fifo_pgn' = <<p>> \o fifo_pgn
      /\ vmap' = IF frm_lst' = <<>> THEN <<>> ELSE Tail(vmap)
      /\ SetEntry(p, word) /\ req' = <<p, Online(BitsOf(f))>>
  BY DEF VmapPage, pte_set_fpn
<1>3. p \in Pages /\ Tail(vmap) \in Seq(Pages) /\ <<p>> \in Seq(Pages)
  BY <1>1, HeadTailProperties DEF Types
<1>4. f \in Frames /\ f \notin entered /\ Tail(frm_lst) \in Seq(Frames) /\ Partition'
  BY <1>1, <1>2, FirstFrame
<1>5. word \in Word /\ Decode(word) = Online(BitsOf(f))
  BY <1>1, <1>3, <1>4, EntryIsWord, FrameFacts, OnlineEntry
<1>6. Online(BitsOf(f)) \in PageStates
  BY <1>4 DEF PageStates
<1> HIDE DEF p, f, word
<1>7. TableShape'
  BY <1>1, <1>2, <1>3, <1>5, SetOneEntry
<1>8. Entries'
  BY <1>1, <1>2, <1>3, <1>4, <1>5, EntryIntoFreshFrame
<1>9. MapStep
  BY <1>1, <1>2, <1>3, <1>5, <1>6, EntryIsEntered
<1>10. fifo_pgn' \in Seq(Pages) /\ vmap' \in Seq(Pages)
  BY <1>1, <1>2, <1>3, ConcatProperties, EmptySeq DEF Types
<1>11. Types'
  BY <1>1, <1>2, <1>4, <1>10 DEF Types
<1>12. VmapHasFrames'
  BY <1>2 DEF VmapHasFrames
<1> QED
  BY <1>4, <1>7, <1>8, <1>9, <1>11, <1>12 DEF Keeps, PInv

\* pte_set_entry with a word for a frame.
LEMMA EnterOnlineKeeps ==
  ASSUME PInv, NEW p \in Pages, EnterOnline(p)
  PROVE  Keeps
<1> DEFINE f == Head(frm_lst)
           fpn == BitsOf(f)
           word == init_pte(TRUE, fpn, FALSE, {}, {})
           s == IF fpn = {} THEN Unmapped ELSE Online(fpn)
<1>1. /\ Types /\ Partition /\ TableShape /\ Entries /\ vmap = <<>> /\ frm_lst # <<>>
      /\ entered \subseteq Frames
  BY DEF PInv, EnterOnline, Types
<1>2. /\ frm_lst' = Tail(frm_lst) /\ free_fp_list' = free_fp_list
      /\ entered' = entered \cup {f} /\ UNCHANGED <<vmap, fifo_pgn>>
      /\ SetEntry(p, word) /\ req' = <<p, s>>
  BY DEF EnterOnline
<1>3. f \in Frames /\ f \notin entered /\ Tail(frm_lst) \in Seq(Frames) /\ Partition'
  BY <1>1, <1>2, FirstFrame
<1>4. word \in Word /\ Decode(word) = s
  BY <1>3, FrameFacts, NewOnlineEntry
<1>5. s \in PageStates
  BY <1>3 DEF PageStates
<1>6. s = Unmapped \/ s = Online(BitsOf(f))
  OBVIOUS
<1> HIDE DEF f, word, s
<1>7. TableShape'
  BY <1>1, <1>2, <1>4, SetOneEntry
<1>8. Entries'
  <2>1. CASE s = Unmapped
    <3>1. Decode(word)[1] # "online"
      BY <1>4, <2>1 DEF Unmapped
    <3> QED
      BY <1>1, <1>2, <1>4, <3>1, EntryOffline
  <2>2. CASE s = Online(BitsOf(f))
    BY <1>1, <1>2, <1>3, <1>4, <2>2, EntryIntoFreshFrame
  <2> QED
    BY <1>6, <2>1, <2>2
<1>9. MapStep
  BY <1>1, <1>2, <1>4, <1>5, EntryIsEntered
<1>10. Types' /\ VmapHasFrames'
  BY <1>1, <1>2, <1>3 DEF Types, VmapHasFrames
<1> QED
  BY <1>3, <1>7, <1>8, <1>9, <1>10 DEF Keeps, PInv

\* Setting an entry that puts no page online.
LEMMA OfflineKeeps ==
  ASSUME PInv, NEW p \in Pages, NEW word \in Word, SetEntry(p, word),
         NEW s \in PageStates, Decode(word) = s, s[1] # "online", req' = <<p, s>>,
         UNCHANGED <<free_fp_list, frm_lst, vmap, fifo_pgn, entered>>
  PROVE  Keeps
<1>1. TableShape /\ Entries
  BY DEF PInv
<1>2. TableShape'
  BY <1>1, SetOneEntry
<1>3. Entries'
  BY <1>1, EntryOffline
<1>4. MapStep
  BY <1>1, EntryIsEntered
<1>5. Types' /\ VmapHasFrames' /\ Partition'
  BY DEF PInv, Types, VmapHasFrames, Partition
<1> QED
  BY <1>2, <1>3, <1>4, <1>5 DEF Keeps, PInv

\* pte_set_swap, and pte_set_entry with a word for a swap place.
LEMMA SwapKeeps ==
  ASSUME PInv, NEW p \in Pages, NEW t \in SwapTypes, NEW o \in SwapOffsets,
         pte_set_swap(p, t, o) \/ EnterSwapped(p, t, o)
  PROVE  Keeps
<1>1. t \in TypBits /\ o \in OffBits
  BY SwapAssumption DEF TypBits, OffBits
<1>2. Swapped(t, o) \in PageStates /\ Swapped(t, o)[1] # "online"
  BY DEF PageStates, Swapped
<1>3. EntryOf(p) \in Word
  BY EntryIsWord DEF PInv
<1>4. CASE pte_set_swap(p, t, o)
  <2> DEFINE word == WithSwap(EntryOf(p), t, o)
  <2>1. word \in Word /\ Decode(word) = Swapped(t, o)
    BY <1>1, <1>3, SwappedEntry
  <2>2. /\ SetEntry(p, word) /\ req' = <<p, Swapped(t, o)>>
        /\ UNCHANGED <<free_fp_list, frm_lst, vmap, fifo_pgn, entered>>
    BY <1>4 DEF pte_set_swap
  <2> HIDE DEF word
  <2> QED
    BY <1>2, <2>1, <2>2, OfflineKeeps
<1>5. CASE EnterSwapped(p, t, o)
  <2> DEFINE word == init_pte(TRUE, {}, TRUE, t, o)
  <2>1. word \in Word /\ Decode(word) = Swapped(t, o)
    BY <1>1, NewSwappedEntry
  <2>2. /\ SetEntry(p, word) /\ req' = <<p, Swapped(t, o)>>
        /\ UNCHANGED <<free_fp_list, frm_lst, vmap, fifo_pgn, entered>>
    BY <1>5 DEF EnterSwapped
  <2> HIDE DEF word
  <2> QED
    BY <1>2, <2>1, <2>2, OfflineKeeps
<1> QED
  BY <1>4, <1>5

\* pte_set_entry with a word for a page that is not present.
LEMMA AbsentKeeps ==
  ASSUME PInv, NEW p \in Pages, EnterAbsent(p)
  PROVE  Keeps
<1>1. /\ SetEntry(p, {}) /\ req' = <<p, Unmapped>>
      /\ UNCHANGED <<free_fp_list, frm_lst, vmap, fifo_pgn, entered>>
  BY NewAbsentEntry DEF EnterAbsent
<1>2. Unmapped \in PageStates /\ Unmapped[1] # "online"
  BY DEF PageStates, Unmapped
<1> QED
  BY <1>1, <1>2, EmptyEntry, OfflineKeeps

\* free_pcb_memph finds no entry present, so it gives no frame back.
LEMMA FreeAllKeeps ==
  ASSUME PInv, free_pcb_memph
  PROVE  Keeps
<1> DEFINE L == Len(fifo_pgn)
           inRam == {n \in 1..L : InRam(fifo_pgn[n])}
           P(free) == free = [n \in 0..L |->
             IF n = 0 THEN free_fp_list
             ELSE IF n \in inRam THEN PutBack(free[n - 1], <<FrameOf(fifo_pgn[n])>>)
             ELSE free[n - 1]]
           lists == CHOOSE free : P(free)
<1>1. inRam = {}
  BY DEF InRam, pte_get_entry, mm_pt
<1>2. L \in Nat
  BY LenProperties DEF PInv, Types
<1>3. P([n \in 0..L |-> free_fp_list])
  <2> DEFINE c == [n \in 0..L |-> free_fp_list]
             d == [n \in 0..L |->
                     IF n = 0 THEN free_fp_list
                     ELSE IF n \in inRam THEN PutBack(c[n - 1], <<FrameOf(fifo_pgn[n])>>)
                     ELSE c[n - 1]]
  <2> HIDE DEF L, inRam
  <2>1. \A n \in 0..L : d[n] = free_fp_list
    <3> TAKE n \in 0..L
    <3>1. n # 0 => n - 1 \in 0..L
      BY <1>2
    <3> QED
      BY <3>1, <1>1
  <2>2. c = d
    BY <2>1
  <2> QED
    BY <2>2
<1>4. P(lists)
  BY <1>3, Zenon
<1>5. free_fp_list' = lists[L] /\ entered' = entered \ {FrameOf(fifo_pgn[n]) : n \in inRam}
      /\ fifo_pgn' = <<>> /\ UNCHANGED table /\ UNCHANGED <<frm_lst, vmap>>
  BY DEF free_pcb_memph
<1> HIDE DEF L, inRam, lists
<1>6. entered' = entered
  BY <1>1, <1>5
<1>7. \A n \in 0..L : lists[n] = IF n = 0 THEN free_fp_list ELSE lists[n - 1]
  BY <1>1, <1>4
<1>8. free_fp_list' = free_fp_list
  <2> DEFINE S == {n \in 0..L : lists[n] # free_fp_list}
  <2> SUFFICES ASSUME S # {} PROVE FALSE
    BY <1>2, <1>5
  <2>1. PICK x \in S : \A y \in S : x <= y
    <3>1. S \subseteq Nat
      BY <1>2
    <3> HIDE DEF S
    <3> QED
      BY <3>1, LeastNumber
  <2>2. x # 0 /\ x - 1 \in 0..L /\ x - 1 \notin S
    BY <2>1, <1>7, <1>2
  <2> QED
    BY <2>1, <2>2, <1>7
<1>9. Types'
  BY <1>5, <1>6, <1>8, EmptySeq DEF PInv, Types
<1>10. Partition' /\ VmapHasFrames'
  BY <1>5, <1>6, <1>8 DEF PInv, Partition, VmapHasFrames
<1> QED
  BY <1>5, <1>6, <1>9, <1>10, TableUnchanged DEF Keeps, PInv

\* Every step keeps the invariant, and is one or none of PageMap.
LEMMA NextKeeps ==
  ASSUME PInv, [Next]_vars
  PROVE  Keeps
<1>1. CASE UNCHANGED vars
  <2>1. UNCHANGED table /\ UNCHANGED <<free_fp_list, frm_lst, vmap, fifo_pgn, entered>>
    BY <1>1 DEF vars
  <2>2. Types' /\ Partition' /\ VmapHasFrames'
    BY <2>1 DEF PInv, Types, Partition, VmapHasFrames
  <2> QED
    BY <2>1, <2>2, TableUnchanged DEF Keeps, PInv
<1> QED
  BY <1>1, AllocKeeps, VmapPageKeeps, FreeAllKeeps, VmapBeginKeeps, EnterOnlineKeeps,
     AbsentKeeps, SwapKeeps DEF Next

\* The invariant holds throughout.
LEMMA PInvHolds == Spec => []PInv
<1>1. Init => PInv
  BY InitPInv
<1>2. PInv /\ [Next]_vars => PInv'
  BY NextKeeps DEF Keeps
<1> QED
  BY <1>1, <1>2, PTL DEF Spec

\* The words stay within 32 bits and the lists hold frames and pages, for any
\* pages, frames and swap places (mm64.c, mm-memphy.c).
THEOREM PageTableTypes == Spec => []TypeOK
<1>1. PInv => TypeOK
  BY DEF PInv, Types, TableShape, TypeOK
<1> QED
  BY <1>1, PInvHolds, PTL

\* No frame of MEMRAM is lost, duplicated or handed out while it is free, also
\* when a request of any size fails half way (mm64.c, alloc_pages_range).
THEOREM FramesStayPartitioned == Spec => []FramesPartitioned
<1>1. PInv => FramesPartitioned
  BY PartitionSays DEF PInv
<1> QED
  BY <1>1, PInvHolds, PTL

\* Two pages are never online in one frame (mm64.c, vmap_page_range,
\* pte_set_entry).
THEOREM FramesNotShared == Spec => []NoFrameShared
<1>1. PInv => NoFrameShared
  BY DEF PInv, Entries
<1> QED
  BY <1>1, PInvHolds, PTL

\* The five-level table of bit fields implements a map from page numbers to what
\* is known of the pages (mm64.c, get_pd_from_pagenum, pte_set_fpn,
\* pte_set_swap, pte_set_entry, init_pte).
THEOREM TableImplementsMap == Spec => ImplementsPageMap
<1>1. Init => Map!MapInit
  BY InitPInv
<1>2. PInv /\ [Next]_vars => [Map!MapNext]_<<req, map>>
  BY NextKeeps DEF Keeps, MapStep
<1> QED
  BY <1>1, <1>2, PInvHolds, PTL DEF Spec, ImplementsPageMap, Map!MapSpec, Map!mvars
=============================================================================
