--------------------------- MODULE VirtMemProofs ---------------------------
(***************************************************************************)
(* Proofs about the address space between two loads, for any registers,    *)
(* sizes and widths: the free list keeps its shape even when a narrowed    *)
(* size makes regions overlap; every region has the size asked for while   *)
(* no size is above INT_MAX; and until a region of another size is handed  *)
(* out, splitting, using up and giving back regions loses no byte and      *)
(* duplicates none.                                                        *)
(***************************************************************************)
EXTENDS VirtMem, SequenceTheorems, WellFoundedInduction, TLAPS

-----------------------------------------------------------------------------
(* Sums *)

\* A set of natural numbers has a least element.
LEMMA LeastNumber ==
  ASSUME NEW S, S \subseteq Nat, S # {}
  PROVE  \E x \in S : \A y \in S : x <= y
<1> DEFINE R == {ss \in Nat \X Nat : ss[1] < ss[2]}
<1>1. IsWellFoundedOn(R, Nat)
  BY NatLessThanWellFounded, Zenon DEF OpToRel
<1> HIDE DEF R
<1>2. PICK x \in S : \A y \in S : ~(<<y, x>> \in R)
  BY <1>1, WFMin, Zenon
<1>3. \A y \in S : ~(y < x)
  BY <1>2 DEF R
<1> QED
  BY <1>3

\* Induction: a set of numbers that has 0, and n + 1 with n, has them all.
LEMMA Induction ==
  ASSUME NEW S, 0 \in S, \A n \in Nat : n \in S => n + 1 \in S
  PROVE  Nat \subseteq S
<1> SUFFICES ASSUME Nat \ S # {} PROVE FALSE
  OBVIOUS
<1>1. PICK x \in Nat \ S : \A y \in Nat \ S : x <= y
  BY LeastNumber
<1>2. x # 0 /\ x - 1 \in Nat /\ x - 1 \in S
  BY <1>1
<1> QED
  BY <1>2, <1>1

\* The sums of f, up to n: the function whose values SumTo's recursion names.
IsSums(f, sum, n) ==
  sum = [k \in 0..n |-> IF k = 0 THEN 0 ELSE sum[k - 1] + f[k]]

\* They are determined by f ...
LEMMA SumsUnique ==
  ASSUME NEW f, NEW m \in Nat, NEW n \in Nat, NEW s, NEW t,
         IsSums(f, s, m), IsSums(f, t, n)
  PROVE  \A k \in Nat : k <= m /\ k <= n => s[k] = t[k]
<1> DEFINE S == {k \in Nat : k <= m /\ k <= n => s[k] = t[k]}
<1>0. /\ \A k \in 0..m : s[k] = IF k = 0 THEN 0 ELSE s[k - 1] + f[k]
      /\ \A k \in 0..n : t[k] = IF k = 0 THEN 0 ELSE t[k - 1] + f[k]
  BY Zenon DEF IsSums
<1>1. 0 \in S
  BY <1>0
<1>2. ASSUME NEW k \in Nat, k \in S PROVE k + 1 \in S
  <2> SUFFICES ASSUME k + 1 <= m, k + 1 <= n PROVE s[k + 1] = t[k + 1]
    OBVIOUS
  <2>1. s[k] = t[k] /\ k + 1 \in 0..m /\ k + 1 \in 0..n /\ (k + 1) - 1 = k /\ k + 1 # 0
    BY <1>2
  <2> QED
    BY <2>1, <1>0, Zenon
<1> HIDE DEF S
<1>3. Nat \subseteq S
  BY <1>1, <1>2, Induction, Zenon
<1> QED
  BY <1>3 DEF S

\* ... and exist for every n.
LEMMA SumsExist ==
  ASSUME NEW f
  PROVE  \A n \in Nat : \E s : IsSums(f, s, n)
<1> DEFINE S == {n \in Nat : \E s : IsSums(f, s, n)}
<1>1. 0 \in S
  <2> DEFINE s == [k \in 0..0 |-> 0]
  <2>1. s = [k \in 0..0 |-> IF k = 0 THEN 0 ELSE s[k - 1] + f[k]]
    OBVIOUS
  <2> QED
    BY <2>1, Zenon DEF IsSums
<1>2. ASSUME NEW n \in Nat, n \in S PROVE n + 1 \in S
  <2>1. PICK s : IsSums(f, s, n)
    BY <1>2
  <2> DEFINE t == [k \in 0..(n + 1) |-> IF k = n + 1 THEN s[n] + f[n + 1] ELSE s[k]]
  <2>2. \A k \in 0..n : s[k] = IF k = 0 THEN 0 ELSE s[k - 1] + f[k]
    BY <2>1, Zenon DEF IsSums
  <2>3. ASSUME NEW k \in 0..(n + 1)
        PROVE  t[k] = IF k = 0 THEN 0 ELSE t[k - 1] + f[k]
    <3>1. CASE k = n + 1
      <4>1. k # 0 /\ k - 1 = n /\ n # n + 1 /\ n \in 0..(n + 1)
        BY <3>1
      <4> QED
        BY <4>1, <3>1
    <3>2. CASE k # n + 1
      <4>1. k \in 0..n /\ k # n + 1
        BY <3>2
      <4>2. k # 0 => k - 1 \in 0..(n + 1) /\ k - 1 # n + 1
        BY <4>1
      <4> QED
        BY <4>1, <4>2, <2>2
    <3> QED
      BY <3>1, <3>2
  <2>4. t = [k \in 0..(n + 1) |-> IF k = 0 THEN 0 ELSE t[k - 1] + f[k]]
    <3> DEFINE u == [k \in 0..(n + 1) |-> IF k = 0 THEN 0 ELSE t[k - 1] + f[k]]
    <3>1. \A k \in 0..(n + 1) : t[k] = u[k]
      BY <2>3
    <3> QED
      BY <3>1
  <2> HIDE DEF t
  <2>5. IsSums(f, t, n + 1)
    BY <2>4, Zenon DEF IsSums
  <2> QED
    BY <2>5
<1> HIDE DEF S
<1>3. Nat \subseteq S
  BY <1>1, <1>2, Induction, Zenon
<1> QED
  BY <1>3 DEF S

\* The recursion SumTo is defined by has a solution, so SumTo obeys it.
LEMMA SumToStep ==
  ASSUME NEW f
  PROVE  /\ SumTo(f, 0) = 0
         /\ \A n \in Nat : SumTo(f, n + 1) = SumTo(f, n) + f[n + 1]
<1> DEFINE P(sum) == sum = [k \in Nat |-> IF k = 0 THEN 0 ELSE sum[k - 1] + f[k]]
           part(n) == CHOOSE s : IsSums(f, s, n)
           whole == [n \in Nat |-> part(n)[n]]
<1>1. \A n \in Nat : IsSums(f, part(n), n)
  BY SumsExist
<1>2. ASSUME NEW k \in Nat
      PROVE  whole[k] = IF k = 0 THEN 0 ELSE whole[k - 1] + f[k]
  <2> HIDE DEF part
  <2>1. part(k) = [j \in 0..k |-> IF j = 0 THEN 0 ELSE part(k)[j - 1] + f[j]]
    BY <1>1, Zenon DEF IsSums
  <2>2. part(k)[k] = IF k = 0 THEN 0 ELSE part(k)[k - 1] + f[k]
    BY <2>1
  <2>3. ASSUME k # 0 PROVE part(k)[k - 1] = part(k - 1)[k - 1]
    <3>1. k - 1 \in Nat /\ k - 1 <= k /\ k - 1 <= k - 1
      BY <2>3
    <3>2. IsSums(f, part(k), k) /\ IsSums(f, part(k - 1), k - 1)
      BY <1>1, <3>1
    <3> QED
      BY <3>1, <3>2, SumsUnique
  <2>4. k # 0 => k - 1 \in Nat
    OBVIOUS
  <2> QED
    BY <2>2, <2>3, <2>4
<1>3. P(whole)
  <2> DEFINE u == [k \in Nat |-> IF k = 0 THEN 0 ELSE whole[k - 1] + f[k]]
  <2>1. \A k \in Nat : whole[k] = u[k]
    BY <1>2, Zenon
  <2> HIDE DEF part
  <2>2. whole = u
    BY <2>1
  <2> QED
    BY <2>2
<1> DEFINE sum == CHOOSE s : P(s)
<1>4. P(sum)
  BY <1>3, Zenon
<1>5. \A n : SumTo(f, n) = sum[n]
  BY DEF SumTo
<1> HIDE DEF sum, whole, part
<1>6. \A k \in Nat : sum[k] = IF k = 0 THEN 0 ELSE sum[k - 1] + f[k]
  BY <1>4, Zenon
<1>7. sum[0] = 0
  BY <1>6
<1>8. ASSUME NEW n \in Nat PROVE sum[n + 1] = sum[n] + f[n + 1]
  <2>1. n + 1 \in Nat /\ n + 1 # 0 /\ (n + 1) - 1 = n
    OBVIOUS
  <2> QED
    BY <2>1, <1>6, Zenon
<1> QED
  BY <1>5, <1>7, <1>8

\* Sums of integers are integers.
LEMMA SumToInt ==
  ASSUME NEW n \in Nat, NEW f, \A k \in 1..n : f[k] \in Int
  PROVE  \A m \in 0..n : SumTo(f, m) \in Int
<1> DEFINE S == {m \in Nat : m <= n => SumTo(f, m) \in Int}
<1>1. 0 \in S
  BY SumToStep
<1>2. ASSUME NEW m \in Nat, m \in S PROVE m + 1 \in S
  <2>1. SumTo(f, m + 1) = SumTo(f, m) + f[m + 1]
    BY SumToStep
  <2>2. m + 1 <= n => SumTo(f, m) \in Int /\ f[m + 1] \in Int
    BY <1>2
  <2> QED
    BY <2>1, <2>2
<1> HIDE DEF S
<1>3. Nat \subseteq S
  BY <1>1, <1>2, Induction, Zenon
<1> QED
  BY <1>3 DEF S

\* Changing one summand changes the sum by as much.
LEMMA SumUpdate ==
  ASSUME NEW n \in Nat, NEW f, NEW g, NEW i \in 1..n,
         \A k \in 1..n : f[k] \in Int /\ g[k] \in Int,
         \A k \in 1..n : k # i => g[k] = f[k]
  PROVE  SumTo(g, n) = SumTo(f, n) - f[i] + g[i]
<1> DEFINE S == {m \in Nat : m <= n =>
                   SumTo(g, m) = IF m < i THEN SumTo(f, m)
                                 ELSE SumTo(f, m) - f[i] + g[i]}
<1>1. 0 \in S
  BY SumToStep
<1>2. ASSUME NEW m \in Nat, m \in S PROVE m + 1 \in S
  <2> SUFFICES ASSUME m + 1 <= n
               PROVE  SumTo(g, m + 1) = IF m + 1 < i THEN SumTo(f, m + 1)
                                        ELSE SumTo(f, m + 1) - f[i] + g[i]
    OBVIOUS
  <2>1. /\ SumTo(f, m + 1) = SumTo(f, m) + f[m + 1]
        /\ SumTo(g, m + 1) = SumTo(g, m) + g[m + 1]
    BY SumToStep
  <2>2. /\ SumTo(f, m) \in Int /\ SumTo(g, m) \in Int
        /\ f[m + 1] \in Int /\ g[m + 1] \in Int /\ f[i] \in Int /\ g[i] \in Int
    <3>1. m \in 0..n /\ m + 1 \in 1..n
      OBVIOUS
    <3>2. SumTo(f, m) \in Int
      BY <3>1, SumToInt
    <3>3. SumTo(g, m) \in Int
      BY <3>1, SumToInt
    <3> QED
      BY <3>1, <3>2, <3>3
  <2>3. SumTo(g, m) = IF m < i THEN SumTo(f, m) ELSE SumTo(f, m) - f[i] + g[i]
    BY <1>2
  <2>4. m + 1 # i => g[m + 1] = f[m + 1]
    OBVIOUS
  <2> QED
    BY <2>1, <2>2, <2>3, <2>4
<1> HIDE DEF S
<1>3. Nat \subseteq S
  BY <1>1, <1>2, Induction, Zenon
<1> QED
  BY <1>3 DEF S

\* Leaving out one summand leaves out as much of the sum.
LEMMA SumRemove ==
  ASSUME NEW n \in Nat, NEW f, NEW g, NEW i \in 1..(n + 1),
         \A k \in 1..(n + 1) : f[k] \in Int,
         \A k \in 1..n : g[k] = IF k < i THEN f[k] ELSE f[k + 1]
  PROVE  SumTo(f, n + 1) = SumTo(g, n) + f[i]
<1> DEFINE S == {m \in Nat : m <= n =>
                   /\ m < i => SumTo(g, m) = SumTo(f, m)
                   /\ m + 1 >= i => SumTo(f, m + 1) = SumTo(g, m) + f[i]}
<1>0. \A k \in 1..n : g[k] \in Int
  <2> TAKE k \in 1..n
  <2>1. k \in 1..(n + 1) /\ k + 1 \in 1..(n + 1)
    OBVIOUS
  <2> QED
    BY <2>1
<1>i. \A m \in 0..n : SumTo(f, m) \in Int /\ SumTo(f, m + 1) \in Int /\ SumTo(g, m) \in Int
  <2>1. n + 1 \in Nat
    OBVIOUS
  <2>2. \A m \in 0..(n + 1) : SumTo(f, m) \in Int
    BY <2>1, SumToInt
  <2>3. \A m \in 0..n : SumTo(g, m) \in Int
    BY <1>0, SumToInt
  <2> QED
    BY <2>2, <2>3
<1>1. 0 \in S
  <2>1. /\ SumTo(f, 0) = 0 /\ SumTo(g, 0) = 0 /\ SumTo(f, 0 + 1) = SumTo(f, 0) + f[0 + 1]
    BY SumToStep
  <2>2. f[1] \in Int /\ 0 + 1 = 1
    OBVIOUS
  <2> QED
    BY <2>1, <2>2
<1>2. ASSUME NEW m \in Nat, m \in S PROVE m + 1 \in S
  <2> SUFFICES ASSUME m + 1 <= n
               PROVE  /\ m + 1 < i => SumTo(g, m + 1) = SumTo(f, m + 1)
                      /\ (m + 1) + 1 >= i =>
                           SumTo(f, (m + 1) + 1) = SumTo(g, m + 1) + f[i]
    OBVIOUS
  <2>1. /\ SumTo(f, m + 1) = SumTo(f, m) + f[m + 1]
        /\ SumTo(g, m + 1) = SumTo(g, m) + g[m + 1]
        /\ SumTo(f, (m + 1) + 1) = SumTo(f, m + 1) + f[(m + 1) + 1]
    BY SumToStep
  <2>2. /\ SumTo(f, m) \in Int /\ SumTo(g, m) \in Int /\ SumTo(f, m + 1) \in Int
        /\ f[m + 1] \in Int /\ f[(m + 1) + 1] \in Int /\ f[i] \in Int
    <3>1. m \in 0..n /\ m + 1 \in 1..(n + 1) /\ (m + 1) + 1 \in 1..(n + 1)
      OBVIOUS
    <3> QED
      BY <3>1, <1>i
  <2>3. /\ m < i => SumTo(g, m) = SumTo(f, m)
        /\ m + 1 >= i => SumTo(f, m + 1) = SumTo(g, m) + f[i]
    BY <1>2
  <2>4. g[m + 1] = IF m + 1 < i THEN f[m + 1] ELSE f[(m + 1) + 1]
    OBVIOUS
  <2> QED
    BY <2>1, <2>2, <2>3, <2>4
<1> HIDE DEF S
<1>3. Nat \subseteq S
  BY <1>1, <1>2, Induction, Zenon
<1>4. n \in S /\ n + 1 >= i
  BY <1>3
<1> QED
  BY <1>4 DEF S

\* Nothing but zeros add up to zero.
LEMMA SumZero ==
  ASSUME NEW n \in Nat, NEW f, \A k \in 1..n : f[k] = 0
  PROVE  SumTo(f, n) = 0
<1> DEFINE S == {m \in Nat : m <= n => SumTo(f, m) = 0}
<1>1. 0 \in S
  BY SumToStep
<1>2. ASSUME NEW m \in Nat, m \in S PROVE m + 1 \in S
  <2>1. SumTo(f, m + 1) = SumTo(f, m) + f[m + 1]
    BY SumToStep
  <2>2. m + 1 <= n => SumTo(f, m) = 0 /\ f[m + 1] = 0
    BY <1>2
  <2> QED
    BY <2>1, <2>2
<1> HIDE DEF S
<1>3. Nat \subseteq S
  BY <1>1, <1>2, Induction, Zenon
<1> QED
  BY <1>3 DEF S

-----------------------------------------------------------------------------
(* Widths *)

\* What is needed of the remainder.
LEMMA ModFacts ==
  ASSUME NEW m \in Nat \ {0}
  PROVE  /\ \A k \in Int : k % m \in 0..(m - 1)
         /\ \A k \in 0..(m - 1) : k % m = k
  OBVIOUS

\* A sum that wraps is an address; one that is an address has not wrapped.
LEMMA AddFacts ==
  ASSUME NEW a \in Int, NEW n \in Int
  PROVE  /\ Add(a, n) \in Addresses
         /\ a + n \in Addresses => Add(a, n) = a + n
<1> DEFINE m == ADDR_MAX + 1
<1>1. m \in Nat \ {0} /\ 0..(m - 1) = 0..ADDR_MAX /\ a + n \in Int
  BY MemAssumption
<1>2. Add(a, n) = (a + n) % m
  BY DEF Add
<1> HIDE DEF m
<1> QED
  BY <1>1, <1>2, ModFacts, Zenon DEF Addresses

\* An argument up to INT_MAX is the int it becomes.
LEMMA NarrowFacts ==
  ASSUME NEW size \in 0..ADDR_MAX
  PROVE  /\ Narrow(size) \in Int
         /\ size <= INT_MAX => Narrow(size) = size
<1> DEFINE m == 2 * (INT_MAX + 1)
           low == size % m
<1>1. m \in Nat \ {0} /\ size \in Int /\ INT_MAX \in Nat
      /\ (size <= INT_MAX => size \in 0..(m - 1))
  BY MemAssumption
<1>2. Narrow(size) = IF low <= INT_MAX THEN low ELSE low - m
  BY DEF Narrow
<1> HIDE DEF m
<1>3. low \in 0..(m - 1) /\ (size <= INT_MAX => low = size)
  BY <1>1, ModFacts
<1> HIDE DEF low
<1> QED
  BY <1>1, <1>2, <1>3

\* So a region of such a size that starts no later ends where it should.
LEMMA EndInFacts ==
  ASSUME NEW rg \in Regions, NEW size \in 0..ADDR_MAX
  PROVE  /\ EndIn(rg, size) \in Addresses
         /\ size <= INT_MAX /\ rg.rg_start <= INT_MAX =>
              EndIn(rg, size) = rg.rg_start + size
<1>1. rg.rg_start \in Addresses /\ Addresses = 0..ADDR_MAX
  BY DEF Regions, Addresses
<1>2. Narrow(size) \in Int /\ (size <= INT_MAX => Narrow(size) = size)
  BY NarrowFacts
<1>3. EndIn(rg, size) = Add(rg.rg_start, Narrow(size))
  BY DEF EndIn
<1>4. rg.rg_start \in Int
  BY <1>1, MemAssumption
<1>5. /\ Add(rg.rg_start, Narrow(size)) \in Addresses
      /\ rg.rg_start + Narrow(size) \in Addresses =>
           Add(rg.rg_start, Narrow(size)) = rg.rg_start + Narrow(size)
  BY <1>2, <1>4, AddFacts
<1>6. size <= INT_MAX /\ rg.rg_start <= INT_MAX => rg.rg_start + size \in Addresses
  BY <1>1, MemAssumption
<1> QED
  BY <1>2, <1>3, <1>5, <1>6

-----------------------------------------------------------------------------
(* Lists of regions *)

Lengths(list) == [k \in 1..Len(list) |-> Length(list[k])]
Bytes(list) == SumTo(Lengths(list), Len(list))

\* A list FreeListShape and TypeOK allow.
MayBeNode(list, n, rg) ==
  IF n = Len(list) THEN rg = NoRegion ELSE rg.rg_start < rg.rg_end
GoodNode(list, n) == MayBeNode(list, n, list[n])
GoodList(list) ==
  /\ list \in Seq(Regions) /\ list # <<>>
  /\ \A n \in 1..Len(list) : GoodNode(list, n)

\* No region of it reaches beyond INT_MAX.
EndsLow(list) == \A n \in 1..Len(list) : list[n].rg_end <= INT_MAX

\* The nodes of such a list are regions, and their lengths numbers.
LEMMA Nodes ==
  ASSUME NEW list, GoodList(list)
  PROVE  /\ Len(list) \in Nat \ {0}
         /\ \A n \in 1..Len(list) :
              /\ list[n] \in Regions
              /\ list[n].rg_start \in Nat /\ list[n].rg_end \in Nat
              /\ list[n].rg_start <= list[n].rg_end
              /\ Lengths(list)[n] = list[n].rg_end - list[n].rg_start
              /\ Lengths(list)[n] \in Nat
<1>1. list \in Seq(Regions) /\ list # <<>>
  BY DEF GoodList
<1>2. Len(list) \in Nat \ {0} /\ list \in [1..Len(list) -> Regions]
  BY <1>1, EmptySeq, LenProperties
<1>3. ASSUME NEW n \in 1..Len(list)
      PROVE  /\ list[n] \in Regions
             /\ list[n].rg_start \in Nat /\ list[n].rg_end \in Nat
             /\ list[n].rg_start <= list[n].rg_end
  <2>1. list[n] \in Regions
    BY <1>2
  <2>2. list[n].rg_start \in Nat /\ list[n].rg_end \in Nat
    BY <2>1, MemAssumption DEF Regions, Addresses
  <2>3. GoodNode(list, n)
    BY DEF GoodList
  <2> QED
    BY <2>1, <2>2, <2>3 DEF GoodNode, MayBeNode, NoRegion, Region
<1>4. ASSUME NEW n \in 1..Len(list)
      PROVE  /\ Lengths(list)[n] = list[n].rg_end - list[n].rg_start
             /\ Lengths(list)[n] \in Nat
  BY <1>3 DEF Lengths, Length
<1> QED
  BY <1>2, <1>3, <1>4

\* So their sum is a number.
LEMMA BytesInt ==
  ASSUME NEW list, GoodList(list)
  PROVE  Bytes(list) \in Int
<1>1. \A k \in 1..Len(list) : Lengths(list)[k] \in Int
  BY Nodes
<1>2. Len(list) \in Nat /\ Len(list) \in 0..Len(list)
  BY Nodes
<1> QED
  BY <1>1, <1>2, SumToInt DEF Bytes

\* Replacing a node.
LEMMA ReplaceNode ==
  ASSUME NEW list, GoodList(list), NEW i \in 1..Len(list), NEW rg \in Regions,
         MayBeNode(list, i, rg)
  PROVE  /\ GoodList([list EXCEPT ![i] = rg])
         /\ EndsLow(list) /\ rg.rg_end <= INT_MAX => EndsLow([list EXCEPT ![i] = rg])
         /\ Bytes([list EXCEPT ![i] = rg]) = Bytes(list) - Length(list[i]) + Length(rg)
<1> DEFINE new == [list EXCEPT ![i] = rg]
<1>1. /\ new \in Seq(Regions) /\ Len(new) = Len(list)
      /\ \A j \in 1..Len(list) : new[j] = IF j = i THEN rg ELSE list[j]
  <2>1. list \in Seq(Regions)
    BY DEF GoodList
  <2> QED
    BY <2>1, ExceptSeq
<1> HIDE DEF new
<1>2. GoodList(new)
  <2>1. new # <<>>
    BY <1>1, Nodes, EmptySeq
  <2>2. ASSUME NEW n \in 1..Len(new) PROVE GoodNode(new, n)
    <3>1. GoodNode(list, n)
      BY <1>1 DEF GoodList
    <3> QED
      BY <3>1, <1>1 DEF GoodNode, MayBeNode
  <2> QED
    BY <2>1, <2>2, <1>1, Zenon DEF GoodList
<1>3. Bytes(new) = Bytes(list) - Length(list[i]) + Length(rg)
  <2> DEFINE f == Lengths(list)
             g == Lengths(new)
             n == Len(list)
             j == i
  <2>1. n \in Nat /\ \A k \in 1..n : f[k] \in Int
    BY Nodes
  <2>2. \A k \in 1..n : g[k] \in Int
    BY <1>1, <1>2, Nodes
  <2>3. \A k \in 1..n : g[k] = IF k = i THEN Length(rg) ELSE f[k]
    BY <1>1 DEF Lengths
  <2>4. f[i] = Length(list[i])
    BY DEF Lengths
  <2>5. Bytes(list) = SumTo(f, n) /\ Bytes(new) = SumTo(g, n)
    BY <1>1 DEF Bytes
  <2>6. j \in 1..n /\ j = i
    OBVIOUS
  <2> HIDE DEF f, g, n, j
  <2>7. ASSUME NEW k \in 1..n, k # j PROVE g[k] = f[k]
    BY <2>3, <2>6, <2>7
  <2>8. j \in 1..n /\ n \in Nat
    BY <2>1, <2>6
  <2>9. \A k \in 1..n : f[k] \in Int /\ g[k] \in Int
    BY <2>1, <2>2
  <2>10. SumTo(g, n) = SumTo(f, n) - f[j] + g[j]
    BY <2>7, <2>8, <2>9, SumUpdate
  <2> QED
    BY <2>3, <2>4, <2>5, <2>6, <2>10
<1>4. EndsLow(list) /\ rg.rg_end <= INT_MAX => EndsLow(new)
  BY <1>1 DEF EndsLow
<1> QED
  BY <1>2, <1>3, <1>4 DEF new

\* Removing a node that is not the last.
LEMMA RemoveNode ==
  ASSUME NEW list, GoodList(list), NEW i \in 1..Len(list), i < Len(list)
  PROVE  /\ GoodList(RemoveAt(list, i))
         /\ EndsLow(list) => EndsLow(RemoveAt(list, i))
         /\ Bytes(RemoveAt(list, i)) = Bytes(list) - Length(list[i])
<1> DEFINE a == SubSeq(list, 1, i - 1)
           b == SubSeq(list, i + 1, Len(list))
           new == RemoveAt(list, i)
<1>0. /\ Len(list) \in Nat /\ list \in Seq(Regions)
      /\ \A j \in 1..Len(list) : list[j] \in Regions
  BY Nodes DEF GoodList
<1>1. /\ a \in Seq(Regions) /\ Len(a) = i - 1
      /\ \A j \in 1..(i - 1) : a[j] = list[j]
  <2>1. \A j \in 1..(i - 1) : list[j] \in Regions
    BY <1>0
  <2>2. 1 \in Int /\ i - 1 \in Int /\ (i - 1) - 1 + 1 = i - 1
    BY <1>0
  <2>3. /\ a \in Seq(Regions) /\ Len(a) = IF 1 <= i - 1 THEN (i - 1) - 1 + 1 ELSE 0
        /\ \A j \in 1..((i - 1) - 1 + 1) : a[j] = list[1 + j - 1]
    BY <2>1, <2>2, SubSeqProperties
  <2> HIDE DEF a
  <2> QED
    BY <2>3, <1>0
<1>2. /\ b \in Seq(Regions) /\ Len(b) = Len(list) - i
      /\ \A j \in 1..(Len(list) - i) : b[j] = list[i + j]
  <2>1. \A j \in (i + 1)..Len(list) : list[j] \in Regions
    BY <1>0
  <2>2. i + 1 \in Int /\ Len(list) \in Int
    BY <1>0
  <2>3. /\ b \in Seq(Regions)
        /\ Len(b) = IF i + 1 <= Len(list) THEN Len(list) - (i + 1) + 1 ELSE 0
        /\ \A j \in 1..(Len(list) - (i + 1) + 1) : b[j] = list[(i + 1) + j - 1]
    BY <2>1, <2>2, SubSeqProperties
  <2> HIDE DEF b
  <2> QED
    BY <2>3, <1>0
<1>3. new = a \o b
  BY DEF RemoveAt
<1> HIDE DEF a, b, new
<1>4. /\ new \in Seq(Regions) /\ Len(new) = Len(a) + Len(b)
      /\ \A j \in 1..(Len(a) + Len(b)) :
           new[j] = IF j <= Len(a) THEN a[j] ELSE b[j - Len(a)]
  BY <1>1, <1>2, <1>3, ConcatProperties
<1> DEFINE L == Len(list)
<1>5. /\ L \in Nat /\ Len(new) = L - 1 /\ L - 1 \in Nat \ {0}
      /\ \A j \in 1..(L - 1) : new[j] = IF j < i THEN list[j] ELSE list[j + 1]
  <2>1. Len(a) = i - 1 /\ Len(b) = L - i /\ L \in Nat /\ i \in 1..L /\ i < L
    BY <1>0, <1>1, <1>2
  <2> HIDE DEF L
  <2>2. Len(new) = L - 1 /\ L - 1 \in Nat \ {0}
    BY <2>1, <1>4
  <2>3. ASSUME NEW j \in 1..(L - 1) PROVE new[j] = IF j < i THEN list[j] ELSE list[j + 1]
    <3>1. CASE j < i
      <4>1. new[j] = a[j] /\ j \in 1..(i - 1)
        BY <3>1, <2>1, <1>4
      <4> QED
        BY <4>1, <3>1, <1>1
    <3>2. CASE ~(j < i)
      <4>1. new[j] = b[j - (i - 1)] /\ j - (i - 1) \in 1..(L - i)
        BY <3>2, <2>1, <1>4
      <4>2. i + (j - (i - 1)) = j + 1
        BY <2>1
      <4>3. b[j - (i - 1)] = list[i + (j - (i - 1))]
        BY <4>1, <1>2 DEF L
      <4> QED
        BY <4>1, <4>2, <4>3, <3>2
    <3> QED
      BY <3>1, <3>2
  <2> QED
    BY <2>1, <2>2, <2>3
<1>6. GoodList(new)
  <2>1. new # <<>>
    BY <1>5, EmptySeq
  <2>2. ASSUME NEW n \in 1..Len(new) PROVE GoodNode(new, n)
    <3>1. n \in 1..(L - 1) /\ n \in 1..L /\ n + 1 \in 1..L
      BY <1>5
    <3>2. GoodNode(list, n) /\ GoodNode(list, n + 1)
      BY <3>1 DEF GoodList
    <3>3. i \in 1..L /\ i < L
      OBVIOUS
    <3> QED
      BY <3>1, <3>2, <3>3, <1>5 DEF GoodNode, MayBeNode
  <2> QED
    BY <2>1, <2>2, <1>4, Zenon DEF GoodList
<1>7. Bytes(new) = Bytes(list) - Length(list[i])
  <2> DEFINE f == Lengths(list)
             g == Lengths(new)
             n == L - 1
  <2>1. n \in Nat /\ n + 1 = L /\ i \in 1..(n + 1)
    BY <1>5
  <2>2. \A k \in 1..(n + 1) : f[k] \in Int
    BY <2>1, Nodes
  <2>3. \A k \in 1..n : g[k] = IF k < i THEN f[k] ELSE f[k + 1]
    <3> TAKE k \in 1..n
    <3>1. k \in 1..Len(new) /\ k \in 1..L /\ k + 1 \in 1..L
      BY <1>5
    <3>2. g[k] = Length(new[k]) /\ f[k] = Length(list[k]) /\ f[k + 1] = Length(list[k + 1])
      BY <3>1 DEF Lengths
    <3> QED
      BY <3>2, <1>5
  <2>4. f[i] = Length(list[i])
    BY DEF Lengths
  <2>5. Bytes(list) = SumTo(f, n + 1) /\ Bytes(new) = SumTo(g, n)
    BY <1>5, <2>1, Zenon DEF Bytes
  <2>6. SumTo(g, n) \in Int
    <3>1. n = Len(new) /\ \A k \in 1..n : g[k] \in Int
      BY <1>5, <1>6, Nodes
    <3> HIDE DEF f, g, n
    <3>2. n \in 0..n
      BY <2>1
    <3> QED
      BY <3>1, <3>2, <2>1, SumToInt
  <2>7. f[i] \in Int
    BY <2>2, <2>1
  <2> HIDE DEF f, g, n, L
  <2>8. SumTo(f, n + 1) = SumTo(g, n) + f[i]
    BY <2>1, <2>2, <2>3, SumRemove
  <2> QED
    BY <2>4, <2>5, <2>6, <2>7, <2>8
<1>8. EndsLow(list) => EndsLow(new)
  <2> SUFFICES ASSUME EndsLow(list), NEW j \in 1..Len(new) PROVE new[j].rg_end <= INT_MAX
    BY DEF EndsLow
  <2>1. j \in 1..(L - 1) /\ j \in 1..L /\ j + 1 \in 1..L
    BY <1>5
  <2> QED
    BY <2>1, <1>5 DEF EndsLow
<1> QED
  BY <1>6, <1>7, <1>8 DEF new

\* Putting a region that is not empty in front.
LEMMA PrependNode ==
  ASSUME NEW list, GoodList(list), NEW rg \in Regions, rg.rg_start < rg.rg_end
  PROVE  /\ GoodList(<<rg>> \o list)
         /\ EndsLow(list) /\ rg.rg_end <= INT_MAX => EndsLow(<<rg>> \o list)
         /\ Bytes(<<rg>> \o list) = Bytes(list) + Length(rg)
<1> DEFINE new == <<rg>> \o list
           L == Len(list)
<1>0. list \in Seq(Regions) /\ L \in Nat
  BY Nodes DEF GoodList
<1>1. /\ new \in Seq(Regions) /\ Len(new) = L + 1
      /\ \A j \in 1..(L + 1) : new[j] = IF j = 1 THEN rg ELSE list[j - 1]
  <2>1. <<rg>> \in Seq(Regions) /\ Len(<<rg>>) = 1 /\ <<rg>>[1] = rg
    OBVIOUS
  <2>2. /\ new \in Seq(Regions) /\ Len(new) = Len(<<rg>>) + L
        /\ \A j \in 1..(Len(<<rg>>) + L) :
             new[j] = IF j <= Len(<<rg>>) THEN <<rg>>[j] ELSE list[j - Len(<<rg>>)]
    BY <1>0, <2>1, ConcatProperties
  <2> HIDE DEF new, L
  <2>3. \A j \in 1..(L + 1) : new[j] = IF j <= 1 THEN <<rg>>[j] ELSE list[j - 1]
    BY <2>1, <2>2, <1>0
  <2>4. \A j \in 1..(L + 1) : j <= 1 <=> j = 1
    BY <1>0
  <2>5. Len(new) = L + 1
    BY <2>1, <2>2, <1>0
  <2> QED
    BY <2>1, <2>2, <2>3, <2>4, <2>5, Zenon
<1> HIDE DEF new
<1>2. GoodList(new)
  <2>1. new # <<>>
    BY <1>0, <1>1, EmptySeq
  <2>2. ASSUME NEW n \in 1..Len(new) PROVE GoodNode(new, n)
    <3>1. CASE n = 1
      <4>1. n # Len(new)
        BY <3>1, <1>0, <1>1, Nodes
      <4> QED
        BY <3>1, <4>1, <1>0, <1>1 DEF GoodNode, MayBeNode
    <3>2. CASE n # 1
      <4>1. n - 1 \in 1..L
        BY <3>2, <1>0, <1>1
      <4>2. GoodNode(list, n - 1)
        BY <4>1 DEF GoodList
      <4>3. new[n] = list[n - 1] /\ (n - 1 = L <=> n = Len(new))
        BY <3>2, <1>0, <1>1
      <4> QED
        BY <4>1, <4>2, <4>3 DEF GoodNode, MayBeNode
    <3> QED
      BY <3>1, <3>2
  <2> QED
    BY <2>1, <2>2, <1>1, Zenon DEF GoodList
<1>3. Bytes(new) = Bytes(list) + Length(rg)
  <2> DEFINE f == Lengths(new)
             g == Lengths(list)
             one == 1
  <2>1. L + 1 \in Nat /\ one \in 1..(L + 1)
    BY <1>0
  <2>2. \A k \in 1..(L + 1) : f[k] \in Int
    BY <1>1, <1>2, Nodes
  <2>3. \A k \in 1..L : g[k] = IF k < one THEN f[k] ELSE f[k + 1]
    <3> TAKE k \in 1..L
    <3>1. k + 1 \in 1..Len(new) /\ ~(k < 1) /\ k + 1 # 1 /\ (k + 1) - 1 = k
      BY <1>0, <1>1
    <3>2. f[k + 1] = Length(new[k + 1]) /\ g[k] = Length(list[k])
      BY <3>1 DEF Lengths
    <3>3. new[k + 1] = list[k]
      BY <3>1, <1>1
    <3> QED
      BY <3>1, <3>2, <3>3
  <2>4. f[one] = Length(rg)
    <3>1. 1 \in 1..Len(new)
      BY <1>0, <1>1
    <3>2. f[1] = Length(new[1])
      BY <3>1 DEF Lengths
    <3> QED
      BY <3>1, <3>2, <1>1
  <2>5. Bytes(new) = SumTo(f, L + 1) /\ Bytes(list) = SumTo(g, L)
    BY <1>1, Zenon DEF Bytes
  <2> HIDE DEF f, g, L, one
  <2>6. SumTo(f, L + 1) = SumTo(g, L) + f[one]
    BY <1>0, <2>1, <2>2, <2>3, SumRemove
  <2> QED
    BY <2>4, <2>5, <2>6
<1>4. EndsLow(list) /\ rg.rg_end <= INT_MAX => EndsLow(new)
  <2> SUFFICES ASSUME EndsLow(list), rg.rg_end <= INT_MAX, NEW j \in 1..Len(new)
               PROVE  new[j].rg_end <= INT_MAX
    BY DEF EndsLow
  <2>1. j # 1 => j - 1 \in 1..L
    BY <1>0, <1>1
  <2> QED
    BY <2>1, <1>1 DEF EndsLow
<1> QED
  BY <1>2, <1>3, <1>4 DEF new

-----------------------------------------------------------------------------
(* The symbol table *)

SymbolLengths(table) == [n \in 1..PAGING_MAX_SYMTBL_SZ |-> Length(table[n - 1])]
BytesOf(table) == SumTo(SymbolLengths(table), PAGING_MAX_SYMTBL_SZ)

\* No region of it ends before it starts.
GoodTable(table) ==
  /\ table \in [Symbols -> Regions]
  /\ \A r \in Symbols : table[r].rg_start <= table[r].rg_end

\* The regions of such a table have numbers for lengths.
LEMMA Entries ==
  ASSUME NEW table, GoodTable(table)
  PROVE  /\ \A r \in Symbols :
              /\ table[r] \in Regions
              /\ table[r].rg_start \in Nat /\ table[r].rg_end \in Nat
              /\ Length(table[r]) \in Nat
         /\ \A k \in 1..PAGING_MAX_SYMTBL_SZ :
              /\ SymbolLengths(table)[k] = Length(table[k - 1])
              /\ SymbolLengths(table)[k] \in Nat
         /\ BytesOf(table) \in Int
<1>1. ASSUME NEW r \in Symbols
      PROVE  /\ table[r] \in Regions
             /\ table[r].rg_start \in Nat /\ table[r].rg_end \in Nat
             /\ Length(table[r]) \in Nat
  BY MemAssumption DEF GoodTable, Regions, Length, Addresses
<1>2. ASSUME NEW k \in 1..PAGING_MAX_SYMTBL_SZ
      PROVE  /\ SymbolLengths(table)[k] = Length(table[k - 1])
             /\ SymbolLengths(table)[k] \in Nat
  <2>1. k - 1 \in Symbols
    BY MemAssumption DEF Symbols
  <2>2. SymbolLengths(table)[k] = Length(table[k - 1])
    BY DEF SymbolLengths
  <2> QED
    BY <1>1, <2>1, <2>2
<1>3. BytesOf(table) \in Int
  <2> DEFINE f == SymbolLengths(table)
  <2>1. \A k \in 1..PAGING_MAX_SYMTBL_SZ : f[k] \in Int
    BY <1>2
  <2>2. PAGING_MAX_SYMTBL_SZ \in Nat /\ PAGING_MAX_SYMTBL_SZ \in 0..PAGING_MAX_SYMTBL_SZ
    BY MemAssumption
  <2>3. BytesOf(table) = SumTo(f, PAGING_MAX_SYMTBL_SZ)
    BY DEF BytesOf
  <2> HIDE DEF f
  <2> QED
    BY <2>1, <2>2, <2>3, SumToInt
<1> QED
  BY <1>1, <1>2, <1>3

\* Overwriting an entry.
LEMMA OverwriteEntry ==
  ASSUME NEW table, GoodTable(table), NEW r \in Symbols, NEW rg \in Regions,
         rg.rg_start <= rg.rg_end
  PROVE  /\ GoodTable([table EXCEPT ![r] = rg])
         /\ BytesOf([table EXCEPT ![r] = rg])
              = BytesOf(table) - Length(table[r]) + Length(rg)
<1> DEFINE new == [table EXCEPT ![r] = rg]
<1>1. /\ new \in [Symbols -> Regions]
      /\ \A q \in Symbols : new[q] = IF q = r THEN rg ELSE table[q]
  BY DEF GoodTable
<1> HIDE DEF new
<1>2. GoodTable(new)
  BY <1>1 DEF GoodTable
<1>3. BytesOf(new) = BytesOf(table) - Length(table[r]) + Length(rg)
  <2> DEFINE f == SymbolLengths(table)
             g == SymbolLengths(new)
             n == PAGING_MAX_SYMTBL_SZ
             i == r + 1
  <2>1. n \in Nat /\ i \in 1..n /\ i - 1 = r
    BY MemAssumption DEF Symbols
  <2>2. \A k \in 1..n : /\ f[k] = Length(table[k - 1]) /\ f[k] \in Nat
                       /\ g[k] = Length(new[k - 1]) /\ g[k] \in Nat
    BY <1>2, Entries
  <2>3. BytesOf(table) = SumTo(f, n) /\ BytesOf(new) = SumTo(g, n)
    BY DEF BytesOf
  <2>4. ASSUME NEW k \in 1..n, k # i PROVE g[k] = f[k]
    <3>1. k - 1 \in Symbols /\ k - 1 # r
      BY <2>1, <2>4, MemAssumption DEF Symbols
    <3>2. new[k - 1] = table[k - 1]
      BY <3>1, <1>1
    <3> QED
      BY <3>2, <2>2
  <2>5. f[i] = Length(table[r]) /\ g[i] = Length(rg)
    <3>1. new[r] = rg
      BY <1>1
    <3> QED
      BY <3>1, <2>1, <2>2
  <2> HIDE DEF f, g, n, i
  <2>6. SumTo(g, n) = SumTo(f, n) - f[i] + g[i]
    <3>1. \A k \in 1..n : f[k] \in Int /\ g[k] \in Int
      BY <2>2
    <3> QED
      BY <3>1, <2>1, <2>4, SumUpdate
  <2> QED
    BY <2>3, <2>5, <2>6
<1> QED
  BY <1>2, <1>3 DEF new

-----------------------------------------------------------------------------
(* The invariants *)

Typed ==
  /\ GoodList(vm_freerg_list)
  /\ symrgtbl \in [Symbols -> Regions]
  /\ vm_end \in Addresses /\ given \in Nat /\ leaked \in Int
  /\ oversized \in 0..MaxOversized /\ misfit \in BOOLEAN

\* Until a region of another size than asked for is handed out.
Ordered == ~misfit => GoodTable(symrgtbl)

\* Until more than INT_MAX bytes are asked for.
Low ==
  oversized = 0 => /\ ~misfit
                   /\ EndsLow(vm_freerg_list)
                   /\ \A r \in Symbols : symrgtbl[r].rg_end <= INT_MAX

Inv == Typed /\ Ordered /\ Low

\* The programs name registers of the table.
RegistersInTable == RgIds \subseteq Symbols

Conserved == ~misfit => Bytes(vm_freerg_list) + BytesOf(symrgtbl) + leaked = given

\* The invariant is what the runs check.
LEMMA InvSays ==
  ASSUME Inv
  PROVE  TypeOK /\ FreeListShape /\ MisfitOnlyOversized
<1>1. /\ vm_freerg_list \in Seq(Regions) /\ vm_freerg_list # <<>>
      /\ \A n \in 1..Len(vm_freerg_list) : GoodNode(vm_freerg_list, n)
      /\ Len(vm_freerg_list) \in Nat \ {0}
  BY Nodes DEF Inv, Typed, GoodList
<1>2. TypeOK
  BY <1>1 DEF Inv, Typed, TypeOK
<1>3. FreeListShape
  <2>1. ASSUME NEW n \in 1..(Len(vm_freerg_list) - 1)
        PROVE  vm_freerg_list[n].rg_start < vm_freerg_list[n].rg_end
    <3>1. n \in 1..Len(vm_freerg_list) /\ n # Len(vm_freerg_list)
      BY <1>1
    <3> QED
      BY <3>1, <1>1 DEF GoodNode, MayBeNode
  <2>2. vm_freerg_list[Len(vm_freerg_list)] = Region(0, 0)
    BY <1>1 DEF GoodNode, MayBeNode, NoRegion
  <2> QED
    BY <2>1, <2>2 DEF FreeListShape
<1>4. MisfitOnlyOversized
  BY MemAssumption DEF Inv, Typed, Low, MisfitOnlyOversized
<1> QED
  BY <1>2, <1>3, <1>4

\* The sums of the invariant are those of BytesConserved.
LEMMA ConservedSays ==
  ASSUME Inv, Conserved
  PROVE  BytesConserved
<1>1. Bytes(vm_freerg_list) = FreeBytes
  BY Zenon DEF Bytes, Lengths, FreeBytes
<1>2. BytesOf(symrgtbl) = SymbolBytes
  BY Zenon DEF BytesOf, SymbolLengths, SymbolBytes
<1> QED
  BY <1>1, <1>2 DEF Conserved, BytesConserved, Inv, Ordered, GoodTable

\* The empty address space of init_mm.
LEMMA InitInv ==
  ASSUME Init
  PROVE  Inv /\ Conserved
<1> DEFINE list == vm_freerg_list
           f == Lengths(list)
           g == SymbolLengths(symrgtbl)
<1>1. /\ list = <<Region(0, 0)>> /\ symrgtbl = [r \in Symbols |-> NoRegion]
      /\ vm_end = 0 /\ given = 0 /\ leaked = 0 /\ oversized = 0 /\ misfit = FALSE
  BY DEF Init, init_mm
<1>2. Region(0, 0) \in Regions /\ NoRegion = Region(0, 0) /\ Length(Region(0, 0)) = 0
      /\ Region(0, 0).rg_start = 0 /\ Region(0, 0).rg_end = 0
  BY MemAssumption DEF Region, NoRegion, Regions, Length, Addresses
<1>3. list \in Seq(Regions) /\ Len(list) = 1 /\ list[1] = Region(0, 0) /\ list # <<>>
  BY <1>1, <1>2
<1>4. GoodList(list)
  <2>1. \A n \in 1..Len(list) : n = 1
    BY <1>3
  <2> QED
    BY <1>2, <1>3, <2>1 DEF GoodList, GoodNode, MayBeNode
<1>5. GoodTable(symrgtbl)
  BY <1>1, <1>2 DEF GoodTable
<1>6. Bytes(list) = 0
  <2>1. f = [k \in 1..Len(list) |-> Length(list[k])] /\ \A k \in 1..Len(list) : k = 1
    BY <1>3 DEF Lengths
  <2>2. \A k \in 1..Len(list) : f[k] = 0
    BY <1>2, <1>3, <2>1
  <2>3. Bytes(list) = SumTo(f, Len(list)) /\ Len(list) \in Nat
    BY <1>3 DEF Bytes
  <2> HIDE DEF f
  <2> QED
    BY <2>2, <2>3, SumZero
<1>7. BytesOf(symrgtbl) = 0
  <2>1. ASSUME NEW k \in 1..PAGING_MAX_SYMTBL_SZ PROVE g[k] = 0
    <3>1. g[k] = Length(symrgtbl[k - 1])
      BY <1>5, Entries
    <3>2. k - 1 \in Symbols
      BY MemAssumption DEF Symbols
    <3> QED
      BY <3>1, <3>2, <1>1, <1>2
  <2>2. BytesOf(symrgtbl) = SumTo(g, PAGING_MAX_SYMTBL_SZ) /\ PAGING_MAX_SYMTBL_SZ \in Nat
    BY MemAssumption DEF BytesOf
  <2> HIDE DEF g
  <2> QED
    BY <2>1, <2>2, SumZero
<1>8. EndsLow(list) /\ \A r \in Symbols : symrgtbl[r].rg_end <= INT_MAX
  <2>1. \A n \in 1..Len(list) : n = 1
    BY <1>3
  <2> QED
    BY <2>1, <1>1, <1>2, <1>3, MemAssumption DEF EndsLow
<1>9. Ordered /\ Low
  BY <1>1, <1>5, <1>8 DEF Ordered, Low
<1>10. vm_end \in Addresses /\ given \in Nat /\ leaked \in Int
       /\ oversized \in 0..MaxOversized
  BY <1>1, MemAssumption DEF Addresses
<1>13. misfit \in BOOLEAN
  BY <1>1, Zenon
<1>11. Typed
  BY <1>4, <1>5, <1>10, <1>13, Zenon DEF Typed, GoodTable
<1>12. Bytes(list) + BytesOf(symrgtbl) + leaked = given
  BY <1>1, <1>6, <1>7
<1> QED
  BY <1>9, <1>11, <1>12 DEF Inv, Conserved

\* A region that is cut off a free one leaves a good list, without its bytes.
LEMMA TakeFromList ==
  ASSUME GoodList(vm_freerg_list), NEW size \in 0..ADDR_MAX,
         NEW n \in 1..Len(vm_freerg_list), Fits(vm_freerg_list[n], size)
  PROVE  /\ GoodList(TakeFrom(n, size))
         /\ EndsLow(vm_freerg_list) => EndsLow(TakeFrom(n, size))
         /\ Bytes(TakeFrom(n, size))
              = Bytes(vm_freerg_list)
                - (EndIn(vm_freerg_list[n], size) - vm_freerg_list[n].rg_start)
<1> DEFINE list == vm_freerg_list
           rg == list[n]
           end == EndIn(rg, size)
<1>1. /\ Len(list) \in Nat /\ list \in Seq(Regions)
      /\ rg \in Regions /\ rg.rg_start \in Nat /\ rg.rg_end \in Nat
      /\ rg.rg_start <= rg.rg_end /\ Length(rg) = rg.rg_end - rg.rg_start
  BY Nodes DEF GoodList, Length
<1>2. EndsLow(list) => rg.rg_end <= INT_MAX
  BY DEF EndsLow
<1>b. Bytes(list) \in Int
  BY BytesInt
<1>e. end \in Addresses /\ end \in Nat /\ end <= rg.rg_end
  <2>1. end \in Addresses
    BY <1>1, EndInFacts
  <2> QED
    BY <2>1, MemAssumption DEF Fits, Addresses
<1>n. GoodNode(list, n)
  BY DEF GoodList
<1>3. CASE end < rg.rg_end
  <2> DEFINE rest == [rg EXCEPT !.rg_start = end]
  <2>1. TakeFrom(n, size) = [list EXCEPT ![n] = rest]
    BY <1>3 DEF TakeFrom
  <2>2. /\ rest \in Regions /\ rest.rg_start < rest.rg_end /\ rest.rg_end = rg.rg_end
        /\ Length(rest) = rg.rg_end - end
    BY <1>1, <1>3, <1>e DEF Regions, Length
  <2>4. n # Len(list)
    BY <1>n, <1>e, <1>3 DEF GoodNode, MayBeNode, NoRegion, Region
  <2> HIDE DEF rest, end
  <2>3. /\ GoodList([list EXCEPT ![n] = rest])
        /\ EndsLow(list) /\ rest.rg_end <= INT_MAX => EndsLow([list EXCEPT ![n] = rest])
        /\ Bytes([list EXCEPT ![n] = rest]) = Bytes(list) - Length(rg) + Length(rest)
    BY <2>2, <2>4, ReplaceNode DEF MayBeNode
  <2>5. Bytes([list EXCEPT ![n] = rest]) = Bytes(list) - (end - rg.rg_start)
    BY <1>1, <1>b, <1>e, <2>2, <2>3
  <2> QED
    BY <1>2, <2>1, <2>2, <2>3, <2>5, <1>b DEF end
<1>4. CASE ~(end < rg.rg_end) /\ n < Len(list)
  <2>1. TakeFrom(n, size) = RemoveAt(list, n)
    BY <1>4 DEF TakeFrom
  <2>2. /\ GoodList(RemoveAt(list, n)) /\ Bytes(RemoveAt(list, n)) = Bytes(list) - Length(rg)
        /\ EndsLow(list) => EndsLow(RemoveAt(list, n))
    BY <1>4, RemoveNode
  <2>3. Length(rg) = end - rg.rg_start
    BY <1>1, <1>4, <1>e
  <2> QED
    BY <2>1, <2>2, <2>3
<1>5. CASE ~(end < rg.rg_end) /\ ~(n < Len(list))
  <2>0. n = Len(list)
    <3> DEFINE L == Len(list)
    <3>1. L \in Nat /\ n \in 1..L /\ ~(n < L)
      BY <1>1, <1>5
    <3> HIDE DEF L
    <3>2. n = L
      BY <3>1
    <3> QED
      BY <3>2 DEF L
  <2>1. rg = NoRegion /\ rg.rg_start = 0 /\ rg.rg_end = 0
    BY <2>0, <1>n DEF GoodNode, MayBeNode, NoRegion, Region
  <2>2. TakeFrom(n, size) = [list EXCEPT ![n] = [rg EXCEPT !.rg_start = rg.rg_end]]
    BY <1>5 DEF TakeFrom
  <2>3. [rg EXCEPT !.rg_start = rg.rg_end] = NoRegion
    BY <2>1 DEF NoRegion, Region
  <2>4. /\ GoodList([list EXCEPT ![n] = NoRegion])
        /\ EndsLow(list) /\ NoRegion.rg_end <= INT_MAX => EndsLow([list EXCEPT ![n] = NoRegion])
        /\ Bytes([list EXCEPT ![n] = NoRegion]) = Bytes(list) - Length(rg) + Length(NoRegion)
    <3>1. NoRegion \in Regions
      BY <1>1, <2>1
    <3> QED
      BY <2>0, <3>1, ReplaceNode DEF MayBeNode
  <2>5. end - rg.rg_start = 0 /\ Length(rg) = 0 /\ Length(NoRegion) = 0
    BY <1>1, <1>e, <2>1
  <2>6. TakeFrom(n, size) = [list EXCEPT ![n] = NoRegion]
    BY <2>2, <2>3
  <2>7. GoodList(TakeFrom(n, size))
    BY <2>4, <2>6
  <2>8. EndsLow(list) => EndsLow(TakeFrom(n, size))
    <3>1. EndsLow(list) => NoRegion.rg_end <= INT_MAX
      BY <1>2, <2>1
    <3> QED
      BY <3>1, <2>4, <2>6
  <2>9. Bytes(TakeFrom(n, size)) = Bytes(list) - 0 + 0
    BY <2>4, <2>5, <2>6
  <2>10. Bytes(TakeFrom(n, size)) = Bytes(list) - (end - rg.rg_start)
    BY <2>9, <2>5, <1>b
  <2> QED
    BY <2>7, <2>8, <2>10
<1> QED
  BY <1>3, <1>4, <1>5

\* What it means for a step to keep the invariants; the bytes are conserved
\* while the registers the programs use are in the table.
Kept ==
  /\ Inv'
  /\ RegistersInTable /\ Conserved => Conserved'

\* Giving a region to a register: what the register had is leaked.
LEMMA Assigned ==
  ASSUME Typed, NEW rgid \in RgIds, NEW rg \in Regions, Assign(rgid, rg)
  PROVE  /\ symrgtbl' \in [Symbols -> Regions] /\ leaked' \in Int
         /\ \A r \in Symbols : symrgtbl'[r] = symrgtbl[r] \/ symrgtbl'[r] = rg
         /\ GoodTable(symrgtbl) /\ rg.rg_start <= rg.rg_end =>
              /\ GoodTable(symrgtbl')
              /\ BytesOf(symrgtbl) \in Int /\ BytesOf(symrgtbl') \in Int
              /\ rgid \in Symbols =>
                   BytesOf(symrgtbl') + leaked' = BytesOf(symrgtbl) + leaked + Length(rg)
<1>1. symrgtbl \in [Symbols -> Regions] /\ leaked \in Int
  BY DEF Typed
<1>2. Length(rg) \in Int /\ \A r \in Symbols : Length(symrgtbl[r]) \in Int
  BY <1>1, MemAssumption DEF Length, Regions, Addresses
<1>3. CASE rgid \in Symbols
  <2>1. /\ symrgtbl' = [symrgtbl EXCEPT ![rgid] = rg]
        /\ leaked' = leaked + Length(symrgtbl[rgid])
    BY <1>3 DEF Assign, SetEntry, Entry
  <2>2. /\ symrgtbl' \in [Symbols -> Regions] /\ leaked' \in Int
        /\ \A r \in Symbols : symrgtbl'[r] = symrgtbl[r] \/ symrgtbl'[r] = rg
    BY <1>1, <1>2, <1>3, <2>1
  <2>3. ASSUME GoodTable(symrgtbl), rg.rg_start <= rg.rg_end
        PROVE  /\ GoodTable(symrgtbl')
               /\ BytesOf(symrgtbl) \in Int /\ BytesOf(symrgtbl') \in Int
               /\ BytesOf(symrgtbl') + leaked' = BytesOf(symrgtbl) + leaked + Length(rg)
    <3>1. BytesOf(symrgtbl) \in Int
      BY <2>3, Entries
    <3>2. /\ GoodTable(symrgtbl')
          /\ BytesOf(symrgtbl') = BytesOf(symrgtbl) - Length(symrgtbl[rgid]) + Length(rg)
      BY <1>3, <2>1, <2>3, OverwriteEntry
    <3>3. Length(symrgtbl[rgid]) \in Int
      BY <1>2, <1>3
    <3> QED
      BY <1>1, <1>2, <2>1, <3>1, <3>2, <3>3
  <2> QED
    BY <2>2, <2>3
<1>4. CASE rgid \notin Symbols
  <2>1. symrgtbl' = symrgtbl /\ leaked' = leaked + Length(NoRegion)
    BY <1>4 DEF Assign, SetEntry, Entry
  <2>2. Length(NoRegion) = 0
    BY DEF Length, NoRegion, Region
  <2>3. GoodTable(symrgtbl) => BytesOf(symrgtbl) \in Int
    BY Entries
  <2> QED
    BY <1>1, <1>4, <2>1, <2>2, <2>3
<1> QED
  BY <1>3, <1>4

\* The count of the requests for more than INT_MAX bytes.
LEMMA Counted ==
  ASSUME Typed, NEW size \in AllocSizes, NEW rgid \in RgIds, liballoc(size, rgid)
  PROVE  /\ oversized' \in 0..MaxOversized
         /\ size \in 0..ADDR_MAX
         /\ oversized' = 0 => oversized = 0 /\ size <= INT_MAX
<1>1. size \in 0..ADDR_MAX /\ size \in Nat /\ INT_MAX \in Nat /\ MaxOversized \in Nat
      /\ oversized \in 0..MaxOversized
  BY MemAssumption DEF Typed
<1>2. /\ oversized' = (IF size > INT_MAX THEN oversized + 1 ELSE oversized)
      /\ oversized' <= MaxOversized
  BY DEF liballoc
<1> QED
  BY <1>1, <1>2

\* __alloc that finds a free region.
LEMMA AllocFromFreeKeeps ==
  ASSUME Inv, NEW size \in AllocSizes, NEW rgid \in RgIds, liballoc(size, rgid),
         AllocFromFree(size, rgid)
  PROVE  Kept
<1>1. PICK n \in 1..Len(vm_freerg_list) :
         /\ FirstFit(n, size)
         /\ vm_freerg_list' = TakeFrom(n, size)
         /\ Assign(rgid, Region(vm_freerg_list[n].rg_start, EndIn(vm_freerg_list[n], size)))
         /\ misfit' = (misfit \/ EndIn(vm_freerg_list[n], size)
                                    # vm_freerg_list[n].rg_start + size)
  BY Zenon DEF AllocFromFree
<1>2. vm_end' = vm_end /\ given' = given
  BY DEF AllocFromFree
<1> DEFINE node == vm_freerg_list[n]
           start == node.rg_start
           end == EndIn(node, size)
           rg == Region(start, end)
<1>t. Typed /\ Ordered /\ Low
  BY DEF Inv
<1>c. /\ oversized' \in 0..MaxOversized /\ size \in 0..ADDR_MAX /\ size \in Nat
      /\ oversized' = 0 => oversized = 0 /\ size <= INT_MAX
  BY <1>t, Counted
<1>3. /\ GoodList(vm_freerg_list) /\ node \in Regions /\ start \in Nat /\ start <= node.rg_end
      /\ start \in Addresses /\ node.rg_end \in Nat
  BY <1>t, Nodes DEF Typed, Regions
<1>4. end \in Addresses /\ end \in Nat
      /\ (size <= INT_MAX /\ start <= INT_MAX => end = start + size)
  <2>1. /\ end \in Addresses
        /\ (size <= INT_MAX /\ start <= INT_MAX => end = start + size)
    BY <1>3, <1>c, EndInFacts
  <2>2. Addresses \subseteq Nat
    BY MemAssumption DEF Addresses
  <2> QED
    BY <2>1, <2>2
<1>5. Fits(node, size) /\ end <= node.rg_end
  BY <1>1 DEF FirstFit, Fits
<1>6. /\ GoodList(vm_freerg_list')
      /\ EndsLow(vm_freerg_list) => EndsLow(vm_freerg_list')
      /\ Bytes(vm_freerg_list') = Bytes(vm_freerg_list) - (end - start)
  BY <1>1, <1>3, <1>5, <1>c, TakeFromList
<1>7. Assign(rgid, rg) /\ misfit' = (misfit \/ end # start + size)
  BY <1>1
<1>8. rg \in Regions /\ rg.rg_start = start /\ rg.rg_end = end /\ Length(rg) = end - start
  BY <1>3, <1>4 DEF Region, Regions, Length
<1> HIDE DEF rg, end, start, node
<1>9. /\ symrgtbl' \in [Symbols -> Regions] /\ leaked' \in Int
      /\ \A r \in Symbols : symrgtbl'[r] = symrgtbl[r] \/ symrgtbl'[r] = rg
      /\ GoodTable(symrgtbl) /\ rg.rg_start <= rg.rg_end =>
           /\ GoodTable(symrgtbl')
           /\ BytesOf(symrgtbl) \in Int /\ BytesOf(symrgtbl') \in Int
           /\ rgid \in Symbols =>
                BytesOf(symrgtbl') + leaked' = BytesOf(symrgtbl) + leaked + Length(rg)
  BY <1>t, <1>7, <1>8, Assigned
<1>10. Typed'
  <2>1. vm_end' \in Addresses /\ given' \in Nat /\ misfit' \in BOOLEAN
    BY <1>t, <1>2, <1>7 DEF Typed
  <2> QED
    BY <2>1, <1>6, <1>9, <1>c DEF Typed
<1>11. ASSUME ~misfit' PROVE ~misfit /\ GoodTable(symrgtbl) /\ rg.rg_start <= rg.rg_end
                             /\ end = start + size
  <2>1. ~misfit /\ end = start + size
    BY <1>11, <1>7
  <2> QED
    BY <2>1, <1>t, <1>3, <1>c, <1>8 DEF Ordered
<1>12. Ordered'
  BY <1>11, <1>9 DEF Ordered
<1>13. Low'
  <2> SUFFICES ASSUME oversized' = 0
               PROVE  /\ ~misfit' /\ EndsLow(vm_freerg_list')
                      /\ \A r \in Symbols : symrgtbl'[r].rg_end <= INT_MAX
    BY DEF Low
  <2>1. /\ oversized = 0 /\ size <= INT_MAX /\ ~misfit /\ EndsLow(vm_freerg_list)
        /\ \A r \in Symbols : symrgtbl[r].rg_end <= INT_MAX
    BY <1>c, <1>t DEF Low
  <2>2. node.rg_end <= INT_MAX
    BY <2>1 DEF EndsLow, node
  <2>3. end = start + size /\ end <= INT_MAX
    BY <2>1, <2>2, <1>3, <1>4, <1>5, MemAssumption
  <2> QED
    BY <2>1, <2>3, <1>6, <1>7, <1>8, <1>9
<1>14. ASSUME RegistersInTable, Conserved PROVE Conserved'
  <2> SUFFICES ASSUME ~misfit'
               PROVE  Bytes(vm_freerg_list') + BytesOf(symrgtbl') + leaked' = given'
    BY DEF Conserved, Bytes, BytesOf, Lengths, SymbolLengths
  <2> DEFINE free == Bytes(vm_freerg_list)
             free2 == Bytes(vm_freerg_list')
             held == BytesOf(symrgtbl)
             held2 == BytesOf(symrgtbl')
  <2>1. free \in Int /\ leaked \in Int /\ given \in Int
    BY <1>3, <1>t, BytesInt DEF Typed
  <2>2. /\ held \in Int /\ held2 \in Int /\ leaked' \in Int
        /\ held2 + leaked' = held + leaked + (end - start)
    BY <1>8, <1>9, <1>11, <1>14 DEF RegistersInTable
  <2>3. free2 = free - (end - start) /\ free + held + leaked = given /\ given' = given
    BY <1>2, <1>6, <1>11, <1>14 DEF Conserved
  <2>4. end - start \in Int
    BY <1>3, <1>4
  <2> HIDE DEF free, free2, held, held2
  <2>5. free2 + held2 + leaked' = given'
    <3> DEFINE len == end - start
    <3>1. /\ len \in Int /\ held2 + leaked' = held + leaked + len
          /\ free2 = free - len
      BY <2>2, <2>3, <2>4
    <3> HIDE DEF len
    <3>2. (free - len) + held2 + leaked' = (free - len) + (held2 + leaked')
      BY <2>1, <2>2, <3>1
    <3>3. (free - len) + (held + leaked + len) = free + held + leaked
      BY <2>1, <2>2, <3>1
    <3> QED
      BY <3>1, <3>2, <3>3, <2>3
  <2> QED
    BY <2>5 DEF free2, held2
<1> QED
  BY <1>10, <1>12, <1>13, <1>14 DEF Kept, Inv

\* The limit stays an address.
LEMMA LimitTyped ==
  ASSUME Typed, NEW n \in Int, sys_memmap(n)
  PROVE  vm_end' \in Addresses
<1>1. Add(sbrk, n) \in Addresses
  BY AddFacts DEF sbrk
<1> QED
  BY <1>1 DEF sys_memmap, inc_vma_limit, Typed

\* __alloc that extends the area.
LEMMA AllocExtendKeeps ==
  ASSUME Inv, NEW size \in AllocSizes, NEW rgid \in RgIds, liballoc(size, rgid),
         AllocExtend(size, rgid)
  PROVE  Kept
<1> DEFINE rg == Region(sbrk, Add(sbrk, size))
<1>1. /\ Assign(rgid, rg) /\ given' = given + size /\ vm_freerg_list' = vm_freerg_list
      /\ misfit' = misfit /\ sys_memmap(Narrow(size))
  BY DEF AllocExtend
<1>t. Typed /\ Ordered /\ Low
  BY DEF Inv
<1>c. /\ oversized' \in 0..MaxOversized /\ size \in 0..ADDR_MAX /\ size \in Nat
      /\ oversized' = 0 => oversized = 0 /\ size <= INT_MAX
  BY <1>t, Counted
<1>2. vm_end' \in Addresses
  BY <1>t, <1>1, <1>c, NarrowFacts, LimitTyped
<1>3. Add(sbrk, size) = size
  BY <1>c, AddFacts DEF sbrk, Addresses
<1>4. rg \in Regions /\ rg.rg_start <= rg.rg_end /\ Length(rg) = size /\ rg.rg_end = size
  BY <1>3, <1>c, MemAssumption DEF Region, Regions, Length, sbrk, Addresses
<1> HIDE DEF rg
<1>5. /\ symrgtbl' \in [Symbols -> Regions] /\ leaked' \in Int
      /\ \A r \in Symbols : symrgtbl'[r] = symrgtbl[r] \/ symrgtbl'[r] = rg
      /\ GoodTable(symrgtbl) =>
           /\ GoodTable(symrgtbl')
           /\ BytesOf(symrgtbl) \in Int /\ BytesOf(symrgtbl') \in Int
           /\ rgid \in Symbols =>
                BytesOf(symrgtbl') + leaked' = BytesOf(symrgtbl) + leaked + size
  BY <1>t, <1>1, <1>4, Assigned
<1>6. Typed'
  BY <1>t, <1>1, <1>2, <1>5, <1>c DEF Typed
<1>7. Ordered'
  BY <1>t, <1>1, <1>5 DEF Ordered
<1>8. Low'
  BY <1>t, <1>1, <1>4, <1>5, <1>c DEF Low
<1>9. ASSUME RegistersInTable, Conserved PROVE Conserved'
  <2> SUFFICES ASSUME ~misfit'
               PROVE  Bytes(vm_freerg_list') + BytesOf(symrgtbl') + leaked' = given'
    BY DEF Conserved, Bytes, BytesOf, Lengths, SymbolLengths
  <2>1. ~misfit /\ GoodTable(symrgtbl)
    BY <1>1, <1>t DEF Ordered
  <2>2. /\ BytesOf(symrgtbl) \in Int /\ BytesOf(symrgtbl') \in Int /\ leaked' \in Int
        /\ BytesOf(symrgtbl') + leaked' = BytesOf(symrgtbl) + leaked + size
    BY <2>1, <1>5, <1>9 DEF RegistersInTable
  <2>3. Bytes(vm_freerg_list) \in Int /\ leaked \in Int /\ given \in Int
    BY <1>t, BytesInt DEF Typed
  <2>4. Bytes(vm_freerg_list) + BytesOf(symrgtbl) + leaked = given
    BY <2>1, <1>9 DEF Conserved
  <2>5. Bytes(vm_freerg_list) + BytesOf(symrgtbl') + leaked' = given + size
    <3> DEFINE free == Bytes(vm_freerg_list)
               held == BytesOf(symrgtbl)
               held2 == BytesOf(symrgtbl')
    <3>1. /\ free \in Int /\ held \in Int /\ held2 \in Int /\ leaked \in Int
          /\ leaked' \in Int /\ size \in Int
          /\ held2 + leaked' = held + leaked + size /\ free + held + leaked = given
      BY <2>2, <2>3, <2>4, <1>c
    <3> HIDE DEF free, held, held2
    <3>2. free + held2 + leaked' = free + (held2 + leaked')
      BY <3>1
    <3>3. free + (held + leaked + size) = (free + held + leaked) + size
      BY <3>1
    <3> QED
      BY <3>1, <3>2, <3>3 DEF free, held2
  <2> QED
    BY <2>5, <1>1
<1> QED
  BY <1>6, <1>7, <1>8, <1>9 DEF Kept, Inv

\* __free gives the region of a register back, unless it is empty.
LEMMA FreeKeeps ==
  ASSUME Inv, NEW rgid \in RgIds, libfree(rgid)
  PROVE  Kept
<1>1. /\ UNCHANGED <<vm_end, given, leaked, oversized, misfit>>
      /\ Typed /\ Ordered /\ Low /\ GoodList(vm_freerg_list)
  BY DEF libfree, Inv, ghosts, Typed
<1>2. CASE Entry(rgid) = NoRegion
  BY <1>1, <1>2 DEF libfree, Kept, Inv, Typed, Ordered, Low, Conserved
<1>3. CASE Entry(rgid) # NoRegion
  <2> DEFINE rg == symrgtbl[rgid]
  <2>1. /\ rgid \in Symbols /\ Entry(rgid) = rg
        /\ enlist_vm_freerg_list(rg) /\ symrgtbl' = [symrgtbl EXCEPT ![rgid] = NoRegion]
    BY <1>3 DEF libfree, Entry, SetEntry
  <2>2. /\ NoRegion \in Regions /\ NoRegion.rg_start <= NoRegion.rg_end
        /\ NoRegion.rg_end = 0 /\ Length(NoRegion) = 0
    BY MemAssumption DEF NoRegion, Region, Regions, Length, Addresses
  <2>3. /\ rg \in Regions /\ rg.rg_start \in Nat /\ rg.rg_end \in Nat
        /\ Length(rg) = rg.rg_end - rg.rg_start
    BY <1>1, <2>1, MemAssumption DEF Typed, Regions, Addresses, Length
  <2>4. symrgtbl' \in [Symbols -> Regions]
        /\ \A r \in Symbols : symrgtbl'[r] = symrgtbl[r] \/ symrgtbl'[r] = NoRegion
    BY <1>1, <2>1, <2>2 DEF Typed
  <2>5. Bytes(vm_freerg_list) \in Int
    BY <1>1, BytesInt
  <2>6. /\ GoodList(vm_freerg_list')
        /\ EndsLow(vm_freerg_list) /\ rg.rg_end <= INT_MAX => EndsLow(vm_freerg_list')
        /\ rg.rg_start <= rg.rg_end =>
             Bytes(vm_freerg_list') = Bytes(vm_freerg_list) + Length(rg)
    <3>1. CASE rg.rg_start >= rg.rg_end
      <4>1. vm_freerg_list' = vm_freerg_list
        BY <2>1, <3>1 DEF enlist_vm_freerg_list
      <4>2. rg.rg_start <= rg.rg_end => Length(rg) = 0
        BY <2>3, <3>1
      <4> QED
        BY <1>1, <2>5, <4>1, <4>2
    <3>2. CASE ~(rg.rg_start >= rg.rg_end)
      <4>1. vm_freerg_list' = <<rg>> \o vm_freerg_list
        BY <2>1, <3>2 DEF enlist_vm_freerg_list
      <4>2. rg.rg_start < rg.rg_end
        BY <2>3, <3>2
      <4> QED
        BY <1>1, <2>3, <4>1, <4>2, PrependNode
    <3> QED
      BY <3>1, <3>2
  <2> HIDE DEF rg
  <2>7. Typed'
    BY <1>1, <2>4, <2>6 DEF Typed
  <2>8. ASSUME ~misfit PROVE GoodTable(symrgtbl) /\ rg.rg_start <= rg.rg_end
    BY <1>1, <2>1, <2>8 DEF Ordered, GoodTable, rg
  <2>9. ASSUME ~misfit
        PROVE  /\ GoodTable(symrgtbl')
               /\ BytesOf(symrgtbl') = BytesOf(symrgtbl) - Length(rg) + Length(NoRegion)
    BY <2>1, <2>2, <2>8, <2>9, OverwriteEntry DEF rg
  <2>10. Ordered'
    BY <1>1, <2>9 DEF Ordered
  <2>11. Low'
    <3> SUFFICES ASSUME oversized' = 0
                 PROVE  /\ ~misfit' /\ EndsLow(vm_freerg_list')
                        /\ \A r \in Symbols : symrgtbl'[r].rg_end <= INT_MAX
      BY DEF Low
    <3>1. /\ ~misfit /\ EndsLow(vm_freerg_list) /\ rg.rg_end <= INT_MAX
          /\ \A r \in Symbols : symrgtbl[r].rg_end <= INT_MAX
      BY <1>1, <2>1 DEF Low, rg
    <3> QED
      BY <3>1, <1>1, <2>2, <2>4, <2>6, MemAssumption
  <2>12. ASSUME Conserved PROVE Conserved'
    <3> SUFFICES ASSUME ~misfit'
                 PROVE  Bytes(vm_freerg_list') + BytesOf(symrgtbl') + leaked' = given'
      BY DEF Conserved, Bytes, BytesOf, Lengths, SymbolLengths
    <3>0. ~misfit
      BY <1>1
    <3>1. BytesOf(symrgtbl) \in Int /\ leaked \in Int /\ given \in Int
      BY <1>1, <3>0, <2>8, Entries DEF Typed
    <3>2. Bytes(vm_freerg_list) + BytesOf(symrgtbl) + leaked = given
      BY <2>12, <3>0 DEF Conserved
    <3>3. /\ Bytes(vm_freerg_list') = Bytes(vm_freerg_list) + Length(rg)
          /\ BytesOf(symrgtbl') = BytesOf(symrgtbl) - Length(rg) + 0
          /\ Length(rg) \in Int
      BY <3>0, <2>2, <2>3, <2>6, <2>8, <2>9
    <3> QED
      BY <3>1, <3>2, <3>3, <1>1, <2>5
  <2> QED
    BY <2>7, <2>10, <2>11, <2>12 DEF Kept, Inv
<1> QED
  BY <1>2, <1>3

\* Every step keeps the invariants: writes leave the regions alone, and the
\* system call a program makes itself moves only the limit of the area.
LEMMA NextKeeps ==
  ASSUME Inv, [Next]_vars
  PROVE  Kept
<1>1. CASE UNCHANGED vars
  BY <1>1 DEF vars, memory, ghosts, Kept, Inv, Typed, Ordered, Low, Conserved
<1>2. ASSUME NEW size \in AllocSizes, libsyscall(size) PROVE Kept
  <2>1. UNCHANGED <<vm_freerg_list, symrgtbl, given, leaked, oversized, misfit>>
    BY <1>2 DEF libsyscall, ghosts
  <2>2. size \in Int /\ Typed
    BY MemAssumption DEF Inv
  <2>3. vm_end' \in Addresses
    BY <1>2, <2>2, LimitTyped DEF libsyscall
  <2> QED
    BY <2>1, <2>3 DEF Kept, Inv, Typed, Ordered, Low, Conserved
<1>3. ASSUME NEW rgid \in RgIds, NEW size \in AllocSizes, liballoc(size, rgid) PROVE Kept
  BY <1>3, AllocFromFreeKeeps, AllocExtendKeeps DEF liballoc
<1>4. ASSUME NEW rgid \in RgIds, libfree(rgid) PROVE Kept
  BY <1>4, FreeKeeps
<1>5. ASSUME NEW rgid \in RgIds, NEW offset \in Offsets, libwrite(rgid, offset) PROVE Kept
  BY <1>5 DEF libwrite, memory, Kept, Inv, Typed, Ordered, Low, Conserved
<1> QED
  BY <1>1, <1>2, <1>3, <1>4, <1>5 DEF Next

\* The invariant holds always.
LEMMA InvHolds == Spec => []Inv
<1>1. Init => Inv
  BY InitInv
<1>2. Inv /\ [Next]_vars => Inv'
  BY NextKeeps DEF Kept
<1> QED
  BY <1>1, <1>2, PTL DEF Spec

\* The symbol table and the free list are well typed, and the free list is never
\* NULL, for every register, size and outcome of the lookups (libmem.c).
THEOREM VirtMemTypes == Spec => []TypeOK
<1>1. Inv => TypeOK
  BY InvSays
<1> QED
  BY <1>1, InvHolds, PTL

\* get_free_vmrg_area never leaves an empty node in the middle of the list, and
\* its last node is the empty one of init_mm, whatever 64-bit size is asked for and
\* whatever int it becomes (libmem.c).
THEOREM FreeListKeepsShape == Spec => []FreeListShape
<1>1. Inv => FreeListShape
  BY InvSays
<1> QED
  BY <1>1, InvHolds, PTL

\* No sum of get_free_vmrg_area wraps and every region has the size asked for as
\* long as no size above INT_MAX is asked for, for every INT_MAX and ADDR_MAX that
\* leave room for the sum of two ints (libmem.c:490, :503).
THEOREM SmallSizesFit == Spec => []MisfitOnlyOversized
<1>1. Inv => MisfitOnlyOversized
  BY InvSays
<1> QED
  BY <1>1, InvHolds, PTL

\* Splitting, using up and giving back regions loses no byte and duplicates none,
\* and no region ends before it starts, until a region of another size than asked
\* for is handed out, as long as the programs name registers of the table (libmem.c).
THEOREM NoByteLost == RegistersInTable /\ Spec => []BytesConserved
<1> DEFINE J == RegistersInTable /\ Conserved
<1>1. RegistersInTable /\ Init => J
  BY InitInv
<1>2. J /\ Inv /\ [Next]_vars => J'
  BY NextKeeps DEF Kept, RegistersInTable, Symbols
<1>3. J /\ Inv => BytesConserved
  BY ConservedSays
<1> QED
  BY <1>1, <1>2, <1>3, InvHolds, PTL DEF Spec
=============================================================================
