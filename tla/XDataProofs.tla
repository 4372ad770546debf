----------------------------- MODULE XDataProofs -----------------------------
(***************************************************************************)
(* Proofs about the memory that the library hands out and links.           *)
(*                                                                         *)
(* The pool, for every alignment, every width of size_t, all sizes and any *)
(* number of chunks and blocks: it never hands out bytes that a caller     *)
(* holds.  BlocksDisjoint is not inductive: it speaks of the sizes that    *)
(* callers asked for, the pool of the rounded ones.  PoolInv says the same *)
(* of the rounded blocks, and that sizes and fill levels of all chunks are *)
(* multiples of the alignment below SIZE_MAX, without which rounding the   *)
(* size of a new chunk could overflow to an empty chunk.                   *)
(*                                                                         *)
(* The linked list, for any set of nodes, finite or not: ListInv adds to   *)
(* ListLinked that no node is in the list twice, which its pointers alone  *)
(* do not say, and that a running XList_Clear stands at a node of the      *)
(* list.  Every insertion puts a node between two neighbours (Put), every  *)
(* removal takes one out (Taken), and one lemma each shows that the        *)
(* pointers are then those of the longer or shorter chain.                 *)
(*                                                                         *)
(* The string map, for any keys, values, hash function and sizes: MapInv   *)
(* says where a key may be (Once, Reached), and while a table is replaced  *)
(* that the new one has what was moved so far (Copied).  The probes for a  *)
(* key visit every cell once (HashIs), so a search that ends nowhere has   *)
(* seen the whole table, and a table with fewer pairs than cells always    *)
(* has room: that is why moving the pairs cannot fail.                     *)
(***************************************************************************)
EXTENDS XPool, XList, XMap, WellFoundedInduction, FiniteSetTheorems, TLAPS

Aligned(n) == n % Alignment = 0

\* A chunk: its fill level is within it, and both are aligned sizes.
ChunkOK(c) ==
    /\ c \in [size : 0..(SizeLimit - 1), used : Nat]
    /\ c.used <= c.size /\ Aligned(c.size) /\ Aligned(c.used)

ChunksOK(ch) ==
    /\ ch \in Seq([size : 0..(SizeLimit - 1), used : Nat]) /\ Len(ch) > 0
    /\ \A i \in 1..Len(ch) : ChunkOK(ch[i])

\* A block of the chain ch: the size it was rounded to is within the used part of its chunk.
BlockOK(ch, b) ==
    /\ b \in [c : 1..Len(ch), off : Nat, len : 1..(SizeLimit - 1)]
    /\ Aligned(b.off) /\ XPool_AlignSize(b.len) # 0 /\ End(b) <= ch[b.c].used

Apart(a, b) == a.c = b.c => End(a) <= b.off \/ End(b) <= a.off

\* The inductive invariant, as a predicate of a chain and a set of blocks, so that it
\* can be said of the state between the two halves of XPool_Realloc.
PoolOK(ch, bl) ==
    /\ ChunksOK(ch)
    /\ \A b \in bl : BlockOK(ch, b)
    /\ \A a, b \in bl : a # b => Apart(a, b)

PoolInv == PoolOK(chunks, blocks)

-----------------------------------------------------------------------------
(* Arithmetic                                                              *)

\* A set of natural numbers has a least element.
LEMMA Least ==
    ASSUME NEW T, T \subseteq Nat, T # {}
    PROVE  \E x \in T : \A y \in T : x <= y
<1> DEFINE L == OpToRel(<, Nat)
<1>1. IsWellFoundedOn(L, Nat) BY NatLessThanWellFounded
<1>2. \A x, y \in Nat : y < x => <<y, x>> \in L BY DEF OpToRel
<1> HIDE DEF L
<1>3. PICK x \in T : \A y \in T : ~(<<y, x>> \in L) BY <1>1, WFMin
<1>4. ASSUME NEW y \in T PROVE x <= y
  <2>1. x \in Nat /\ y \in Nat OBVIOUS
  <2>2. ~(y < x) BY <1>2, <1>3, <2>1
  <2> QED BY <2>1, <2>2
<1> QED BY <1>4

\* Division with remainder by the alignment.
LEMMA DivMod ==
    ASSUME NEW n \in Nat, NEW a \in Nat \ {0}
    PROVE  /\ n % a \in 0..(a - 1) /\ n \div a \in Nat
           /\ n = ((n \div a) * a) + (n % a)
BY SMT

\* A multiple leaves no remainder.
LEMMA MulMod ==
    ASSUME NEW k \in Nat, NEW a \in Nat \ {0}
    PROVE  (k * a) % a = 0
BY SMT

\* Sums of aligned sizes are aligned.
LEMMA AlignedSum ==
    ASSUME NEW m \in Nat, NEW n \in Nat, Aligned(m), Aligned(n)
    PROVE  Aligned(m + n)
<1> DEFINE j == m \div Alignment
           k == n \div Alignment
<1>1. Alignment \in Nat \ {0} BY PoolAssumption
<1>2. j \in Nat /\ m = j * Alignment BY <1>1, DivMod DEF Aligned
<1>3. k \in Nat /\ n = k * Alignment BY <1>1, DivMod DEF Aligned
<1> HIDE DEF j, k
<1>4. j + k \in Nat /\ m + n = (j + k) * Alignment BY <1>1, <1>2, <1>3, SMT
<1>5. ((j + k) * Alignment) % Alignment = 0 BY <1>1, <1>4, MulMod
<1> QED BY <1>4, <1>5 DEF Aligned

\* So are their differences.
LEMMA AlignedDiff ==
    ASSUME NEW m \in Nat, NEW n \in Nat, Aligned(m), Aligned(n), n <= m
    PROVE  Aligned(m - n)
<1> DEFINE j == m \div Alignment
           k == n \div Alignment
<1>1. Alignment \in Nat \ {0} BY PoolAssumption
<1>2. j \in Nat /\ m = j * Alignment BY <1>1, DivMod DEF Aligned
<1>3. k \in Nat /\ n = k * Alignment BY <1>1, DivMod DEF Aligned
<1> HIDE DEF j, k
<1>4. m - n = (j - k) * Alignment BY <1>1, <1>2, <1>3, SMT
<1>5. j - k \in Nat BY <1>1, <1>2, <1>3, SMT
<1>6. ((j - k) * Alignment) % Alignment = 0 BY <1>1, <1>5, MulMod
<1> QED BY <1>4, <1>6 DEF Aligned

\* Zero is aligned.
LEMMA AlignedZero == Aligned(0)
<1>1. Alignment \in Nat \ {0} BY PoolAssumption
<1> QED BY <1>1, SMT DEF Aligned

\* XPool_AlignSize returns an aligned size that holds n bytes, or 0.
LEMMA AlignSizeType ==
    ASSUME NEW n \in 0..(SizeLimit - 1)
    PROVE  /\ XPool_AlignSize(n) \in 0..(SizeLimit - 1)
           /\ Aligned(XPool_AlignSize(n))
           /\ XPool_AlignSize(n) # 0 => n <= XPool_AlignSize(n)
<1> DEFINE r == (n + (Alignment - 1)) % SizeLimit
           a == r - (r % Alignment)
<1>1. /\ Alignment \in Nat \ {0} /\ SizeLimit \in Nat \ {0} /\ n \in Nat
      /\ n + (Alignment - 1) \in Nat
  BY PoolAssumption, SMT
<1>2. r \in 0..(SizeLimit - 1) /\ r \in Nat BY <1>1, DivMod, SMT
<1> HIDE DEF r
<1>3. r % Alignment \in Nat /\ r = (r \div Alignment) * Alignment + (r % Alignment) /\ r \div Alignment \in Nat
  BY <1>1, <1>2, DivMod, SMT
<1>4. a = (r \div Alignment) * Alignment /\ a \in Nat /\ a <= r
  BY <1>1, <1>2, <1>3, SMT
<1>5. a % Alignment = 0 BY <1>1, <1>3, <1>4, MulMod
<1> HIDE DEF a
<1>6. XPool_AlignSize(n) = IF a < n THEN 0 ELSE a BY DEF XPool_AlignSize, a, r
<1>7. Aligned(0) /\ Aligned(a) BY <1>5, AlignedZero DEF Aligned
<1> QED BY <1>1, <1>2, <1>4, <1>6, <1>7

\* An aligned size is not rounded any further, and its rounding cannot overflow.
LEMMA AlignSizeFix ==
    ASSUME NEW m \in 0..(SizeLimit - 1), Aligned(m)
    PROVE  XPool_AlignSize(m) = m
<1> DEFINE j == m \div Alignment
           k == SizeLimit \div Alignment
           r == m + (Alignment - 1)
           q == r \div Alignment
<1>1. Alignment \in Nat \ {0} /\ SizeLimit \in Nat \ {0} /\ m \in Nat /\ SizeLimit % Alignment = 0 /\ m < SizeLimit
  BY PoolAssumption, SMT
<1>2. j \in Nat /\ m = j * Alignment BY <1>1, DivMod DEF Aligned
<1>3. k \in Nat /\ SizeLimit = k * Alignment
  <2>1. SizeLimit \in Nat BY <1>1
  <2>2. SizeLimit = (SizeLimit \div Alignment) * Alignment + (SizeLimit % Alignment) /\ SizeLimit \div Alignment \in Nat
    BY <1>1, <2>1, DivMod
  <2> QED BY <1>1, <2>1, <2>2, SMT
<1> HIDE DEF j, k
<1>4. j < k BY <1>1, <1>2, <1>3, SMT
<1>5. (j + 1) * Alignment <= k * Alignment BY <1>1, <1>2, <1>3, <1>4, SMT
<1>6. m + Alignment <= SizeLimit BY <1>1, <1>2, <1>3, <1>5, SMT
<1>7. r \in Nat /\ r < SizeLimit BY <1>1, <1>6, SMT
<1>8. r % SizeLimit = r BY <1>1, <1>7, SMT
<1>9. q \in Nat /\ r % Alignment \in 0..(Alignment - 1) /\ r = q * Alignment + (r % Alignment) BY <1>1, <1>7, DivMod
<1> DEFINE rem == r % Alignment
<1>10. rem \in 0..(Alignment - 1) /\ q \in Nat /\ j * Alignment + (Alignment - 1) = q * Alignment + rem BY <1>2, <1>9
<1> HIDE DEF q, rem
<1>11. (q - j) * Alignment = (Alignment - 1) - rem BY <1>1, <1>2, <1>10, SMT
<1>12. q - j < 1 /\ q - j > -1 BY <1>1, <1>2, <1>10, <1>11, SMT
<1>13. q = j BY <1>2, <1>10, <1>12, SMT
<1>14. rem = Alignment - 1 BY <1>1, <1>2, <1>10, <1>13, SMT
<1>15. r - rem = m BY <1>1, <1>14, SMT
<1>16. XPool_AlignSize(m) = IF r - rem < m THEN 0 ELSE r - rem BY <1>8 DEF XPool_AlignSize, rem
<1> QED BY <1>1, <1>15, <1>16

-----------------------------------------------------------------------------
(* The operations on chains                                                *)

\* What PoolOK says of a block, in terms of numbers.
LEMMA BlockFacts ==
    ASSUME NEW ch, NEW b, ChunksOK(ch), BlockOK(ch, b)
    PROVE  /\ b.c \in 1..Len(ch) /\ b.off \in Nat /\ b.len \in 1..(SizeLimit - 1)
           /\ XPool_AlignSize(b.len) \in Nat /\ XPool_AlignSize(b.len) > 0
           /\ b.len <= XPool_AlignSize(b.len) /\ Aligned(XPool_AlignSize(b.len))
           /\ End(b) \in Nat /\ b.off < End(b) /\ End(b) <= ch[b.c].used
           /\ End(b) = b.off + XPool_AlignSize(b.len)
           /\ ch[b.c].used \in Nat /\ ch[b.c].size \in Nat /\ ch[b.c].used <= ch[b.c].size
           /\ ChunkOK(ch[b.c])
<1>1. b.c \in 1..Len(ch) /\ b.off \in Nat /\ b.len \in 1..(SizeLimit - 1) /\ XPool_AlignSize(b.len) # 0 /\ End(b) <= ch[b.c].used
  BY DEF BlockOK
<1>2. SizeLimit \in Nat /\ b.len \in 0..(SizeLimit - 1) BY <1>1, PoolAssumption
<1>3. /\ XPool_AlignSize(b.len) \in 0..(SizeLimit - 1) /\ Aligned(XPool_AlignSize(b.len))
      /\ b.len <= XPool_AlignSize(b.len)
  BY <1>1, <1>2, AlignSizeType
<1>4. ChunkOK(ch[b.c]) BY <1>1 DEF ChunksOK
<1>5. ch[b.c].used \in Nat /\ ch[b.c].size \in Nat /\ ch[b.c].used <= ch[b.c].size
  BY <1>2, <1>4 DEF ChunkOK
<1>6. End(b) = b.off + XPool_AlignSize(b.len) BY DEF End
<1> QED BY <1>1, <1>2, <1>3, <1>4, <1>5, <1>6

\* Changing the fill level of one chunk: enough to look at that chunk and its blocks.
LEMMA SetUsed ==
    ASSUME NEW ch, NEW bl, ChunksOK(ch),
           NEW c \in 1..Len(ch), NEW u \in Nat, u <= ch[c].size, Aligned(u),
           \A b \in bl : b.c # c => BlockOK(ch, b),
           \A b \in bl : b.c = c =>
               /\ b \in [c : 1..Len(ch), off : Nat, len : 1..(SizeLimit - 1)]
               /\ Aligned(b.off) /\ XPool_AlignSize(b.len) # 0 /\ End(b) <= u,
           \A a, b \in bl : a # b => Apart(a, b)
    PROVE  PoolOK([ch EXCEPT ![c].used = u], bl)
<1> DEFINE new == [ch EXCEPT ![c].used = u]
           R == [size : 0..(SizeLimit - 1), used : Nat]
<1>1. ch \in Seq(R) /\ \A i \in 1..Len(ch) : ch[i] \in R BY DEF ChunksOK, ChunkOK
<1>2. new[c] = [ch[c] EXCEPT !.used = u] /\ new[c] \in R /\ new[c].used = u /\ new[c].size = ch[c].size
  BY <1>1, SMTT(30)
<1>3. \A i \in 1..Len(ch) : i # c => new[i] = ch[i]
  BY <1>1
<1>4. new \in Seq(R) /\ Len(new) = Len(ch)
  BY <1>1, <1>2
<1> HIDE DEF new
<1>5. ChunkOK(new[c])
  BY <1>2 DEF ChunkOK, ChunksOK
<1>6. ChunksOK(new)
  BY <1>3, <1>4, <1>5 DEF ChunksOK
<1>7. \A b \in bl : BlockOK(new, b)
  BY <1>2, <1>3, <1>4 DEF BlockOK
<1> QED BY <1>6, <1>7 DEF PoolOK, new

\* XPool_Free of a block that is held: the other blocks keep their bytes.
LEMMA FreeKeeps ==
    ASSUME NEW ch, NEW bl, PoolOK(ch, bl), NEW b \in bl
    PROVE  PoolOK(XPool_Free(ch, b), bl \ {b})
<1> DEFINE n == XPool_AlignSize(b.len)
           rest == bl \ {b}
<1>1. ChunksOK(ch) /\ BlockOK(ch, b) BY DEF PoolOK
<1>2. /\ b.c \in 1..Len(ch) /\ b.off \in Nat /\ n \in Nat /\ n > 0 /\ End(b) = b.off + n
      /\ End(b) <= ch[b.c].used /\ ch[b.c].used \in Nat /\ ch[b.c].used <= ch[b.c].size /\ ch[b.c].size \in Nat
      /\ ChunkOK(ch[b.c]) /\ Aligned(n) /\ Aligned(b.off)
  BY <1>1, BlockFacts DEF BlockOK
<1>3. \A o \in rest : o \in bl /\ BlockOK(ch, o) /\ Apart(o, b)
  BY DEF PoolOK
<1>4. \A a, o \in rest : a # o => Apart(a, o)
  BY DEF PoolOK
<1>5. \A o \in rest : o.off \in Nat /\ End(o) \in Nat /\ o.off < End(o) /\ End(o) <= ch[o.c].used
  BY <1>1, <1>3, BlockFacts
<1>6. CASE b.off = 0 /\ n >= ch[b.c].used
  <2>1. \A o \in rest : o.c # b.c
    BY <1>2, <1>3, <1>5, <1>6 DEF Apart
  <2>2. PoolOK([ch EXCEPT ![b.c].used = 0], rest)
    <3>1. 0 \in Nat /\ 0 <= ch[b.c].size /\ Aligned(0) BY <1>2, AlignedZero
    <3>2. \A o \in rest : o.c = b.c =>
               /\ o \in [c : 1..Len(ch), off : Nat, len : 1..(SizeLimit - 1)]
               /\ Aligned(o.off) /\ XPool_AlignSize(o.len) # 0 /\ End(o) <= 0
      BY <2>1
    <3> QED BY <1>1, <1>2, <1>3, <1>4, <3>1, <3>2, SetUsed
  <2>3. XPool_Free(ch, b) = [ch EXCEPT ![b.c].used = 0]
    BY <1>6 DEF XPool_Free
  <2> QED BY <2>2, <2>3
<1>7. CASE ~(b.off = 0 /\ n >= ch[b.c].used) /\ ch[b.c].used = b.off + n
  <2>1. \A o \in rest : o.c = b.c => End(o) <= b.off
    BY <1>2, <1>3, <1>5, <1>7 DEF Apart
  <2>2. PoolOK([ch EXCEPT ![b.c].used = b.off], rest)
    <3>1. \A o \in rest : o.c = b.c =>
               /\ o \in [c : 1..Len(ch), off : Nat, len : 1..(SizeLimit - 1)]
               /\ Aligned(o.off) /\ XPool_AlignSize(o.len) # 0 /\ End(o) <= b.off
      BY <1>3, <2>1 DEF BlockOK
    <3>2. b.off <= ch[b.c].size BY <1>2
    <3> QED BY <1>1, <1>2, <1>3, <1>4, <3>1, <3>2, SetUsed
  <2>3. XPool_Free(ch, b) = [ch EXCEPT ![b.c].used = @ - n]
    BY <1>7 DEF XPool_Free
  <2>4. ch[b.c].used - n = b.off BY <1>2, <1>7
  <2>5. [ch EXCEPT ![b.c].used = @ - n] = [ch EXCEPT ![b.c].used = b.off]
    BY <2>4
  <2> QED BY <2>2, <2>3, <2>5
<1>8. CASE ~(b.off = 0 /\ n >= ch[b.c].used) /\ ch[b.c].used # b.off + n
  <2>1. XPool_Free(ch, b) = ch BY <1>8 DEF XPool_Free
  <2>2. PoolOK(ch, rest) BY <1>1, <1>3, <1>4 DEF PoolOK
  <2> QED BY <2>1, <2>2
<1> QED BY <1>6, <1>7, <1>8

\* XPool_FindSpace returns a chunk with space if there is one; otherwise a chunk is appended.
LEMMA PlaceFound ==
    ASSUME NEW ch \in Seq([size : 0..(SizeLimit - 1), used : Nat]), NEW n
    PROVE  \/ Place(ch, n) \in 1..Len(ch) /\ XPool_HasSpace(ch[Place(ch, n)], n)
           \/ Place(ch, n) = Len(ch) + 1
<1> DEFINE W == WithSpace(ch, n)
<1>1. Len(ch) \in Nat /\ W \subseteq 1..Len(ch) /\ \A i \in W : XPool_HasSpace(ch[i], n)
  BY DEF WithSpace
<1>2. CASE Len(ch) \in W
  BY <1>1, <1>2 DEF Place
<1>3. CASE Len(ch) \notin W /\ W # {}
  <2>1. W \subseteq Nat /\ W # {} BY <1>1, <1>3
  <2> HIDE DEF W
  <2>2. PICK x \in W : \A y \in W : x <= y BY <2>1, Least
  <2> USE DEF W
  <2>3. Place(ch, n) = CHOOSE i \in W : \A j \in W : i <= j
    BY <1>3 DEF Place
  <2>4. Place(ch, n) \in W
    BY <2>2, <2>3, Zenon
  <2> QED BY <1>1, <2>4
<1>4. CASE W = {}
  BY <1>1, <1>4 DEF Place
<1> QED BY <1>2, <1>3, <1>4

\* The chain that XPool_Alloc cuts from: it has the place with enough space, and the blocks
\* that are held stay where they are.
LEMMA GrownKeeps ==
    ASSUME NEW ch, NEW bl, PoolOK(ch, bl),
           NEW n \in 1..(SizeLimit - 1), Aligned(n)
    PROVE  /\ PoolOK(Grown(ch, n), bl)
           /\ Place(ch, n) \in 1..Len(Grown(ch, n))
           /\ n <= Grown(ch, n)[Place(ch, n)].size - Grown(ch, n)[Place(ch, n)].used
<1> DEFINE R == [size : 0..(SizeLimit - 1), used : Nat]
           p == Place(ch, n)
<1>1. ch \in Seq(R) /\ Len(ch) \in Nat /\ Len(ch) > 0 /\ \A i \in 1..Len(ch) : ChunkOK(ch[i])
  BY DEF PoolOK, ChunksOK
<1>2. CASE p \in 1..Len(ch) /\ XPool_HasSpace(ch[p], n)
  BY <1>1, <1>2 DEF Grown, XPool_HasSpace
<1>3. CASE p = Len(ch) + 1
  <2> DEFINE m == IF n >= ch[Len(ch)].size THEN n ELSE ch[Len(ch)].size
             c == Chunk(m)
             new == Append(ch, c)
  <2>1. ChunkOK(ch[Len(ch)]) BY <1>1
  <2>2. SizeLimit \in Nat BY PoolAssumption
  <2>3. m \in 0..(SizeLimit - 1) /\ Aligned(m) /\ m >= n
    BY <2>1, <2>2 DEF ChunkOK
  <2> HIDE DEF m
  <2>4. XPool_AlignSize(m) = m BY <2>3, AlignSizeFix
  <2>5. c = [size |-> m, used |-> 0] BY <2>4 DEF Chunk
  <2>6. ChunkOK(c) /\ c \in R /\ c.size = m /\ c.used = 0
    BY <2>2, <2>3, <2>5, AlignedZero DEF ChunkOK
  <2> HIDE DEF c
  <2>7. new \in Seq(R) /\ Len(new) = Len(ch) + 1 /\ new[p] = c /\ \A i \in 1..Len(ch) : new[i] = ch[i]
    BY <1>1, <1>3, <2>6
  <2>8. Grown(ch, n) = new
    BY <1>1, <1>3 DEF Grown, c, m
  <2> HIDE DEF new
  <2>9. ChunksOK(new)
    <3>1. ASSUME NEW i \in 1..Len(new) PROVE ChunkOK(new[i])
      <4>1. i \in 1..Len(ch) \/ i = p BY <1>1, <1>3, <2>7
      <4> QED BY <1>1, <2>6, <2>7, <4>1
    <3> QED BY <1>1, <2>7, <3>1 DEF ChunksOK
  <2>10. ASSUME NEW b \in bl PROVE BlockOK(new, b)
    <3>1. BlockOK(ch, b) BY DEF PoolOK
    <3>2. b.c \in 1..Len(ch) /\ new[b.c] = ch[b.c] BY <2>7, <3>1 DEF BlockOK
    <3>3. 1..Len(ch) \subseteq 1..Len(new) BY <1>1, <2>7
    <3> QED BY <3>1, <3>2, <3>3 DEF BlockOK
  <2>11. PoolOK(new, bl) BY <2>9, <2>10 DEF PoolOK
  <2>12. p \in 1..Len(new) /\ n <= new[p].size - new[p].used
    BY <1>1, <1>3, <2>2, <2>3, <2>6, <2>7
  <2> QED BY <2>8, <2>11, <2>12
<1> QED BY <1>1, <1>2, <1>3, PlaceFound

\* XPool_Alloc hands out bytes that nobody holds.
LEMMA AllocKeeps ==
    ASSUME NEW ch, NEW bl, PoolOK(ch, bl),
           NEW len \in 0..(SizeLimit - 1), len # 0, XPool_AlignSize(len) # 0
    PROVE  /\ PoolOK(XPool_Alloc(ch, len), bl \cup {Allocated(ch, len)})
           /\ Allocated(ch, len) \notin bl
<1> DEFINE n == XPool_AlignSize(len)
           g == Grown(ch, n)
           p == Place(ch, n)
           new == Allocated(ch, len)
           u == g[p].used
<1>1. SizeLimit \in Nat /\ n \in 1..(SizeLimit - 1) /\ Aligned(n)
  BY AlignSizeType, PoolAssumption
<1> HIDE DEF n
<1>2. PoolOK(g, bl) /\ p \in 1..Len(g) /\ n <= g[p].size - u
  BY <1>1, GrownKeeps
<1>3. XPool_Alloc(ch, len) = [g EXCEPT ![p].used = @ + n]
  BY DEF XPool_Alloc, n
<1>4. new = [c |-> p, off |-> u, len |-> len] BY DEF Allocated, Block, n
<1> HIDE DEF g, p, new
<1>5. ChunksOK(g) /\ ChunkOK(g[p]) BY <1>2 DEF PoolOK, ChunksOK
<1>6. u \in Nat /\ g[p].size \in Nat /\ u <= g[p].size /\ Aligned(u) BY <1>1, <1>5 DEF ChunkOK
<1> HIDE DEF u
<1>7. u + n \in Nat /\ u + n <= g[p].size /\ Aligned(u + n)
  <2>1. n \in Nat BY <1>1
  <2>2. Aligned(u + n) BY <1>1, <1>6, <2>1, AlignedSum
  <2> QED BY <1>2, <1>6, <2>1, <2>2
<1>8. /\ new \in [c : 1..Len(g), off : Nat, len : 1..(SizeLimit - 1)]
      /\ new.c = p /\ new.off = u /\ new.len = len /\ End(new) = u + n
  BY <1>1, <1>2, <1>4, <1>6 DEF End, n
<1>9. \A b \in bl : BlockOK(g, b) BY <1>2 DEF PoolOK
<1>10. \A b \in bl : b.c = p => End(b) <= u /\ b.off < End(b) /\ End(b) \in Nat /\ b.off \in Nat
  <2>1. \A b \in bl : End(b) <= g[b.c].used /\ b.off < End(b) /\ End(b) \in Nat /\ b.off \in Nat
    BY <1>5, <1>9, BlockFacts
  <2> QED BY <2>1 DEF u
<1>11. new \notin bl
  BY <1>6, <1>8, <1>10
<1>12. ASSUME NEW a \in bl \cup {new}, NEW b \in bl \cup {new}, a # b PROVE Apart(a, b)
  <2>1. CASE a \in bl /\ b \in bl BY <1>2, <1>12, <2>1 DEF PoolOK
  <2>2. CASE a = new /\ b \in bl BY <1>8, <1>10, <2>2 DEF Apart
  <2>3. CASE a \in bl /\ b = new BY <1>8, <1>10, <2>3 DEF Apart
  <2> QED BY <1>12, <2>1, <2>2, <2>3
<1>13. \A b \in bl \cup {new} : b.c # p => BlockOK(g, b) BY <1>8, <1>9
<1>14. \A b \in bl \cup {new} : b.c = p =>
               /\ b \in [c : 1..Len(g), off : Nat, len : 1..(SizeLimit - 1)]
               /\ Aligned(b.off) /\ XPool_AlignSize(b.len) # 0 /\ End(b) <= u + n
  <2>1. ASSUME NEW b \in bl, b.c = p
        PROVE  /\ b \in [c : 1..Len(g), off : Nat, len : 1..(SizeLimit - 1)]
               /\ Aligned(b.off) /\ XPool_AlignSize(b.len) # 0 /\ End(b) <= u + n
    BY <1>1, <1>6, <1>9, <1>10, <2>1 DEF BlockOK
  <2>2. Aligned(new.off) /\ XPool_AlignSize(new.len) # 0 /\ End(new) <= u + n
    BY <1>6, <1>7, <1>8
  <2> QED BY <1>8, <2>1, <2>2
<1>15. PoolOK([g EXCEPT ![p].used = u + n], bl \cup {new})
  BY <1>2, <1>5, <1>7, <1>12, <1>13, <1>14, SetUsed
<1>16. [g EXCEPT ![p].used = @ + n] = [g EXCEPT ![p].used = u + n]
  BY DEF u
<1> QED BY <1>3, <1>11, <1>15, <1>16 DEF new

\* XPool_Realloc in place: the last block of its chunk grows into free bytes or shrinks.
LEMMA ResizeKeeps ==
    ASSUME NEW ch, NEW bl, PoolOK(ch, bl), NEW b \in bl,
           NEW len \in 0..(SizeLimit - 1), len # 0, XPool_AlignSize(len) # 0, InPlace(ch, b, len)
    PROVE  PoolOK([ch EXCEPT ![b.c].used = @ - XPool_AlignSize(b.len) + XPool_AlignSize(len)],
                  (bl \ {b}) \cup {Block(b.c, b.off, len)})
<1> DEFINE n == XPool_AlignSize(len)
           old == XPool_AlignSize(b.len)
           new == Block(b.c, b.off, len)
           rest == bl \ {b}
           u == b.off + n
<1>1. SizeLimit \in Nat /\ n \in 1..(SizeLimit - 1) /\ Aligned(n)
  BY AlignSizeType, PoolAssumption
<1>2. ChunksOK(ch) /\ BlockOK(ch, b) BY DEF PoolOK
<1>3. /\ b.c \in 1..Len(ch) /\ b.off \in Nat /\ old \in Nat /\ old > 0 /\ End(b) = b.off + old
      /\ ch[b.c].used \in Nat /\ ch[b.c].used <= ch[b.c].size /\ ch[b.c].size \in Nat /\ Aligned(b.off)
  BY <1>2, BlockFacts DEF BlockOK
<1>4. b.off + old = ch[b.c].used /\ (n <= old \/ n - old <= ch[b.c].size - ch[b.c].used)
  BY DEF InPlace
<1>5. new.c = b.c /\ new.off = b.off /\ new.len = len /\ End(new) = u
      /\ new \in [c : 1..Len(ch), off : Nat, len : 1..(SizeLimit - 1)]
  BY <1>1, <1>3 DEF Block, End
<1> HIDE DEF n, old, new
<1>6. ch[b.c].used - old + n = u /\ u \in Nat /\ u <= ch[b.c].size /\ Aligned(u)
  <2>1. n \in Nat BY <1>1
  <2>2. Aligned(b.off + n) BY <1>1, <1>3, <2>1, AlignedSum
  <2>3. ch[b.c].used - old + n = u /\ u \in Nat BY <1>3, <1>4, <2>1, SMTT(30)
  <2>4. u <= ch[b.c].size BY <1>3, <1>4, <2>1
  <2> QED BY <2>2, <2>3, <2>4
<1>7. \A o \in rest : o \in bl /\ BlockOK(ch, o) /\ Apart(o, b) BY DEF PoolOK
<1>8. \A o \in rest : o.c = b.c => End(o) <= b.off
  <2>1. \A o \in rest : o.off \in Nat /\ End(o) \in Nat /\ o.off < End(o) /\ End(o) <= ch[o.c].used
    BY <1>2, <1>7, BlockFacts
  <2> QED BY <1>3, <1>4, <1>7, <2>1 DEF Apart
<1>9. \A o \in rest : o.off \in Nat /\ End(o) \in Nat BY <1>2, <1>7, BlockFacts
<1>10. ASSUME NEW x \in rest \cup {new}, NEW y \in rest \cup {new}, x # y PROVE Apart(x, y)
  <2>1. CASE x \in rest /\ y \in rest BY <1>10, <2>1 DEF PoolOK
  <2>2. CASE x = new /\ y \in rest BY <1>5, <1>8, <2>2 DEF Apart
  <2>3. CASE x \in rest /\ y = new BY <1>5, <1>8, <2>3 DEF Apart
  <2> QED BY <1>10, <2>1, <2>2, <2>3
<1>11. \A o \in rest \cup {new} : o.c # b.c => BlockOK(ch, o) BY <1>5, <1>7
<1>12. \A o \in rest \cup {new} : o.c = b.c =>
               /\ o \in [c : 1..Len(ch), off : Nat, len : 1..(SizeLimit - 1)]
               /\ Aligned(o.off) /\ XPool_AlignSize(o.len) # 0 /\ End(o) <= u
  <2>1. ASSUME NEW o \in rest, o.c = b.c
        PROVE  /\ o \in [c : 1..Len(ch), off : Nat, len : 1..(SizeLimit - 1)]
               /\ Aligned(o.off) /\ XPool_AlignSize(o.len) # 0 /\ End(o) <= u
    BY <1>1, <1>3, <1>7, <1>8, <1>9, <2>1 DEF BlockOK
  <2>2. Aligned(new.off) /\ XPool_AlignSize(new.len) # 0 /\ End(new) <= u
    BY <1>3, <1>5, <1>6
  <2> QED BY <1>5, <2>1, <2>2
<1>13. PoolOK([ch EXCEPT ![b.c].used = u], rest \cup {new})
  BY <1>2, <1>3, <1>6, <1>10, <1>11, <1>12, SetUsed
<1>14. [ch EXCEPT ![b.c].used = @ - old + n] = [ch EXCEPT ![b.c].used = u]
  BY <1>6
<1> QED BY <1>13, <1>14 DEF n, old, new

-----------------------------------------------------------------------------
(* The specification                                                       *)

\* A chunk without blocks.
LEMMA EmptyChunk ==
    ASSUME NEW n \in 0..(SizeLimit - 1)
    PROVE  PoolOK(<<[size |-> XPool_AlignSize(n), used |-> 0]>>, {})
<1> DEFINE c == [size |-> XPool_AlignSize(n), used |-> 0]
<1>1. ChunkOK(c)
  <2>1. XPool_AlignSize(n) \in 0..(SizeLimit - 1) /\ Aligned(XPool_AlignSize(n)) BY AlignSizeType
  <2>2. SizeLimit \in Nat /\ Aligned(0) BY PoolAssumption, AlignedZero
  <2> QED BY <2>1, <2>2 DEF ChunkOK
<1>2. c \in [size : 0..(SizeLimit - 1), used : Nat] BY <1>1 DEF ChunkOK
<1> HIDE DEF c
<1>3. <<c>> \in Seq([size : 0..(SizeLimit - 1), used : Nat]) /\ Len(<<c>>) = 1 /\ <<c>>[1] = c BY <1>2
<1>4. ChunksOK(<<c>>) BY <1>1, <1>3 DEF ChunksOK
<1> QED BY <1>4 DEF PoolOK, c

\* XPool_Reset empties every chunk.
LEMMA ResetKeeps ==
    ASSUME NEW ch, ChunksOK(ch)
    PROVE  PoolOK([i \in 1..Len(ch) |-> [ch[i] EXCEPT !.used = 0]], {})
<1> DEFINE new == [i \in 1..Len(ch) |-> [ch[i] EXCEPT !.used = 0]]
           R == [size : 0..(SizeLimit - 1), used : Nat]
<1>1. ch \in Seq(R) /\ Len(ch) \in Nat /\ \A i \in 1..Len(ch) : ch[i] \in R BY DEF ChunksOK, ChunkOK
<1>2. \A i \in 1..Len(ch) : new[i] \in R /\ new[i].used = 0 /\ new[i].size = ch[i].size BY <1>1
<1>3. new \in Seq(R) /\ Len(new) = Len(ch) BY <1>1, <1>2
<1> HIDE DEF new
<1>4. ASSUME NEW i \in 1..Len(ch) PROVE ChunkOK(new[i])
  <2>1. ChunkOK(ch[i]) BY DEF ChunksOK
  <2>2. ch[i].size \in Nat BY <2>1, PoolAssumption DEF ChunkOK
  <2> QED BY <1>2, <2>1, <2>2, AlignedZero DEF ChunkOK
<1>5. ChunksOK(new) BY <1>3, <1>4 DEF ChunksOK
<1> QED BY <1>5 DEF PoolOK, new

\* The invariant implies the property that the run checks.
LEMMA InvImplies == PoolInv => BlocksDisjoint
<1> SUFFICES ASSUME PoolInv PROVE BlocksDisjoint OBVIOUS
<1>1. ChunksOK(chunks) /\ \A b \in blocks : BlockOK(chunks, b) BY DEF PoolInv, PoolOK
<1>2. \A i \in 1..Len(chunks) : chunks[i].used <= chunks[i].size BY <1>1 DEF ChunksOK, ChunkOK
<1>3. ASSUME NEW b \in blocks
      PROVE  /\ b.c \in 1..Len(chunks) /\ b.off % Alignment = 0 /\ b.off \in Nat /\ End(b) \in Nat
             /\ b.off + b.len <= End(b) /\ b.off + b.len <= chunks[b.c].used /\ b.off + b.len \in Nat
  <2>1. BlockOK(chunks, b) BY <1>1
  <2>2. /\ b.c \in 1..Len(chunks) /\ b.off \in Nat /\ b.len \in 1..(SizeLimit - 1)
        /\ XPool_AlignSize(b.len) \in Nat /\ b.len <= XPool_AlignSize(b.len)
        /\ End(b) = b.off + XPool_AlignSize(b.len) /\ End(b) <= chunks[b.c].used /\ chunks[b.c].used \in Nat
    BY <1>1, <2>1, BlockFacts
  <2>3. b.len \in Nat BY <2>2, PoolAssumption
  <2> QED BY <2>1, <2>2, <2>3 DEF BlockOK, Aligned
<1>4. ASSUME NEW a \in blocks, NEW b \in blocks, a # b, a.c = b.c
      PROVE  a.off + a.len <= b.off \/ b.off + b.len <= a.off
  <2>1. End(a) <= b.off \/ End(b) <= a.off BY <1>4 DEF PoolInv, PoolOK, Apart
  <2> QED BY <1>3, <2>1
<1> QED BY <1>2, <1>3, <1>4 DEF BlocksDisjoint

\* Every pool starts with one empty chunk.
LEMMA InitHolds == PoolInit => PoolInv
<1> SUFFICES ASSUME PoolInit PROVE PoolInv OBVIOUS
<1>1. PICK n \in PoolSizes : chunks = <<Chunk(IF n = 0 THEN DefaultSize ELSE n)>> BY DEF PoolInit
<1>2. (IF n = 0 THEN DefaultSize ELSE n) \in 0..(SizeLimit - 1) BY PoolAssumption
<1>3. blocks = {} BY DEF PoolInit
<1> QED BY <1>1, <1>2, <1>3, EmptyChunk DEF PoolInv, Chunk

\* Every operation of the pool keeps the invariant.
LEMMA StepKeeps == PoolInv /\ [PoolNext]_poolVars => PoolInv'
<1> SUFFICES ASSUME PoolInv, [PoolNext]_poolVars PROVE PoolInv' OBVIOUS
<1>1. PoolOK(chunks, blocks) BY DEF PoolInv
<1>2. SizeLimit \in Nat \ {0} /\ BlockSizes \subseteq 0..(SizeLimit - 1) BY PoolAssumption
<1>3. CASE PoolDestroy
  <2>1. 0 \in 0..(SizeLimit - 1) BY <1>2
  <2>2. XPool_AlignSize(0) = 0 BY <2>1, AlignSizeFix, AlignedZero
  <2> QED BY <1>3, <2>1, <2>2, EmptyChunk DEF PoolDestroy, PoolInv
<1>4. CASE PoolAlloc
  <2>1. PICK len \in BlockSizes, ok \in BOOLEAN :
            /\ CanAlloc(chunks, len, ok)
            /\ chunks' = XPool_Alloc(chunks, len)
            /\ blocks' = blocks \cup {Allocated(chunks, len)}
    BY <1>4 DEF PoolAlloc
  <2>2. len \in 0..(SizeLimit - 1) /\ len # 0 /\ XPool_AlignSize(len) # 0 BY <1>2, <2>1 DEF CanAlloc
  <2>3. PoolOK(XPool_Alloc(chunks, len), blocks \cup {Allocated(chunks, len)}) BY <1>1, <2>2, AllocKeeps
  <2> QED BY <2>1, <2>3 DEF PoolInv
<1>5. CASE PoolFree
  <2>1. PICK b \in blocks : chunks' = XPool_Free(chunks, b) /\ blocks' = blocks \ {b} BY <1>5 DEF PoolFree
  <2> QED BY <1>1, <2>1, FreeKeeps DEF PoolInv
<1>6. CASE PoolRealloc
  <2>1. PICK b \in blocks, len \in BlockSizes, ok \in BOOLEAN :
        /\ len # 0 /\ XPool_AlignSize(len) # 0
        /\ \/ /\ InPlace(chunks, b, len)
              /\ chunks' = [chunks EXCEPT ![b.c].used = @ - XPool_AlignSize(b.len) + XPool_AlignSize(len)]
              /\ blocks' = (blocks \ {b}) \cup {Block(b.c, b.off, len)}
           \/ /\ ~InPlace(chunks, b, len)
              /\ chunks' = XPool_Free(XPool_Alloc(chunks, len), b)
              /\ blocks' = (blocks \ {b}) \cup {Allocated(chunks, len)}
    BY <1>6 DEF PoolRealloc
  <2>2. len \in 0..(SizeLimit - 1) BY <1>2
  <2>3. CASE /\ InPlace(chunks, b, len)
             /\ chunks' = [chunks EXCEPT ![b.c].used = @ - XPool_AlignSize(b.len) + XPool_AlignSize(len)]
             /\ blocks' = (blocks \ {b}) \cup {Block(b.c, b.off, len)}
    <3>1. PoolOK([chunks EXCEPT ![b.c].used = @ - XPool_AlignSize(b.len) + XPool_AlignSize(len)],
                 (blocks \ {b}) \cup {Block(b.c, b.off, len)})
      BY <1>1, <2>1, <2>2, <2>3, ResizeKeeps
    <3> QED BY <2>3, <3>1 DEF PoolInv
  <2>4. CASE /\ chunks' = XPool_Free(XPool_Alloc(chunks, len), b)
             /\ blocks' = (blocks \ {b}) \cup {Allocated(chunks, len)}
    <3> DEFINE new == Allocated(chunks, len)
    <3>1. PoolOK(XPool_Alloc(chunks, len), blocks \cup {new}) /\ new \notin blocks
      BY <1>1, <2>1, <2>2, AllocKeeps
    <3>2. PoolOK(XPool_Free(XPool_Alloc(chunks, len), b), (blocks \cup {new}) \ {b})
      BY <3>1, FreeKeeps
    <3>3. (blocks \cup {new}) \ {b} = (blocks \ {b}) \cup {new} BY <3>1
    <3> QED BY <2>4, <3>2, <3>3 DEF PoolInv
  <2> QED BY <2>1, <2>3, <2>4
<1>7. CASE PoolReset
  <2>1. ChunksOK(chunks) BY <1>1 DEF PoolOK
  <2> QED BY <1>7, <2>1, ResetKeeps DEF PoolReset, PoolInv
<1>8. CASE UNCHANGED poolVars
  BY <1>1, <1>8 DEF PoolInv, poolVars
<1> QED BY <1>3, <1>4, <1>5, <1>6, <1>7, <1>8 DEF PoolNext

\* The rounded blocks of a pool stay apart and inside their chunks.
THEOREM PoolInvariant == PoolSpec => []PoolInv
<1>1. PoolInit => PoolInv BY InitHolds
<1>2. PoolInv /\ [PoolNext]_poolVars => PoolInv' BY StepKeeps
<1> QED BY <1>1, <1>2, PTL DEF PoolSpec

\* No two blocks that callers of xalloc, xrealloc and xfreen hold share a byte, whatever the
\* order in which they are freed, resized and moved.
THEOREM BlocksStayDisjoint == PoolSpec => []BlocksDisjoint
<1>1. PoolSpec => []PoolInv BY PoolInvariant
<1>2. PoolInv => BlocksDisjoint BY InvImplies
<1> QED BY <1>1, <1>2, PTL

-----------------------------------------------------------------------------
(* The linked list: its invariant.                                         *)

Pointer == ListNodes \cup {NULL}
IsLinks(l) == l \in [ListNodes -> [next : Pointer, prev : Pointer, cb : BOOLEAN]]

\* The links l are those of the list c, a ring when r holds.
Chained(l, c, r) ==
    /\ IsLinks(l) /\ c \in Seq(ListNodes) /\ r \in BOOLEAN
    /\ \A i, j \in 1..Len(c) : c[i] = c[j] => i = j
    /\ \A i \in 1..Len(c) : l[c[i]].next = NextOf(c, r, i)
    /\ \A i \in 1..Len(c) : l[c[i]].prev = PrevOf(c, r, i)
    /\ \A m \in ListNodes : (\A i \in 1..Len(c) : c[i] # m) => l[m].next = NULL /\ l[m].prev = NULL

ListInv ==
    /\ Chained(links, chain, ring) /\ (ring => chain # << >>)
    /\ cursor # NULL => cursor \in Nodes /\ ~ring
    /\ ~lost

-----------------------------------------------------------------------------
(* Walks along the pointers.                                               *)

\* A set that is closed under pNext holds, with a node, all that follow it.
LEMMA ClosedForward ==
    ASSUME NEW l, NEW c, NEW r, Chained(l, c, r), NEW S, \A x \in S : l[x].next \in S \cup {NULL},
           NEW a \in 1..Len(c), NEW b \in 1..Len(c), a <= b, c[a] \in S
    PROVE  c[b] \in S
<1> DEFINE T == {k \in Nat : a + k <= Len(c) /\ c[a + k] \notin S}
<1>0. Len(c) \in Nat /\ \A i \in 1..Len(c) : c[i] \in ListNodes BY DEF Chained
<1> SUFFICES ASSUME c[b] \notin S PROVE FALSE OBVIOUS
<1>1. b - a \in T BY <1>0
<1>2. PICK k \in T : \A y \in T : k <= y BY <1>1, Least
<1>3. k \in Nat /\ a + k <= Len(c) /\ c[a + k] \notin S BY <1>2
<1> HIDE DEF T
<1>4. k # 0 BY <1>0, <1>3
<1>5. k - 1 \in Nat /\ k - 1 \notin T BY <1>2, <1>3, <1>4
<1>6. c[a + (k - 1)] \in S BY <1>0, <1>3, <1>5 DEF T
<1>7. a + (k - 1) \in 1..Len(c) /\ a + (k - 1) < Len(c) /\ (a + (k - 1)) + 1 = a + k BY <1>0, <1>3, <1>5
<1>8. l[c[a + (k - 1)]].next = c[a + k] BY <1>7 DEF Chained, NextOf
<1>9. c[a + k] # NULL BY <1>0, <1>3, <1>7, NullIsNoNode
<1> QED BY <1>3, <1>6, <1>8, <1>9

\* And under pPrev, all that precede it.
LEMMA ClosedBackward ==
    ASSUME NEW l, NEW c, NEW r, Chained(l, c, r), NEW S, \A x \in S : l[x].prev \in S \cup {NULL},
           NEW a \in 1..Len(c), NEW b \in 1..Len(c), b <= a, c[a] \in S
    PROVE  c[b] \in S
<1> DEFINE T == {k \in Nat : k < a /\ c[a - k] \notin S}
<1>0. Len(c) \in Nat /\ \A i \in 1..Len(c) : c[i] \in ListNodes BY DEF Chained
<1> SUFFICES ASSUME c[b] \notin S PROVE FALSE OBVIOUS
<1>1. a - b \in T BY <1>0
<1>2. PICK k \in T : \A y \in T : k <= y BY <1>1, Least
<1>3. k \in Nat /\ k < a /\ c[a - k] \notin S BY <1>2
<1> HIDE DEF T
<1>4. k # 0 BY <1>0, <1>3
<1>5. k - 1 \in Nat /\ k - 1 \notin T BY <1>2, <1>3, <1>4
<1>6. c[a - (k - 1)] \in S BY <1>0, <1>3, <1>5 DEF T
<1>7. a - (k - 1) \in 1..Len(c) /\ a - (k - 1) > 1 /\ (a - (k - 1)) - 1 = a - k BY <1>0, <1>3, <1>5
<1>8. l[c[a - (k - 1)]].prev = c[a - k] BY <1>7 DEF Chained, PrevOf
<1>9. c[a - k] # NULL BY <1>0, <1>3, <1>7, NullIsNoNode
<1> QED BY <1>3, <1>6, <1>8, <1>9

\* What the loops meet in a list that is no ring.
LEMMA ForwardIs ==
    ASSUME NEW l, NEW c, NEW r, Chained(l, c, r), ~r, NEW a \in 1..Len(c)
    PROVE  \A x : x \in Forward(l, c[a]) <=> \E i \in 1..Len(c) : a <= i /\ x = c[i]
<1> DEFINE R == {c[i] : i \in {i \in 1..Len(c) : a <= i}}
<1>0. Len(c) \in Nat /\ \A i \in 1..Len(c) : c[i] \in ListNodes BY DEF Chained
<1>1. R \subseteq ListNodes /\ c[a] \in R BY <1>0
<1>2. ASSUME NEW x \in R PROVE l[x].next \in R \cup {NULL}
  <2>1. PICK i \in 1..Len(c) : a <= i /\ x = c[i] OBVIOUS
  <2>2. l[x].next = NextOf(c, r, i) BY <2>1 DEF Chained
  <2>3. CASE i < Len(c)
    <3>1. i + 1 \in 1..Len(c) /\ a <= i + 1 BY <1>0, <2>1, <2>3
    <3>2. c[i + 1] \in R BY <3>1
    <3> QED BY <2>2, <2>3, <3>2 DEF NextOf
  <2>4. CASE ~(i < Len(c)) BY <2>2, <2>4 DEF NextOf
  <2> QED BY <2>3, <2>4
<1> HIDE DEF R
<1>3. Forward(l, c[a]) \subseteq R BY <1>1, <1>2 DEF Forward
<1>4. ASSUME NEW x \in R PROVE x \in Forward(l, c[a])
  <2>1. PICK i \in 1..Len(c) : a <= i /\ x = c[i] BY DEF R
  <2>2. ASSUME NEW S \in SUBSET ListNodes, c[a] \in S, \A y \in S : l[y].next \in S \cup {NULL} PROVE x \in S
    BY <2>1, <2>2, ClosedForward
  <2> QED BY <1>1, <2>2 DEF Forward
<1> QED BY <1>3, <1>4 DEF R

\* And along pPrev.
LEMMA BackwardIs ==
    ASSUME NEW l, NEW c, NEW r, Chained(l, c, r), ~r, NEW a \in 1..Len(c)
    PROVE  \A x : x \in Backward(l, c[a]) <=> \E i \in 1..Len(c) : i <= a /\ x = c[i]
<1> DEFINE R == {c[i] : i \in {i \in 1..Len(c) : i <= a}}
<1>0. Len(c) \in Nat /\ \A i \in 1..Len(c) : c[i] \in ListNodes BY DEF Chained
<1>1. R \subseteq ListNodes /\ c[a] \in R BY <1>0
<1>2. ASSUME NEW x \in R PROVE l[x].prev \in R \cup {NULL}
  <2>1. PICK i \in 1..Len(c) : i <= a /\ x = c[i] OBVIOUS
  <2>2. l[x].prev = PrevOf(c, r, i) BY <2>1 DEF Chained
  <2>3. CASE i > 1
    <3>1. i - 1 \in 1..Len(c) /\ i - 1 <= a BY <1>0, <2>1, <2>3
    <3>2. c[i - 1] \in R BY <3>1
    <3> QED BY <2>2, <2>3, <3>2 DEF PrevOf
  <2>4. CASE ~(i > 1) BY <2>2, <2>4 DEF PrevOf
  <2> QED BY <2>3, <2>4
<1> HIDE DEF R
<1>3. Backward(l, c[a]) \subseteq R BY <1>1, <1>2 DEF Backward
<1>4. ASSUME NEW x \in R PROVE x \in Backward(l, c[a])
  <2>1. PICK i \in 1..Len(c) : i <= a /\ x = c[i] BY DEF R
  <2>2. ASSUME NEW S \in SUBSET ListNodes, c[a] \in S, \A y \in S : l[y].prev \in S \cup {NULL} PROVE x \in S
    BY <2>1, <2>2, ClosedBackward
  <2> QED BY <1>1, <2>2 DEF Backward
<1> QED BY <1>3, <1>4 DEF R

\* Head and tail are found from every node.
LEMMA HeadIs ==
    ASSUME NEW l, NEW c, NEW r, Chained(l, c, r), ~r, NEW a \in 1..Len(c)
    PROVE  XList_GetHead(l, c[a]) = c[1]
<1>0. Len(c) \in Nat /\ \A i \in 1..Len(c) : c[i] \in ListNodes BY DEF Chained
<1>1. \A x : x \in Backward(l, c[a]) <=> \E i \in 1..Len(c) : i <= a /\ x = c[i] BY BackwardIs
<1>2. c[1] \in Backward(l, c[a]) BY <1>0, <1>1
<1>3. l[c[1]].prev = NULL BY <1>0 DEF Chained, PrevOf
<1>4. ASSUME NEW h \in Backward(l, c[a]), l[h].prev = NULL PROVE h = c[1]
  <2>1. PICK i \in 1..Len(c) : h = c[i] BY <1>1
  <2>2. l[h].prev = PrevOf(c, r, i) BY <2>1 DEF Chained
  <2>3. CASE i > 1
    <3>1. i - 1 \in 1..Len(c) BY <1>0, <2>3
    <3> QED BY <1>0, <1>4, <2>2, <2>3, <3>1, NullIsNoNode DEF PrevOf
  <2>4. CASE i = 1 BY <2>1, <2>4
  <2> QED BY <1>0, <2>3, <2>4
<1> QED BY <1>2, <1>3, <1>4 DEF XList_GetHead

\* The tail of a list that is no ring.
LEMMA TailIs ==
    ASSUME NEW l, NEW c, NEW r, Chained(l, c, r), ~r, NEW a \in 1..Len(c)
    PROVE  XList_GetTail(l, c[a]) = c[Len(c)]
<1>0. Len(c) \in Nat /\ Len(c) \in 1..Len(c) /\ \A i \in 1..Len(c) : c[i] \in ListNodes BY DEF Chained
<1>1. \A x : x \in Forward(l, c[a]) <=> \E i \in 1..Len(c) : a <= i /\ x = c[i] BY ForwardIs
<1>2. c[Len(c)] \in Forward(l, c[a]) BY <1>0, <1>1
<1>3. l[c[Len(c)]].next = NULL BY <1>0 DEF Chained, NextOf
<1>4. ASSUME NEW h \in Forward(l, c[a]), l[h].next = NULL PROVE h = c[Len(c)]
  <2>1. PICK i \in 1..Len(c) : h = c[i] BY <1>1
  <2>2. l[h].next = NextOf(c, r, i) BY <2>1 DEF Chained
  <2>3. CASE i < Len(c)
    <3>1. i + 1 \in 1..Len(c) BY <1>0, <2>3
    <3> QED BY <1>0, <1>4, <2>2, <2>3, <3>1, NullIsNoNode DEF NextOf
  <2>4. CASE i = Len(c) BY <2>1, <2>4
  <2> QED BY <1>0, <2>3, <2>4
<1> QED BY <1>2, <1>3, <1>4 DEF XList_GetTail

\* A search finds a node of the list, or NULL.
LEMMA SearchIs ==
    ASSUME NEW l, NEW c, NEW r, Chained(l, c, r), ~r, NEW a \in 1..Len(c), NEW S,
           XList_Search(l, c[a], S) # NULL
    PROVE  \E i \in 1..Len(c) : XList_Search(l, c[a], S) = c[i]
<1>0. ASSUME NEW b \in 1..Len(c)
      PROVE  \A x : x \in Forward(l, c[b]) <=> \E i \in 1..Len(c) : b <= i /\ x = c[i]
  BY ForwardIs
<1> DEFINE hits == S \cap Forward(l, XList_GetHead(l, c[a]))
           T == {i \in 1..Len(c) : c[i] \in hits}
<1>1. Len(c) \in Nat /\ 1 \in 1..Len(c) BY DEF Chained
<1>2. XList_Search(l, c[a], S) = IF hits = {} THEN NULL ELSE CHOOSE m \in hits : hits \subseteq Forward(l, m)
  BY Zenon DEF XList_Search
<1>3. hits # {} BY <1>2
<1>4. \A m \in hits : \E i \in 1..Len(c) : m = c[i]
  <2>1. XList_GetHead(l, c[a]) = c[1] BY HeadIs
  <2>2. \A x : x \in Forward(l, c[1]) <=> \E i \in 1..Len(c) : 1 <= i /\ x = c[i] BY <1>1, <1>0
  <2> QED BY <2>1, <2>2
<1> HIDE DEF hits
<1>5. T \subseteq Nat /\ T # {} BY <1>1, <1>3, <1>4
<1>6. PICK i \in T : \A j \in T : i <= j BY <1>5, Least
<1>7. hits \subseteq Forward(l, c[i])
  <2>1. i \in 1..Len(c) BY <1>6
  <2>2. ASSUME NEW m \in hits PROVE m \in Forward(l, c[i])
    <3>1. PICK j \in 1..Len(c) : m = c[j] BY <1>4
    <3>2. i <= j BY <1>6, <3>1
    <3>3. \A x : x \in Forward(l, c[i]) <=> \E k \in 1..Len(c) : i <= k /\ x = c[k] BY <1>0, <2>1
    <3> QED BY <3>1, <3>2, <3>3
  <2> QED BY <2>2
<1>8. c[i] \in hits BY <1>6
<1>9. XList_Search(l, c[a], S) \in hits BY <1>2, <1>3, <1>7, <1>8
<1> QED BY <1>4, <1>9

\* XList_IsRing tells a ring.
LEMMA RingIs ==
    ASSUME NEW l, NEW c, NEW r, Chained(l, c, r), NEW a \in 1..Len(c)
    PROVE  XList_IsRing(l, c[a]) <=> r
<1>0. Len(c) \in Nat /\ 1 \in 1..Len(c) /\ Len(c) \in 1..Len(c) /\ \A i \in 1..Len(c) : c[i] \in ListNodes BY DEF Chained
<1>1. l[c[a]].next = NextOf(c, r, a) BY DEF Chained
<1>2. CASE r
  <2>1. PICK b \in 1..Len(c) : l[c[a]].next = c[b] /\ (b = 1 \/ b = a + 1)
    BY <1>0, <1>1, <1>2 DEF NextOf
  <2>2. l[c[Len(c)]].next = c[1] BY <1>0, <1>2 DEF Chained, NextOf
  <2>3. ASSUME NEW S \in SUBSET ListNodes, c[b] \in S, \A y \in S : l[y].next \in S \cup {NULL} PROVE c[a] \in S
    <3>1. c[Len(c)] \in S BY <1>0, <2>3, ClosedForward
    <3>2. c[1] \in S BY <1>0, <2>2, <2>3, <3>1, NullIsNoNode
    <3> QED BY <1>0, <2>3, <3>2, ClosedForward, SMTT(30)
  <2>4. c[a] \in Forward(l, c[b]) BY <1>0, <2>3 DEF Forward
  <2> QED BY <1>0, <1>2, <2>1, <2>4, NullIsNoNode DEF XList_IsRing
<1>3. CASE ~r
  <2>1. CASE a < Len(c)
    <3>1. a + 1 \in 1..Len(c) /\ l[c[a]].next = c[a + 1] BY <1>0, <1>1, <2>1 DEF NextOf
    <3> DEFINE b == a + 1
    <3>2. b \in 1..Len(c) BY <3>1
    <3>3. \A i \in 1..Len(c) : b <= i => c[i] # c[a] BY <1>0 DEF Chained
    <3>4. l[c[a]].next = c[b] BY <3>1
    <3> HIDE DEF b
    <3>5. c[a] \notin Forward(l, c[b]) BY <1>3, <3>2, <3>3, ForwardIs
    <3> QED BY <1>3, <3>4, <3>5 DEF XList_IsRing
  <2>2. CASE ~(a < Len(c)) BY <1>1, <1>3, <2>2 DEF NextOf, XList_IsRing
  <2> QED BY <2>1, <2>2
<1> QED BY <1>2, <1>3

-----------------------------------------------------------------------------
(* A node more or less.                                                    *)

\* The sequence d is c with n as its i-th element, or without its i-th element.
Inserted(d, c, i, n) ==
    /\ d \in Seq(ListNodes) /\ Len(d) = Len(c) + 1
    /\ \A j \in 1..Len(d) : d[j] = IF j < i THEN c[j] ELSE IF j = i THEN n ELSE c[j - 1]
Removed(d, c, i) ==
    /\ d \in Seq(ListNodes) /\ Len(d) = Len(c) - 1
    /\ \A j \in 1..Len(d) : d[j] = IF j < i THEN c[j] ELSE c[j + 1]

\* The elements of two sequences joined.
LEMMA ConcatIs ==
    ASSUME NEW S, NEW a \in Seq(S), NEW b \in Seq(S)
    PROVE  /\ a \o b \in Seq(S) /\ Len(a \o b) = Len(a) + Len(b)
           /\ \A j \in 1..Len(a) : (a \o b)[j] = a[j]
           /\ \A j \in 1..Len(b) : (a \o b)[Len(a) + j] = b[j]
<1>1. a \o b \in Seq(S) /\ Len(a \o b) = Len(a) + Len(b) OBVIOUS
<1>2. \A j \in 1..Len(a) : (a \o b)[j] = a[j] OBVIOUS
<1>3. \A j \in 1..Len(b) : (a \o b)[Len(a) + j] = b[j] OBVIOUS
<1> QED BY <1>1, <1>2, <1>3

\* What InsertAt and RemoveAt of a sequence are, element by element.
LEMMA InsertAtIs ==
    ASSUME NEW c \in Seq(ListNodes), NEW i \in 1..(Len(c) + 1), NEW n \in ListNodes
    PROVE  Inserted(InsertAt(c, i, n), c, i, n)
<1> DEFINE d == InsertAt(c, i, n)
<1> DEFINE a == SubSeq(c, 1, i - 1)
           b == SubSeq(c, i, Len(c))
<1>1. a \in Seq(ListNodes) /\ Len(a) = i - 1 /\ \A j \in 1..(i - 1) : a[j] = c[j] OBVIOUS
<1>2. b \in Seq(ListNodes) /\ Len(b) = Len(c) - i + 1 /\ \A j \in 1..(Len(c) - i + 1) : b[j] = c[i + j - 1] OBVIOUS
<1>3. d = a \o <<n>> \o b BY DEF InsertAt
<1> HIDE DEF a, b, d
<1> DEFINE e == a \o <<n>>
<1>4. e \in Seq(ListNodes) /\ Len(e) = i /\ \A j \in 1..i : e[j] = IF j < i THEN c[j] ELSE n BY <1>1
<1> HIDE DEF e
<1>5. d = e \o b BY <1>3 DEF e
<1>6. d \in Seq(ListNodes) /\ Len(d) = Len(c) + 1 BY <1>2, <1>4, <1>5
<1>7. ASSUME NEW j \in 1..Len(d) PROVE d[j] = IF j < i THEN c[j] ELSE IF j = i THEN n ELSE c[j - 1]
  <2>1. CASE j <= i
    <3>1. d[j] = e[j] BY <1>2, <1>4, <1>5, <2>1, ConcatIs
    <3> QED BY <1>4, <2>1, <3>1
  <2>2. CASE j > i
    <3> DEFINE g == j - i
    <3>1. g \in 1..(Len(c) - i + 1) /\ i + g - 1 = j - 1 /\ i + g = j BY <1>6, <2>2
    <3> HIDE DEF g
    <3>2. d[i + g] = b[g] BY <1>2, <1>4, <1>5, <3>1, ConcatIs, SMTT(30)
    <3> QED BY <1>2, <2>2, <3>1, <3>2
  <2> QED BY <2>1, <2>2
<1> QED BY <1>6, <1>7 DEF Inserted, d

LEMMA RemoveAtIs ==
    ASSUME NEW c \in Seq(ListNodes), NEW i \in 1..Len(c)
    PROVE  Removed(RemoveAt(c, i), c, i)
<1> DEFINE d == RemoveAt(c, i)
<1> DEFINE a == SubSeq(c, 1, i - 1)
           b == SubSeq(c, i + 1, Len(c))
<1>1. a \in Seq(ListNodes) /\ Len(a) = i - 1 /\ \A j \in 1..(i - 1) : a[j] = c[j] OBVIOUS
<1>2. b \in Seq(ListNodes) /\ Len(b) = Len(c) - i /\ \A j \in 1..(Len(c) - i) : b[j] = c[i + j] OBVIOUS
<1>3. d = a \o b BY DEF RemoveAt
<1> HIDE DEF a, b, d
<1>4. d \in Seq(ListNodes) /\ Len(d) = Len(c) - 1
  <2>1. a \in Seq(ListNodes) /\ b \in Seq(ListNodes) BY <1>1, <1>2
  <2>2. d \in Seq(ListNodes) /\ Len(d) = Len(a) + Len(b) BY <1>3, <2>1
  <2>3. Len(c) \in Nat OBVIOUS
  <2> QED BY <1>1, <1>2, <2>2, <2>3
<1>5. ASSUME NEW j \in 1..Len(d) PROVE d[j] = IF j < i THEN c[j] ELSE c[j + 1]
  <2>1. CASE j < i
    <3>1. d[j] = a[j] BY <1>1, <1>2, <1>3, <2>1, ConcatIs
    <3> QED BY <1>1, <2>1, <3>1
  <2>2. CASE j >= i
    <3> DEFINE g == j - (i - 1)
    <3>1. g \in 1..(Len(c) - i) /\ i + g = j + 1 /\ (i - 1) + g = j BY <1>4, <2>2
    <3> HIDE DEF g
    <3>2. \A h \in 1..Len(b) : d[Len(a) + h] = b[h]
      <4>1. a \in Seq(ListNodes) /\ b \in Seq(ListNodes) BY <1>1, <1>2
      <4> QED BY <1>3, <4>1, ConcatIs
    <3>3. g \in 1..Len(b) /\ Len(a) + g = j BY <1>1, <1>2, <3>1
    <3>4. d[j] = b[g] BY <3>2, <3>3
    <3>5. b[g] = c[j + 1]
      <4>1. b[g] = c[i + g] BY <1>2, <3>1
      <4> QED BY <3>1, <4>1
    <3>6. ~(j < i) BY <1>4, <2>2
    <3> QED BY <3>4, <3>5, <3>6
  <2> QED BY <2>1, <2>2
<1> QED BY <1>4, <1>5 DEF Removed, d

\* The links L are l with node n put between p and q.
Put(L, l, n, p, q) ==
    /\ IsLinks(L)
    /\ \A x \in ListNodes : L[x].next = IF x = n THEN q ELSE IF x = p THEN n ELSE l[x].next
    /\ \A x \in ListNodes : L[x].prev = IF x = n THEN p ELSE IF x = q THEN n ELSE l[x].prev
\* The links L are l with node n taken out from between p and q.
Taken(L, l, n, p, q) ==
    /\ IsLinks(L)
    /\ \A x \in ListNodes : L[x].next = IF x = n THEN NULL ELSE IF x = p THEN q ELSE l[x].next
    /\ \A x \in ListNodes : L[x].prev = IF x = n THEN NULL ELSE IF x = q THEN p ELSE l[x].prev

\* The neighbours of a new i-th node.
Left(c, r, i) == IF i > 1 THEN c[i - 1] ELSE IF r THEN c[Len(c)] ELSE NULL
Right(c, r, i) == IF i <= Len(c) THEN c[i] ELSE IF r THEN c[1] ELSE NULL

\* A node that is put between the neighbours of place i is the i-th of the longer chain.
LEMMA InsertChained ==
    ASSUME NEW l, NEW c, NEW r, Chained(l, c, r), Len(c) > 0, NEW n \in ListNodes, \A j \in 1..Len(c) : c[j] # n,
           NEW i \in 1..(Len(c) + 1), NEW L, Put(L, l, n, Left(c, r, i), Right(c, r, i)),
           NEW d, d = InsertAt(c, i, n)
    PROVE  Chained(L, d, r) /\ Len(d) > 0
<1> USE NullIsNoNode
<1>1. Len(c) \in Nat /\ c \in Seq(ListNodes) /\ \A j \in 1..Len(c) : c[j] \in ListNodes BY DEF Chained
<1>2. /\ d \in Seq(ListNodes) /\ Len(d) = Len(c) + 1
      /\ \A j \in 1..Len(d) : d[j] = IF j < i THEN c[j] ELSE IF j = i THEN n ELSE c[j - 1]
  <2>1. Inserted(d, c, i, n) BY <1>1, InsertAtIs
  <2> QED BY <2>1 DEF Inserted
<1>3. \A j, k \in 1..Len(c) : c[j] = c[k] => j = k BY DEF Chained
<1>4. ASSUME NEW j \in 1..Len(d), NEW k \in 1..Len(d), d[j] = d[k] PROVE j = k
  <2>1. CASE j = i BY <1>1, <1>2, <1>4, <2>1
  <2>2. CASE k = i BY <1>1, <1>2, <1>4, <2>2
  <2>3. CASE j # i /\ k # i
    <3> DEFINE a == IF j < i THEN j ELSE j - 1
               b == IF k < i THEN k ELSE k - 1
    <3>1. a \in 1..Len(c) /\ d[j] = c[a] BY <1>1, <1>2, <2>3
    <3>2. b \in 1..Len(c) /\ d[k] = c[b] BY <1>1, <1>2, <2>3
    <3>3. a = b => j = k BY <1>1, <1>2, <2>3
    <3> HIDE DEF a, b
    <3> QED BY <1>3, <1>4, <3>1, <3>2, <3>3
  <2> QED BY <2>1, <2>2, <2>3
<1>5. ASSUME NEW j \in 1..Len(d) PROVE L[d[j]].next = NextOf(d, r, j)
  <2>1. d[j] \in ListNodes BY <1>2
  <2>2. CASE j = i
    <3>1. L[d[j]].next = Right(c, r, i) BY <1>2, <2>1, <2>2 DEF Put
    <3>2. Right(c, r, i) = NextOf(d, r, i) BY <1>1, <1>2 DEF Right, NextOf
    <3> QED BY <2>2, <3>1, <3>2
  <2>3. CASE j < i
    <3>1. d[j] = c[j] /\ j \in 1..Len(c) BY <1>1, <1>2, <2>3
    <3>2. l[c[j]].next = NextOf(c, r, j) BY <3>1 DEF Chained
    <3>3. CASE c[j] = Left(c, r, i)
      <4>1. j = i - 1 \/ (i = 1 /\ j = Len(c)) BY <1>1, <1>3, <2>3, <3>1, <3>3 DEF Left
      <4>2. L[d[j]].next = n BY <2>1, <3>1, <3>3 DEF Put
      <4>3. d[i] = n BY <1>2
      <4> QED BY <1>1, <1>2, <2>3, <4>1, <4>2, <4>3 DEF NextOf
    <3>4. CASE c[j] # Left(c, r, i)
      <4>1. j + 1 < i BY <1>1, <2>3, <3>1, <3>4 DEF Left
      <4>2. L[d[j]].next = l[c[j]].next BY <2>1, <3>1, <3>4 DEF Put
      <4>3. d[j + 1] = c[j + 1] BY <1>1, <1>2, <4>1
      <4> QED BY <1>1, <1>2, <3>1, <3>2, <4>1, <4>2, <4>3 DEF NextOf
    <3> QED BY <3>3, <3>4
  <2>4. CASE j > i
    <3> DEFINE k == j - 1
    <3>1. d[j] = c[k] /\ k \in 1..Len(c) /\ k >= i /\ j = k + 1 BY <1>1, <1>2, <2>4
    <3> HIDE DEF k
    <3>2. l[c[k]].next = NextOf(c, r, k) BY <3>1 DEF Chained
    <3>3. CASE c[k] = Left(c, r, i)
      <4>1. i = 1 /\ r /\ k = Len(c) BY <1>1, <1>3, <3>1, <3>3 DEF Left
      <4>2. L[d[j]].next = n BY <2>1, <3>1, <3>3 DEF Put
      <4>3. d[1] = n BY <1>2, <4>1
      <4> QED BY <1>1, <1>2, <3>1, <4>1, <4>2, <4>3 DEF NextOf
    <3>4. CASE c[k] # Left(c, r, i)
      <4>1. L[d[j]].next = l[c[k]].next BY <2>1, <3>1, <3>4 DEF Put
      <4>2. CASE k < Len(c)
        <5>1. d[j + 1] = c[k + 1] BY <1>1, <1>2, <3>1, <4>2
        <5> QED BY <1>1, <1>2, <3>1, <3>2, <4>1, <4>2, <5>1 DEF NextOf
      <4>3. CASE k = Len(c)
        <5>1. r => i > 1 BY <3>4, <4>3 DEF Left
        <5>2. r => d[1] = c[1] BY <1>1, <1>2, <5>1
        <5> QED BY <1>1, <1>2, <3>1, <3>2, <4>1, <4>3, <5>2 DEF NextOf
      <4> QED BY <1>1, <3>1, <4>2, <4>3
    <3> QED BY <3>3, <3>4
  <2> QED BY <1>1, <1>2, <2>2, <2>3, <2>4
<1>6. ASSUME NEW j \in 1..Len(d) PROVE L[d[j]].prev = PrevOf(d, r, j)
  <2>1. d[j] \in ListNodes BY <1>2
  <2>2. CASE j = i
    <3>1. L[d[j]].prev = Left(c, r, i) BY <1>2, <2>1, <2>2 DEF Put
    <3>2. Left(c, r, i) = PrevOf(d, r, i) BY <1>1, <1>2 DEF Left, PrevOf
    <3> QED BY <2>2, <3>1, <3>2
  <2>3. CASE j < i
    <3>1. d[j] = c[j] /\ j \in 1..Len(c) BY <1>1, <1>2, <2>3
    <3>2. l[c[j]].prev = PrevOf(c, r, j) BY <3>1 DEF Chained
    <3>3. CASE c[j] = Right(c, r, i)
      <4>1. i = Len(c) + 1 /\ r /\ j = 1 BY <1>1, <1>3, <2>3, <3>1, <3>3 DEF Right
      <4>2. L[d[j]].prev = n BY <1>1, <2>1, <3>1, <3>3 DEF Put
      <4>3. d[Len(d)] = n BY <1>1, <1>2, <4>1
      <4> QED BY <1>1, <1>2, <4>1, <4>2, <4>3 DEF PrevOf
    <3>4. CASE c[j] # Right(c, r, i)
      <4>1. L[d[j]].prev = l[c[j]].prev BY <2>1, <3>1, <3>4 DEF Put
      <4>2. CASE j > 1
        <5>1. d[j - 1] = c[j - 1] BY <1>1, <1>2, <2>3, <4>2
        <5> QED BY <1>1, <1>2, <3>1, <3>2, <4>1, <4>2, <5>1 DEF PrevOf
      <4>3. CASE j = 1
        <5>1. r => i <= Len(c) BY <3>4, <4>3, <1>1 DEF Right
        <5>2. r => d[Len(d)] = c[Len(c)] BY <1>1, <1>2, <5>1
        <5> QED BY <1>1, <1>2, <3>1, <3>2, <4>1, <4>3, <5>2 DEF PrevOf
      <4> QED BY <1>1, <3>1, <4>2, <4>3
    <3> QED BY <3>3, <3>4
  <2>4. CASE j > i
    <3> DEFINE k == j - 1
    <3>1. d[j] = c[k] /\ k \in 1..Len(c) /\ k >= i /\ j = k + 1 BY <1>1, <1>2, <2>4
    <3> HIDE DEF k
    <3>2. l[c[k]].prev = PrevOf(c, r, k) BY <3>1 DEF Chained
    <3>3. CASE c[k] = Right(c, r, i)
      <4>1. k = i BY <1>1, <1>3, <3>1, <3>3 DEF Right
      <4>2. L[d[j]].prev = n BY <1>1, <2>1, <3>1, <3>3 DEF Put
      <4>3. d[j - 1] = n BY <1>1, <1>2, <3>1, <4>1
      <4> QED BY <1>1, <1>2, <3>1, <4>2, <4>3 DEF PrevOf
    <3>4. CASE c[k] # Right(c, r, i)
      <4>1. L[d[j]].prev = l[c[k]].prev BY <2>1, <3>1, <3>4 DEF Put
      <4>2. k > i BY <1>1, <3>1, <3>4 DEF Right
      <4>3. d[j - 1] = c[k - 1] BY <1>1, <1>2, <3>1, <4>2
      <4> QED BY <1>1, <1>2, <3>1, <3>2, <4>1, <4>2, <4>3 DEF PrevOf
    <3> QED BY <3>3, <3>4
  <2> QED BY <1>1, <1>2, <2>2, <2>3, <2>4
<1>7. ASSUME NEW m \in ListNodes, \A j \in 1..Len(d) : d[j] # m PROVE L[m].next = NULL /\ L[m].prev = NULL
  <2>1. m # n
    <3>1. i \in 1..Len(d) /\ d[i] = n BY <1>1, <1>2
    <3> QED BY <1>7, <3>1
  <2>2. ASSUME NEW j \in 1..Len(c) PROVE c[j] # m
    <3>1. CASE j < i BY <1>1, <1>2, <1>7, <3>1
    <3>2. CASE j >= i
      <4>1. j + 1 \in 1..Len(d) /\ d[j + 1] = c[j] BY <1>1, <1>2, <3>2
      <4> QED BY <1>7, <4>1
    <3> QED BY <1>1, <3>1, <3>2
  <2>3. l[m].next = NULL /\ l[m].prev = NULL BY <2>2 DEF Chained
  <2>4. m # Left(c, r, i) /\ m # Right(c, r, i) BY <1>1, <2>2 DEF Left, Right
  <2> QED BY <2>1, <2>3, <2>4 DEF Put
<1>8. IsLinks(L) /\ r \in BOOLEAN BY DEF Put, Chained
<1> QED BY <1>1, <1>2, <1>4, <1>5, <1>6, <1>7, <1>8 DEF Chained

\* A node that is taken out from between its neighbours is missing in the shorter chain.
LEMMA RemoveChained ==
    ASSUME NEW l, NEW c, NEW r, Chained(l, c, r), r => Len(c) > 1, NEW i \in 1..Len(c),
           NEW L, Taken(L, l, c[i], PrevOf(c, r, i), NextOf(c, r, i)), NEW d, d = RemoveAt(c, i)
    PROVE  Chained(L, d, r) /\ Len(d) = Len(c) - 1
<1> USE NullIsNoNode
<1>1. Len(c) \in Nat /\ c \in Seq(ListNodes) /\ \A j \in 1..Len(c) : c[j] \in ListNodes BY DEF Chained
<1>2. /\ d \in Seq(ListNodes) /\ Len(d) = Len(c) - 1
      /\ \A j \in 1..Len(d) : d[j] = IF j < i THEN c[j] ELSE c[j + 1]
  <2>1. Removed(d, c, i) BY <1>1, RemoveAtIs
  <2> QED BY <2>1 DEF Removed
<1>3. \A j, k \in 1..Len(c) : c[j] = c[k] => j = k BY DEF Chained
<1> DEFINE Was(j) == IF j < i THEN j ELSE j + 1
<1>4. \A j \in 1..Len(d) : Was(j) \in 1..Len(c) /\ Was(j) # i /\ d[j] = c[Was(j)] BY <1>1, <1>2
<1>5. ASSUME NEW j \in 1..Len(d), NEW k \in 1..Len(d), d[j] = d[k] PROVE j = k
  <2>1. Was(j) = Was(k) BY <1>3, <1>4, <1>5
  <2> QED BY <1>1, <1>2, <2>1
<1>6. ASSUME NEW j \in 1..Len(d) PROVE L[d[j]].next = NextOf(d, r, j)
  <2> DEFINE k == Was(j)
  <2>1. k \in 1..Len(c) /\ k # i /\ d[j] = c[k] /\ k = (IF j < i THEN j ELSE j + 1) BY <1>4
  <2> HIDE DEF k
  <2>2. d[j] \in ListNodes /\ d[j] # c[i] BY <1>1, <1>3, <2>1
  <2>3. CASE c[k] = PrevOf(c, r, i)
    <3>1. (i > 1 /\ k = i - 1) \/ (i = 1 /\ r /\ k = Len(c)) BY <1>1, <1>3, <2>1, <2>3 DEF PrevOf
    <3>2. L[d[j]].next = NextOf(c, r, i) BY <2>1, <2>2, <2>3 DEF Taken
    <3>3. CASE i > 1 /\ k = i - 1
      <4>1. j = i - 1 BY <1>1, <2>1, <3>3
      <4>2. CASE i < Len(c)
        <5>1. d[j + 1] = c[i + 1] BY <1>1, <1>2, <4>1, <4>2
        <5> QED BY <1>1, <1>2, <3>2, <4>1, <4>2, <5>1 DEF NextOf
      <4>3. CASE i = Len(c)
        <5>1. d[1] = c[1] BY <1>1, <1>2, <3>3, <4>3
        <5> QED BY <1>1, <1>2, <3>2, <4>1, <4>3, <5>1 DEF NextOf
      <4> QED BY <1>1, <4>2, <4>3
    <3>4. CASE i = 1 /\ r /\ k = Len(c)
      <4>1. j = Len(d) BY <1>1, <1>2, <2>1, <3>4
      <4>2. d[1] = c[2] BY <1>1, <1>2, <3>4
      <4> QED BY <1>1, <1>2, <3>2, <3>4, <4>1, <4>2 DEF NextOf
    <3> QED BY <3>1, <3>3, <3>4
  <2>4. CASE c[k] # PrevOf(c, r, i)
    <3>1. L[d[j]].next = NextOf(c, r, k) BY <2>1, <2>2, <2>4 DEF Taken, Chained
    <3>2. ~(i > 1 /\ k = i - 1) /\ ~(i = 1 /\ r /\ k = Len(c)) BY <1>1, <2>1, <2>4 DEF PrevOf
    <3>3. CASE k < Len(c)
      <4>1. j < Len(d) /\ d[j + 1] = c[k + 1] BY <1>1, <1>2, <2>1, <3>2, <3>3, SMTT(30)
      <4> QED BY <1>1, <1>2, <3>1, <3>3, <4>1 DEF NextOf
    <3>4. CASE k = Len(c)
      <4>1. j = Len(d) BY <1>1, <1>2, <2>1, <3>4
      <4>2. r => d[1] = c[1] BY <1>1, <1>2, <2>1, <3>2, <3>4
      <4> QED BY <1>1, <1>2, <3>1, <3>4, <4>1, <4>2 DEF NextOf
    <3> QED BY <1>1, <2>1, <3>3, <3>4
  <2> QED BY <2>3, <2>4
<1>7. ASSUME NEW j \in 1..Len(d) PROVE L[d[j]].prev = PrevOf(d, r, j)
  <2> DEFINE k == Was(j)
  <2>1. k \in 1..Len(c) /\ k # i /\ d[j] = c[k] /\ k = (IF j < i THEN j ELSE j + 1) BY <1>4
  <2> HIDE DEF k
  <2>2. d[j] \in ListNodes /\ d[j] # c[i] BY <1>1, <1>3, <2>1
  <2>3. CASE c[k] = NextOf(c, r, i)
    <3>1. (i < Len(c) /\ k = i + 1) \/ (i = Len(c) /\ r /\ k = 1) BY <1>1, <1>3, <2>1, <2>3 DEF NextOf
    <3>2. L[d[j]].prev = PrevOf(c, r, i) BY <2>1, <2>2, <2>3 DEF Taken
    <3>3. CASE i < Len(c) /\ k = i + 1
      <4>1. j = i BY <1>1, <2>1, <3>3
      <4>2. CASE i > 1
        <5>1. d[j - 1] = c[i - 1] BY <1>1, <1>2, <4>1, <4>2
        <5> QED BY <1>1, <1>2, <3>2, <4>1, <4>2, <5>1 DEF PrevOf
      <4>3. CASE i = 1
        <5>1. d[Len(d)] = c[Len(c)] BY <1>1, <1>2, <3>3, <4>3
        <5> QED BY <1>1, <1>2, <3>2, <4>1, <4>3, <5>1 DEF PrevOf
      <4> QED BY <1>1, <4>2, <4>3
    <3>4. CASE i = Len(c) /\ r /\ k = 1
      <4>1. j = 1 BY <1>1, <1>2, <2>1, <3>4
      <4>2. d[Len(d)] = c[Len(c) - 1] BY <1>1, <1>2, <3>4
      <4> QED BY <1>1, <1>2, <3>2, <3>4, <4>1, <4>2 DEF PrevOf
    <3> QED BY <3>1, <3>3, <3>4
  <2>4. CASE c[k] # NextOf(c, r, i)
    <3>1. L[d[j]].prev = PrevOf(c, r, k) BY <2>1, <2>2, <2>4 DEF Taken, Chained
    <3>2. ~(i < Len(c) /\ k = i + 1) /\ ~(i = Len(c) /\ r /\ k = 1) BY <1>1, <2>1, <2>4 DEF NextOf
    <3>3. CASE k > 1
      <4>1. j > 1 /\ d[j - 1] = c[k - 1] BY <1>1, <1>2, <2>1, <3>2, <3>3
      <4> QED BY <1>1, <1>2, <3>1, <3>3, <4>1 DEF PrevOf
    <3>4. CASE k = 1
      <4>1. j = 1 BY <1>1, <1>2, <2>1, <3>4
      <4>2. r => d[Len(d)] = c[Len(c)] BY <1>1, <1>2, <2>1, <3>2, <3>4
      <4> QED BY <1>1, <1>2, <3>1, <3>4, <4>1, <4>2 DEF PrevOf
    <3> QED BY <1>1, <2>1, <3>3, <3>4
  <2> QED BY <2>3, <2>4
<1>8. ASSUME NEW m \in ListNodes, \A j \in 1..Len(d) : d[j] # m PROVE L[m].next = NULL /\ L[m].prev = NULL
  <2>1. CASE m = c[i] BY <2>1 DEF Taken
  <2>2. CASE m # c[i]
    <3>1. ASSUME NEW k \in 1..Len(c) PROVE c[k] # m
      <4>1. CASE k < i BY <1>1, <1>2, <1>8, <4>1
      <4>2. CASE k > i
        <5>1. k - 1 \in 1..Len(d) /\ d[k - 1] = c[k] BY <1>1, <1>2, <4>2
        <5> QED BY <1>8, <5>1
      <4> QED BY <1>1, <2>2, <4>1, <4>2
    <3>2. l[m].next = NULL /\ l[m].prev = NULL BY <3>1 DEF Chained
    <3>3. m # PrevOf(c, r, i) /\ m # NextOf(c, r, i) BY <1>1, <3>1 DEF PrevOf, NextOf
    <3> QED BY <2>2, <3>2, <3>3 DEF Taken
  <2> QED BY <2>1, <2>2
<1>9. IsLinks(L) /\ r \in BOOLEAN BY DEF Taken, Chained
<1> QED BY <1>1, <1>2, <1>5, <1>6, <1>7, <1>8, <1>9 DEF Chained

-----------------------------------------------------------------------------
(* The functions of list.c.                                                *)

\* The writes that the functions are made of.
LEMMA SetNextIs ==
    ASSUME NEW l, IsLinks(l), NEW n \in Pointer, NEW v \in Pointer
    PROVE  /\ IsLinks(SetNext(l, n, v))
           /\ \A x \in ListNodes : /\ SetNext(l, n, v)[x].next = IF x = n THEN v ELSE l[x].next
                                   /\ SetNext(l, n, v)[x].prev = l[x].prev
BY NullIsNoNode DEF SetNext, IsLinks, Pointer

LEMMA SetPrevIs ==
    ASSUME NEW l, IsLinks(l), NEW n \in Pointer, NEW v \in Pointer
    PROVE  /\ IsLinks(SetPrev(l, n, v))
           /\ \A x \in ListNodes : /\ SetPrev(l, n, v)[x].prev = IF x = n THEN v ELSE l[x].prev
                                   /\ SetPrev(l, n, v)[x].next = l[x].next
BY NullIsNoNode DEF SetPrev, IsLinks, Pointer

LEMMA MergeIs ==
    ASSUME NEW l, IsLinks(l), NEW n \in ListNodes, NEW p \in ListNodes
    PROVE  /\ IsLinks(MergeCtx(l, n, p))
           /\ \A x \in ListNodes : /\ MergeCtx(l, n, p)[x].prev = l[x].prev
                                   /\ MergeCtx(l, n, p)[x].next = l[x].next
BY DEF MergeCtx, IsLinks, Pointer

LEMMA PointersAre ==
    ASSUME NEW l, IsLinks(l), NEW n \in ListNodes
    PROVE  l[n].next \in Pointer /\ l[n].prev \in Pointer /\ n \in Pointer /\ n # NULL /\ NULL \in Pointer
BY NullIsNoNode DEF IsLinks, Pointer

\* Each insertion puts the new node between two neighbours.
LEMMA InsertPrevPuts ==
    ASSUME NEW l, IsLinks(l), NEW at \in ListNodes, NEW n \in ListNodes, at # n, l[at].prev # n
    PROVE  Put(XList_InsertPrev(l, at, n), l, n, l[at].prev, at)
<1> DEFINE p == l[at].prev
           m == MergeCtx(l, n, at)
           a == SetPrev(m, at, n)
           b == SetPrev(a, n, p)
           e == SetNext(b, n, at)
           f == SetNext(e, p, n)
<1>1. p \in Pointer /\ at \in Pointer /\ n \in Pointer /\ at # NULL /\ n # NULL BY PointersAre
<1>2. XList_InsertPrev(l, at, n) = f BY <1>1 DEF XList_InsertPrev, SetPrev, SetNext
<1>3. IsLinks(m) /\ \A x \in ListNodes : m[x].prev = l[x].prev /\ m[x].next = l[x].next BY MergeIs
<1> HIDE DEF m
<1>4. IsLinks(a) /\ \A x \in ListNodes : a[x].prev = (IF x = at THEN n ELSE m[x].prev) /\ a[x].next = m[x].next
  BY <1>1, <1>3, SetPrevIs
<1> HIDE DEF a, p
<1>5. IsLinks(b) /\ \A x \in ListNodes : b[x].prev = (IF x = n THEN p ELSE a[x].prev) /\ b[x].next = a[x].next
  BY <1>1, <1>4, SetPrevIs
<1> HIDE DEF b
<1>6. IsLinks(e) /\ \A x \in ListNodes : e[x].next = (IF x = n THEN at ELSE b[x].next) /\ e[x].prev = b[x].prev
  BY <1>1, <1>5, SetNextIs
<1> HIDE DEF e
<1>7. IsLinks(f) /\ \A x \in ListNodes : f[x].next = (IF x = p THEN n ELSE e[x].next) /\ f[x].prev = e[x].prev
  BY <1>1, <1>6, SetNextIs
<1> HIDE DEF f
<1>8. p # n BY DEF p
<1>9. Put(f, l, n, p, at) BY <1>3, <1>4, <1>5, <1>6, <1>7, <1>8 DEF Put
<1> QED BY <1>2, <1>9 DEF p

LEMMA InsertNextPuts ==
    ASSUME NEW l, IsLinks(l), NEW at \in ListNodes, NEW n \in ListNodes, at # n, l[at].next # n
    PROVE  Put(XList_InsertNext(l, at, n), l, n, at, l[at].next)
<1> DEFINE q == l[at].next
           m == MergeCtx(l, n, at)
           a == SetNext(m, at, n)
           b == SetNext(a, n, q)
           e == SetPrev(b, n, at)
           f == SetPrev(e, q, n)
<1>1. q \in Pointer /\ at \in Pointer /\ n \in Pointer /\ at # NULL /\ n # NULL BY PointersAre
<1>2. XList_InsertNext(l, at, n) = f BY <1>1 DEF XList_InsertNext, SetPrev, SetNext
<1>3. IsLinks(m) /\ \A x \in ListNodes : m[x].prev = l[x].prev /\ m[x].next = l[x].next BY MergeIs
<1> HIDE DEF m
<1>4. IsLinks(a) /\ \A x \in ListNodes : a[x].next = (IF x = at THEN n ELSE m[x].next) /\ a[x].prev = m[x].prev
  BY <1>1, <1>3, SetNextIs
<1> HIDE DEF a, q
<1>5. IsLinks(b) /\ \A x \in ListNodes : b[x].next = (IF x = n THEN q ELSE a[x].next) /\ b[x].prev = a[x].prev
  BY <1>1, <1>4, SetNextIs
<1> HIDE DEF b
<1>6. IsLinks(e) /\ \A x \in ListNodes : e[x].prev = (IF x = n THEN at ELSE b[x].prev) /\ e[x].next = b[x].next
  BY <1>1, <1>5, SetPrevIs
<1> HIDE DEF e
<1>7. IsLinks(f) /\ \A x \in ListNodes : f[x].prev = (IF x = q THEN n ELSE e[x].prev) /\ f[x].next = e[x].next
  BY <1>1, <1>6, SetPrevIs
<1> HIDE DEF f
<1>8. q # n BY DEF q
<1>9. Put(f, l, n, at, q) BY <1>3, <1>4, <1>5, <1>6, <1>7, <1>8 DEF Put
<1> QED BY <1>2, <1>9 DEF q

LEMMA InsertHeadPuts ==
    ASSUME NEW l, IsLinks(l), NEW at, NEW n \in ListNodes, NEW h \in ListNodes, h # n,
           XList_GetHead(l, at) = h, l[h].prev = NULL
    PROVE  Put(XList_InsertHead(l, at, n), l, n, NULL, h)
<1> DEFINE m == MergeCtx(l, n, h)
           a == SetPrev(m, h, n)
           b == SetNext(a, n, h)
           e == SetPrev(b, n, NULL)
<1>1. h \in Pointer /\ n \in Pointer /\ NULL \in Pointer /\ h # NULL /\ n # NULL BY PointersAre
<1>2. XList_InsertHead(l, at, n) = e BY <1>1 DEF XList_InsertHead, SetPrev, SetNext
<1>3. IsLinks(m) /\ \A x \in ListNodes : m[x].prev = l[x].prev /\ m[x].next = l[x].next BY MergeIs
<1> HIDE DEF m
<1>4. IsLinks(a) /\ \A x \in ListNodes : a[x].prev = (IF x = h THEN n ELSE m[x].prev) /\ a[x].next = m[x].next
  BY <1>1, <1>3, SetPrevIs
<1> HIDE DEF a
<1>5. IsLinks(b) /\ \A x \in ListNodes : b[x].next = (IF x = n THEN h ELSE a[x].next) /\ b[x].prev = a[x].prev
  BY <1>1, <1>4, SetNextIs
<1> HIDE DEF b
<1>6. IsLinks(e) /\ \A x \in ListNodes : e[x].prev = (IF x = n THEN NULL ELSE b[x].prev) /\ e[x].next = b[x].next
  BY <1>1, <1>5, SetPrevIs
<1> HIDE DEF e
<1>7. Put(e, l, n, NULL, h) BY <1>3, <1>4, <1>5, <1>6, NullIsNoNode DEF Put
<1> QED BY <1>2, <1>7

LEMMA InsertTailPuts ==
    ASSUME NEW l, IsLinks(l), NEW at, NEW n \in ListNodes, NEW t \in ListNodes, t # n,
           XList_GetTail(l, at) = t, l[t].next = NULL
    PROVE  Put(XList_InsertTail(l, at, n), l, n, t, NULL)
<1> DEFINE m == MergeCtx(l, n, t)
           a == SetNext(m, t, n)
           b == SetPrev(a, n, t)
           e == SetNext(b, n, NULL)
<1>1. t \in Pointer /\ n \in Pointer /\ NULL \in Pointer /\ t # NULL /\ n # NULL BY PointersAre
<1>2. XList_InsertTail(l, at, n) = e BY <1>1 DEF XList_InsertTail, SetPrev, SetNext
<1>3. IsLinks(m) /\ \A x \in ListNodes : m[x].prev = l[x].prev /\ m[x].next = l[x].next BY MergeIs
<1> HIDE DEF m
<1>4. IsLinks(a) /\ \A x \in ListNodes : a[x].next = (IF x = t THEN n ELSE m[x].next) /\ a[x].prev = m[x].prev
  BY <1>1, <1>3, SetNextIs
<1> HIDE DEF a
<1>5. IsLinks(b) /\ \A x \in ListNodes : b[x].prev = (IF x = n THEN t ELSE a[x].prev) /\ b[x].next = a[x].next
  BY <1>1, <1>4, SetPrevIs
<1> HIDE DEF b
<1>6. IsLinks(e) /\ \A x \in ListNodes : e[x].next = (IF x = n THEN NULL ELSE b[x].next) /\ e[x].prev = b[x].prev
  BY <1>1, <1>5, SetNextIs
<1> HIDE DEF e
<1>7. Put(e, l, n, t, NULL) BY <1>3, <1>4, <1>5, <1>6, NullIsNoNode DEF Put
<1> QED BY <1>2, <1>7

\* XList_Detach, and the callback that is cleared with the freed node.
LEMMA DetachTakes ==
    ASSUME NEW l, IsLinks(l), NEW n \in ListNodes
    PROVE  Taken([XList_Detach(l, n) EXCEPT ![n].cb = FALSE], l, n, l[n].prev, l[n].next)
<1> DEFINE p == l[n].prev
           q == l[n].next
           a == SetNext(l, p, q)
           b == SetPrev(a, q, p)
           e == SetPrev(b, n, NULL)
           f == SetNext(e, n, NULL)
           g == [f EXCEPT ![n].cb = FALSE]
<1>1. p \in Pointer /\ q \in Pointer /\ n \in Pointer /\ NULL \in Pointer /\ n # NULL BY PointersAre
<1>2. XList_Detach(l, n) = f BY <1>1 DEF XList_Detach, SetPrev, SetNext
<1> HIDE DEF p, q
<1>3. IsLinks(a) /\ \A x \in ListNodes : a[x].next = (IF x = p THEN q ELSE l[x].next) /\ a[x].prev = l[x].prev
  BY <1>1, SetNextIs
<1> HIDE DEF a
<1>4. IsLinks(b) /\ \A x \in ListNodes : b[x].prev = (IF x = q THEN p ELSE a[x].prev) /\ b[x].next = a[x].next
  BY <1>1, <1>3, SetPrevIs
<1> HIDE DEF b
<1>5. IsLinks(e) /\ \A x \in ListNodes : e[x].prev = (IF x = n THEN NULL ELSE b[x].prev) /\ e[x].next = b[x].next
  BY <1>1, <1>4, SetPrevIs
<1> HIDE DEF e
<1>6. IsLinks(f) /\ \A x \in ListNodes : f[x].next = (IF x = n THEN NULL ELSE e[x].next) /\ f[x].prev = e[x].prev
  BY <1>1, <1>5, SetNextIs
<1> HIDE DEF f
<1>7. IsLinks(g) /\ \A x \in ListNodes : g[x].next = f[x].next /\ g[x].prev = f[x].prev
  BY <1>6 DEF IsLinks
<1> HIDE DEF g
<1>8. Taken(g, l, n, p, q) BY <1>3, <1>4, <1>5, <1>6, <1>7 DEF Taken
<1> QED BY <1>2, <1>8 DEF p, q, g

\* Head and tail of a list are tied together.
LEMMA TiedIsRing ==
    ASSUME NEW l, NEW c, NEW r, Chained(l, c, r), r = FALSE, Len(c) > 0, NEW s, s = TRUE,
           NEW L, L = SetNext(SetPrev(l, c[1], c[Len(c)]), c[Len(c)], c[1])
    PROVE  Chained(L, c, s)
<1> DEFINE h == c[1]
           t == c[Len(c)]
           a == SetPrev(l, h, t)
           b == SetNext(a, t, h)
<1>1. /\ Len(c) \in Nat /\ 1 \in 1..Len(c) /\ Len(c) \in 1..Len(c) /\ IsLinks(l)
      /\ \A j \in 1..Len(c) : c[j] \in ListNodes
  BY DEF Chained
<1>2. h \in Pointer /\ t \in Pointer BY <1>1 DEF Pointer
<1>3. IsLinks(a) /\ \A x \in ListNodes : a[x].prev = (IF x = h THEN t ELSE l[x].prev) /\ a[x].next = l[x].next
  BY <1>1, <1>2, SetPrevIs
<1> HIDE DEF a
<1>4. IsLinks(b) /\ \A x \in ListNodes : b[x].next = (IF x = t THEN h ELSE a[x].next) /\ b[x].prev = a[x].prev
  BY <1>2, <1>3, SetNextIs
<1> HIDE DEF b
<1>5. \A i, j \in 1..Len(c) : c[i] = c[j] => i = j BY DEF Chained
<1>6. ASSUME NEW i \in 1..Len(c) PROVE b[c[i]].next = NextOf(c, s, i)
  <2>1. l[c[i]].next = NextOf(c, r, i) BY DEF Chained
  <2>2. c[i] \in ListNodes /\ (c[i] = t <=> i = Len(c)) BY <1>1, <1>5
  <2> QED BY <1>1, <1>3, <1>4, <2>1, <2>2 DEF NextOf
<1>7. ASSUME NEW i \in 1..Len(c) PROVE b[c[i]].prev = PrevOf(c, s, i)
  <2>1. l[c[i]].prev = PrevOf(c, r, i) BY DEF Chained
  <2>2. c[i] \in ListNodes /\ (c[i] = h <=> i = 1) BY <1>1, <1>5
  <2> QED BY <1>1, <1>3, <1>4, <2>1, <2>2 DEF PrevOf
<1>8. ASSUME NEW m \in ListNodes, \A i \in 1..Len(c) : c[i] # m PROVE b[m].next = NULL /\ b[m].prev = NULL
  <2>1. l[m].next = NULL /\ l[m].prev = NULL BY <1>8 DEF Chained
  <2> QED BY <1>1, <1>3, <1>4, <1>8, <2>1
<1>9. Chained(b, c, s)
  <2>1. c \in Seq(ListNodes) BY DEF Chained
  <2> QED BY <1>4, <1>5, <1>6, <1>7, <1>8, <2>1 DEF Chained
<1> QED BY <1>9 DEF a, b

-----------------------------------------------------------------------------
(* The actions.                                                            *)

\* The nodes of the list and their places.
LEMMA NodesAre ==
    ASSUME Chained(links, chain, ring)
    PROVE  /\ Len(chain) \in Nat /\ chain \in Seq(ListNodes)
           /\ \A n : n \in Nodes <=> \E i \in 1..Len(chain) : chain[i] = n
           /\ \A n \in Nodes : n \in ListNodes /\ Place1(n) \in 1..Len(chain) /\ chain[Place1(n)] = n
<1>1. Len(chain) \in Nat /\ chain \in Seq(ListNodes) BY DEF Chained
<1>2. DOMAIN chain = 1..Len(chain) /\ \A i \in 1..Len(chain) : chain[i] \in ListNodes BY <1>1
<1>3. \A n : n \in Nodes <=> \E i \in 1..Len(chain) : chain[i] = n BY <1>2 DEF Nodes, ToSet
<1>4. ASSUME NEW n \in Nodes PROVE Place1(n) \in 1..Len(chain) /\ chain[Place1(n)] = n
  BY <1>3 DEF Place1
<1> QED BY <1>1, <1>2, <1>3, <1>4

\* One lemma per action: it keeps the invariant.
LEMMA InsertPrevKeeps == ListInv /\ ListInsertPrev => ListInv'
<1> SUFFICES ASSUME ListInv, ListInsertPrev PROVE ListInv' OBVIOUS
<1> USE NullIsNoNode
<1>1. PICK at \in Nodes, n \in ListNodes \ Nodes :
        /\ cursor = NULL
        /\ links' = XList_InsertPrev(links, at, n)
        /\ chain' = InsertAt(chain, Place1(at), n)
        /\ UNCHANGED <<ring, cursor, lost>>
  BY Zenon DEF ListInsertPrev
<1>2. Chained(links, chain, ring) BY DEF ListInv
<1> DEFINE i == Place1(at)
<1>3. Len(chain) \in Nat /\ at \in ListNodes /\ i \in 1..Len(chain) /\ chain[i] = at /\ \A j \in 1..Len(chain) : chain[j] # n
  BY <1>2, NodesAre
<1> HIDE DEF i
<1>4. links[at].prev = PrevOf(chain, ring, i) BY <1>2, <1>3 DEF Chained
<1>5. PrevOf(chain, ring, i) = Left(chain, ring, i) /\ at = Right(chain, ring, i) BY <1>3 DEF PrevOf, Left, Right
<1>6. links[at].prev # n BY <1>3, <1>4 DEF PrevOf
<1>7. Put(links', links, n, Left(chain, ring, i), Right(chain, ring, i))
  <2>1. IsLinks(links) /\ at # n BY <1>2, <1>3 DEF Chained
  <2>2. Put(links', links, n, links[at].prev, at) BY <1>1, <1>3, <1>6, <2>1, InsertPrevPuts
  <2> QED BY <1>4, <1>5, <2>2
<1>8. Chained(links', chain', ring) /\ Len(chain') > 0
  <2>1. i \in 1..(Len(chain) + 1) /\ Len(chain) > 0 BY <1>3
  <2>2. chain' = InsertAt(chain, i, n) BY <1>1 DEF i
  <2> QED BY <1>2, <1>3, <1>7, <2>1, <2>2, InsertChained
<1>9. chain' # << >> BY <1>8
<1> QED BY <1>1, <1>8, <1>9 DEF ListInv

LEMMA InsertNextKeeps == ListInv /\ ListInsertNext => ListInv'
<1> SUFFICES ASSUME ListInv, ListInsertNext PROVE ListInv' OBVIOUS
<1> USE NullIsNoNode
<1>1. PICK at \in Nodes, n \in ListNodes \ Nodes :
        /\ cursor = NULL
        /\ links' = XList_InsertNext(links, at, n)
        /\ chain' = InsertAt(chain, Place1(at) + 1, n)
        /\ UNCHANGED <<ring, cursor, lost>>
  BY Zenon DEF ListInsertNext
<1>2. Chained(links, chain, ring) BY DEF ListInv
<1> DEFINE i == Place1(at)
           k == i + 1
<1>3. Len(chain) \in Nat /\ at \in ListNodes /\ i \in 1..Len(chain) /\ chain[i] = at /\ \A j \in 1..Len(chain) : chain[j] # n
  BY <1>2, NodesAre
<1> HIDE DEF i
<1>4. links[at].next = NextOf(chain, ring, i) BY <1>2, <1>3 DEF Chained
<1>5. NextOf(chain, ring, i) = Right(chain, ring, k) /\ at = Left(chain, ring, k) BY <1>3 DEF NextOf, Left, Right
<1>6. links[at].next # n BY <1>3, <1>4 DEF NextOf
<1>7. Put(links', links, n, Left(chain, ring, k), Right(chain, ring, k))
  <2>1. IsLinks(links) /\ at # n BY <1>2, <1>3 DEF Chained
  <2>2. Put(links', links, n, at, links[at].next) BY <1>1, <1>3, <1>6, <2>1, InsertNextPuts
  <2> QED BY <1>4, <1>5, <2>2
<1>8. Chained(links', chain', ring) /\ Len(chain') > 0
  <2>1. k \in 1..(Len(chain) + 1) /\ Len(chain) > 0 BY <1>3
  <2>2. chain' = InsertAt(chain, k, n) BY <1>1 DEF i
  <2> HIDE DEF k
  <2> QED BY <1>2, <1>3, <1>7, <2>1, <2>2, InsertChained
<1>9. chain' # << >> BY <1>8
<1> QED BY <1>1, <1>8, <1>9 DEF ListInv

LEMMA InsertHeadKeeps == ListInv /\ ListInsertHead => ListInv'
<1> SUFFICES ASSUME ListInv, ListInsertHead PROVE ListInv' OBVIOUS
<1> USE NullIsNoNode
<1>1. PICK at \in Nodes, n \in ListNodes \ Nodes :
        /\ cursor = NULL /\ ~ring
        /\ links' = XList_InsertHead(links, at, n)
        /\ chain' = InsertAt(chain, 1, n)
        /\ UNCHANGED <<ring, cursor, lost>>
  BY Zenon DEF ListInsertHead
<1>2. Chained(links, chain, ring) BY DEF ListInv
<1> DEFINE i == Place1(at)
           h == chain[1]
<1>3. Len(chain) \in Nat /\ i \in 1..Len(chain) /\ chain[i] = at /\ \A j \in 1..Len(chain) : chain[j] # n
  BY <1>2, NodesAre
<1> HIDE DEF i
<1>4. 1 \in 1..Len(chain) /\ h \in ListNodes /\ h # n BY <1>2, <1>3 DEF Chained
<1>5. XList_GetHead(links, at) = h BY <1>1, <1>2, <1>3, HeadIs
<1>6. links[h].prev = NULL BY <1>1, <1>2, <1>4 DEF Chained, PrevOf
<1>7. Put(links', links, n, Left(chain, ring, 1), Right(chain, ring, 1))
  <2>1. Left(chain, ring, 1) = NULL /\ Right(chain, ring, 1) = h BY <1>1, <1>3, <1>4 DEF Left, Right
  <2>2. IsLinks(links) BY <1>2 DEF Chained
  <2> HIDE DEF h
  <2> QED BY <1>1, <1>4, <1>5, <1>6, <2>1, <2>2, InsertHeadPuts
<1>8. Chained(links', chain', ring) /\ Len(chain') > 0
  <2>1. 1 \in 1..(Len(chain) + 1) /\ Len(chain) > 0 BY <1>3
  <2> QED BY <1>1, <1>2, <1>3, <1>7, <2>1, InsertChained
<1>9. chain' # << >> BY <1>8
<1> QED BY <1>1, <1>8, <1>9 DEF ListInv

LEMMA InsertTailKeeps == ListInv /\ ListInsertTail => ListInv'
<1> SUFFICES ASSUME ListInv, ListInsertTail PROVE ListInv' OBVIOUS
<1> USE NullIsNoNode
<1>1. PICK at \in Nodes, n \in ListNodes \ Nodes :
        /\ cursor = NULL /\ ~ring
        /\ links' = XList_InsertTail(links, at, n)
        /\ chain' = InsertAt(chain, Len(chain) + 1, n)
        /\ UNCHANGED <<ring, cursor, lost>>
  BY Zenon DEF ListInsertTail
<1>2. Chained(links, chain, ring) BY DEF ListInv
<1> DEFINE i == Place1(at)
           t == chain[Len(chain)]
           k == Len(chain) + 1
<1>3. Len(chain) \in Nat /\ i \in 1..Len(chain) /\ chain[i] = at /\ \A j \in 1..Len(chain) : chain[j] # n
  BY <1>2, NodesAre
<1> HIDE DEF i
<1>4. Len(chain) \in 1..Len(chain) /\ t \in ListNodes /\ t # n BY <1>2, <1>3 DEF Chained
<1>5. XList_GetTail(links, at) = t BY <1>1, <1>2, <1>3, TailIs
<1>6. links[t].next = NULL BY <1>1, <1>2, <1>4 DEF Chained, NextOf
<1>7. Put(links', links, n, Left(chain, ring, k), Right(chain, ring, k))
  <2>1. Left(chain, ring, k) = t /\ Right(chain, ring, k) = NULL BY <1>1, <1>3, <1>4 DEF Left, Right
  <2>2. IsLinks(links) BY <1>2 DEF Chained
  <2> HIDE DEF t, k
  <2> QED BY <1>1, <1>4, <1>5, <1>6, <2>1, <2>2, InsertTailPuts
<1>8. Chained(links', chain', ring) /\ Len(chain') > 0
  <2>1. k \in 1..(Len(chain) + 1) /\ Len(chain) > 0 BY <1>3
  <2>2. chain' = InsertAt(chain, k, n) BY <1>1
  <2> HIDE DEF k
  <2> QED BY <1>2, <1>3, <1>7, <2>1, <2>2, InsertChained
<1>9. chain' # << >> BY <1>8
<1> QED BY <1>1, <1>8, <1>9 DEF ListInv

\* XList_Unlink of a node takes it out, and returns a node that is left or NULL.
LEMMA UnlinkKeeps ==
    ASSUME Chained(links, chain, ring), ring => Len(chain) > 1, ~lost, NEW n \in Nodes, XList_Unlink(n)
    PROVE  /\ Chained(links', chain', ring) /\ (ring => chain' # << >>) /\ ~lost'
           /\ UnlinkRet(links, n) # NULL => UnlinkRet(links, n) \in ToSet(chain')
<1> USE NullIsNoNode
<1> DEFINE i == Place1(n)
           u == UnlinkRet(links, n)
<1>1. /\ links' = [XList_Detach(links, n) EXCEPT ![n].cb = FALSE]
      /\ chain' = RemoveAt(chain, i)
      /\ u \in (IF Len(chain) = 1 THEN {NULL} ELSE Nodes \ {n}) => ~lost'
  BY DEF XList_Unlink
<1>2. Len(chain) \in Nat /\ chain \in Seq(ListNodes) /\ n \in ListNodes /\ i \in 1..Len(chain) /\ chain[i] = n
  BY NodesAre
<1> HIDE DEF i
<1>3. links[n].next = NextOf(chain, ring, i) /\ links[n].prev = PrevOf(chain, ring, i) BY <1>2 DEF Chained
<1>4. Taken(links', links, chain[i], PrevOf(chain, ring, i), NextOf(chain, ring, i))
  <2>1. IsLinks(links) BY DEF Chained
  <2>2. Taken(links', links, n, links[n].prev, links[n].next) BY <1>1, <1>2, <2>1, DetachTakes
  <2> QED BY <1>2, <1>3, <2>2
<1>5. Chained(links', chain', ring) /\ Len(chain') = Len(chain) - 1
  <2>1. ASSUME NEW L, Taken(L, links, chain[i], PrevOf(chain, ring, i), NextOf(chain, ring, i)),
               NEW d, d = RemoveAt(chain, i)
        PROVE  Chained(L, d, ring) /\ Len(d) = Len(chain) - 1
    BY <1>2, <2>1, RemoveChained
  <2> QED BY <1>1, <1>4, <2>1
<1>6. ring => chain' # << >> BY <1>2, <1>5
<1>7. \A j \in 1..Len(chain) : chain[j] \in ListNodes /\ (chain[j] = n => j = i) BY <1>2 DEF Chained
<1>8. CASE Len(chain) = 1
  <2>1. u = NULL BY <1>2, <1>3, <1>8 DEF NextOf, PrevOf, UnlinkRet
  <2> QED BY <1>1, <1>5, <1>6, <1>8, <2>1
<1>9. CASE Len(chain) # 1
  <2>1. PICK j \in 1..Len(chain) : j # i /\ u = chain[j]
    <3>1. CASE i < Len(chain)
      <4>1. i + 1 \in 1..Len(chain) /\ links[n].next = chain[i + 1] BY <1>2, <1>3, <3>1 DEF NextOf
      <4> QED BY <1>2, <1>7, <4>1 DEF UnlinkRet
    <3>2. CASE i = Len(chain) /\ ring
      <4>1. 1 \in 1..Len(chain) /\ 1 # i /\ links[n].next = chain[1] BY <1>2, <1>3, <1>9, <3>2 DEF NextOf
      <4> QED BY <1>7, <4>1 DEF UnlinkRet
    <3>3. CASE i = Len(chain) /\ ~ring
      <4>1. links[n].next = NULL BY <1>2, <1>3, <3>3 DEF NextOf
      <4>2. i - 1 \in 1..Len(chain) /\ links[n].prev = chain[i - 1] BY <1>2, <1>3, <1>9, <3>3 DEF PrevOf
      <4> QED BY <1>2, <4>1, <4>2 DEF UnlinkRet
    <3> QED BY <1>2, <3>1, <3>2, <3>3
  <2>2. u \in Nodes \ {n}
    <3>1. u \in Nodes BY <2>1, NodesAre
    <3> QED BY <1>7, <2>1, <3>1
  <2>3. u \in ToSet(chain')
    <3>1. Removed(chain', chain, i) BY <1>1, <1>2, RemoveAtIs
    <3>2. \E k \in 1..Len(chain') : chain'[k] = chain[j]
      <4>1. CASE j < i
        <5>1. j \in 1..Len(chain') /\ chain'[j] = chain[j] BY <1>2, <3>1, <4>1 DEF Removed
        <5> QED BY <5>1
      <4>2. CASE j > i
        <5>1. j - 1 \in 1..Len(chain') /\ chain'[j - 1] = chain[j] BY <1>2, <3>1, <4>2 DEF Removed
        <5> QED BY <5>1
      <4> QED BY <1>2, <2>1, <4>1, <4>2
    <3>3. DOMAIN chain' = 1..Len(chain') BY <3>1 DEF Removed
    <3> QED BY <2>1, <3>2, <3>3 DEF ToSet
  <2> QED BY <1>1, <1>5, <1>6, <1>9, <2>2, <2>3
<1> QED BY <1>8, <1>9

LEMMA UnlinkStep == ListInv /\ ListUnlink => ListInv'
<1> SUFFICES ASSUME ListInv, ListUnlink PROVE ListInv' OBVIOUS
<1>1. PICK at \in Nodes, S \in SUBSET ListNodes :
        LET n == IF ring THEN at ELSE XList_Search(links, at, S) IN
        /\ cursor = NULL /\ (ring => Len(chain) > 1)
        /\ n # NULL
        /\ XList_Unlink(n)
        /\ UNCHANGED <<ring, cursor>>
  BY Zenon DEF ListUnlink
<1> DEFINE n == IF ring THEN at ELSE XList_Search(links, at, S)
<1>2. cursor = NULL /\ (ring => Len(chain) > 1) /\ n # NULL /\ XList_Unlink(n) /\ ring' = ring /\ cursor' = cursor
  BY <1>1
<1>3. Chained(links, chain, ring) /\ ~lost BY DEF ListInv
<1>4. n \in Nodes
  <2>1. CASE ring BY <2>1
  <2>2. CASE ~ring
    <3>1. PICK i \in 1..Len(chain) : chain[i] = at BY <1>3, NodesAre
    <3>2. XList_Search(links, chain[i], S) # NULL BY <1>2, <2>2, <3>1
    <3>3. \E j \in 1..Len(chain) : XList_Search(links, chain[i], S) = chain[j] BY <1>3, <2>2, <3>2, SearchIs
    <3> QED BY <1>3, <2>2, <3>1, <3>3, NodesAre
  <2> QED BY <2>1, <2>2
<1> HIDE DEF n
<1>5. Chained(links', chain', ring) /\ (ring => chain' # << >>) /\ ~lost' BY <1>2, <1>3, <1>4, UnlinkKeeps
<1> QED BY <1>2, <1>5 DEF ListInv

LEMMA MakeRingKeeps == ListInv /\ ListMakeRing => ListInv'
<1> SUFFICES ASSUME ListInv, ListMakeRing PROVE ListInv' OBVIOUS
<1>1. PICK at \in Nodes :
        /\ cursor = NULL /\ ~ring
        /\ links' = XList_MakeRing(links, at)
        /\ ring' = TRUE
        /\ UNCHANGED <<chain, cursor, lost>>
  BY Zenon DEF ListMakeRing
<1>2. Chained(links, chain, ring) BY DEF ListInv
<1>3. PICK i \in 1..Len(chain) : chain[i] = at BY <1>2, NodesAre
<1>4. Len(chain) > 0 BY <1>2, <1>3, NodesAre
<1>5. XList_GetHead(links, at) = chain[1] /\ XList_GetTail(links, at) = chain[Len(chain)]
  BY <1>1, <1>2, <1>3, HeadIs, TailIs
<1>6. links' = SetNext(SetPrev(links, chain[1], chain[Len(chain)]), chain[Len(chain)], chain[1])
  BY <1>1, <1>5 DEF XList_MakeRing
<1>7. Chained(links', chain, ring')
  <2>1. ring = FALSE BY <1>1, <1>2 DEF Chained
  <2>2. ring' = TRUE BY <1>1
  <2> QED BY <1>2, <1>4, <1>6, <2>1, <2>2, TiedIsRing
<1>8. chain # << >> BY <1>4
<1> QED BY <1>1, <1>7, <1>8 DEF ListInv

LEMMA ClearKeeps == ListInv /\ ListClear => ListInv'
<1> SUFFICES ASSUME ListInv, ListClear PROVE ListInv' OBVIOUS
<1>1. /\ ~ring /\ cursor' \in Nodes
      /\ links' = links /\ chain' = chain /\ ring' = ring /\ lost' = lost
  BY DEF ListClear
<1>2. Nodes' = Nodes BY <1>1 DEF Nodes
<1> QED BY <1>1, <1>2 DEF ListInv

LEMMA ClearNextKeeps == ListInv /\ ListClearNext => ListInv'
<1> SUFFICES ASSUME ListInv, ListClearNext PROVE ListInv' OBVIOUS
<1>1. cursor # NULL /\ XList_Unlink(cursor) /\ cursor' = UnlinkRet(links, cursor) /\ ring' = ring
  BY DEF ListClearNext
<1>2. Chained(links, chain, ring) /\ ~lost /\ cursor \in Nodes /\ ~ring BY <1>1 DEF ListInv
<1>3. /\ Chained(links', chain', ring) /\ ~lost'
      /\ UnlinkRet(links, cursor) # NULL => UnlinkRet(links, cursor) \in ToSet(chain')
  BY <1>1, <1>2, UnlinkKeeps
<1>4. Nodes' = ToSet(chain') BY DEF Nodes
<1> QED BY <1>1, <1>2, <1>3, <1>4 DEF ListInv

\* A list of one node.
LEMMA OneNode ==
    ASSUME NEW l, IsLinks(l), NEW n \in ListNodes, NEW r \in BOOLEAN, ~r,
           \A m \in ListNodes : l[m].next = NULL /\ l[m].prev = NULL
    PROVE  Chained(l, <<n>>, r)
<1> DEFINE c == <<n>>
<1>1. c \in Seq(ListNodes) /\ Len(c) = 1 /\ c[1] = n OBVIOUS
<1> HIDE DEF c
<1>2. Chained(l, c, r) BY <1>1 DEF Chained, NextOf, PrevOf
<1> QED BY <1>2 DEF c

LEMMA BeginKeeps == ListInv /\ ListBegin => ListInv'
<1> SUFFICES ASSUME ListInv, ListBegin PROVE ListInv' OBVIOUS
<1>1. PICK n \in ListNodes, cb \in BOOLEAN :
        /\ chain = << >> /\ cursor = NULL
        /\ links' = [links EXCEPT ![n] = Unlinked(cb)]
        /\ chain' = <<n>>
        /\ UNCHANGED <<ring, cursor, lost>>
  BY Zenon DEF ListBegin
<1>2. Chained(links, chain, ring) /\ ~ring /\ ring \in BOOLEAN BY <1>1 DEF ListInv, Chained
<1>3. IsLinks(links) /\ \A m \in ListNodes : links[m].next = NULL /\ links[m].prev = NULL
  <2>1. Len(chain) = 0 BY <1>1
  <2> QED BY <1>2, <2>1 DEF Chained
<1>4. IsLinks(links') /\ \A m \in ListNodes : links'[m].next = NULL /\ links'[m].prev = NULL
  BY <1>1, <1>3 DEF IsLinks, Unlinked, Pointer
<1>5. Chained(links', chain', ring) BY <1>1, <1>2, <1>4, OneNode
<1> QED BY <1>1, <1>2, <1>5 DEF ListInv

LEMMA ListBegins == ListInit => ListInv
<1> SUFFICES ASSUME ListInit PROVE ListInv OBVIOUS
<1>1. PICK n \in ListNodes, cb \in BOOLEAN :
        /\ links = [m \in ListNodes |-> Unlinked(m = n /\ cb)]
        /\ chain = <<n>>
  BY Zenon DEF ListInit
<1>2. ring = FALSE /\ cursor = NULL /\ lost = FALSE BY DEF ListInit
<1>3. IsLinks(links) /\ \A m \in ListNodes : links[m].next = NULL /\ links[m].prev = NULL
  BY <1>1 DEF IsLinks, Unlinked, Pointer
<1>4. Chained(links, chain, ring) BY <1>1, <1>2, <1>3, OneNode
<1> QED BY <1>2, <1>4 DEF ListInv

LEMMA ListStutters == ListInv /\ UNCHANGED listVars => ListInv'
BY DEF ListInv, listVars, Nodes

\* Every function of list.c keeps pNext and pPrev those of one chain of nodes, or of
\* one ring, and XList_Clear stands at a node that is still in the list.
THEOREM ListInvariant == ListSpec => []ListInv
<1>1. ListInv /\ [ListNext]_listVars => ListInv'
  BY InsertPrevKeeps, InsertNextKeeps, InsertHeadKeeps, InsertTailKeeps, UnlinkStep, MakeRingKeeps, ClearKeeps,
     ClearNextKeeps, BeginKeeps, ListStutters, Zenon DEF ListNext
<1> QED BY <1>1, ListBegins, PTL DEF ListSpec

\* Whatever the order of insertions and removals, the list can be walked in both
\* directions through the same nodes, XList_IsRing tells whether it was closed, and
\* XList_Unlink and XList_Clear free no node twice and leave none behind.
THEOREM ListStaysLinked == ListSpec => []ListLinked
<1>1. ListInv => ListLinked
  <2> SUFFICES ASSUME ListInv PROVE ListLinked OBVIOUS
  <2>1. Chained(links, chain, ring) /\ ~lost BY DEF ListInv
  <2>2. \A i \in 1..Len(chain) : links[chain[i]].next = NextOf(chain, ring, i) /\ links[chain[i]].prev = PrevOf(chain, ring, i)
    BY <2>1 DEF Chained
  <2>3. ASSUME NEW m \in ListNodes \ Nodes PROVE links[m].next = NULL /\ links[m].prev = NULL
    <3>1. \A i \in 1..Len(chain) : chain[i] # m BY <2>1, NodesAre
    <3> QED BY <2>1, <3>1 DEF Chained
  <2>4. ASSUME NEW m \in Nodes PROVE XList_IsRing(links, m) = ring
    <3>1. PICK i \in 1..Len(chain) : chain[i] = m BY <2>1, NodesAre
    <3>2. XList_IsRing(links, m) <=> ring BY <2>1, <3>1, RingIs
    <3>3. XList_IsRing(links, m) \in BOOLEAN /\ ring \in BOOLEAN BY <2>1 DEF XList_IsRing, Chained
    <3> QED BY <3>2, <3>3
  <2> QED BY <2>1, <2>2, <2>3, <2>4 DEF ListLinked
<1> QED BY <1>1, ListInvariant, PTL

-----------------------------------------------------------------------------
(* The string map, src/data/map.c.                                         *)

Cell == [st : {"UNUSED", "USED", "DELETED"}, key : MapKeys \cup {NoValue}, val : MapValues \cup {NoValue}]

IsMap(m) ==
    /\ DOMAIN m = {"null", "pairs", "size", "count", "deleted", "update"}
    /\ m.size \in Nat /\ m.pairs \in Seq(Cell)
    /\ m.null => Len(m.pairs) = 0
    /\ ~m.null => Len(m.pairs) = m.size /\ m.size > 0

\* Cell i of the table p holds key k.
Holds(p, k, i) == i \in 1..Len(p) /\ p[i].st = "USED" /\ p[i].key = k

Keyed(p) == \A i \in 1..Len(p) : p[i].st = "USED" => p[i].key \in MapKeys
Once(p) == \A i, j \in 1..Len(p) : p[i].st = "USED" /\ p[j].st = "USED" /\ p[i].key = p[j].key => i = j

\* Cell i is that of the j-th probe for k, and no probe before it ends the search.
IsProbed(m, k, i, j) ==
    /\ j \in 0..(m.size - 1) /\ XMap_Hash(m, k, j) = i
    /\ \A g \in 0..(j - 1) : Probe(m, k, g).st # "UNUSED"
Reached(m) == \A i \in 1..Len(m.pairs) : m.pairs[i].st = "USED" => \E j : IsProbed(m, m.pairs[i].key, i, j)

Cells(p, st) == {i \in 1..Len(p) : p[i].st = st}
Exact(m) == m.count = Cardinality(Cells(m.pairs, "USED")) /\ m.deleted = Cardinality(Cells(m.pairs, "DELETED"))

TableOK(m) == IsMap(m) /\ Keyed(m.pairs) /\ Once(m.pairs) /\ Reached(m) /\ Exact(m)

\* The table p has for every key a value that d admits.
Fits(p, d) ==
    \A k \in MapKeys : /\ \A i : Holds(p, k, i) => p[i].val \in d[k]
                       /\ (\A i : ~Holds(p, k, i)) => NoValue \in d[k]

\* The map m has the pairs of the first n - 1 cells of the table p.
Copied(m, p, n) ==
    /\ p \in Seq(Cell) /\ Keyed(p) /\ Once(p)
    /\ n \in 1..(Len(p) + 1) /\ Len(p) <= m.size /\ m.count < n
    /\ \A i \in 1..Len(m.pairs) : m.pairs[i].st = "USED" => \E j \in 1..(n - 1) : p[j] = m.pairs[i]
    /\ \A j \in 1..(n - 1) : p[j].st = "USED" => \E i \in 1..Len(m.pairs) : m.pairs[i] = p[j]

IsCall(c) ==
    /\ DOMAIN c = {"pc", "key", "val", "old", "i", "after"}
    /\ c.pc \in {"idle", "full", "find", "move"} /\ c.after \in {"idle", "find"}
    /\ c.pc \in {"full", "find"} \/ (c.pc = "move" /\ c.after = "find") => c.key \in MapKeys /\ c.val \in MapValues

MapInv ==
    /\ TableOK(map) /\ IsCall(call)
    /\ DOMAIN dict = MapKeys
    /\ call.pc \in {"idle", "full", "find"} => Fits(map.pairs, dict)
    /\ call.pc \in {"find", "move"} => ~map.null
    /\ call.pc = "move" => Fits(call.old, dict) /\ Copied(map, call.old, call.i)

-----------------------------------------------------------------------------
(* Probing.                                                                *)

\* Around the end of the table.
LEMMA Around ==
    ASSUME NEW n \in Nat \ {0}, NEW a \in 0..(n - 1), NEW j \in 0..(n - 1)
    PROVE  (a + j) % n = IF a + j < n THEN a + j ELSE a + j - n
BY SMT

\* The probes for a key visit every cell once.
LEMMA HashIs ==
    ASSUME NEW m, IsMap(m), ~m.null, NEW k \in MapKeys
    PROVE  /\ \A j \in 0..(m.size - 1) : XMap_Hash(m, k, j) \in 1..Len(m.pairs)
           /\ \A i, j \in 0..(m.size - 1) : XMap_Hash(m, k, i) = XMap_Hash(m, k, j) => i = j
           /\ \A c \in 1..Len(m.pairs) : \E j \in 0..(m.size - 1) : XMap_Hash(m, k, j) = c
<1> DEFINE n == m.size
           a == KeyHash[k] % n
<1>1. n \in Nat \ {0} /\ Len(m.pairs) = n BY DEF IsMap
<1>2. a \in 0..(n - 1)
  <2>1. KeyHash[k] \in Nat BY MapAssumption
  <2> QED BY <1>1, <2>1, DivMod
<1>3. \A j : XMap_Hash(m, k, j) = 1 + ((a + j) % n) BY DEF XMap_Hash
<1> HIDE DEF n, a
<1>4. ASSUME NEW j \in 0..(n - 1) PROVE XMap_Hash(m, k, j) = 1 + (IF a + j < n THEN a + j ELSE a + j - n)
  <2>1. (a + j) % n = IF a + j < n THEN a + j ELSE a + j - n BY <1>1, <1>2, Around
  <2> QED BY <1>3, <2>1
<1>5. \A j \in 0..(n - 1) : XMap_Hash(m, k, j) \in 1..n BY <1>1, <1>2, <1>4
<1>6. \A i, j \in 0..(n - 1) : XMap_Hash(m, k, i) = XMap_Hash(m, k, j) => i = j BY <1>1, <1>2, <1>4
<1>7. ASSUME NEW c \in 1..n PROVE \E j \in 0..(n - 1) : XMap_Hash(m, k, j) = c
  <2> DEFINE j == IF c - 1 >= a THEN c - 1 - a ELSE c - 1 - a + n
  <2>1. j \in 0..(n - 1) /\ 1 + (IF a + j < n THEN a + j ELSE a + j - n) = c BY <1>1, <1>2
  <2> HIDE DEF j
  <2> QED BY <1>4, <2>1
<1> QED BY <1>1, <1>5, <1>6, <1>7 DEF n

LEMMA MinIs ==
    ASSUME NEW S, S \subseteq Nat, S # {}
    PROVE  Min(S) \in S /\ \A x \in S : Min(S) <= x
<1>1. \E x \in S : \A y \in S : x <= y BY Least
<1> QED BY <1>1, Zenon DEF Min

\* The cell that holds a key is found.
LEMMA IndexFound ==
    ASSUME NEW m, TableOK(m), ~m.null, NEW k \in MapKeys, NEW i, Holds(m.pairs, k, i)
    PROVE  XMap_GetIndex(m, k) = i
<1>1. IsMap(m) /\ i \in 1..Len(m.pairs) /\ m.pairs[i].st = "USED" /\ m.pairs[i].key = k BY DEF TableOK, Holds
<1>2. PICK j : IsProbed(m, k, i, j) BY <1>1 DEF TableOK, Reached
<1>3. j \in 0..(m.size - 1) /\ XMap_Hash(m, k, j) = i /\ \A g \in 0..(j - 1) : Probe(m, k, g).st # "UNUSED" BY <1>2 DEF IsProbed
<1>4. m.size \in Nat /\ m.size > 0 BY <1>1 DEF IsMap
<1>5. Probe(m, k, j) = m.pairs[i] BY <1>3 DEF Probe
<1>6. j \in Ends(m, k) /\ Ends(m, k) \subseteq Nat BY <1>1, <1>3, <1>5 DEF Ends
<1>7. ASSUME NEW e \in Ends(m, k) PROVE e >= j
  <2>1. e \in 0..(m.size - 1) /\ (Probe(m, k, e).st = "UNUSED" \/ (Probe(m, k, e).st = "USED" /\ Probe(m, k, e).key = k))
    BY DEF Ends
  <2> SUFFICES ASSUME e < j PROVE FALSE BY <1>3, <2>1
  <2>2. e \in 0..(j - 1) BY <1>3, <2>1
  <2>3. Probe(m, k, e).st = "USED" /\ Probe(m, k, e).key = k BY <1>3, <2>1, <2>2
  <2>4. XMap_Hash(m, k, e) \in 1..Len(m.pairs) BY <1>1, <2>1, HashIs
  <2>5. XMap_Hash(m, k, e) = i BY <1>1, <2>3, <2>4 DEF TableOK, Once, Probe
  <2>6. e = j BY <1>1, <1>3, <2>1, <2>5, HashIs
  <2> QED BY <1>3, <2>6
<1>8. Min(Ends(m, k)) = j
  <2>1. Min(Ends(m, k)) \in Ends(m, k) /\ Min(Ends(m, k)) <= j BY <1>6, MinIs
  <2>2. Min(Ends(m, k)) >= j BY <1>7, <2>1
  <2>3. Min(Ends(m, k)) \in Nat BY <1>6, <2>1
  <2> QED BY <1>3, <2>1, <2>2, <2>3
<1>9. Ends(m, k) # {} /\ m.size # 0 BY <1>4, <1>6
<1> QED BY <1>1, <1>3, <1>5, <1>8, <1>9 DEF XMap_GetIndex

\* A key that no cell holds is not found.
LEMMA IndexMissing ==
    ASSUME NEW m, TableOK(m), NEW k \in MapKeys, \A i : ~Holds(m.pairs, k, i)
    PROVE  XMap_GetIndex(m, k) = 0
<1>1. CASE m.null \/ m.size = 0 \/ Ends(m, k) = {} BY <1>1 DEF XMap_GetIndex
<1>2. CASE ~m.null /\ m.size # 0 /\ Ends(m, k) # {}
  <2> DEFINE e == Min(Ends(m, k))
  <2>1. IsMap(m) BY DEF TableOK
  <2>2. Ends(m, k) \subseteq Nat BY <2>1 DEF Ends, IsMap
  <2>3. e \in Ends(m, k) BY <1>2, <2>2, MinIs
  <2> HIDE DEF e
  <2>4. e \in 0..(m.size - 1) /\ (Probe(m, k, e).st = "UNUSED" \/ (Probe(m, k, e).st = "USED" /\ Probe(m, k, e).key = k))
    BY <2>3 DEF Ends
  <2>5. XMap_Hash(m, k, e) \in 1..Len(m.pairs) BY <1>2, <2>1, <2>4, HashIs
  <2>6. Probe(m, k, e).st # "USED" BY <2>4, <2>5 DEF Holds, Probe
  <2>7. XMap_GetIndex(m, k) = IF Probe(m, k, e).st = "USED" THEN XMap_Hash(m, k, e) ELSE 0
    BY <1>2 DEF XMap_GetIndex, e
  <2> QED BY <2>6, <2>7
<1> QED BY <1>1, <1>2

\* A cell in which k may be put.
IsVacant(m, k, i) ==
    /\ \A c : ~Holds(m.pairs, k, c)
    /\ i \in 1..Len(m.pairs) /\ m.pairs[i].st # "USED" /\ \E j : IsProbed(m, k, i, j)
IsCrowded(m, k) ==
    /\ \A c : ~Holds(m.pairs, k, c)
    /\ \A c \in 1..Len(m.pairs) : m.pairs[c].st = "USED"

\* XMap_GetHash returns the cell of the key, else one where it will be found, and
\* XMAP_FULL only when every cell is in use.
LEMMA GetHashIs ==
    ASSUME NEW m, TableOK(m), ~m.null, NEW k \in MapKeys
    PROVE  \/ Holds(m.pairs, k, XMap_GetHash(m, k))
           \/ IsVacant(m, k, XMap_GetHash(m, k))
           \/ XMap_GetHash(m, k) = 0 /\ IsCrowded(m, k)
<1> DEFINE n == m.size
           ends == Ends(m, k)
           end == IF ends = {} THEN n ELSE Min(ends)
           free == {i \in 0..(end - 1) : Probe(m, k, i).st = "DELETED"}
           h == XMap_GetHash(m, k)
<1>1. h = CASE ends # {} /\ Probe(m, k, end).st = "USED" -> XMap_Hash(m, k, end)
            [] free # {} /\ (ends = {} \/ Probe(m, k, end).st # "USED") -> XMap_Hash(m, k, Min(free))
            [] free = {} /\ ends # {} /\ Probe(m, k, end).st # "USED" -> XMap_Hash(m, k, end)
            [] free = {} /\ ends = {} -> 0
  BY Zenon DEF XMap_GetHash
<1>2. IsMap(m) /\ n \in Nat /\ n > 0 /\ Len(m.pairs) = n /\ m.pairs \in Seq(Cell) BY DEF TableOK, IsMap
<1>3. \A j \in 0..(n - 1) : XMap_Hash(m, k, j) \in 1..n /\ Probe(m, k, j) = m.pairs[XMap_Hash(m, k, j)] /\ Probe(m, k, j) \in Cell
  BY <1>2, HashIs DEF Probe
<1>4. ends \subseteq Nat
      /\ \A j \in 0..(n - 1) : j \in ends <=> Probe(m, k, j).st = "UNUSED" \/ (Probe(m, k, j).st = "USED" /\ Probe(m, k, j).key = k)
  BY <1>2 DEF Ends
<1>5. ends \subseteq 0..(n - 1) BY DEF Ends
<1> HIDE DEF ends, h, n
<1>6. /\ ends # {} => end \in ends /\ end \in 0..(n - 1)
      /\ ends = {} => end = n
      /\ \A j \in 0..(n - 1) : j < end => j \notin ends
  <2>1. CASE ends = {} BY <2>1
  <2>2. CASE ends # {}
    <3>1. end \in ends /\ \A x \in ends : end <= x BY <1>4, <2>2, MinIs
    <3> HIDE DEF end
    <3>2. end \in 0..(n - 1) BY <1>5, <3>1
    <3> QED BY <1>2, <2>2, <3>1, <3>2
  <2> QED BY <2>1, <2>2
<1> HIDE DEF end
<1>7. end \in 0..n BY <1>2, <1>6
\* A key that is held is held where the probes end.
<1>8. ASSUME NEW c, Holds(m.pairs, k, c) PROVE ends # {} /\ Probe(m, k, end).st = "USED"
  <2>1. c \in 1..Len(m.pairs) /\ m.pairs[c].st = "USED" /\ m.pairs[c].key = k BY <1>8 DEF Holds
  <2>2. PICK j : IsProbed(m, k, c, j) BY <2>1 DEF TableOK, Reached
  <2>3. j \in 0..(n - 1) /\ XMap_Hash(m, k, j) = c /\ \A g \in 0..(j - 1) : Probe(m, k, g).st # "UNUSED" BY <2>2 DEF IsProbed, n
  <2>4. j \in ends BY <1>3, <1>4, <2>1, <2>3
  <2>5. end <= j BY <1>6, <1>7, <2>3, <2>4
  <2>6. CASE end = j BY <1>3, <2>1, <2>3, <2>4, <2>6
  <2>7. CASE end # j
    <3>1. end \in 0..(j - 1) BY <1>7, <2>3, <2>5, <2>7
    <3> QED BY <1>4, <1>6, <2>3, <2>4, <3>1
  <2> QED BY <2>6, <2>7
<1>9. CASE ends # {} /\ Probe(m, k, end).st = "USED"
  <2>1. h = XMap_Hash(m, k, end) BY <1>1, <1>9
  <2>2. Probe(m, k, end).key = k BY <1>4, <1>6, <1>9
  <2> QED BY <1>2, <1>3, <1>6, <1>9, <2>1, <2>2 DEF Holds, h
<1>10. CASE free # {} /\ (ends = {} \/ Probe(m, k, end).st # "USED")
  <2> DEFINE f == Min(free)
  <2>1. h = XMap_Hash(m, k, f) BY <1>1, <1>10
  <2>2. free \subseteq Nat BY <1>7
  <2>3. f \in free BY <1>10, <2>2, MinIs
  <2>4. f \in 0..(end - 1) /\ Probe(m, k, f).st = "DELETED" BY <2>3
  <2> HIDE DEF f
  <2>5. f \in 0..(n - 1) BY <1>2, <1>7, <2>4
  <2>6. ASSUME NEW g \in 0..(f - 1) PROVE Probe(m, k, g).st # "UNUSED"
    <3>1. g \in 0..(n - 1) /\ g < end BY <1>2, <1>7, <2>4, <2>5
    <3> QED BY <1>4, <1>6, <3>1
  <2>7. IsProbed(m, k, h, f) BY <2>1, <2>5, <2>6 DEF IsProbed, n
  <2>8. \A c : ~Holds(m.pairs, k, c) BY <1>8, <1>10
  <2>9. h \in 1..Len(m.pairs) /\ m.pairs[h].st # "USED" BY <1>2, <1>3, <2>1, <2>4, <2>5
  <2> QED BY <2>7, <2>8, <2>9 DEF IsVacant, h
<1>11. CASE free = {} /\ ends # {} /\ Probe(m, k, end).st # "USED"
  <2>1. h = XMap_Hash(m, k, end) BY <1>1, <1>11
  <2>2. end \in 0..(n - 1) BY <1>6, <1>11
  <2>3. ASSUME NEW g \in 0..(end - 1) PROVE Probe(m, k, g).st # "UNUSED"
    <3>1. g \in 0..(n - 1) /\ g < end BY <1>2, <2>2
    <3> QED BY <1>4, <1>6, <3>1
  <2>4. IsProbed(m, k, h, end) BY <2>1, <2>2, <2>3 DEF IsProbed, n
  <2>5. \A c : ~Holds(m.pairs, k, c) BY <1>8, <1>11
  <2>6. h \in 1..Len(m.pairs) /\ m.pairs[h].st # "USED" BY <1>2, <1>3, <1>11, <2>1, <2>2
  <2> QED BY <2>4, <2>5, <2>6 DEF IsVacant, h
<1>12. CASE free = {} /\ ends = {}
  <2>1. h = 0 BY <1>1, <1>12
  <2>2. \A c : ~Holds(m.pairs, k, c) BY <1>8, <1>12
  <2>3. ASSUME NEW c \in 1..n PROVE m.pairs[c].st = "USED"
    <3>1. PICK j \in 0..(n - 1) : XMap_Hash(m, k, j) = c BY <1>2, HashIs DEF n
    <3>2. end = n BY <1>6, <1>12
    <3>3. Probe(m, k, j).st # "DELETED" BY <1>12, <3>2
    <3>4. Probe(m, k, j).st # "UNUSED" BY <1>4, <1>12
    <3>5. Probe(m, k, j).st \in {"UNUSED", "USED", "DELETED"} BY <1>3 DEF Cell
    <3> QED BY <1>3, <3>1, <3>3, <3>4, <3>5
  <2> QED BY <1>2, <2>1, <2>2, <2>3 DEF IsCrowded, h
<1> QED BY <1>9, <1>10, <1>11, <1>12

-----------------------------------------------------------------------------
(* The functions of map.c.                                                 *)

\* A table in which cell i became c, and how many cells of status s it has.
Changed(q, p, i, c) ==
    /\ q \in Seq(Cell) /\ Len(q) = Len(p)
    /\ \A j \in 1..Len(p) : q[j] = IF j = i THEN c ELSE p[j]

LEMMA ChangeIs ==
    ASSUME NEW p \in Seq(Cell), NEW i \in 1..Len(p), NEW c \in Cell
    PROVE  Changed([p EXCEPT ![i] = c], p, i, c)
BY DEF Changed

LEMMA CellsFinite ==
    ASSUME NEW p \in Seq(Cell), NEW s
    PROVE  IsFiniteSet(Cells(p, s)) /\ Cardinality(Cells(p, s)) \in Nat
<1>1. IsFiniteSet(1..Len(p)) BY FS_Interval
<1>2. Cells(p, s) \in SUBSET (1..Len(p)) BY DEF Cells
<1>3. IsFiniteSet(Cells(p, s)) BY <1>1, <1>2, FS_Subset
<1> QED BY <1>3, FS_CardinalityType

LEMMA ChangeCounts ==
    ASSUME NEW p \in Seq(Cell), NEW i \in 1..Len(p), NEW c \in Cell, NEW q, Changed(q, p, i, c), NEW s
    PROVE  /\ Cardinality(Cells(q, s)) = Cardinality(Cells(p, s)) + (IF c.st = s THEN 1 ELSE 0) - (IF p[i].st = s THEN 1 ELSE 0)
           /\ p[i].st = s => Cardinality(Cells(p, s)) > 0
<1> DEFINE P == Cells(p, s)
           Q == Cells(q, s)
<1>1. IsFiniteSet(P) /\ Cardinality(P) \in Nat BY CellsFinite
<1>2. IsFiniteSet(Q) /\ Cardinality(Q) \in Nat BY CellsFinite DEF Changed
<1>3. (i \in P <=> p[i].st = s) /\ (i \in Q <=> c.st = s) BY DEF Cells, Changed
<1>4. \A j : j # i => (j \in P <=> j \in Q) BY DEF Cells, Changed
<1> HIDE DEF P, Q
<1>5. P \ {i} = Q \ {i} BY <1>4
<1>6. Cardinality(P \ {i}) = IF i \in P THEN Cardinality(P) - 1 ELSE Cardinality(P) BY <1>1, FS_RemoveElement
<1>7. Cardinality(Q \ {i}) = IF i \in Q THEN Cardinality(Q) - 1 ELSE Cardinality(Q) BY <1>2, FS_RemoveElement
<1>8. i \in P => Cardinality(P) > 0 BY <1>1, FS_EmptySet
<1>9. Cardinality(Q) = Cardinality(P) + (IF c.st = s THEN 1 ELSE 0) - (IF p[i].st = s THEN 1 ELSE 0)
  <2> DEFINE x == Cardinality(P)
             y == Cardinality(Q)
  <2>1. (IF i \in P THEN x - 1 ELSE x) = IF i \in Q THEN y - 1 ELSE y BY <1>5, <1>6, <1>7
  <2>2. x \in Nat /\ y \in Nat BY <1>1, <1>2
  <2> HIDE DEF x, y
  <2>3. y = x + (IF c.st = s THEN 1 ELSE 0) - (IF p[i].st = s THEN 1 ELSE 0) BY <1>3, <2>1, <2>2
  <2> QED BY <2>3 DEF x, y
<1> QED BY <1>3, <1>8, <1>9 DEF P, Q

\* The map S is m with cell i changed to c.
Alters(S, m, i, c) ==
    /\ DOMAIN S = DOMAIN m /\ (S.null <=> m.null) /\ S.size = m.size /\ (S.update <=> m.update)
    /\ Changed(S.pairs, m.pairs, i, c)

LEMMA StoreIs ==
    ASSUME NEW m, IsMap(m), NEW i \in 1..Len(m.pairs), NEW c \in Cell
    PROVE  /\ Alters(Store(m, i, c), m, i, c)
           /\ Store(m, i, c).deleted = IF m.pairs[i].st = "DELETED" /\ m.deleted > 0 THEN m.deleted - 1 ELSE m.deleted
           /\ Store(m, i, c).count = IF m.pairs[i].st # "USED" THEN m.count + 1 ELSE m.count
<1> DEFINE d == IF m.pairs[i].st = "DELETED" /\ m.deleted > 0 THEN m.deleted - 1 ELSE m.deleted
           n == IF m.pairs[i].st # "USED" THEN m.count + 1 ELSE m.count
           q == [m.pairs EXCEPT ![i] = c]
           S == [m EXCEPT !.pairs = q, !.deleted = d, !.count = n]
<1>1. Store(m, i, c) = S BY DEF Store
<1>2. Changed(q, m.pairs, i, c) BY ChangeIs DEF IsMap
<1> HIDE DEF d, n, q
<1>3. S.pairs = q /\ S.deleted = d /\ S.count = n /\ DOMAIN S = DOMAIN m /\ S.size = m.size BY DEF IsMap
<1>4. (S.null <=> m.null) /\ (S.update <=> m.update) BY Zenon DEF IsMap
<1> QED BY <1>1, <1>2, <1>3, <1>4 DEF Alters, d, n

\* A changed cell that is not made UNUSED keeps the way to all others.
LEMMA AltersKeeps ==
    ASSUME NEW m, TableOK(m), ~m.null, NEW i \in 1..Len(m.pairs), NEW c \in Cell, c.st # "UNUSED",
           NEW S, Alters(S, m, i, c),
           c.st = "USED" => c.key \in MapKeys /\ (Holds(m.pairs, c.key, i) \/ IsVacant(m, c.key, i))
    PROVE  IsMap(S) /\ Keyed(S.pairs) /\ Once(S.pairs) /\ Reached(S)
<1>1. IsMap(m) /\ Keyed(m.pairs) /\ Once(m.pairs) /\ Reached(m) BY DEF TableOK
<1>2. /\ DOMAIN S = DOMAIN m /\ ~S.null /\ S.size = m.size
      /\ S.pairs \in Seq(Cell) /\ Len(S.pairs) = Len(m.pairs)
      /\ \A j \in 1..Len(m.pairs) : S.pairs[j] = IF j = i THEN c ELSE m.pairs[j]
  BY DEF Alters, Changed
<1>3. IsMap(S) BY <1>1, <1>2 DEF IsMap
<1>4. Keyed(S.pairs) BY <1>1, <1>2 DEF Keyed
<1>5. Once(S.pairs)
  <2>1. ASSUME NEW j \in 1..Len(m.pairs), j # i, m.pairs[j].st = "USED", c.st = "USED", m.pairs[j].key = c.key PROVE FALSE
    <3>1. Holds(m.pairs, c.key, j) BY <2>1 DEF Holds
    <3>2. Holds(m.pairs, c.key, i) BY <2>1, <3>1 DEF IsVacant
    <3> QED BY <1>1, <2>1, <3>2 DEF Once, Holds
  <2> QED BY <1>1, <1>2, <2>1 DEF Once
<1>6. \A k, j : XMap_Hash(S, k, j) = XMap_Hash(m, k, j) BY <1>2 DEF XMap_Hash
<1>7. ASSUME NEW k \in MapKeys, NEW x, NEW j, IsProbed(m, k, x, j) PROVE IsProbed(S, k, x, j)
  <2>1. j \in 0..(m.size - 1) /\ XMap_Hash(m, k, j) = x /\ \A g \in 0..(j - 1) : Probe(m, k, g).st # "UNUSED"
    BY <1>7 DEF IsProbed
  <2>2. ASSUME NEW g \in 0..(j - 1) PROVE Probe(S, k, g).st # "UNUSED"
    <3>1. g \in 0..(m.size - 1) BY <1>1, <2>1 DEF IsMap
    <3>2. XMap_Hash(m, k, g) \in 1..Len(m.pairs) BY <1>1, <3>1, HashIs
    <3>3. Probe(S, k, g) = IF XMap_Hash(m, k, g) = i THEN c ELSE Probe(m, k, g) BY <1>2, <1>6, <3>2 DEF Probe
    <3> QED BY <2>1, <3>3
  <2> QED BY <1>2, <1>6, <2>1, <2>2 DEF IsProbed
<1>8. ASSUME NEW x \in 1..Len(S.pairs), S.pairs[x].st = "USED" PROVE \E j : IsProbed(S, S.pairs[x].key, x, j)
  <2>1. S.pairs[x].key \in MapKeys BY <1>4, <1>8 DEF Keyed
  <2>2. \E j : IsProbed(m, S.pairs[x].key, x, j)
    <3>1. CASE x # i BY <1>1, <1>2, <1>8, <3>1 DEF Reached
    <3>2. CASE x = i
      <4>1. S.pairs[x] = c /\ c.st = "USED" BY <1>2, <1>8, <3>2
      <4>2. CASE Holds(m.pairs, c.key, i) BY <1>1, <3>2, <4>1, <4>2 DEF Reached, Holds
      <4>3. CASE IsVacant(m, c.key, i) BY <3>2, <4>1, <4>3 DEF IsVacant
      <4> QED BY <4>1, <4>2, <4>3
    <3> QED BY <3>1, <3>2
  <2> QED BY <1>7, <2>1, <2>2
<1>9. Reached(S) BY <1>8 DEF Reached
<1> QED BY <1>3, <1>4, <1>5, <1>9

\* A pair in the cell that XMap_GetHash gave for its key.
LEMMA StoreKeeps ==
    ASSUME NEW m, TableOK(m), ~m.null, NEW i \in 1..Len(m.pairs), NEW c \in Cell, c.st = "USED", c.key \in MapKeys,
           Holds(m.pairs, c.key, i) \/ IsVacant(m, c.key, i)
    PROVE  /\ TableOK(Store(m, i, c)) /\ Alters(Store(m, i, c), m, i, c)
           /\ Store(m, i, c).count <= m.count + 1
<1> DEFINE S == Store(m, i, c)
<1>1. IsMap(m) /\ Exact(m) /\ m.pairs \in Seq(Cell) BY DEF TableOK, IsMap
<1>2. /\ Alters(S, m, i, c)
      /\ S.deleted = IF m.pairs[i].st = "DELETED" /\ m.deleted > 0 THEN m.deleted - 1 ELSE m.deleted
      /\ S.count = IF m.pairs[i].st # "USED" THEN m.count + 1 ELSE m.count
  BY <1>1, StoreIs
<1> HIDE DEF S
<1>3. IsMap(S) /\ Keyed(S.pairs) /\ Once(S.pairs) /\ Reached(S) BY <1>2, AltersKeeps
<1>4. Changed(S.pairs, m.pairs, i, c) BY <1>2 DEF Alters
<1>5. m.count \in Nat /\ m.deleted \in Nat BY <1>1, CellsFinite DEF Exact
<1>6. S.count = Cardinality(Cells(S.pairs, "USED"))
  <2>1. Cardinality(Cells(S.pairs, "USED")) = Cardinality(Cells(m.pairs, "USED"))
            + (IF c.st = "USED" THEN 1 ELSE 0) - (IF m.pairs[i].st = "USED" THEN 1 ELSE 0)
    BY <1>1, <1>4, ChangeCounts
  <2>2. m.count = Cardinality(Cells(m.pairs, "USED")) BY <1>1 DEF Exact
  <2> QED BY <1>2, <1>5, <2>1, <2>2
<1>7. S.deleted = Cardinality(Cells(S.pairs, "DELETED"))
  <2>1. /\ Cardinality(Cells(S.pairs, "DELETED")) = Cardinality(Cells(m.pairs, "DELETED"))
            + (IF c.st = "DELETED" THEN 1 ELSE 0) - (IF m.pairs[i].st = "DELETED" THEN 1 ELSE 0)
        /\ m.pairs[i].st = "DELETED" => Cardinality(Cells(m.pairs, "DELETED")) > 0
    BY <1>1, <1>4, ChangeCounts
  <2>2. m.deleted = Cardinality(Cells(m.pairs, "DELETED")) BY <1>1 DEF Exact
  <2> QED BY <1>2, <1>5, <2>1, <2>2
<1>8. TableOK(S) BY <1>3, <1>6, <1>7 DEF TableOK, Exact
<1> QED BY <1>2, <1>5, <1>8 DEF S

LEMMA RemoveKeeps ==
    ASSUME NEW m, TableOK(m), ~m.null, NEW k \in MapKeys, NEW i, Holds(m.pairs, k, i)
    PROVE  TableOK(XMap_Remove(m, k)) /\ Alters(XMap_Remove(m, k), m, i, Tombstone)
<1> DEFINE n == IF m.count > 0 THEN m.count - 1 ELSE m.count
           d == m.deleted + 1
           q == [m.pairs EXCEPT ![i] = Tombstone]
           S == [m EXCEPT !.pairs = q, !.count = n, !.deleted = d]
<1>1. IsMap(m) /\ Exact(m) /\ m.pairs \in Seq(Cell) /\ i \in 1..Len(m.pairs) /\ m.pairs[i].st = "USED" BY DEF TableOK, IsMap, Holds
<1>2. Tombstone \in Cell /\ Tombstone.st = "DELETED" BY DEF Tombstone, Cell
<1>3. XMap_GetIndex(m, k) = i /\ i # 0
  <2>1. XMap_GetIndex(m, k) = i BY IndexFound
  <2>2. i # 0 BY <1>1
  <2> QED BY <2>1, <2>2
<1>4. XMap_Remove(m, k) = S BY <1>3 DEF XMap_Remove
<1>5. Changed(q, m.pairs, i, Tombstone) BY <1>1, <1>2, ChangeIs
<1>6. m.count \in Nat /\ m.deleted \in Nat BY <1>1, CellsFinite DEF Exact
<1> HIDE DEF d, n, q
<1>7. S.pairs = q /\ S.deleted = d /\ S.count = n /\ DOMAIN S = DOMAIN m /\ S.size = m.size BY <1>1 DEF IsMap
<1>8. (S.null <=> m.null) /\ (S.update <=> m.update) BY <1>1, Zenon DEF IsMap
<1> HIDE DEF S
<1>9. Alters(S, m, i, Tombstone) BY <1>5, <1>7, <1>8 DEF Alters
<1>10. IsMap(S) /\ Keyed(S.pairs) /\ Once(S.pairs) /\ Reached(S) BY <1>1, <1>2, <1>9, AltersKeeps
<1>11. S.count = Cardinality(Cells(S.pairs, "USED"))
  <2>1. /\ Cardinality(Cells(q, "USED")) = Cardinality(Cells(m.pairs, "USED"))
            + (IF Tombstone.st = "USED" THEN 1 ELSE 0) - (IF m.pairs[i].st = "USED" THEN 1 ELSE 0)
        /\ m.pairs[i].st = "USED" => Cardinality(Cells(m.pairs, "USED")) > 0
    BY <1>1, <1>2, <1>5, ChangeCounts
  <2>2. m.count = Cardinality(Cells(m.pairs, "USED")) BY <1>1 DEF Exact
  <2> QED BY <1>1, <1>2, <1>6, <1>7, <2>1, <2>2 DEF n
<1>12. S.deleted = Cardinality(Cells(S.pairs, "DELETED"))
  <2>1. Cardinality(Cells(q, "DELETED")) = Cardinality(Cells(m.pairs, "DELETED"))
            + (IF Tombstone.st = "DELETED" THEN 1 ELSE 0) - (IF m.pairs[i].st = "DELETED" THEN 1 ELSE 0)
    BY <1>1, <1>2, <1>5, ChangeCounts
  <2>2. m.deleted = Cardinality(Cells(m.pairs, "DELETED")) BY <1>1 DEF Exact
  <2> QED BY <1>1, <1>2, <1>6, <1>7, <2>1, <2>2 DEF d
<1>13. TableOK(S) BY <1>10, <1>11, <1>12 DEF TableOK, Exact
<1> QED BY <1>4, <1>9, <1>13

\* A table of fresh cells.
LEMMA TableIs ==
    ASSUME NEW n \in Nat
    PROVE  Table(n) \in Seq(Cell) /\ Len(Table(n)) = n /\ \A i \in 1..n : Table(n)[i].st = "UNUSED"
BY DEF Table, Unused, Cell

LEMMA BlankOK ==
    ASSUME NEW m, IsMap(m), \A i \in 1..Len(m.pairs) : m.pairs[i].st = "UNUSED", m.count = 0, m.deleted = 0
    PROVE  TableOK(m)
<1>1. Cells(m.pairs, "USED") = {} /\ Cells(m.pairs, "DELETED") = {} BY DEF Cells
<1>2. Exact(m) BY <1>1, FS_EmptySet DEF Exact
<1> QED BY <1>2 DEF TableOK, Keyed, Once, Reached

LEMMA BlankFits ==
    ASSUME NEW p, \A i \in 1..Len(p) : p[i].st = "UNUSED"
    PROVE  Fits(p, NoPairs)
BY DEF Fits, Holds, NoPairs

LEMMA RenewedOK ==
    ASSUME NEW m, IsMap(m), NEW n \in Nat \ {0}
    PROVE  /\ TableOK(Renewed(m, n)) /\ ~Renewed(m, n).null /\ Renewed(m, n).size = n /\ Renewed(m, n).count = 0
           /\ \A i \in 1..Len(Renewed(m, n).pairs) : Renewed(m, n).pairs[i].st = "UNUSED"
<1> DEFINE S == Renewed(m, n)
           t == Table(n)
<1>1. t \in Seq(Cell) /\ Len(t) = n /\ \A i \in 1..n : t[i].st = "UNUSED" BY TableIs
<1> HIDE DEF t
<1>2. DOMAIN S = DOMAIN m /\ S.pairs = t /\ S.size = n /\ S.count = 0 /\ S.deleted = 0 BY DEF IsMap, Renewed, t
<1>3. ~S.null BY DEF IsMap, Renewed
<1> HIDE DEF S
<1>4. IsMap(S) BY <1>1, <1>2, <1>3 DEF IsMap
<1>5. TableOK(S) BY <1>1, <1>2, <1>4, BlankOK
<1> QED BY <1>1, <1>2, <1>3, <1>5 DEF S

\* A table whose cell i now has, or no longer has, the pair of k.
LEMMA ChangedFits ==
    ASSUME NEW p, Once(p), NEW d, Fits(p, d), NEW k \in MapKeys, NEW i \in 1..Len(p), NEW c, NEW q, Changed(q, p, i, c),
           Holds(p, k, i) \/ (p[i].st # "USED" /\ \A j : ~Holds(p, k, j)),
           NEW e, \A x \in MapKeys : x # k => e[x] = d[x],
           c.st = "USED" => c.key = k /\ c.val \in e[k],
           c.st # "USED" => NoValue \in e[k]
    PROVE  Fits(q, e)
<1>1. Len(q) = Len(p) /\ \A j \in 1..Len(p) : q[j] = IF j = i THEN c ELSE p[j] BY DEF Changed
<1>2. ASSUME NEW x \in MapKeys, x # k
      PROVE  /\ \A j : Holds(q, x, j) => q[j].val \in e[x]
             /\ (\A j : ~Holds(q, x, j)) => NoValue \in e[x]
  <2>1. ASSUME NEW j PROVE Holds(q, x, j) <=> Holds(p, x, j) /\ j # i BY <1>1, <1>2 DEF Holds
  <2>2. ~Holds(p, x, i) BY <1>2 DEF Holds
  <2>3. \A j : Holds(q, x, j) => q[j] = p[j] BY <1>1, <2>1 DEF Holds
  <2> QED BY <1>2, <2>1, <2>2, <2>3 DEF Fits
<1>3. \A j : Holds(q, k, j) => j = i BY <1>1 DEF Holds, Once
<1>4. q[i] = c BY <1>1
<1>5. Holds(q, k, i) <=> c.st = "USED" BY <1>1, <1>4 DEF Holds
<1>6. /\ \A j : Holds(q, k, j) => q[j].val \in e[k]
      /\ (\A j : ~Holds(q, k, j)) => NoValue \in e[k]
  BY <1>3, <1>4, <1>5
<1> QED BY <1>2, <1>6 DEF Fits

LEMMA WiderFits ==
    ASSUME NEW p, NEW d, Fits(p, d), NEW e, \A x \in MapKeys : d[x] \subseteq e[x]
    PROVE  Fits(p, e)
BY DEF Fits

\* The moving of the pairs: its begin, a turn of the loop, and its end.
LEMMA MoveBegins ==
    ASSUME NEW m, TableOK(m), NEW n \in Nat \ {0}, Len(m.pairs) <= n
    PROVE  Copied(Renewed(m, n), m.pairs, 1)
<1> DEFINE S == Renewed(m, n)
<1>1. S.size = n /\ S.count = 0 /\ \A i \in 1..Len(S.pairs) : S.pairs[i].st = "UNUSED" BY RenewedOK DEF TableOK
<1>2. m.pairs \in Seq(Cell) /\ Keyed(m.pairs) /\ Once(m.pairs) BY DEF TableOK, IsMap
<1> HIDE DEF S
<1>3. Copied(S, m.pairs, 1) BY <1>1, <1>2 DEF Copied
<1> QED BY <1>3 DEF S

LEMMA MoveTurns ==
    ASSUME NEW m, TableOK(m), ~m.null, NEW p, NEW n, Copied(m, p, n), n <= Len(p), p[n].st = "USED"
    PROVE  TableOK(XMap_PutRaw(m, p[n])) /\ ~XMap_PutRaw(m, p[n]).null /\ Copied(XMap_PutRaw(m, p[n]), p, n + 1)
<1> DEFINE k == p[n].key
           h == XMap_GetHash(m, k)
           S == Store(m, h, p[n])
<1>1. /\ p \in Seq(Cell) /\ Keyed(p) /\ Once(p) /\ n \in 1..Len(p) /\ Len(p) <= m.size /\ m.count < n
      /\ \A i \in 1..Len(m.pairs) : m.pairs[i].st = "USED" => \E j \in 1..(n - 1) : p[j] = m.pairs[i]
      /\ \A j \in 1..(n - 1) : p[j].st = "USED" => \E i \in 1..Len(m.pairs) : m.pairs[i] = p[j]
  BY DEF Copied
<1>2. p[n] \in Cell /\ k \in MapKeys /\ Len(p) \in Nat /\ n \in Nat BY <1>1 DEF Keyed
<1>3. m.size \in Nat /\ Len(m.pairs) = m.size /\ m.pairs \in Seq(Cell) /\ Exact(m) BY DEF TableOK, IsMap
<1>4. \A c : ~Holds(m.pairs, k, c)
  <2> SUFFICES ASSUME NEW c, Holds(m.pairs, k, c) PROVE FALSE OBVIOUS
  <2>1. PICK j \in 1..(n - 1) : p[j] = m.pairs[c] BY <1>1 DEF Holds
  <2>2. p[j].st = "USED" /\ p[j].key = p[n].key BY <2>1 DEF Holds
  <2>3. j \in 1..Len(p) /\ j # n BY <1>1, <1>2
  <2> QED BY <1>1, <2>2, <2>3 DEF Once
<1>5. ~IsCrowded(m, k)
  <2> SUFFICES ASSUME IsCrowded(m, k) PROVE FALSE OBVIOUS
  <2>1. Cells(m.pairs, "USED") = 1..m.size BY <1>3 DEF IsCrowded, Cells
  <2>2. Cardinality(1..m.size) = m.size BY <1>3, FS_Interval
  <2>3. m.count = m.size BY <1>3, <2>1, <2>2 DEF Exact
  <2> QED BY <1>1, <1>2, <1>3, <2>3
<1>6. IsVacant(m, k, h) BY <1>2, <1>4, <1>5, GetHashIs
<1>7. h \in 1..Len(m.pairs) /\ m.pairs[h].st # "USED" BY <1>6 DEF IsVacant
<1> HIDE DEF h
<1>8. TableOK(S) /\ Alters(S, m, h, p[n]) /\ S.count <= m.count + 1 BY <1>2, <1>6, <1>7, StoreKeeps
<1> HIDE DEF S
<1>9. /\ ~S.null /\ S.size = m.size /\ Len(S.pairs) = Len(m.pairs)
      /\ \A j \in 1..Len(m.pairs) : S.pairs[j] = IF j = h THEN p[n] ELSE m.pairs[j]
  BY <1>8 DEF Alters, Changed
<1>10. ASSUME NEW i \in 1..Len(S.pairs), S.pairs[i].st = "USED" PROVE \E j \in 1..n : p[j] = S.pairs[i]
  <2>1. CASE i = h BY <1>1, <1>2, <1>9, <2>1
  <2>2. CASE i # h
    <3>1. PICK j \in 1..(n - 1) : p[j] = m.pairs[i] BY <1>1, <1>9, <1>10, <2>2
    <3> QED BY <1>2, <1>9, <2>2, <3>1
  <2> QED BY <2>1, <2>2
<1>11. ASSUME NEW j \in 1..n, p[j].st = "USED" PROVE \E i \in 1..Len(S.pairs) : S.pairs[i] = p[j]
  <2>1. CASE j = n BY <1>7, <1>9, <2>1
  <2>2. CASE j # n
    <3>1. j \in 1..(n - 1) BY <1>2, <2>2
    <3>2. PICK i \in 1..Len(m.pairs) : m.pairs[i] = p[j] BY <1>1, <1>11, <3>1
    <3>3. i # h BY <1>7, <1>11, <3>2
    <3> QED BY <1>9, <3>2, <3>3
  <2> QED BY <2>1, <2>2
<1>12. m.count \in Nat /\ S.count \in Nat
  <2>1. S.pairs \in Seq(Cell) /\ Exact(S) BY <1>8 DEF TableOK, IsMap
  <2> QED BY <1>3, <2>1, CellsFinite DEF Exact
<1>13. Copied(S, p, n + 1)
  <2>1. n + 1 \in 1..(Len(p) + 1) /\ S.count < n + 1 BY <1>1, <1>2, <1>8, <1>12
  <2>2. (n + 1) - 1 = n BY <1>2
  <2> QED BY <1>1, <1>9, <1>10, <1>11, <2>1, <2>2 DEF Copied
<1>14. XMap_PutRaw(m, p[n]) = S BY DEF XMap_PutRaw, S, h
<1> QED BY <1>8, <1>9, <1>13, <1>14

LEMMA SkipTurns ==
    ASSUME NEW m, TableOK(m), NEW p, NEW n, Copied(m, p, n), n <= Len(p), p[n].st # "USED"
    PROVE  Copied(m, p, n + 1)
<1>1. /\ p \in Seq(Cell) /\ Keyed(p) /\ Once(p) /\ n \in 1..Len(p) /\ Len(p) <= m.size /\ m.count < n
      /\ \A i \in 1..Len(m.pairs) : m.pairs[i].st = "USED" => \E j \in 1..(n - 1) : p[j] = m.pairs[i]
      /\ \A j \in 1..(n - 1) : p[j].st = "USED" => \E i \in 1..Len(m.pairs) : m.pairs[i] = p[j]
  BY DEF Copied
<1>2. m.count \in Nat BY CellsFinite DEF TableOK, IsMap, Exact
<1>3. n + 1 \in 1..(Len(p) + 1) /\ m.count < n + 1 /\ (n + 1) - 1 = n BY <1>1, <1>2
<1>4. ASSUME NEW i \in 1..Len(m.pairs), m.pairs[i].st = "USED" PROVE \E j \in 1..n : p[j] = m.pairs[i]
  <2>1. PICK j \in 1..(n - 1) : p[j] = m.pairs[i] BY <1>1, <1>4
  <2> QED BY <1>1, <2>1
<1>5. ASSUME NEW j \in 1..n, p[j].st = "USED" PROVE \E i \in 1..Len(m.pairs) : m.pairs[i] = p[j]
  <2>1. j # n BY <1>5
  <2>2. j \in 1..(n - 1) BY <1>1, <2>1
  <2> QED BY <1>1, <1>5, <2>2
<1> QED BY <1>1, <1>3, <1>4, <1>5 DEF Copied

LEMMA MoveEnds ==
    ASSUME NEW m, NEW p, NEW d, Copied(m, p, Len(p) + 1), Fits(p, d)
    PROVE  Fits(m.pairs, d)
<1>1. /\ Len(p) \in Nat
      /\ \A i \in 1..Len(m.pairs) : m.pairs[i].st = "USED" => \E j \in 1..Len(p) : p[j] = m.pairs[i]
      /\ \A j \in 1..Len(p) : p[j].st = "USED" => \E i \in 1..Len(m.pairs) : m.pairs[i] = p[j]
  <2>1. Len(p) \in Nat /\ (Len(p) + 1) - 1 = Len(p) BY DEF Copied
  <2> QED BY <2>1 DEF Copied
<1>2. ASSUME NEW k \in MapKeys, NEW i, Holds(m.pairs, k, i) PROVE m.pairs[i].val \in d[k]
  <2>1. PICK j \in 1..Len(p) : p[j] = m.pairs[i] BY <1>1, <1>2 DEF Holds
  <2>2. Holds(p, k, j) BY <1>2, <2>1 DEF Holds
  <2> QED BY <2>1, <2>2 DEF Fits
<1>3. ASSUME NEW k \in MapKeys, \A i : ~Holds(m.pairs, k, i) PROVE NoValue \in d[k]
  <2>1. \A j : ~Holds(p, k, j) BY <1>1, <1>3 DEF Holds
  <2> QED BY <2>1 DEF Fits
<1> QED BY <1>2, <1>3 DEF Fits

-----------------------------------------------------------------------------
(* The steps.                                                              *)

LEMMA MapInitially == MapInit => MapInv
<1> SUFFICES ASSUME MapInit PROVE MapInv OBVIOUS
<1>1. PICK n \in MapSizes, update \in BOOLEAN, ok \in BOOLEAN : map = XMap_Init(n, update, ok) BY Zenon DEF MapInit
<1>2. n \in Nat BY MapAssumption
<1>3. Table(n) \in Seq(Cell) /\ Len(Table(n)) = n /\ \A i \in 1..n : Table(n)[i].st = "UNUSED" BY <1>2, TableIs
<1>4. /\ DOMAIN map = {"null", "pairs", "size", "count", "deleted", "update"}
      /\ map.size = n /\ map.count = 0 /\ map.deleted = 0 /\ map.pairs = IF ok THEN Table(n) ELSE << >>
  BY <1>1 DEF XMap_Init
<1>5. map.null <=> n = 0 \/ ~ok BY <1>1, Zenon DEF XMap_Init
<1>6. map.pairs \in Seq(Cell) /\ \A i \in 1..Len(map.pairs) : map.pairs[i].st = "UNUSED" BY <1>3, <1>4
<1>7. (map.null => Len(map.pairs) = 0) /\ (~map.null => Len(map.pairs) = map.size /\ map.size > 0) BY <1>2, <1>3, <1>4, <1>5
<1>8. IsMap(map) BY <1>2, <1>4, <1>6, <1>7 DEF IsMap
<1>9. TableOK(map) BY <1>4, <1>6, <1>8, BlankOK
<1>10. Fits(map.pairs, dict) BY <1>6, BlankFits DEF MapInit
<1>11. IsCall(call) /\ call.pc = "idle" BY DEF MapInit, NoCall, IsCall
<1>12. DOMAIN dict = MapKeys BY DEF MapInit, NoPairs
<1> QED BY <1>9, <1>10, <1>11, <1>12 DEF MapInv

LEMMA MapPutStep == MapInv /\ MapPut => MapInv'
<1> SUFFICES ASSUME MapInv, MapPut PROVE MapInv' OBVIOUS
<1>1. PICK k \in MapKeys, v \in MapValues :
        /\ call.pc = "idle" /\ map.size <= MapMaxSize
        /\ call' = [call EXCEPT !.pc = IF Full(map) THEN "full" ELSE "find", !.key = k, !.val = v]
        /\ UNCHANGED <<map, dict>>
  BY Zenon DEF MapPut
<1>2. TableOK(map) /\ IsCall(call) /\ DOMAIN dict = MapKeys /\ Fits(map.pairs, dict) BY <1>1 DEF MapInv
<1>3. call'.pc \in {"full", "find"} /\ (call'.pc = "find" => ~Full(map)) /\ call'.key = k /\ call'.val = v
      /\ call'.after = call.after /\ DOMAIN call' = DOMAIN call
  BY <1>1, <1>2 DEF IsCall
<1>4. IsCall(call') BY <1>2, <1>3 DEF IsCall
<1>5. map' = map /\ dict' = dict BY <1>1
<1>6. call'.pc = "find" => ~map.null BY <1>3 DEF Full
<1> QED BY <1>2, <1>3, <1>4, <1>5, <1>6 DEF MapInv

\* The call ends, and the table fits what the caller is told.
LEMMA MapReturns ==
    ASSUME MapInv, call.key \in MapKeys, NEW vals, PutReturns(vals), TableOK(map'),
           Fits(map'.pairs, [dict EXCEPT ![call.key] = vals])
    PROVE  MapInv'
<1>1. call' = NoCall /\ dict' = [dict EXCEPT ![call.key] = vals] BY DEF PutReturns
<1>2. IsCall(call') /\ call'.pc = "idle" BY <1>1 DEF NoCall, IsCall
<1>3. DOMAIN dict' = MapKeys BY <1>1 DEF MapInv
<1>4. Fits(map'.pairs, dict') BY <1>1
<1> QED BY <1>2, <1>3, <1>4 DEF MapInv

\* The call goes on with the pairs of m in a table of n cells.
LEMMA MapMoves ==
    ASSUME MapInv, NEW m, TableOK(m), NEW n \in Nat \ {0}, Len(m.pairs) <= n,
           NEW after \in {"idle", "find"}, Move(m, n, after), call.key \in MapKeys, call.val \in MapValues,
           DOMAIN dict' = MapKeys, Fits(m.pairs, dict')
    PROVE  MapInv'
<1>1. map' = Renewed(m, n) /\ call' = [call EXCEPT !.pc = "move", !.old = m.pairs, !.i = 1, !.after = after] BY DEF Move
<1>2. IsCall(call) BY DEF MapInv
<1>3. /\ DOMAIN call' = DOMAIN call /\ call'.pc = "move" /\ call'.old = m.pairs /\ call'.i = 1 /\ call'.after = after
      /\ call'.key = call.key /\ call'.val = call.val
  BY <1>1, <1>2 DEF IsCall
<1>4. IsCall(call') BY <1>2, <1>3 DEF IsCall
<1>5. TableOK(map') /\ ~map'.null BY <1>1, RenewedOK DEF TableOK
<1>6. Copied(map', call'.old, call'.i) BY <1>1, <1>3, MoveBegins
<1>7. Fits(call'.old, dict') BY <1>3
<1> QED BY <1>3, <1>4, <1>5, <1>6, <1>7 DEF MapInv

LEMMA MapReallocStep == MapInv /\ MapRealloc => MapInv'
<1> SUFFICES ASSUME MapInv, MapRealloc PROVE MapInv' OBVIOUS
<1>1. TableOK(map) /\ IsCall(call) /\ DOMAIN dict = MapKeys BY DEF MapInv
<1>2. call.pc \in {"full", "find"} BY DEF MapRealloc, NeedsRoom
<1>3. Fits(map.pairs, dict) /\ call.key \in MapKeys /\ call.val \in MapValues BY <1>1, <1>2 DEF MapInv, IsCall
<1>4. CASE PutReturns(dict[call.key] \cup {call.val}) /\ UNCHANGED map
  <2> DEFINE vals == dict[call.key] \cup {call.val}
             e == [dict EXCEPT ![call.key] = vals]
  <2>1. \A x \in MapKeys : dict[x] \subseteq e[x] BY <1>1
  <2>2. PutReturns(vals) /\ map' = map BY <1>4
  <2> HIDE DEF vals
  <2>3. Fits(map'.pairs, e) BY <1>3, <2>1, <2>2, WiderFits
  <2>4. TableOK(map') BY <1>1, <2>2
  <2> QED BY <1>3, <2>2, <2>3, <2>4, MapReturns
<1>5. CASE Move(map, DoubledSize(map), "find") /\ UNCHANGED dict
  <2>1. map.size \in Nat /\ Len(map.pairs) <= map.size BY <1>1 DEF TableOK, IsMap
  <2>2. DoubledSize(map) \in Nat \ {0} /\ Len(map.pairs) <= DoubledSize(map)
    <3>1. CASE map.size > 0 BY <2>1, <3>1 DEF DoubledSize
    <3>2. CASE ~(map.size > 0)
      <4>1. DoubledSize(map) = MapInitialSize /\ MapInitialSize \in Nat \ {0} BY <3>2, MapAssumption DEF DoubledSize
      <4>2. Len(map.pairs) <= 0 BY <2>1, <3>2
      <4> QED BY <4>1, <4>2, <1>1 DEF TableOK, IsMap
    <3> QED BY <3>1, <3>2
  <2>3. DOMAIN dict' = MapKeys /\ Fits(map.pairs, dict') BY <1>1, <1>3, <1>5
  <2> QED BY <1>1, <1>3, <1>5, <2>2, <2>3, MapMoves
<1> QED BY <1>4, <1>5 DEF MapRealloc

LEMMA MapMoveStep == MapInv /\ MapMove => MapInv'
<1> SUFFICES ASSUME MapInv, MapMove PROVE MapInv' OBVIOUS
<1> DEFINE p == call.old
           n == call.i
<1>1. /\ TableOK(map) /\ IsCall(call) /\ DOMAIN dict = MapKeys /\ ~map.null
      /\ Fits(p, dict) /\ Copied(map, p, n) /\ n <= Len(p)
  BY DEF MapInv, MapMove
<1>2. /\ map' = IF p[n].st = "USED" THEN XMap_PutRaw(map, p[n]) ELSE map
      /\ call' = [call EXCEPT !.i = @ + 1] /\ dict' = dict
  BY DEF MapMove
<1>3. /\ DOMAIN call' = DOMAIN call /\ call'.pc = "move" /\ call'.old = p /\ call'.i = n + 1 /\ call'.after = call.after
      /\ call'.key = call.key /\ call'.val = call.val
  BY <1>1, <1>2 DEF IsCall, MapMove
<1> HIDE DEF p, n
<1>4. IsCall(call') BY <1>1, <1>3 DEF IsCall, MapMove
<1>5. TableOK(map') /\ ~map'.null /\ Copied(map', p, n + 1)
  <2>1. CASE p[n].st = "USED"
    <3>1. map' = XMap_PutRaw(map, p[n]) BY <1>2, <2>1
    <3> QED BY <1>1, <2>1, <3>1, MoveTurns
  <2>2. CASE p[n].st # "USED"
    <3>1. map' = map BY <1>2, <2>2
    <3>2. Copied(map, p, n + 1) BY <1>1, <2>2, SkipTurns
    <3> QED BY <1>1, <3>1, <3>2
  <2> QED BY <2>1, <2>2
<1> QED BY <1>1, <1>2, <1>3, <1>4, <1>5 DEF MapInv

LEMMA MapMovedStep == MapInv /\ MapMoved => MapInv'
<1> SUFFICES ASSUME MapInv, MapMoved PROVE MapInv' OBVIOUS
<1>1. /\ TableOK(map) /\ IsCall(call) /\ DOMAIN dict = MapKeys /\ ~map.null
      /\ Fits(call.old, dict) /\ Copied(map, call.old, call.i) /\ call.i > Len(call.old) /\ call.pc = "move"
  BY DEF MapInv, MapMoved
<1>2. call.i = Len(call.old) + 1 BY <1>1 DEF Copied
<1>3. Fits(map.pairs, dict) BY <1>1, <1>2, MoveEnds
<1>4. map' = map /\ dict' = dict BY DEF MapMoved
<1>5. IsCall(call') /\ call'.pc \in {"idle", "find"}
  <2>1. CASE call.after = "idle"
    <3>1. call' = NoCall BY <2>1 DEF MapMoved
    <3> QED BY <3>1 DEF NoCall, IsCall
  <2>2. CASE call.after # "idle"
    <3>1. call' = [call EXCEPT !.pc = "find", !.old = << >>, !.i = 1] BY <2>2 DEF MapMoved
    <3>2. call.after = "find" /\ call.key \in MapKeys /\ call.val \in MapValues BY <1>1, <2>2 DEF IsCall
    <3>3. DOMAIN call' = DOMAIN call /\ call'.pc = "find" /\ call'.after = call.after /\ call'.key = call.key /\ call'.val = call.val
      BY <1>1, <3>1 DEF IsCall
    <3> QED BY <1>1, <3>2, <3>3 DEF IsCall
  <2> QED BY <2>1, <2>2
<1> QED BY <1>1, <1>3, <1>4, <1>5 DEF MapInv

\* The table with the pair of k stored in cell i of m, or k's cell emptied.
LEMMA AlteredFits ==
    ASSUME NEW m, TableOK(m), NEW d, Fits(m.pairs, d), DOMAIN d = MapKeys, NEW k \in MapKeys, NEW i,
           Holds(m.pairs, k, i) \/ IsVacant(m, k, i), NEW c, NEW S, Alters(S, m, i, c), NEW vals,
           c.st = "USED" => c.key = k /\ c.val \in vals,
           c.st # "USED" => NoValue \in vals
    PROVE  Fits(S.pairs, [d EXCEPT ![k] = vals])
<1> DEFINE e == [d EXCEPT ![k] = vals]
<1>1. e[k] = vals /\ \A x \in MapKeys : x # k => e[x] = d[x] OBVIOUS
<1> HIDE DEF e
<1>2. i \in 1..Len(m.pairs) /\ (Holds(m.pairs, k, i) \/ (m.pairs[i].st # "USED" /\ \A j : ~Holds(m.pairs, k, j)))
  BY DEF Holds, IsVacant
<1>3. Changed(S.pairs, m.pairs, i, c) BY DEF Alters
<1>4. Once(m.pairs) BY DEF TableOK
<1>5. (c.st = "USED" => c.key = k /\ c.val \in e[k]) /\ (c.st # "USED" => NoValue \in e[k]) BY <1>1
<1>6. Fits(S.pairs, e) BY <1>1, <1>2, <1>3, <1>4, <1>5, ChangedFits
<1> QED BY <1>6 DEF e

LEMMA MapStoreStep == MapInv /\ MapStore => MapInv'
<1> SUFFICES ASSUME MapInv, MapStore PROVE MapInv' OBVIOUS
<1> DEFINE k == call.key
           v == call.val
           i == XMap_GetHash(map, k)
           c == Pair(k, v)
           put == Store(map, i, c)
<1>1. call.pc = "find" /\ i # 0 BY DEF MapStore
<1>2. /\ TableOK(map) /\ IsCall(call) /\ DOMAIN dict = MapKeys /\ ~map.null /\ Fits(map.pairs, dict)
      /\ k \in MapKeys /\ v \in MapValues
  BY <1>1 DEF MapInv, IsCall
<1>3. Holds(map.pairs, k, i) \/ IsVacant(map, k, i) BY <1>1, <1>2, GetHashIs
<1>4. i \in 1..Len(map.pairs) BY <1>3 DEF Holds, IsVacant
<1>5. c \in Cell /\ c.st = "USED" /\ c.key = k /\ c.val = v BY <1>2 DEF Pair, Cell
<1>6. \/ PutReturns(dict[k]) /\ UNCHANGED map
      \/ PutReturns({v}) /\ map' = put
      \/ PutReturns(dict[k] \cup {v}) /\ map' = put
      \/ Move(put, put.size, "idle") /\ dict' = [dict EXCEPT ![k] = {v}]
  BY DEF MapStore
<1> HIDE DEF i, c, k, v
<1>7. TableOK(put) /\ Alters(put, map, i, c) BY <1>2, <1>3, <1>4, <1>5, StoreKeeps
<1> HIDE DEF put
<1>8. ASSUME NEW vals, v \in vals PROVE Fits(put.pairs, [dict EXCEPT ![k] = vals])
  BY <1>2, <1>3, <1>5, <1>7, <1>8, AlteredFits
<1>9. ASSUME NEW vals, v \in vals, PutReturns(vals), map' = put PROVE MapInv'
  <2>1. TableOK(map') BY <1>7, <1>9
  <2>2. Fits(map'.pairs, [dict EXCEPT ![k] = vals]) BY <1>8, <1>9
  <2> QED BY <1>2, <1>9, <2>1, <2>2, MapReturns DEF k
<1>10. CASE PutReturns(dict[k]) /\ UNCHANGED map
  <2> DEFINE e == [dict EXCEPT ![k] = dict[k]]
  <2>1. \A x \in MapKeys : dict[x] \subseteq e[x] BY <1>2
  <2> HIDE DEF e
  <2>2. map' = map BY <1>10
  <2>3. Fits(map'.pairs, e) BY <1>2, <2>1, <2>2, WiderFits
  <2>4. TableOK(map') BY <1>2, <2>2
  <2> QED BY <1>2, <1>10, <2>3, <2>4, MapReturns DEF k, e
<1>11. CASE PutReturns({v}) /\ map' = put BY <1>9, <1>11
<1>12. CASE PutReturns(dict[k] \cup {v}) /\ map' = put BY <1>9, <1>12
<1>13. CASE Move(put, put.size, "idle") /\ dict' = [dict EXCEPT ![k] = {v}]
  <2>1. ~put.null BY <1>2, <1>7 DEF Alters
  <2>2. put.size \in Nat \ {0} /\ Len(put.pairs) <= put.size BY <1>7, <2>1 DEF TableOK, IsMap
  <2>3. DOMAIN dict' = MapKeys BY <1>2, <1>13
  <2>4. Fits(put.pairs, dict') BY <1>8, <1>13
  <2> QED BY <1>2, <1>7, <1>13, <2>2, <2>3, <2>4, MapMoves DEF k, v
<1> QED BY <1>6, <1>10, <1>11, <1>12, <1>13

\* A step between two calls.
LEMMA MapBetween ==
    ASSUME MapInv, call.pc = "idle", call' = call, TableOK(map'), DOMAIN dict' = MapKeys, Fits(map'.pairs, dict')
    PROVE  MapInv'
<1>1. IsCall(call) BY DEF MapInv
<1> QED BY <1>1 DEF MapInv

LEMMA MapRemoveStep == MapInv /\ MapRemove => MapInv'
<1> SUFFICES ASSUME MapInv, MapRemove PROVE MapInv' OBVIOUS
<1>1. PICK k \in MapKeys :
        /\ call.pc = "idle"
        /\ map' = XMap_Remove(map, k)
        /\ dict' = [dict EXCEPT ![k] = {NoValue}]
        /\ UNCHANGED call
  BY Zenon DEF MapRemove
<1>2. TableOK(map) /\ DOMAIN dict = MapKeys /\ Fits(map.pairs, dict) BY <1>1 DEF MapInv
<1>3. DOMAIN dict' = MapKeys /\ call' = call BY <1>1, <1>2
<1>4. TableOK(map') /\ Fits(map'.pairs, dict')
  <2>1. CASE \E i : Holds(map.pairs, k, i)
    <3>1. PICK i : Holds(map.pairs, k, i) BY <2>1
    <3>2. ~map.null BY <1>2, <3>1 DEF Holds, TableOK, IsMap
    <3>3. TableOK(map') /\ Alters(map', map, i, Tombstone) BY <1>1, <1>2, <3>1, <3>2, RemoveKeeps
    <3>4. Tombstone.st # "USED" /\ NoValue \in {NoValue} BY DEF Tombstone
    <3>5. Fits(map'.pairs, [dict EXCEPT ![k] = {NoValue}]) BY <1>2, <3>1, <3>3, <3>4, AlteredFits
    <3> QED BY <1>1, <3>3, <3>5
  <2>2. CASE \A i : ~Holds(map.pairs, k, i)
    <3>1. XMap_GetIndex(map, k) = 0 BY <1>2, <2>2, IndexMissing
    <3>2. map' = map BY <1>1, <3>1 DEF XMap_Remove
    <3>3. ASSUME NEW x \in MapKeys
          PROVE  /\ \A i : Holds(map.pairs, x, i) => map.pairs[i].val \in dict'[x]
                 /\ (\A i : ~Holds(map.pairs, x, i)) => NoValue \in dict'[x]
      <4>1. dict'[x] = IF x = k THEN {NoValue} ELSE dict[x] BY <1>1, <1>2
      <4> QED BY <1>2, <2>2, <4>1 DEF Fits
    <3>4. Fits(map.pairs, dict') BY <3>3 DEF Fits
    <3> QED BY <1>2, <3>2, <3>4
  <2> QED BY <2>1, <2>2
<1> QED BY <1>1, <1>3, <1>4, MapBetween

\* What XMap_GetIndex gives is the cell that holds the key.
LEMMA IndexHolds ==
    ASSUME NEW m, TableOK(m), NEW k \in MapKeys, XMap_GetIndex(m, k) # 0
    PROVE  Holds(m.pairs, k, XMap_GetIndex(m, k)) /\ ~m.null
<1>1. PICK i : Holds(m.pairs, k, i) BY IndexMissing
<1>2. ~m.null BY <1>1 DEF Holds, TableOK, IsMap
<1>3. XMap_GetIndex(m, k) = i BY <1>1, <1>2, IndexFound
<1> QED BY <1>1, <1>2, <1>3

LEMMA MapUpdateStep == MapInv /\ MapUpdate => MapInv'
<1> SUFFICES ASSUME MapInv, MapUpdate PROVE MapInv' OBVIOUS
<1>1. PICK k \in MapKeys, v \in MapValues :
        /\ call.pc = "idle" /\ XMap_GetIndex(map, k) # 0
        /\ map' = XMap_Update(map, XMap_GetIndex(map, k), v)
        /\ dict' = [dict EXCEPT ![k] = {v}]
        /\ UNCHANGED call
  BY Zenon DEF MapUpdate
<1> DEFINE i == XMap_GetIndex(map, k)
           c == [map.pairs[i] EXCEPT !.st = "USED", !.val = v]
<1>2. TableOK(map) /\ DOMAIN dict = MapKeys /\ Fits(map.pairs, dict) BY <1>1 DEF MapInv
<1>3. Holds(map.pairs, k, i) /\ ~map.null BY <1>1, <1>2, IndexHolds
<1>4. map' = Store(map, i, c) BY <1>1 DEF XMap_Update
<1> HIDE DEF i
<1>5. i \in 1..Len(map.pairs) /\ map.pairs[i].key = k /\ map.pairs[i] \in Cell BY <1>2, <1>3 DEF Holds, TableOK, IsMap
<1>6. c \in Cell /\ c.st = "USED" /\ c.key = k /\ c.val = v BY <1>5 DEF Cell
<1> HIDE DEF c
<1>7. TableOK(map') /\ Alters(map', map, i, c) BY <1>2, <1>3, <1>4, <1>5, <1>6, StoreKeeps
<1>8. Fits(map'.pairs, [dict EXCEPT ![k] = {v}]) BY <1>2, <1>3, <1>6, <1>7, AlteredFits
<1>9. DOMAIN dict' = MapKeys /\ call' = call /\ Fits(map'.pairs, dict') BY <1>1, <1>2, <1>8
<1> QED BY <1>1, <1>7, <1>9, MapBetween

LEMMA MapClearStep == MapInv /\ MapClear => MapInv'
<1> SUFFICES ASSUME MapInv, MapClear PROVE MapInv' OBVIOUS
<1>1. call.pc = "idle" /\ call' = call /\ dict' = NoPairs /\ map' \in {XMap_Reset(map), XMap_Destroy(map)} BY DEF MapClear
<1>2. IsMap(map) /\ TableOK(map) BY DEF MapInv, TableOK
<1>3. DOMAIN dict' = MapKeys BY <1>1 DEF NoPairs
<1>4. \/ map' = map /\ map.null
      \/ IsMap(map') /\ map'.count = 0 /\ map'.deleted = 0 /\ \A i \in 1..Len(map'.pairs) : map'.pairs[i].st = "UNUSED"
  <2>1. CASE map' = XMap_Destroy(map)
    <3>1. /\ DOMAIN map' = DOMAIN map /\ map'.pairs = << >> /\ map'.size = 0 /\ map'.count = 0 /\ map'.deleted = 0
      BY <1>2, <2>1 DEF IsMap, XMap_Destroy
    <3>2. map'.null BY <1>2, <2>1, Zenon DEF IsMap, XMap_Destroy
    <3> QED BY <1>2, <3>1, <3>2 DEF IsMap
  <2>2. CASE map' = XMap_Reset(map) /\ ~map.null
    <3> DEFINE t == Table(map.size)
    <3>1. t \in Seq(Cell) /\ Len(t) = map.size /\ \A i \in 1..map.size : t[i].st = "UNUSED" BY <1>2, TableIs DEF IsMap
    <3>2. map' = [map EXCEPT !.pairs = t, !.count = 0, !.deleted = 0] BY <2>2 DEF XMap_Reset
    <3> HIDE DEF t
    <3>3. DOMAIN map' = DOMAIN map /\ map'.pairs = t /\ map'.size = map.size /\ map'.count = 0 /\ map'.deleted = 0
      BY <1>2, <3>2 DEF IsMap
    <3>4. map'.null <=> map.null BY <1>2, <3>2, Zenon DEF IsMap
    <3>5. IsMap(map') BY <1>2, <2>2, <3>1, <3>3, <3>4 DEF IsMap
    <3> QED BY <3>1, <3>3, <3>5
  <2>3. CASE map' = XMap_Reset(map) /\ map.null BY <2>3 DEF XMap_Reset
  <2> QED BY <1>1, <2>1, <2>2, <2>3
<1>5. TableOK(map') /\ \A i \in 1..Len(map'.pairs) : map'.pairs[i].st = "UNUSED"
  <2>1. CASE map' = map /\ map.null BY <1>2, <2>1 DEF IsMap
  <2>2. CASE IsMap(map') /\ map'.count = 0 /\ map'.deleted = 0 /\ \A i \in 1..Len(map'.pairs) : map'.pairs[i].st = "UNUSED"
    BY <2>2, BlankOK
  <2> QED BY <1>4, <2>1, <2>2
<1>6. Fits(map'.pairs, dict') BY <1>1, <1>5, BlankFits
<1> QED BY <1>1, <1>3, <1>5, <1>6, MapBetween

\* The string map keeps its invariant: each key is in one cell of the table, which the
\* probes for it reach before a cell never used, the counters are exact, the table, or the
\* one that is being moved, has what the callers were told, and the new table has what
\* was moved so far.
THEOREM MapInvariant == MapSpec => []MapInv
<1>1. MapInv /\ [MapNext]_mapVars => MapInv'
  <2> SUFFICES ASSUME MapInv, [MapNext]_mapVars PROVE MapInv' OBVIOUS
  <2>1. CASE UNCHANGED mapVars
    <3>1. map' = map /\ call' = call /\ dict' = dict BY <2>1 DEF mapVars
    <3> QED BY <3>1 DEF MapInv
  <2>2. CASE MapNext
    BY <2>2, MapPutStep, MapReallocStep, MapMoveStep, MapMovedStep, MapStoreStep, MapRemoveStep,
       MapUpdateStep, MapClearStep DEF MapNext
  <2> QED BY <2>1, <2>2
<1> QED BY <1>1, MapInitially, PTL DEF MapSpec

LEMMA IterateIs ==
    ASSUME NEW m, TableOK(m)
    PROVE  XMap_Iterate(m) = Cells(m.pairs, "USED")
<1> DEFINE u == Cells(m.pairs, "USED")
<1>1. CASE m.null
  <2>1. u = {} BY <1>1 DEF Cells, TableOK, IsMap
  <2> QED BY <1>1, <2>1 DEF XMap_Iterate
<1>2. CASE m.count = 0
  <2>1. IsFiniteSet(u) /\ Cardinality(u) = 0 BY <1>2, CellsFinite DEF TableOK, IsMap, Exact
  <2> HIDE DEF u
  <2>2. u = {} BY <2>1, FS_EmptySet
  <2> QED BY <1>2, <2>2 DEF XMap_Iterate, u
<1>3. CASE ~m.null /\ m.count # 0 BY <1>3 DEF XMap_Iterate, Cells
<1> QED BY <1>1, <1>2, <1>3

\* The map is a dictionary, for all keys, values, hash functions and sizes: see
\* MapIsDictionary.
THEOREM MapStaysDictionary == MapSpec => []MapIsDictionary
<1>1. ASSUME MapInv PROVE MapIsDictionary
  <2>1. TableOK(map) /\ Exact(map) BY <1>1 DEF MapInv, TableOK
  <2>2. map.count = CountOf(map, "USED") /\ map.deleted = CountOf(map, "DELETED") BY <2>1 DEF Exact, Cells, CountOf
  <2>3. XMap_Iterate(map) = Cells(map.pairs, "USED") BY <2>1, IterateIs
  <2>4. ASSUME call.pc = "idle", NEW k \in MapKeys PROVE XMap_Get(map, k) \in dict[k]
    <3>1. Fits(map.pairs, dict) BY <1>1, <2>4 DEF MapInv
    <3>2. CASE XMap_GetIndex(map, k) = 0
      <4>1. \A i : ~Holds(map.pairs, k, i)
        <5> SUFFICES ASSUME NEW i, Holds(map.pairs, k, i) PROVE FALSE OBVIOUS
        <5>1. ~map.null BY <2>1 DEF Holds, TableOK, IsMap
        <5>2. XMap_GetIndex(map, k) = i BY <2>1, <5>1, IndexFound
        <5> QED BY <3>2, <5>2 DEF Holds
      <4> QED BY <3>1, <3>2, <4>1 DEF Fits, XMap_Get
    <3>3. CASE XMap_GetIndex(map, k) # 0
      <4>1. Holds(map.pairs, k, XMap_GetIndex(map, k)) BY <2>1, <3>3, IndexHolds
      <4> QED BY <3>1, <3>3, <4>1 DEF Fits, XMap_Get
    <3> QED BY <3>2, <3>3
  <2>5. ASSUME NEW k \in MapKeys, XMap_GetIndex(map, k) # 0 PROVE XMap_GetIndex(map, k) \in XMap_Iterate(map)
    BY <2>1, <2>3, <2>5, IndexHolds DEF Holds, Cells
  <2>6. ASSUME NEW i \in XMap_Iterate(map) PROVE XMap_GetIndex(map, map.pairs[i].key) = i
    <3>1. i \in 1..Len(map.pairs) /\ map.pairs[i].st = "USED" BY <2>3 DEF Cells
    <3>2. map.pairs[i].key \in MapKeys BY <2>1, <3>1 DEF TableOK, Keyed
    <3>3. Holds(map.pairs, map.pairs[i].key, i) BY <3>1 DEF Holds
    <3>4. ~map.null BY <2>1, <3>1 DEF TableOK, IsMap
    <3> QED BY <2>1, <3>2, <3>3, <3>4, IndexFound
  <2> QED BY <2>2, <2>4, <2>5, <2>6 DEF MapIsDictionary
<1> QED BY <1>1, MapInvariant, PTL
=============================================================================
