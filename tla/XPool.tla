-------------------------------- MODULE XPool --------------------------------
(***************************************************************************)
(* The memory pool of src/sys/pool.c: a chain of chunks from which blocks  *)
(* are cut one after another.  A block is given back only when it is the   *)
(* last one of its chunk; all others stay until the pool is reset.  The    *)
(* callers free and resize the blocks they hold, with the size they asked  *)
(* for.  The tail hint always leads to the last chunk (XPool_GetTail).     *)
(***************************************************************************)
EXTENDS Integers, Sequences, FiniteSets

CONSTANTS Alignment,     \* XPOOL_ALIGNMENT
          SizeLimit,     \* SIZE_MAX + 1
          DefaultSize,   \* XPOOL_DEFAULT_SIZE
          PoolSizes,     \* the sizes that the pool is created with
          BlockSizes,    \* the sizes that callers ask for
          MaxChunks, MaxBlocks   \* bounds: chunks in the chain, blocks held

ASSUME PoolAssumption ==
    /\ Alignment \in Nat \ {0} /\ SizeLimit \in Nat \ {0} /\ SizeLimit % Alignment = 0
    /\ DefaultSize \in 1..(SizeLimit - Alignment)
    /\ PoolSizes \subseteq 0..(SizeLimit - Alignment) /\ BlockSizes \subseteq 0..(SizeLimit - 1)
    /\ MaxChunks \in Nat /\ MaxBlocks \in Nat

VARIABLES
    chunks,   \* the chain: size (nSize) and used (nUsed) of every chunk
    blocks    \* history: the blocks that callers hold: chunk, offset and size

poolVars == <<chunks, blocks>>

\* XPool_AlignSize: 0 when rounding up overflows.
XPool_AlignSize(n) ==
    LET r == (n + (Alignment - 1)) % SizeLimit
        a == r - (r % Alignment)
    IN  IF a < n THEN 0 ELSE a

Block(c, off, n) == [c |-> c, off |-> off, len |-> n]
End(b) == b.off + XPool_AlignSize(b.len)

Chunk(n) == [size |-> XPool_AlignSize(n), used |-> 0]

XPool_HasSpace(c, n) == n <= c.size - c.used

\* XPool_FindSpace: the chunks of the chain ch that have space for n bytes.
WithSpace(ch, n) == {i \in 1..Len(ch) : XPool_HasSpace(ch[i], n)}

\* Where XPool_Alloc finds n (aligned) bytes: in the tail, else in the first chunk
\* with space; otherwise in a chunk that is appended.
Place(ch, n) ==
    CASE Len(ch) \in WithSpace(ch, n) -> Len(ch)
      [] Len(ch) \notin WithSpace(ch, n) /\ WithSpace(ch, n) # {} ->
             CHOOSE i \in WithSpace(ch, n) : \A j \in WithSpace(ch, n) : i <= j
      [] WithSpace(ch, n) = {} -> Len(ch) + 1

\* The chain in which chunk Place(ch, n) exists.
Grown(ch, n) ==
    IF Place(ch, n) <= Len(ch) THEN ch
    ELSE Append(ch, Chunk(IF n >= ch[Len(ch)].size THEN n ELSE ch[Len(ch)].size))

\* Whether XPool_Alloc returns a block of len bytes; ok: malloc succeeds.
CanAlloc(ch, len, ok) ==
    LET n == XPool_AlignSize(len) IN len # 0 /\ n # 0 /\ (Place(ch, n) <= Len(ch) \/ ok)

\* The chain after it.
XPool_Alloc(ch, len) ==
    LET n == XPool_AlignSize(len) IN
    [Grown(ch, n) EXCEPT ![Place(ch, n)].used = @ + n]

Allocated(ch, len) ==
    LET n == XPool_AlignSize(len) IN
    Block(Place(ch, n), Grown(ch, n)[Place(ch, n)].used, len)

\* Mutant: a block that is not the last one is cut off the chunk too.
FreeAnything(ch, b) ==
    LET n == XPool_AlignSize(b.len) IN
    IF n > ch[b.c].used THEN ch ELSE [ch EXCEPT ![b.c].used = @ - n]

\* XPool_Free: the only block, the last block, or nothing.
XPool_Free(ch, b) ==
    LET n == XPool_AlignSize(b.len)
        c == ch[b.c]
    IN  CASE b.off = 0 /\ n >= c.used -> [ch EXCEPT ![b.c].used = 0]
          [] ~(b.off = 0 /\ n >= c.used) /\ c.used = b.off + n -> [ch EXCEPT ![b.c].used = @ - n]
          [] OTHER -> ch

\* Whether XPool_Realloc resizes b where it is.
InPlace(ch, b, len) ==
    LET old == XPool_AlignSize(b.len)
        new == XPool_AlignSize(len)
        c == ch[b.c]
    IN  b.off + old = c.used /\ (new <= old \/ new - old <= c.size - c.used)

-----------------------------------------------------------------------------
PoolInit ==
    /\ \E n \in PoolSizes : chunks = <<Chunk(IF n = 0 THEN DefaultSize ELSE n)>>
    /\ blocks = {}

\* xalloc, XPool_Alloc.
PoolAlloc ==
    \E len \in BlockSizes, ok \in BOOLEAN :
        /\ Cardinality(blocks) < MaxBlocks
        /\ CanAlloc(chunks, len, ok)
        /\ Len(XPool_Alloc(chunks, len)) <= MaxChunks
        /\ chunks' = XPool_Alloc(chunks, len)
        /\ blocks' = blocks \cup {Allocated(chunks, len)}

\* xfreen, XPool_Free.
PoolFree ==
    \E b \in blocks :
        /\ chunks' = XPool_Free(chunks, b)
        /\ blocks' = blocks \ {b}

\* xrealloc, XPool_Realloc of a block: in place, or to a new block (the data is
\* copied and the old block freed); without memory nothing changes.
PoolRealloc ==
    \E b \in blocks, len \in BlockSizes, ok \in BOOLEAN :
        /\ len # 0 /\ XPool_AlignSize(len) # 0
        /\ \/ /\ InPlace(chunks, b, len)
              /\ chunks' = [chunks EXCEPT ![b.c].used = @ - XPool_AlignSize(b.len) + XPool_AlignSize(len)]
              /\ blocks' = (blocks \ {b}) \cup {Block(b.c, b.off, len)}
           \/ /\ ~InPlace(chunks, b, len) /\ CanAlloc(chunks, len, ok)
              /\ Len(XPool_Alloc(chunks, len)) <= MaxChunks
              /\ chunks' = XPool_Free(XPool_Alloc(chunks, len), b)
              /\ blocks' = (blocks \ {b}) \cup {Allocated(chunks, len)}

\* XPool_Reset; the blocks that callers still hold are lost.
PoolReset ==
    /\ chunks' = [i \in 1..Len(chunks) |-> [chunks[i] EXCEPT !.used = 0]]
    /\ blocks' = {}

\* XPool_Destroy of a pool that is not on the heap: one chunk without memory is
\* left, and the pool may be used again.
PoolDestroy ==
    /\ chunks' = <<[size |-> 0, used |-> 0]>>
    /\ blocks' = {}

PoolNext == PoolDestroy \/ PoolAlloc \/ PoolFree \/ PoolRealloc \/ PoolReset

PoolSpec == PoolInit /\ [][PoolNext]_poolVars

-----------------------------------------------------------------------------
\* Two blocks that callers hold never share a byte, and every block lies in the used
\* part of its chunk and starts at an aligned address (pool.h:20): neither a block
\* freed out of order nor one resized in place or moved, nor a size whose rounding
\* overflows, lets XPool_Alloc hand out bytes that are in use.
BlocksDisjoint ==
    /\ \A i \in 1..Len(chunks) : chunks[i].used <= chunks[i].size
    /\ \A b \in blocks : /\ b.c \in 1..Len(chunks) /\ b.off % Alignment = 0
                         /\ b.off + b.len <= chunks[b.c].used
    /\ \A a, b \in blocks : a # b /\ a.c = b.c => a.off + a.len <= b.off \/ b.off + b.len <= a.off
=============================================================================
