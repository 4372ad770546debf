-------------------------------- MODULE XMap --------------------------------
(***************************************************************************)
(* The string map of src/data/map.c: a table of pairs with open            *)
(* addressing, where a removed pair leaves a tombstone (DELETED), a table  *)
(* that is 70 % full is doubled, and a table with many tombstones is       *)
(* rebuilt.  The hash of a key is any number.  XMap_Put is several steps:  *)
(* the loops that move the pairs to another table are one step per cell.   *)
(***************************************************************************)
EXTENDS Integers, Sequences, FiniteSets, FiniteSetsExt

CONSTANTS MapKeys, MapValues,
          KeyHash,          \* KeyHash[k]: the 32 bits that XMap_Hash reduces
          MapInitialSize,   \* XMAP_INITIAL_SIZE
          MapSizes,         \* the sizes that XMap_Init is called with
          MapMaxSize        \* bound: no operation that would double a larger table

ASSUME MapAssumption ==
    /\ KeyHash \in [MapKeys -> Nat]
    /\ MapInitialSize \in Nat \ {0} /\ MapSizes \subseteq Nat /\ MapMaxSize \in Nat

NoValue == "NULL"

VARIABLES
    map,    \* xmap_t: null (pPairs is NULL), pairs (pPairs), size (nTableSize),
            \* count (nCount), deleted (nDeleted), update (bAllowUpdate)
    call,   \* the XMap_Put that runs: pc, key, val, old (the pairs that are moved), i (the
            \* next of them), after (where it goes on); pc is "idle" when none does
    dict    \* history: dict[k] is the set of values that XMap_Get may return for k,
            \* by what the caller was told

mapVars == <<map, call, dict>>

Unused == [st |-> "UNUSED", key |-> NoValue, val |-> NoValue]
Tombstone == [st |-> "DELETED", key |-> NoValue, val |-> NoValue]
Pair(k, v) == [st |-> "USED", key |-> k, val |-> v]

Table(n) == [i \in 1..n |-> Unused]
CountOf(m, st) == Cardinality({i \in 1..Len(m.pairs) : m.pairs[i].st = st})

-----------------------------------------------------------------------------
(* Probing.                                                                *)

\* The cell that the i-th probe for k looks at (cells count from 1).
XMap_Hash(m, k, i) == 1 + (((KeyHash[k] % m.size) + i) % m.size)

Probe(m, k, i) == m.pairs[XMap_Hash(m, k, i)]

\* The probes that end a search for k: a cell never used, or the pair of k.
Ends(m, k) == {i \in 0..(m.size - 1) : \/ Probe(m, k, i).st = "UNUSED"
                                       \/ Probe(m, k, i).st = "USED" /\ Probe(m, k, i).key = k}

\* XMap_GetHash: the cell of k or the one where k is to be put; 0 for XMAP_FULL.
XMap_GetHash(m, k) ==
    LET ends == Ends(m, k)
        end == IF ends = {} THEN m.size ELSE Min(ends)
        free == {i \in 0..(end - 1) : Probe(m, k, i).st = "DELETED"}
    IN  CASE ends # {} /\ Probe(m, k, end).st = "USED" -> XMap_Hash(m, k, end)
          [] free # {} /\ (ends = {} \/ Probe(m, k, end).st # "USED") -> XMap_Hash(m, k, Min(free))
          [] free = {} /\ ends # {} /\ Probe(m, k, end).st # "USED" -> XMap_Hash(m, k, end)
          [] free = {} /\ ends = {} -> 0

\* XMap_GetIndex and XMap_GetPair: the cell of k, 0 when there is none.
XMap_GetIndex(m, k) ==
    IF m.null \/ m.size = 0 \/ Ends(m, k) = {} THEN 0
    ELSE LET i == Min(Ends(m, k)) IN
         IF Probe(m, k, i).st = "USED" THEN XMap_Hash(m, k, i) ELSE 0

XMap_Get(m, k) ==
    IF XMap_GetIndex(m, k) = 0 THEN NoValue ELSE m.pairs[XMap_GetIndex(m, k)].val

-----------------------------------------------------------------------------
(* The operations, on a map m.                                             *)

\* Pair p in cell i, and the counters.
Store(m, i, p) ==
    [m EXCEPT !.pairs = [@ EXCEPT ![i] = p],
              !.deleted = IF m.pairs[i].st = "DELETED" /\ @ > 0 THEN @ - 1 ELSE @,
              !.count = IF m.pairs[i].st # "USED" THEN @ + 1 ELSE @]

\* It finds a cell: the table has as many as the one that is moved has pairs.
XMap_PutRaw(m, p) == Store(m, XMap_GetHash(m, p.key), p)

\* The cells whose pairs XMap_Iterate shows, each once.
XMap_Iterate(m) ==
    IF m.null \/ m.count = 0 THEN {} ELSE {i \in 1..Len(m.pairs) : m.pairs[i].st = "USED"}

\* The map with a table of n fresh cells.
Renewed(m, n) == [m EXCEPT !.null = FALSE, !.pairs = Table(n), !.size = n, !.count = 0, !.deleted = 0]

DoubledSize(m) == IF m.size > 0 THEN 2 * m.size ELSE MapInitialSize

Full(m) == m.null \/ m.size = 0 \/ m.count * 10 >= m.size * 7

\* Mutant: a removed pair leaves a cell that was never used.
RemoveToUnused(m, k) ==
    IF XMap_GetIndex(m, k) = 0 THEN m
    ELSE [m EXCEPT !.pairs[XMap_GetIndex(m, k)] = Unused, !.count = @ - 1]

\* XMap_Remove; the pair goes to clearCb.
XMap_Remove(m, k) ==
    IF XMap_GetIndex(m, k) = 0 THEN m
    ELSE [m EXCEPT !.pairs = [@ EXCEPT ![XMap_GetIndex(m, k)] = Tombstone],
                   !.count = IF @ > 0 THEN @ - 1 ELSE @, !.deleted = @ + 1]

\* XMap_Update of the cell that XMap_GetIndex just gave.
XMap_Update(m, i, v) == Store(m, i, [m.pairs[i] EXCEPT !.st = "USED", !.val = v])

\* XMap_Reset: with XMap_ClearIt for every pair.
XMap_Reset(m) ==
    IF m.null THEN m ELSE [m EXCEPT !.pairs = Table(m.size), !.count = 0, !.deleted = 0]

\* XMap_Destroy of a map that is not on the heap: it may be used again.
XMap_Destroy(m) ==
    [m EXCEPT !.null = TRUE, !.pairs = << >>, !.size = 0, !.count = 0, !.deleted = 0]

\* XMap_Init.  A failed allocation leaves the size set.
XMap_Init(n, update, ok) ==
    [null |-> n = 0 \/ ~ok, pairs |-> IF ok THEN Table(n) ELSE << >>, size |-> n,
     count |-> 0, deleted |-> 0, update |-> update]

-----------------------------------------------------------------------------
NoPairs == [k \in MapKeys |-> {NoValue}]
NoCall == [pc |-> "idle", key |-> NoValue, val |-> NoValue, old |-> << >>, i |-> 1, after |-> "idle"]

MapInit ==
    /\ \E n \in MapSizes, update \in BOOLEAN, ok \in BOOLEAN : map = XMap_Init(n, update, ok)
    /\ call = NoCall
    /\ dict = NoPairs

\* XMap_Put begins.
MapPut ==
    \E k \in MapKeys, v \in MapValues :
        /\ call.pc = "idle" /\ map.size <= MapMaxSize
        /\ call' = [call EXCEPT !.pc = IF Full(map) THEN "full" ELSE "find", !.key = k, !.val = v]
        /\ UNCHANGED <<map, dict>>

\* The call moves on with the pairs of m, of which the map gets n fresh cells.
Move(m, n, after) ==
    /\ map' = Renewed(m, n)
    /\ call' = [call EXCEPT !.pc = "move", !.old = m.pairs, !.i = 1, !.after = after]

\* XMap_Put returns: with an error, the pair may have been stored or not.
PutReturns(vals) == call' = NoCall /\ dict' = [dict EXCEPT ![call.key] = vals]

\* The table is to be doubled: it was too full, or no cell is found (while XMAP_FULL).
NeedsRoom == IF call.pc = "find" THEN XMap_GetHash(map, call.key) = 0 ELSE call.pc = "full"

\* XMap_Realloc, as far as its allocation.
MapRealloc ==
    /\ NeedsRoom
    /\ \/ PutReturns(dict[call.key] \cup {call.val}) /\ UNCHANGED map
       \/ Move(map, DoubledSize(map), "find") /\ UNCHANGED dict

\* One turn of the loop in XMap_Realloc and XMap_Rehash, and its end.
MapMove ==
    /\ call.pc = "move" /\ call.i <= Len(call.old)
    /\ map' = IF call.old[call.i].st = "USED" THEN XMap_PutRaw(map, call.old[call.i]) ELSE map
    /\ call' = [call EXCEPT !.i = @ + 1]
    /\ UNCHANGED dict

MapMoved ==
    /\ call.pc = "move" /\ call.i > Len(call.old)
    /\ call' = IF call.after = "idle" THEN NoCall ELSE [call EXCEPT !.pc = "find", !.old = << >>, !.i = 1]
    /\ UNCHANGED <<map, dict>>

\* The rest of XMap_Put.  When the rebuilding fails the pair has been stored all the same.
MapStore ==
    LET i == XMap_GetHash(map, call.key)
        put == Store(map, i, Pair(call.key, call.val))
    IN  /\ call.pc = "find" /\ i # 0
        /\ \/ /\ map.pairs[i].st = "USED" /\ ~map.update
              /\ PutReturns(dict[call.key]) /\ UNCHANGED map
           \/ /\ map.pairs[i].st = "USED" => map.update
              /\ put.deleted <= put.size \div 4
              /\ PutReturns({call.val}) /\ map' = put
           \/ /\ map.pairs[i].st = "USED" => map.update
              /\ put.deleted > put.size \div 4
              /\ \/ PutReturns(dict[call.key] \cup {call.val}) /\ map' = put
                 \/ Move(put, put.size, "idle") /\ dict' = [dict EXCEPT ![call.key] = {call.val}]

MapRemove ==
    \E k \in MapKeys :
        /\ call.pc = "idle"
        /\ map' = XMap_Remove(map, k)
        /\ dict' = [dict EXCEPT ![k] = {NoValue}]
        /\ UNCHANGED call

\* As in json.c: XMap_GetIndex, then XMap_Update of what it found.
MapUpdate ==
    \E k \in MapKeys, v \in MapValues :
        /\ call.pc = "idle" /\ XMap_GetIndex(map, k) # 0
        /\ map' = XMap_Update(map, XMap_GetIndex(map, k), v)
        /\ dict' = [dict EXCEPT ![k] = {v}]
        /\ UNCHANGED call

MapClear ==
    /\ call.pc = "idle"
    /\ map' \in {XMap_Reset(map), XMap_Destroy(map)}
    /\ dict' = NoPairs
    /\ UNCHANGED call

MapNext == MapPut \/ MapRealloc \/ MapMove \/ MapMoved \/ MapStore \/ MapRemove \/ MapUpdate \/ MapClear

MapSpec == MapInit /\ [][MapNext]_mapVars

-----------------------------------------------------------------------------
\* The map is a dictionary: between two calls XMap_Get (map.c:534) finds for every key
\* the value that was put last, whatever tombstones and wrap-arounds the probes meet
\* and whatever the table was rebuilt for, and nothing when the key was removed; a Put
\* that ran out of memory may or may not have happened.  XMap_Iterate shows exactly the
\* pairs that can be found, and nCount and nDeleted are exact at any time.
MapIsDictionary ==
    /\ call.pc = "idle" =>
           /\ \A k \in MapKeys : XMap_Get(map, k) \in dict[k]
           /\ \A k \in MapKeys : XMap_GetIndex(map, k) # 0 => XMap_GetIndex(map, k) \in XMap_Iterate(map)
           /\ \A i \in XMap_Iterate(map) : XMap_GetIndex(map, map.pairs[i].key) = i
    /\ map.count = CountOf(map, "USED") /\ map.deleted = CountOf(map, "DELETED")
=============================================================================
