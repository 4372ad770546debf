------------------------------- MODULE XArray -------------------------------
(***************************************************************************)
(* The growing array of src/data/array.c: a block of pointers to entries,  *)
(* doubled when it is full and halved when less than a quarter is used,    *)
(* with the two sorts and the four searches by key.  An entry is what      *)
(* XArray_NewData allocates; the entries are named, so that one that is    *)
(* lost or freed twice is seen.  Elements are addressed by an index below  *)
(* nUsed; the array has no memory pool of its own.                         *)
(***************************************************************************)
EXTENDS Integers, Sequences, FiniteSets, FiniteSetsExt, SequencesExt

CONSTANTS Entries,            \* the entries that can be allocated
          EntryKey,           \* nKey (or nSize) of an entry
          ArrayInitialSize,   \* XARRAY_INITIAL_SIZE
          ArraySizes          \* the sizes that XArray_Init is called with

ASSUME ArrayAssumption ==
    /\ EntryKey \in [Entries -> Nat]
    /\ ArrayInitialSize \in Nat \ {0} /\ ArraySizes \subseteq Nat

Nil == "NULL"
ASSUME NilIsNoEntry == Nil \notin Entries

VARIABLES
    arr,      \* xarray_t: null (pData is NULL), slots (pData), size (nSize), used
              \* (nUsed), fixed (nFixed)
    list,     \* history: the entries that the array should hold, in order
    live,     \* entries allocated, neither freed nor handed to the caller
    freed2,   \* an entry was freed that was not live
    sorted    \* the array was sorted and has not been changed since

arrayVars == <<arr, list, live, freed2, sorted>>

Slots(n) == [i \in 1..n |-> Nil]

\* XArray_Init; a failed allocation leaves the size set.
XArray_Init(n, fixed, ok) ==
    [null |-> n = 0 \/ ~ok, slots |-> IF ok THEN Slots(n) ELSE << >>, size |-> n,
     used |-> 0, fixed |-> fixed]

XArray_Realloc(a, ok) ==
    LET n == CASE a.used > 0 /\ a.used = a.size -> 2 * a.size
               [] a.used > 0 /\ 4 * a.used < a.size -> a.size \div 2
               [] OTHER -> 0
    IN  IF a.fixed \/ n = 0 \/ ~ok THEN a
        ELSE [a EXCEPT !.size = n, !.slots = [i \in 1..n |-> IF i <= a.used THEN @[i] ELSE Nil]]

\* XArray_CheckSpace; an array without memory is no longer fixed afterwards.
XArray_CheckSpace(a, ok) ==
    CASE a.null -> XArray_Init(ArrayInitialSize, FALSE, ok)
      [] ~a.null /\ a.used >= a.size -> XArray_Realloc(a, ok)
      [] OTHER -> a

HasSpace(a) == ~a.null /\ a.used < a.size

\* XArray_Add to an array that has space.
Appended(a, e) == [a EXCEPT !.slots[a.used + 1] = e, !.used = @ + 1]

\* XArray_Insert before index i: every later entry moves one slot on.
XArray_Insert(a, i, e) ==
    Appended([a EXCEPT !.slots = [j \in DOMAIN @ |-> CASE j = i + 1 -> e
                                                       [] j > i + 1 /\ j <= a.used -> @[j - 1]
                                                       [] OTHER -> @[j]]],
             a.slots[a.used])

\* XArray_Remove and XArray_Delete: later entries move up, and the array may shrink.
Removed(a, i, ok) ==
    XArray_Realloc([a EXCEPT !.slots = [j \in DOMAIN @ |-> CASE j > i /\ j < a.used -> @[j + 1]
                                                             [] j = a.used -> Nil
                                                             [] OTHER -> @[j]],
                             !.used = @ - 1], ok)

XArray_Set(a, i, e) == [a EXCEPT !.slots[i + 1] = e]

XArray_Swap(a, i, j) ==
    IF i >= a.used \/ j >= a.used THEN a
    ELSE [a EXCEPT !.slots = [@ EXCEPT ![i + 1] = a.slots[j + 1], ![j + 1] = a.slots[i + 1]]]

XArray_Destroy(a) == [null |-> TRUE, slots |-> << >>, size |-> 0, used |-> 0, fixed |-> FALSE]

-----------------------------------------------------------------------------
(* Sorting and searching, on the sequence of the keys or entries in use.   *)

\* XArray_CompareKey and XArray_CompareSize.
Compare(e, f) == EntryKey[e] - EntryKey[f]

Swapped(s, i, j) == [s EXCEPT ![i] = s[j], ![j] = s[i]]

\* XArray_Partitioning: part[s, lo, hi, p] is <<s', where>>, p being the pivot's place.
Partitioning[s \in Seq(Entries), lo \in Nat, hi \in Nat, p \in Nat] ==
    LET l == Min({i \in lo..Len(s) : Compare(s[i], s[p]) >= 0})
        h == Max({i \in 1..hi : Compare(s[i], s[p]) <= 0})
        g == IF Compare(s[l], s[h]) = 0 THEN h - 1 ELSE h
    IN  IF l >= g THEN <<s, l>> ELSE Partitioning[Swapped(s, l, g), l, g, p]

QuickSort[s \in Seq(Entries), lo \in Nat, hi \in Nat] ==
    IF lo >= hi THEN s
    ELSE LET r == Partitioning[s, lo, hi, lo] IN
         QuickSort[QuickSort[r[1], lo, r[2]], r[2] + 1, hi]

\* XArray_BubbleSort with a comparator that is true when its first argument is greater:
\* one inner step is j of pass i.
BubbleSort(s) ==
    LET n == Len(s)
        step(t, j) == IF Compare(t[j], t[j + 1]) > 0 THEN Swapped(t, j, j + 1) ELSE t
        pass(t, i) == FoldLeft(step, t, [j \in 1..(n - i) |-> j])
    IN  FoldLeft(pass, s, [i \in 1..(n - 1) |-> i])

InUse(a) == SubSeq(a.slots, 1, a.used)

\* XArray_Sort, XArray_SortBy.
XArray_Sort(a) ==
    LET s == QuickSort[InUse(a), 1, a.used] IN
    [a EXCEPT !.slots = [j \in DOMAIN @ |-> IF j <= a.used THEN s[j] ELSE @[j]]]

XArray_BubbleSort(a) ==
    LET s == BubbleSort(InUse(a)) IN
    [a EXCEPT !.slots = [j \in DOMAIN @ |-> IF j <= a.used THEN s[j] ELSE @[j]]]

KeyAt(a, i) == EntryKey[a.slots[i + 1]]
Places(a, key) == {i \in 0..(a.used - 1) : KeyAt(a, i) = key}
MinOr(S) == IF S = {} THEN -1 ELSE Min(S)

XArray_LinearSearch(a, key) == MinOr(Places(a, key))

\* The last entry is looked at first, then replaced by one that ends the loop.
XArray_SentinelSearch(a, key) ==
    IF a.used - 1 \in Places(a, key) THEN a.used - 1 ELSE MinOr(Places(a, key))

\* From both ends, the front first.
XArray_DoubleSearch(a, key) ==
    LET far == a.used - 1
        d == MinOr({i \in 0..(a.used \div 2) : {i, far - i} \cap Places(a, key) # {}})
    IN  CASE d = -1 -> -1
          [] d \in Places(a, key) -> d
          [] OTHER -> far - d

\* Mutant: the search ends when one entry is left to look at.
BinaryEndsEarly(a, key) ==
    LET find[l \in Int, r \in Int] ==
            LET m == l + ((r - l) \div 2) IN
            CASE l >= r -> -1
              [] l < r /\ KeyAt(a, m) < key -> find[m + 1, r]
              [] l < r /\ KeyAt(a, m) = key -> m
              [] l < r /\ KeyAt(a, m) > key -> find[l, m - 1]
    IN  IF a.used = 0 THEN -1 ELSE IF KeyAt(a, 0) = key THEN 0 ELSE find[0, a.used - 1]

XArray_BinarySearch(a, key) ==
    LET find[l \in Int, r \in Int] ==
            LET m == l + ((r - l) \div 2) IN
            CASE l > r -> -1
              [] l <= r /\ KeyAt(a, m) < key -> find[m + 1, r]
              [] l <= r /\ KeyAt(a, m) = key -> m
              [] l <= r /\ KeyAt(a, m) > key -> find[l, m - 1]
    IN  IF a.used = 0 THEN -1 ELSE IF KeyAt(a, 0) = key THEN 0 ELSE find[0, a.used - 1]

-----------------------------------------------------------------------------
(* The operations.                                                         *)

\* Frees the entries of S (XArray_ClearData).
Free(S) == live' = live \ S /\ freed2' = (freed2 \/ ~(S \subseteq live))

ArrayInit ==
    /\ \E n \in ArraySizes, fixed \in BOOLEAN, ok \in BOOLEAN : arr = XArray_Init(n, fixed, ok)
    /\ list = << >> /\ live = {} /\ freed2 = FALSE /\ sorted = FALSE

\* XArray_AddData, XArray_AddDataKey and XArray_PushData.  Without memory for the
\* entry nothing happens; without space the new entry is freed.
ArrayAdd ==
    \E e \in Entries \ live, ok \in BOOLEAN :
        LET a == XArray_CheckSpace(arr, ok) IN
        /\ e \notin ToSet(arr.slots)
        /\ arr' = IF HasSpace(a) THEN Appended(a, e) ELSE a
        /\ list' = IF HasSpace(a) THEN Append(list, e) ELSE list
        /\ live' = IF HasSpace(a) THEN live \cup {e} ELSE live
        /\ sorted' = (sorted /\ ~HasSpace(a))
        /\ UNCHANGED freed2

\* XArray_InsertData.
ArrayInsert ==
    \E e \in Entries \ live, i \in 0..(arr.used - 1), ok \in BOOLEAN :
        LET a == XArray_CheckSpace(arr, ok) IN
        /\ e \notin ToSet(arr.slots)
        /\ arr' = IF HasSpace(a) THEN XArray_Insert(a, i, e) ELSE a
        /\ list' = IF HasSpace(a) THEN InsertAt(list, i + 1, e) ELSE list
        /\ live' = IF HasSpace(a) THEN live \cup {e} ELSE live
        /\ sorted' = (sorted /\ ~HasSpace(a))
        /\ UNCHANGED freed2

\* XArray_Remove hands the entry to the caller, XArray_Delete frees it.
ArrayRemove ==
    \E i \in 0..(arr.used - 1), ok \in BOOLEAN :
        /\ arr' = Removed(arr, i, ok)
        /\ list' = RemoveAt(list, i + 1)
        /\ Free({arr.slots[i + 1]})
        /\ UNCHANGED sorted

\* XArray_SetData; the old entry is the caller's.
ArraySet ==
    \E e \in Entries \ live, i \in 0..(arr.used - 1) :
        /\ e \notin ToSet(arr.slots)
        /\ arr' = XArray_Set(arr, i, e)
        /\ list' = [list EXCEPT ![i + 1] = e]
        /\ live' = (live \ {arr.slots[i + 1]}) \cup {e}
        /\ sorted' = FALSE
        /\ UNCHANGED freed2

\* XArray_Swap ignores an index out of range.
ArraySwap ==
    \E i, j \in 0..arr.used :
        /\ i < j
        /\ arr' = XArray_Swap(arr, i, j)
        /\ list' = IF j < arr.used THEN Swapped(list, i + 1, j + 1) ELSE list
        /\ sorted' = (sorted /\ j = arr.used)
        /\ UNCHANGED <<live, freed2>>

ArraySort ==
    /\ arr' \in {XArray_Sort(arr), XArray_BubbleSort(arr)}
    /\ list' = InUse(arr')
    /\ sorted' = TRUE
    /\ UNCHANGED <<live, freed2>>

\* XArray_Clear frees what is in any slot, XArray_Destroy the block too.
ArrayClear ==
    /\ arr' \in {[arr EXCEPT !.slots = Slots(Len(@)), !.used = 0], XArray_Destroy(arr)}
    /\ list' = << >> /\ sorted' = FALSE
    /\ Free(ToSet(arr.slots) \ {Nil})

ArrayNext ==
    ArrayAdd \/ ArrayInsert \/ ArrayRemove \/ ArraySet \/ ArraySwap \/ ArraySort \/ ArrayClear

-----------------------------------------------------------------------------
\* XArray_Sort and XArray_BubbleSort leave the keys in ascending order, and the four
\* searches (the binary one in a sorted array) find an entry with the key exactly
\* when there is one.
SoughtKeys == 0..(Max({EntryKey[e] : e \in Entries}) + 1)
SearchesFind ==
    /\ sorted => \A i, j \in 1..Len(list) : i < j => Compare(list[i], list[j]) <= 0
    /\ \A key \in SoughtKeys :
           LET found(i) == i \in Places(arr, key) \/ (i = -1 /\ Places(arr, key) = {}) IN
           /\ found(XArray_LinearSearch(arr, key)) /\ found(XArray_SentinelSearch(arr, key))
           /\ found(XArray_DoubleSearch(arr, key))
           /\ sorted => found(XArray_BinarySearch(arr, key))

\* The array is the sequence that its operations describe, whichever allocation failed:
\* the first nUsed slots are the expected entries in order and the rest is NULL;
\* every allocated entry is in exactly one slot, and no entry is freed twice
\* (XArray_Realloc, array.c:192, moves the block under all of them); what is sorted
\* is in order and every search finds what is there.
ArrayIsSequence ==
    /\ IF arr.null THEN arr.used = 0 /\ list = << >>
                   ELSE Len(arr.slots) = arr.size /\ arr.used <= arr.size
    /\ InUse(arr) = list
    /\ \A i \in (arr.used + 1)..Len(arr.slots) : arr.slots[i] = Nil
    /\ ToSet(list) = live /\ Cardinality(live) = Len(list) /\ ~freed2
    /\ SearchesFind
=============================================================================
