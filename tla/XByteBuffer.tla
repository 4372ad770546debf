---------------------------- MODULE XByteBuffer ----------------------------
(***************************************************************************)
(* xbyte_buffer_t of src/data/buf.c as operators on a record.  A byte is   *)
(* any value; the allocation is the sequence mem of its bytes, so that     *)
(* nUsed, nSize and the terminating NUL are three different things, as in  *)
(* the code.  The operators that allocate take a Boolean ok: whether the   *)
(* allocation they may need succeeds.                                      *)
(***************************************************************************)
EXTENDS Integers, Sequences

CONSTANTS NUL,    \* the byte '\0'
          JUNK    \* a byte that was never written

MinOf(a, b) == IF a <= b THEN a ELSE b

\* An empty buffer.  null: pData is NULL; status: nStatus; bad: an operation
\* touched a byte outside of the allocation.
EmptyBuffer(fast) ==
    [null |-> TRUE, mem |-> << >>, size |-> 0, used |-> 0, status |-> 1,
     fast |-> fast, bad |-> FALSE]

UsedBytes(b) == SubSeq(b.mem, 1, b.used)

\* pData[i] = c
Poke(b, i, c) ==
    IF i < Len(b.mem) THEN [b EXCEPT !.mem = [@ EXCEPT ![i + 1] = c]]
                      ELSE [b EXCEPT !.bad = TRUE]

XByteBuffer_Clear(b) ==
    [b EXCEPT !.null = TRUE, !.mem = << >>, !.size = 0, !.used = 0, !.status = 0]

\* A buffer that holds foreign memory (nSize = 0) cannot grow; one that owns its
\* memory is truncated when it does not fit below the new size.
XByteBuffer_Resize(b, n, ok) ==
    CASE n = 0 -> XByteBuffer_Clear(b)
      [] n > 0 /\ ~b.null /\ b.size = 0 /\ b.used >= n -> b
      [] n > 0 /\ (IF ~b.null /\ b.size = 0 THEN b.used < n ELSE ~ok) ->
             [b EXCEPT !.status = -1]
      [] n > 0 /\ ok /\ b.null ->
             [b EXCEPT !.null = FALSE, !.mem = [i \in 1..n |-> JUNK],
                       !.size = n, !.used = 0]
      [] n > 0 /\ ok /\ ~b.null /\ b.size > 0 ->
             LET u == MinOf(b.used, n - 1) IN
             [b EXCEPT !.mem = [i \in 1..n |-> CASE i = u + 1 -> NUL
                                                 [] i # u + 1 /\ i <= Len(b.mem) -> b.mem[i]
                                                 [] OTHER -> JUNK],
                       !.size = n, !.used = u]

XByteBuffer_Reserve(b, n, ok) ==
    LET new == b.used + n IN
    IF b.status < 0 \/ new <= b.size THEN b
    ELSE XByteBuffer_Resize(b, IF b.fast THEN 2 * new ELSE new, ok)

XByteBuffer_Init(n, fast, ok) == XByteBuffer_Reserve(EmptyBuffer(fast), n, ok)

\* The buffer with the bytes d written from offset i on, and used set to u.
Written(b, i, d, u) ==
    [b EXCEPT !.mem = [j \in 1..Len(b.mem) |->
                          CASE j > i /\ j <= i + Len(d) -> d[j - i]
                            [] j = u + 1 -> NUL
                            [] OTHER -> b.mem[j]],
              !.used = u, !.bad = @ \/ u >= Len(b.mem)]

\* XByteBuffer_Add, and AddStr, AddFmt, AddByte and AddBuff, which end in it.
XByteBuffer_Add(b, d, ok) ==
    LET r == XByteBuffer_Reserve(b, Len(d) + 1, ok) IN
    IF d = << >> THEN b ELSE IF r.status < 0 THEN r ELSE Written(r, r.used, d, r.used + Len(d))

\* Whether XByteBuffer_Add returned a positive value.
Added(r) == r.status >= 0

XByteBuffer_Insert(b, p, d, ok) ==
    IF p >= b.used THEN XByteBuffer_Add(b, d, ok)
    ELSE LET r == XByteBuffer_Reserve(b, Len(d) + 1, ok) IN
         IF r.status < 0 THEN r
         ELSE Written(r, p, d \o SubSeq(r.mem, p + 1, r.used), r.used + Len(d))

\* Removing up to the end of the data does not write a terminator.
XByteBuffer_Remove(b, p, n) ==
    LET last == MinOf(p + n, b.used)
        tail == SubSeq(b.mem, last + 1, b.used)
    IN  CASE n = 0 \/ p >= b.used -> b
          [] n > 0 /\ p < b.used /\ last = b.used -> [b EXCEPT !.used = p]
          [] OTHER -> Written(b, p, tail, p + Len(tail))

XByteBuffer_Delete(b, p, n, ok) ==
    LET r == XByteBuffer_Remove(b, p, n)
        s == XByteBuffer_Resize(r, r.used + 1, ok)
    IN  Poke(s, s.used, NUL)

XByteBuffer_Advance(b, n, ok) == XByteBuffer_Delete(b, 0, n, ok)

XByteBuffer_HasData(b) == ~b.null /\ b.used > 0

XByteBuffer_Terminate(b, p) ==
    LET t == MinOf(b.used, p) IN
    IF b.null \/ b.used = 0 THEN b ELSE [Poke(b, t, NUL) EXCEPT !.used = t]

XByteBuffer_NullTerm(b, ok) ==
    LET r == XByteBuffer_Reserve(b, 1, ok) IN
    IF r.status < 0 THEN r ELSE Poke(r, r.used, NUL)

\* The first byte is overwritten whatever the buffer holds.
XByteBuffer_Reset(b) ==
    [(IF b.null THEN [b EXCEPT !.size = 0] ELSE Poke(b, 0, NUL))
        EXCEPT !.status = 0, !.used = 0]

\* XByteBuffer_SetData and XByteBuffer_Set: the memory d stays with its owner.
XByteBuffer_SetData(b, d) ==
    [b EXCEPT !.null = FALSE, !.mem = d, !.size = 0, !.used = Len(d), !.status = 1]

\* XByteBuffer_OwnData and XByteBuffer_Own.
XByteBuffer_OwnData(b, d) == [XByteBuffer_SetData(b, d) EXCEPT !.size = Len(d)]
=============================================================================
