-------------------------- MODULE XAPIStreamProofs --------------------------
(***************************************************************************)
(* Proof, for every session, every wire, every way in which the stream is  *)
(* cut into pieces and every size of messages and buffers, that the bytes  *)
(* a session sends are the messages that were queued, each whole and in    *)
(* order, and that no buffer of it is used outside its allocation.         *)
(*                                                                         *)
(* SentInOrder is not inductive: what a handler removes from the receive   *)
(* buffer is what a parser read from the header in it, so the bytes of     *)
(* that buffer have to be bytes of the peer's packets; and what            *)
(* XByteBuffer_Add appends has a place only because there is always one    *)
(* cell more than there is data.  StreamInv says both.                     *)
(***************************************************************************)
EXTENDS XAPIStream, WellFoundedInduction, TLAPS

\* A byte of the stream of wire w, or of a message that we send.
Token(w) == [p : 1..Len(w), k : Nat, x : BOOLEAN]
\* What a cell of an allocation holds.
Cell == [p : Nat, k : Nat, x : BOOLEAN] \cup {NUL, JUNK}

\* A buffer that owns its memory: there is always a cell for the terminator after
\* the data, and a buffer that failed holds nothing.
IsBuf(b) ==
    b = [null |-> b.null, mem |-> b.mem, size |-> b.size, used |-> b.used, status |-> b.status,
         fast |-> b.fast, bad |-> b.bad]
BufOK(b) ==
    /\ IsBuf(b) /\ b.null \in BOOLEAN /\ ~b.fast /\ ~b.bad
    /\ b.mem \in Seq(Cell) /\ b.size \in Nat /\ b.used \in Nat /\ b.status \in -1..1
    /\ Len(b.mem) = b.size
    /\ b.null => b.size = 0 /\ b.used = 0
    /\ ~b.null => b.used < b.size
    /\ b.status < 0 => b.used = 0

\* The receive buffer: what is in it was sent by the peer.
RxOK(b) == BufOK(b) /\ \A i \in 1..b.used : b.mem[i] \in Token(W)

\* The session: its shape, its flags and event sets, its buffers.
IsSes(s) ==
    s = [rx |-> s.rx, tx |-> s.tx, ws |-> s.ws, frag |-> s.frag, start |-> s.start, done |-> s.done,
         events |-> s.events, mask |-> s.mask, row |-> s.row, wor |-> s.wor, cancel |-> s.cancel]
Flags(s) ==
    /\ s.start \in BOOLEAN /\ s.done \in BOOLEAN /\ s.row \in BOOLEAN /\ s.wor \in BOOLEAN /\ s.cancel \in BOOLEAN
    /\ s.events \in SUBSET {"IN", "OUT"} /\ s.mask \in SUBSET {"IN", "OUT"}
Bufs(s) == RxOK(s.rx) /\ BufOK(s.tx) /\ BufOK(s.ws)
SesOK(s) == IsSes(s) /\ Flags(s) /\ Bufs(s)

\* The connection: what was handed out was read, and what was read was sent.
NetOK(n) ==
    /\ n = [sent |-> n.sent, read |-> n.read, given |-> n.given, room |-> n.room, owe |-> n.owe,
            hs |-> n.hs, eof |-> n.eof]
    /\ n.sent \in Nat /\ n.read \in Nat /\ n.given \in Nat /\ n.room \in 0..SendRoom
    /\ n.given <= n.read /\ n.read <= n.sent /\ n.sent <= Len(conf.bytes)
    /\ ~conf.tls => n.given = n.read

Points == Callbacks \cup {"idle", "dispatch", "read", "handle", "write", "closed"}
CtlOK(c) ==
    /\ c = [pc |-> c.pc, ev |-> c.ev, rounds |-> c.rounds, size |-> c.size]
    /\ c.pc \in Points /\ c.ev \in SUBSET {"IN", "OUT"} /\ c.rounds \in 0..(DrainMax - 1) /\ c.size \in Nat

LogOK(l) ==
    /\ l = [got |-> l.got, out |-> l.out, put |-> l.put, upgrade |-> l.upgrade, err |-> l.err,
            undef |-> l.undef, reloop |-> l.reloop, tls |-> l.tls, paused |-> l.paused]
    /\ l.out \in Seq(Cell) /\ l.put \in Nat

ConfOK ==
    /\ conf.tls \in BOOLEAN /\ Len(W) \in Nat
    /\ \A p \in 1..Len(W) : W[p].head \in Nat /\ W[p].body \in Nat
    /\ conf.bytes \in Seq(Token(W))

\* What was queued is on the wire or in the transmit buffer.
Queued(n) == FlattenSeq([i \in 1..n |-> Message(i)])
TxOK(s, l) == l.out \o UsedBytes(s.tx) = Queued(l.put)

\* A handler only runs on a buffer that holds something.
HandleOK(s, c) == c.pc = "handle" => s.rx.used > 0

\* The inductive invariant, as a predicate of what a step changes.
AllOK(s, n, c, l) == SesOK(s) /\ NetOK(n) /\ CtlOK(c) /\ LogOK(l) /\ TxOK(s, l) /\ HandleOK(s, c)
StreamInv == ConfOK /\ AllOK(ses, net, ctl, log)

-----------------------------------------------------------------------------
(* Sequences of sequences                                                  *)

\* A set of natural numbers has a least element: the form in which proofs by induction are
\* written here.
LEMMA Least ==
    ASSUME NEW T, T \subseteq Nat, T # {}
    PROVE  \E x \in T : \A y \in T : x <= y
<1> DEFINE L == OpToRel(<, Nat)
<1>1. IsWellFoundedOn(L, Nat) BY NatLessThanWellFounded
<1>2. \A x, y \in Nat : y < x => <<y, x>> \in L BY DEF OpToRel
<1> HIDE DEF L
<1>3. PICK x \in T : \A y \in T : ~(<<y, x>> \in L) BY <1>1, WFMin
<1>4. ASSUME NEW y \in T PROVE x <= y
  <2>1. x \in Nat /\ y \in Nat OBVIOUS
  <2>2. ~(y < x) BY <1>2, <1>3, <2>1
  <2> QED BY <2>1, <2>2
<1> QED BY <1>4

\* The function that FlattenSeq defines by recursion: f[i] is the first i sequences of ss.
IsFlat(f, ss, n) == f = [i \in 1..n |-> IF i = 1 THEN ss[i] ELSE f[i-1] \o ss[i]]

\* FlattenSeq is the last value of it.
LEMMA FlatDef ==
    ASSUME NEW ss, Len(ss) # 0
    PROVE  FlattenSeq(ss) = (CHOOSE f : IsFlat(f, ss, Len(ss)))[Len(ss)]
BY DEF FlattenSeq, IsFlat

\* There is one, by induction on n.
LEMMA FlatExists ==
    ASSUME NEW S, NEW ss, NEW n \in Nat, \A i \in 1..n : ss[i] \in Seq(S)
    PROVE  \E f \in [1..n -> Seq(S)] : IsFlat(f, ss, n)
<1> DEFINE T == {m \in 0..n : ~\E f \in [1..m -> Seq(S)] : IsFlat(f, ss, m)}
<1>1. SUFFICES ASSUME T # {} PROVE FALSE
  <2>1. n \in 0..n OBVIOUS
  <2> QED BY <1>1, <2>1
<1>2. T \subseteq Nat OBVIOUS
<1>3. PICK m \in T : \A y \in T : m <= y BY <1>1, <1>2, Least
<1>4. m \in 0..n /\ ~\E f \in [1..m -> Seq(S)] : IsFlat(f, ss, m) BY <1>3
<1>5. CASE m = 0
  <2> DEFINE f == [i \in 1..0 |-> << >>]
  <2>1. f \in [1..0 -> Seq(S)] OBVIOUS
  <2>2. IsFlat(f, ss, 0) BY DEF IsFlat
  <2> QED BY <1>4, <1>5, <2>1, <2>2
<1>6. CASE m # 0
  <2>1. m - 1 \in 0..n /\ ~(m <= m - 1) BY <1>4, <1>6
  <2>2. PICK f \in [1..(m-1) -> Seq(S)] : IsFlat(f, ss, m - 1)
    <3> HIDE DEF T
    <3>1. m - 1 \notin T BY <1>3, <2>1
    <3> QED BY <2>1, <3>1 DEF T
  <2> DEFINE g == [i \in 1..m |-> IF i = 1 THEN ss[i] ELSE f[i-1] \o ss[i]]
  <2>3. \A i \in 1..m : i # 1 => i - 1 \in 1..(m-1) /\ f[i-1] \in Seq(S) BY <1>4
  <2>4. \A i \in 1..m : ss[i] \in Seq(S) BY <1>4
  <2>5. g \in [1..m -> Seq(S)] BY <2>3, <2>4
  <2>6. \A i \in 1..(m-1) : f[i] = g[i]
    <3>1. \A i \in 1..(m-1) : f[i] = IF i = 1 THEN ss[i] ELSE f[i-1] \o ss[i]
      BY <2>2 DEF IsFlat
    <3>2. 1..(m-1) \subseteq 1..m BY <1>4
    <3> QED BY <3>1, <3>2
  <2>7. IsFlat(g, ss, m)
    BY <1>4, <2>3, <2>6 DEF IsFlat
  <2> QED BY <1>4, <2>5, <2>7
<1> QED BY <1>5, <1>6

Agree(s, t, n) == \A i \in 1..n : s[i] = t[i]

\* There is only one, and a longer list only makes it longer.
LEMMA FlatUnique ==
    ASSUME NEW f, NEW g, NEW ss, NEW tt, NEW n \in Nat, NEW m \in Nat, n <= m,
           IsFlat(f, ss, n), IsFlat(g, tt, m), Agree(ss, tt, n)
    PROVE  Agree(f, g, n)
<1> DEFINE T == {i \in 1..n : f[i] # g[i]}
<1>1. SUFFICES ASSUME T # {} PROVE FALSE BY DEF Agree
<1>2. T \subseteq Nat OBVIOUS
<1>3. PICK i \in T : \A y \in T : i <= y BY <1>1, <1>2, Least
<1>4. i \in 1..n /\ i \in 1..m /\ f[i] # g[i] BY <1>3
<1>5. f[i] = (IF i = 1 THEN ss[i] ELSE f[i-1] \o ss[i]) BY <1>4 DEF IsFlat
<1>6. g[i] = (IF i = 1 THEN tt[i] ELSE g[i-1] \o tt[i]) BY <1>4 DEF IsFlat
<1>7. i # 1 => i - 1 \in 1..n /\ i - 1 \notin T BY <1>3, <1>4
<1> QED BY <1>4, <1>5, <1>6, <1>7 DEF Agree

\* So FlattenSeq can be computed step by step.
LEMMA FlatChosen ==
    ASSUME NEW S, NEW ss, Len(ss) \in Nat \ {0}, \A i \in 1..Len(ss) : ss[i] \in Seq(S)
    PROVE  \E f \in [1..Len(ss) -> Seq(S)] : IsFlat(f, ss, Len(ss)) /\ FlattenSeq(ss) = f[Len(ss)]
<1> DEFINE n == Len(ss)
           g == CHOOSE f : IsFlat(f, ss, n)
<1>0. n \in Nat /\ n \in 1..n /\ \A i \in 1..n : ss[i] \in Seq(S) OBVIOUS
<1>3. FlattenSeq(ss) = g[n] BY FlatDef
<1> HIDE DEF n
<1>1. PICK f \in [1..n -> Seq(S)] : IsFlat(f, ss, n) BY <1>0, FlatExists
<1>2. IsFlat(g, ss, n) BY <1>1
<1> HIDE DEF g
<1>4. Agree(f, g, n)
  <2>1. Agree(ss, ss, n) /\ n <= n BY <1>0 DEF Agree
  <2> QED BY <1>0, <1>1, <1>2, <2>1, FlatUnique
<1>5. f[n] = g[n] BY <1>0, <1>4 DEF Agree
<1> QED BY <1>1, <1>3, <1>5 DEF n

\* FlattenSeq of sequences over S is a sequence over S.
LEMMA FlattenType ==
    ASSUME NEW S, NEW ss, Len(ss) \in Nat, Len(ss) = 0 => ss = << >>, \A i \in 1..Len(ss) : ss[i] \in Seq(S)
    PROVE  FlattenSeq(ss) \in Seq(S)
<1>1. CASE Len(ss) = 0
  <2>1. ss = << >> BY <1>1
  <2>2. FlattenSeq(ss) = ss BY <1>1 DEF FlattenSeq
  <2>3. << >> \in Seq(S) OBVIOUS
  <2> QED BY <2>1, <2>2, <2>3, Zenon
<1>2. CASE Len(ss) # 0
  <2>1. Len(ss) \in Nat \ {0} /\ Len(ss) \in 1..Len(ss) BY <1>2
  <2>2. PICK f \in [1..Len(ss) -> Seq(S)] : FlattenSeq(ss) = f[Len(ss)] BY <2>1, FlatChosen
  <2> QED BY <2>1, <2>2
<1> QED BY <1>1, <1>2

\* FlattenSeq of one more sequence.
LEMMA FlattenAppend ==
    ASSUME NEW S, NEW ss, NEW tt, Len(ss) \in Nat, Len(tt) = Len(ss) + 1, Len(ss) = 0 => ss = << >>,
           \A i \in 1..Len(tt) : tt[i] \in Seq(S), Agree(ss, tt, Len(ss))
    PROVE  FlattenSeq(tt) = FlattenSeq(ss) \o tt[Len(tt)]
<1> DEFINE n == Len(ss)
           m == Len(tt)
<1>0. m \in Nat \ {0} /\ n \in Nat /\ m = n + 1 OBVIOUS
<1>1. PICK g \in [1..m -> Seq(S)] : IsFlat(g, tt, m) /\ FlattenSeq(tt) = g[m] BY <1>0, FlatChosen
<1>2. CASE n = 0
  <2>1. FlattenSeq(ss) = << >> BY <1>2 DEF FlattenSeq
  <2>2. g[1] = tt[1] BY <1>1, <1>2 DEF IsFlat
  <2>3. tt[1] \in Seq(S) BY <1>2
  <2> QED BY <1>1, <1>2, <2>1, <2>2, <2>3
<1>3. CASE n # 0
  <2>1. PICK f \in [1..n -> Seq(S)] : IsFlat(f, ss, n) /\ FlattenSeq(ss) = f[n]
    <3>1. \A i \in 1..n : ss[i] \in Seq(S) BY DEF Agree
    <3>2. n \in Nat \ {0} BY <1>3
    <3> QED BY <3>1, <3>2, FlatChosen
  <2>2. f[n] = g[n]
    <3>1. n <= m /\ m \in Nat /\ n \in Nat OBVIOUS
    <3>2. IsFlat(f, ss, n) /\ IsFlat(g, tt, m) BY <1>1, <2>1
    <3>3. Agree(ss, tt, n) OBVIOUS
    <3> HIDE DEF n, m
    <3>4. Agree(f, g, n) BY <3>1, <3>2, <3>3, FlatUnique
    <3> QED BY <1>0, <1>3, <3>4 DEF Agree
  <2> HIDE DEF n, m
  <2>3. g[m] = g[n] \o tt[m]
    <3>1. \A i \in 1..m : g[i] = IF i = 1 THEN tt[i] ELSE g[i-1] \o tt[i]
      BY <1>1 DEF IsFlat
    <3>2. m \in 1..m /\ m # 1 /\ m - 1 = n BY <1>0, <1>3
    <3> QED BY <3>1, <3>2
  <2> QED BY <1>1, <2>1, <2>2, <2>3 DEF n, m
<1> QED BY <1>2, <1>3

-----------------------------------------------------------------------------
(* Buffers                                                                 *)

\* The bytes of a buffer.
LEMMA UsedBytesOK ==
    ASSUME NEW b, BufOK(b)
    PROVE  /\ UsedBytes(b) \in Seq(Cell) /\ Len(UsedBytes(b)) = b.used
           /\ \A i \in 1..b.used : UsedBytes(b)[i] = b.mem[i]
<1>1. b.mem \in Seq(Cell) /\ b.used \in Nat /\ b.used <= Len(b.mem) /\ Len(b.mem) \in Nat
  BY DEF BufOK
<1> QED BY <1>1 DEF UsedBytes

\* XByteBuffer_Clear.
LEMMA ClearOK ==
    ASSUME NEW b, BufOK(b), NEW r, r = XByteBuffer_Clear(b)
    PROVE  BufOK(r) /\ r.used = 0
<1>1. << >> \in Seq(Cell) /\ Len(<< >>) = 0 OBVIOUS
<1>2. IsBuf(b) /\ ~b.fast /\ ~b.bad BY DEF BufOK
<1>3. r = [b EXCEPT !.null = TRUE, !.mem = << >>, !.size = 0, !.used = 0, !.status = 0] BY DEF XByteBuffer_Clear
<1>4. r.null /\ r.null \in BOOLEAN BY <1>2, <1>3 DEF IsBuf
<1>5. r.mem = << >> /\ r.size = 0 /\ r.used = 0 /\ r.status = 0 BY <1>2, <1>3 DEF IsBuf
<1>6. ~r.fast /\ ~r.bad BY <1>2, <1>3 DEF IsBuf
<1>7. IsBuf(r) BY <1>2, <1>3 DEF IsBuf
<1>8. BufOK(r) BY <1>1, <1>4, <1>5, <1>6, <1>7 DEF BufOK
<1> QED BY <1>5, <1>8

\* XByteBuffer_Resize of a buffer of the session to n > 0 bytes.
Resized(b, n) ==
    LET u == MinOf(b.used, n - 1) IN
    IF b.null THEN [b EXCEPT !.null = FALSE, !.mem = [i \in 1..n |-> JUNK], !.size = n, !.used = 0]
    ELSE [b EXCEPT !.mem = [i \in 1..n |-> CASE i = u + 1 -> NUL
                                             [] i # u + 1 /\ i <= Len(b.mem) -> b.mem[i]
                                             [] OTHER -> JUNK],
                   !.size = n, !.used = u]

\* When the allocation fails, only the status changes.
LEMMA ResizeIs ==
    ASSUME NEW b, BufOK(b), NEW n \in Nat \ {0}, NEW ok \in BOOLEAN
    PROVE  XByteBuffer_Resize(b, n, ok) = IF ok THEN Resized(b, n) ELSE [b EXCEPT !.status = -1]
<1>1. b.null \in BOOLEAN /\ (~b.null => b.size > 0) /\ b.size \in Nat /\ b.used \in Nat BY DEF BufOK
<1>2. CASE ok BY <1>1, <1>2 DEF XByteBuffer_Resize, Resized
<1>3. CASE ~ok BY <1>1, <1>3 DEF XByteBuffer_Resize
<1> QED BY <1>2, <1>3

\* The resized buffer.
IsResized(r, b, n) ==
    /\ BufOK(r) /\ r.size = n /\ r.status = b.status /\ ~r.null
    /\ r.used = MinOf(b.used, n - 1)
    /\ \A i \in 1..r.used : r.mem[i] = b.mem[i]
LEMMA ResizeOK ==
    ASSUME NEW b, BufOK(b), NEW n \in Nat \ {0}
    PROVE  IsResized(Resized(b, n), b, n)
<1>0. SUFFICES ASSUME NEW r, r = Resized(b, n) PROVE IsResized(r, b, n) OBVIOUS
<1>1. /\ b.null \in BOOLEAN /\ b.mem \in Seq(Cell) /\ b.size \in Nat /\ b.used \in Nat /\ b.status \in -1..1
      /\ Len(b.mem) = b.size /\ (b.null => b.size = 0 /\ b.used = 0) /\ (~b.null => b.used < b.size)
      /\ (b.status < 0 => b.used = 0)
  BY DEF BufOK
<1>2. NUL \in Cell /\ JUNK \in Cell BY DEF Cell
<1>3. CASE b.null
  <2> DEFINE m == [i \in 1..n |-> JUNK]
  <2>1. m \in Seq(Cell) /\ Len(m) = n BY <1>2
  <2>2. r = [b EXCEPT !.null = FALSE, !.mem = m, !.size = n, !.used = 0]
    BY <1>0, <1>1, <1>3 DEF Resized
  <2> HIDE DEF m
  <2>3. r.used = 0 /\ r.size = n /\ r.mem = m /\ r.status = b.status /\ ~r.null
    BY <2>2 DEF BufOK, IsBuf
  <2>4. IsBuf(r) /\ r.null \in BOOLEAN /\ ~r.fast /\ ~r.bad
    BY <2>2 DEF BufOK, IsBuf
  <2>5. MinOf(b.used, n - 1) = 0 BY <1>1, <1>3 DEF MinOf
  <2>6. BufOK(r)
    <3>1. r.mem \in Seq(Cell) /\ Len(r.mem) = r.size /\ r.size \in Nat /\ r.used \in Nat /\ r.status \in -1..1
      BY <1>1, <2>1, <2>3
    <3>2. r.used < r.size /\ (r.status < 0 => r.used = 0) BY <2>3
    <3> QED BY <2>3, <2>4, <3>1, <3>2 DEF BufOK
  <2>7. \A i \in 1..r.used : r.mem[i] = b.mem[i] BY <2>3
  <2> QED BY <2>3, <2>5, <2>6, <2>7 DEF IsResized
<1>4. CASE ~b.null
  <2> DEFINE u == MinOf(b.used, n - 1)
             m == [i \in 1..n |-> CASE i = u + 1 -> NUL
                                    [] i # u + 1 /\ i <= Len(b.mem) -> b.mem[i]
                                    [] OTHER -> JUNK]
  <2>1. u \in Nat /\ u <= b.used /\ u <= n - 1 BY <1>1 DEF MinOf
  <2>2. r = [b EXCEPT !.mem = m, !.size = n, !.used = u]
    BY <1>0, <1>1, <1>4 DEF Resized
  <2>3. \A i \in 1..n : m[i] \in Cell
    <3>1. \A i \in 1..Len(b.mem) : b.mem[i] \in Cell BY <1>1
    <3> QED BY <1>1, <1>2, <3>1
  <2>4. m \in Seq(Cell) /\ Len(m) = n BY <2>3
  <2>5. \A i \in 1..u : m[i] = b.mem[i] BY <1>1, <1>4, <2>1
  <2> HIDE DEF m, u
  <2>6. r.used = u /\ r.size = n /\ r.mem = m /\ r.status = b.status /\ r.null = b.null
    BY <2>2 DEF BufOK, IsBuf
  <2>7. IsBuf(r) /\ r.null \in BOOLEAN /\ ~r.fast /\ ~r.bad
    BY <1>4, <2>2 DEF BufOK, IsBuf
  <2>8. BufOK(r)
    <3>1. r.mem \in Seq(Cell) /\ Len(r.mem) = r.size /\ r.size \in Nat /\ r.used \in Nat /\ r.status \in -1..1
      BY <1>1, <2>1, <2>4, <2>6
    <3>2. r.used < r.size /\ (r.status < 0 => r.used = 0) /\ ~r.null BY <1>1, <1>4, <2>1, <2>6
    <3> QED BY <2>7, <3>1, <3>2 DEF BufOK
  <2> QED BY <1>4, <2>5, <2>6, <2>8 DEF u, IsResized
<1> QED BY <1>1, <1>3, <1>4

\* Writing d from offset p on, with the place for it and a terminator.
IsWritten(r, b, p, d) ==
    /\ BufOK(r) /\ r.status = b.status /\ r.used = p + Len(d)
    /\ \A i \in 1..p : r.mem[i] = b.mem[i]
    /\ \A i \in 1..Len(d) : r.mem[p + i] = d[i]
LEMMA WrittenOK ==
    ASSUME NEW b, BufOK(b), ~b.null, b.status >= 0, NEW d \in Seq(Cell), NEW p \in Nat, p <= b.used, p + Len(d) < b.size
    PROVE  IsWritten(Written(b, p, d, p + Len(d)), b, p, d)
<1> DEFINE u == p + Len(d)
           m == [j \in 1..Len(b.mem) |->
                          CASE j > p /\ j <= p + Len(d) -> d[j - p]
                            [] j = u + 1 -> NUL
                            [] OTHER -> b.mem[j]]
           r == Written(b, p, d, u)
<1>1. /\ b.mem \in Seq(Cell) /\ b.size \in Nat /\ b.used \in Nat /\ b.status \in 0..1
      /\ Len(b.mem) = b.size /\ Len(d) \in Nat /\ u \in Nat
  BY DEF BufOK
<1>2. NUL \in Cell BY DEF Cell
<1>3. r = [b EXCEPT !.mem = m, !.used = u, !.bad = @ \/ u >= Len(b.mem)] BY DEF Written
<1>4. \A j \in 1..Len(b.mem) : m[j] \in Cell
  <2>1. \A j \in 1..Len(b.mem) : b.mem[j] \in Cell BY <1>1
  <2>2. \A j \in 1..Len(d) : d[j] \in Cell OBVIOUS
  <2> QED BY <1>1, <1>2, <2>1, <2>2
<1>5. m \in Seq(Cell) /\ Len(m) = b.size
  <2>1. m \in [1..b.size -> Cell] BY <1>1, <1>4
  <2> HIDE DEF m
  <2> QED BY <1>1, <2>1
<1>6. \A i \in 1..p : m[i] = b.mem[i] BY <1>1
<1>7. \A i \in 1..Len(d) : m[p + i] = d[i] BY <1>1
<1>8. u < Len(b.mem) BY <1>1
<1> HIDE DEF m, r, u
<1>9. r = [b EXCEPT !.mem = m, !.used = u, !.bad = FALSE]
  <2>1. b.bad = FALSE /\ ~(u >= Len(b.mem)) BY <1>1, <1>8 DEF BufOK
  <2> QED BY <1>3, <2>1
<1>10. r.used = u /\ r.size = b.size /\ r.mem = m /\ r.status = b.status /\ r.null = b.null
  BY <1>9 DEF BufOK, IsBuf
<1>11. IsBuf(r) /\ r.null \in BOOLEAN /\ ~r.fast /\ ~r.bad
  BY <1>9 DEF BufOK, IsBuf
<1>12. BufOK(r) BY <1>1, <1>5, <1>8, <1>10, <1>11 DEF BufOK
<1>13. IsWritten(r, b, p, d) BY <1>6, <1>7, <1>10, <1>12 DEF IsWritten, u
<1> QED BY <1>13 DEF r, u

\* XByteBuffer_Add to a buffer of the session when it has or gets the memory.
Extended(b, d) ==
    LET n == b.used + (Len(d) + 1)
        q == IF n <= b.size THEN b ELSE Resized(b, n)
    IN  Written(q, q.used, d, q.used + Len(d))
Failed(b) == [b EXCEPT !.status = -1]

LEMMA FailedOK ==
    ASSUME NEW b, BufOK(b), b.used = 0, NEW r, r = Failed(b)
    PROVE  BufOK(r) /\ r.used = 0 /\ r.status = -1
<1>1. r = [b EXCEPT !.status = -1] BY DEF Failed
<1>2. r.status = -1 /\ r.used = b.used /\ r.size = b.size /\ r.mem = b.mem /\ r.null = b.null
      /\ IsBuf(r) /\ ~r.fast /\ ~r.bad
  BY <1>1 DEF BufOK, IsBuf
<1> QED BY <1>2 DEF BufOK

\* It is appended, ...
LEMMA ExtendedOK ==
    ASSUME NEW b, BufOK(b), b.status >= 0, NEW d \in Seq(Cell), d # << >>, NEW r, r = Extended(b, d)
    PROVE  /\ BufOK(r) /\ r.status = b.status /\ r.used = b.used + Len(d)
           /\ \A i \in 1..b.used : r.mem[i] = b.mem[i]
           /\ \A i \in 1..Len(d) : r.mem[b.used + i] = d[i]
<1> DEFINE n == b.used + (Len(d) + 1)
           q == IF n <= b.size THEN b ELSE Resized(b, n)
<1>1. /\ b.null \in BOOLEAN /\ b.mem \in Seq(Cell) /\ b.size \in Nat /\ b.used \in Nat /\ b.status \in -1..1
      /\ (b.null => b.size = 0 /\ b.used = 0)
  BY DEF BufOK
<1>2. Len(d) \in Nat \ {0} /\ n \in Nat \ {0} BY <1>1
<1>3. r = Written(q, q.used, d, q.used + Len(d)) BY DEF Extended
<1>4. BufOK(q) /\ q.status = b.status /\ ~q.null /\ q.used = b.used /\ n <= q.size
      /\ \A i \in 1..b.used : q.mem[i] = b.mem[i]
  <2>1. CASE n <= b.size BY <1>1, <1>2, <2>1
  <2>2. CASE ~(n <= b.size)
    <3>1. q = Resized(b, n) BY <2>2
    <3>2. MinOf(b.used, n - 1) = b.used BY <1>1, <1>2 DEF MinOf
    <3>3. n <= n BY <1>2
    <3> HIDE DEF n, q
    <3>4. /\ BufOK(q) /\ q.size = n /\ q.status = b.status /\ ~q.null
          /\ q.used = MinOf(b.used, n - 1)
          /\ \A i \in 1..q.used : q.mem[i] = b.mem[i]
      <4>1. IsResized(Resized(b, n), b, n) BY <1>2, ResizeOK
      <4> QED BY <3>1, <4>1 DEF IsResized
    <3> QED BY <3>2, <3>3, <3>4
  <2> QED BY <2>1, <2>2
<1> HIDE DEF q
<1>5. q.status >= 0 /\ q.used + Len(d) < q.size BY <1>1, <1>2, <1>4 DEF BufOK
<1>6. q.used \in Nat /\ q.used <= q.used BY <1>1, <1>4
<1>7. IsWritten(Written(q, q.used, d, q.used + Len(d)), q, q.used, d)
  BY <1>4, <1>5, <1>6, WrittenOK
<1> QED BY <1>3, <1>4, <1>7 DEF IsWritten

\* ... or the buffer has failed.
LEMMA AddIs ==
    ASSUME NEW b, BufOK(b), NEW d \in Seq(Cell), d # << >>, NEW ok \in BOOLEAN
    PROVE  XByteBuffer_Add(b, d, ok) =
               IF b.status < 0 THEN b
               ELSE IF ok \/ b.used + (Len(d) + 1) <= b.size THEN Extended(b, d) ELSE Failed(b)
<1> DEFINE n == b.used + (Len(d) + 1)
           q == XByteBuffer_Reserve(b, Len(d) + 1, ok)
<1>1. /\ b.null \in BOOLEAN /\ b.mem \in Seq(Cell) /\ b.size \in Nat /\ b.used \in Nat /\ b.status \in -1..1
      /\ ~b.fast
  BY DEF BufOK
<1>2. Len(d) \in Nat \ {0} /\ n \in Nat \ {0} BY <1>1
<1>3. XByteBuffer_Add(b, d, ok) = IF q.status < 0 THEN q ELSE Written(q, q.used, d, q.used + Len(d))
  BY DEF XByteBuffer_Add
<1>4. CASE b.status < 0
  <2>1. q = b BY <1>4 DEF XByteBuffer_Reserve
  <2> HIDE DEF q
  <2> QED BY <1>3, <1>4, <2>1
<1>5. CASE b.status >= 0 /\ n <= b.size
  <2>1. q = b BY <1>5 DEF XByteBuffer_Reserve
  <2> HIDE DEF q
  <2>2. ~(q.status < 0) BY <1>1, <1>5, <2>1
  <2>3. XByteBuffer_Add(b, d, ok) = Written(b, b.used, d, b.used + Len(d)) BY <1>3, <2>1, <2>2
  <2>4. Extended(b, d) = Written(b, b.used, d, b.used + Len(d)) BY <1>5 DEF Extended
  <2> QED BY <1>1, <1>5, <2>3, <2>4
<1>6. CASE b.status >= 0 /\ ~(n <= b.size)
  <2>1. q = XByteBuffer_Resize(b, n, ok) BY <1>1, <1>6 DEF XByteBuffer_Reserve
  <2>2. q = IF ok THEN Resized(b, n) ELSE [b EXCEPT !.status = -1] BY <1>2, <2>1, ResizeIs
  <2> HIDE DEF q
  <2>3. CASE ok
    <3>1. q = Resized(b, n) BY <2>2, <2>3
    <3>2. Resized(b, n).status = b.status
      BY <1>1 DEF Resized, BufOK, IsBuf
    <3>3. ~(q.status < 0) BY <1>1, <1>6, <3>1, <3>2
    <3>4. Extended(b, d) = Written(q, q.used, d, q.used + Len(d)) BY <1>6, <3>1 DEF Extended
    <3>5. XByteBuffer_Add(b, d, ok) = Extended(b, d) BY <1>3, <3>3, <3>4
    <3>6. ~(b.status < 0) BY <1>1, <1>6
    <3> QED BY <2>3, <3>5, <3>6
  <2>4. CASE ~ok
    <3>1. q = [b EXCEPT !.status = -1] BY <2>2, <2>4
    <3>2. q.status < 0 BY <3>1 DEF BufOK, IsBuf
    <3>3. XByteBuffer_Add(b, d, ok) = Failed(b) BY <1>3, <3>1, <3>2 DEF Failed
    <3> QED BY <1>1, <1>6, <2>4, <3>3
  <2> QED BY <2>3, <2>4
<1> QED BY <1>1, <1>2, <1>4, <1>5, <1>6

\* XByteBuffer_Remove of the first n bytes.
IsRemoved(r, b, n) ==
    /\ BufOK(r) /\ r.status = b.status /\ r.used = b.used - MinOf(n, b.used)
    /\ \A i \in 1..r.used : r.mem[i] = b.mem[n + i]
LEMMA RemoveOK ==
    ASSUME NEW b, BufOK(b), NEW n \in Nat
    PROVE  IsRemoved(XByteBuffer_Remove(b, 0, n), b, n)
<1> DEFINE r == XByteBuffer_Remove(b, 0, n)
<1>1. /\ b.null \in BOOLEAN /\ b.mem \in Seq(Cell) /\ b.size \in Nat /\ b.used \in Nat /\ b.status \in -1..1
      /\ Len(b.mem) = b.size /\ (b.null => b.used = 0) /\ (~b.null => b.used < b.size)
      /\ (b.status < 0 => b.used = 0)
  BY DEF BufOK
<1>2. CASE n = 0 \/ b.used = 0
  <2>1. r = b BY <1>1, <1>2 DEF XByteBuffer_Remove
  <2>2. b.used = b.used - MinOf(n, b.used) BY <1>1, <1>2 DEF MinOf
  <2>3. \A i \in 1..b.used : b.mem[i] = b.mem[n + i] BY <1>1, <1>2
  <2> QED BY <2>1, <2>2, <2>3 DEF IsRemoved
<1>3. CASE n > 0 /\ b.used > 0 /\ n >= b.used
  <2>1. MinOf(0 + n, b.used) = b.used /\ b.used - MinOf(n, b.used) = 0 BY <1>1, <1>3 DEF MinOf
  <2>2. r = [b EXCEPT !.used = 0] BY <1>1, <1>3, <2>1 DEF XByteBuffer_Remove
  <2> HIDE DEF r
  <2>3. r.used = 0 /\ r.size = b.size /\ r.mem = b.mem /\ r.status = b.status /\ r.null = b.null
        /\ IsBuf(r) /\ ~r.fast /\ ~r.bad
    BY <2>2 DEF BufOK, IsBuf
  <2>4. BufOK(r)
    <3>1. r.null \in BOOLEAN /\ r.mem \in Seq(Cell) /\ r.size \in Nat /\ r.used \in Nat /\ r.status \in -1..1
          /\ Len(r.mem) = r.size
      BY <1>1, <2>3
    <3>2. ~r.null /\ r.used < r.size BY <1>1, <1>3, <2>3
    <3> QED BY <2>3, <3>1, <3>2 DEF BufOK
  <2>5. IsRemoved(r, b, n) BY <2>1, <2>3, <2>4 DEF IsRemoved
  <2> QED BY <2>5 DEF r
<1>4. CASE n > 0 /\ n < b.used
  <2> DEFINE d == SubSeq(b.mem, n + 1, b.used)
  <2>1. MinOf(0 + n, b.used) = n /\ MinOf(n, b.used) = n /\ ~b.null BY <1>1, <1>4 DEF MinOf
  <2>2. d \in Seq(Cell) /\ Len(d) = b.used - n /\ \A i \in 1..(b.used - n) : d[i] = b.mem[n + i]
    BY <1>1, <1>4
  <2>3. r = Written(b, 0, d, 0 + Len(d)) BY <1>1, <1>4, <2>1 DEF XByteBuffer_Remove
  <2> HIDE DEF r, d
  <2>4. 0 \in Nat /\ 0 <= b.used /\ 0 + Len(d) < b.size /\ b.status >= 0 BY <1>1, <1>4, <2>1, <2>2
  <2>5. IsWritten(r, b, 0, d) BY <2>1, <2>2, <2>3, <2>4, WrittenOK
  <2>6. r.used = b.used - n /\ BufOK(r) /\ r.status = b.status /\ \A i \in 1..Len(d) : r.mem[0 + i] = d[i]
    BY <1>1, <1>4, <2>2, <2>5 DEF IsWritten
  <2>7. \A i \in 1..r.used : r.mem[i] = b.mem[n + i] BY <1>1, <2>2, <2>6
  <2>8. IsRemoved(r, b, n) BY <2>1, <2>6, <2>7 DEF IsRemoved
  <2> QED BY <2>8 DEF r
<1> QED BY <1>1, <1>2, <1>3, <1>4

\* Writing the terminator.
LEMMA PokeOK ==
    ASSUME NEW b, BufOK(b), ~b.null
    PROVE  BufOK(Poke(b, b.used, NUL)) /\ Poke(b, b.used, NUL).used = b.used /\ Poke(b, b.used, NUL).status = b.status
           /\ \A i \in 1..b.used : Poke(b, b.used, NUL).mem[i] = b.mem[i]
<1> DEFINE m == [b.mem EXCEPT ![b.used + 1] = NUL]
           r == Poke(b, b.used, NUL)
<1>1. /\ b.null \in BOOLEAN /\ b.mem \in Seq(Cell) /\ b.size \in Nat /\ b.used \in Nat /\ b.status \in -1..1
      /\ Len(b.mem) = b.size /\ b.used < b.size /\ (b.status < 0 => b.used = 0)
  BY DEF BufOK
<1>2. NUL \in Cell BY DEF Cell
<1>3. r = [b EXCEPT !.mem = m] BY <1>1 DEF Poke
<1>4. m \in Seq(Cell) /\ Len(m) = b.size /\ \A i \in 1..b.used : m[i] = b.mem[i] BY <1>1, <1>2
<1> HIDE DEF m, r
<1>5. r.used = b.used /\ r.size = b.size /\ r.mem = m /\ r.status = b.status /\ r.null = b.null
      /\ IsBuf(r) /\ ~r.fast /\ ~r.bad
  BY <1>3 DEF BufOK, IsBuf
<1>6. BufOK(r)
  <2>1. r.null \in BOOLEAN /\ r.mem \in Seq(Cell) /\ r.size \in Nat /\ r.used \in Nat /\ r.status \in -1..1
        /\ Len(r.mem) = r.size
    BY <1>1, <1>4, <1>5
  <2>2. ~r.null /\ r.used < r.size /\ (r.status < 0 => r.used = 0) BY <1>1, <1>5
  <2> QED BY <1>5, <2>1, <2>2 DEF BufOK
<1> QED BY <1>4, <1>5, <1>6 DEF r

\* XByteBuffer_Advance by n bytes: the first n bytes are gone, or all of them.
LEMMA ConsumedOK ==
    ASSUME NEW b, BufOK(b), NEW n \in Nat
    PROVE  IsRemoved(Consumed(b, n), b, n)
<1> DEFINE r == XByteBuffer_Remove(b, 0, n)
           s == XByteBuffer_Resize(r, r.used + 1, TRUE)
           t == Resized(r, r.used + 1)
<1>1. IsRemoved(r, b, n) BY RemoveOK
<1>2. Consumed(b, n) = Poke(s, s.used, NUL) BY DEF Consumed, XByteBuffer_Advance, XByteBuffer_Delete
<1> HIDE DEF r
<1>3. BufOK(r) /\ r.used \in Nat /\ r.null \in BOOLEAN /\ (~r.null => r.size > 0) /\ r.size \in Nat /\ r.used + 1 \in Nat \ {0}
  BY <1>1 DEF IsRemoved, BufOK
<1>4. s = t BY <1>3 DEF XByteBuffer_Resize, Resized
<1>5. IsResized(t, r, r.used + 1) BY <1>3, ResizeOK
<1> HIDE DEF s, t
<1>6. Consumed(b, n) = Poke(t, t.used, NUL) BY <1>2, <1>4
<1>8. BufOK(t) /\ ~t.null /\ t.used = r.used /\ t.status = r.status /\ \A i \in 1..r.used : t.mem[i] = r.mem[i]
  <2>1. t.used = r.used BY <1>3, <1>5 DEF IsResized, MinOf
  <2>2. BufOK(t) /\ ~t.null BY <1>5 DEF IsResized
  <2>3. t.status = r.status /\ \A i \in 1..t.used : t.mem[i] = r.mem[i] BY <1>5 DEF IsResized
  <2> QED BY <2>1, <2>2, <2>3
<1> DEFINE q == Poke(t, t.used, NUL)
<1>9. BufOK(q) /\ q.used = t.used /\ q.status = t.status /\ \A i \in 1..t.used : q.mem[i] = t.mem[i]
  BY <1>8, PokeOK
<1> HIDE DEF q
<1>10. IsRemoved(q, b, n) BY <1>1, <1>3, <1>8, <1>9 DEF IsRemoved
<1> QED BY <1>6, <1>10 DEF q

-----------------------------------------------------------------------------
(* The bytes that are sent and received                                    *)

LEMMA MessageOK ==
    ASSUME NEW n \in Nat
    PROVE  Message(n) \in Seq(Cell) /\ Len(Message(n)) = OutLen /\ Message(n) # << >>
<1>1. OutLen \in Nat \ {0} BY StreamAssumption
<1>2. \A k \in 1..OutLen : [p |-> n, k |-> k, x |-> FALSE] \in Cell BY <1>1 DEF Cell
<1>3. Message(n) \in [1..OutLen -> Cell] BY <1>2 DEF Message
<1>4. Message(n) \in Seq(Cell) /\ Len(Message(n)) = OutLen BY <1>1, <1>3
<1> QED BY <1>1, <1>4

\* One more message.
LEMMA QueuedStep ==
    ASSUME NEW n \in Nat
    PROVE  Queued(n + 1) = Queued(n) \o Message(n + 1)
<1> DEFINE ss == [i \in 1..n |-> Message(i)]
           tt == [i \in 1..(n + 1) |-> Message(i)]
<1>1. \A i \in 1..(n + 1) : Message(i) \in Seq(Cell) BY MessageOK
<1>2. Len(ss) = n /\ Len(tt) = n + 1 /\ (n = 0 => ss = << >>) OBVIOUS
<1>3. \A i \in 1..(n + 1) : tt[i] \in Seq(Cell) BY <1>1
<1>4. Agree(ss, tt, n) BY DEF Agree
<1>5. tt[n + 1] = Message(n + 1) OBVIOUS
<1>6. Queued(n) = FlattenSeq(ss) /\ Queued(n + 1) = FlattenSeq(tt) BY DEF Queued
<1> HIDE DEF ss, tt
<1>7. Len(ss) \in Nat /\ Len(tt) = Len(ss) + 1 /\ (Len(ss) = 0 => ss = << >>)
      /\ (\A i \in 1..Len(tt) : tt[i] \in Seq(Cell)) /\ Agree(ss, tt, Len(ss))
  BY <1>2, <1>3, <1>4
<1>8. FlattenSeq(tt) = FlattenSeq(ss) \o tt[Len(tt)] BY <1>7, FlattenAppend
<1> QED BY <1>2, <1>5, <1>6, <1>8

LEMMA QueuedZero == Queued(0) = << >>
<1>1. [i \in 1..0 |-> Message(i)] = << >> OBVIOUS
<1> QED BY <1>1 DEF Queued, FlattenSeq

\* The stream of a wire.
LEMMA StreamType ==
    ASSUME NEW w, Len(w) \in Nat, \A p \in 1..Len(w) : w[p].head \in Nat /\ w[p].body \in Nat
    PROVE  Stream(w) \in Seq(Token(w))
<1> DEFINE ss == [p \in 1..Len(w) |-> PacketBytes(w, p)]
<1>1. ASSUME NEW p \in 1..Len(w) PROVE PacketBytes(w, p) \in Seq(Token(w))
  <2>1. Size(w[p]) \in Nat BY DEF Size
  <2>2. \A k \in 1..Size(w[p]) : [p |-> p, k |-> k, x |-> w[p].kind = "ws" /\ w[p].mask /\ k > w[p].head] \in Token(w)
    BY <2>1 DEF Token
  <2>3. PacketBytes(w, p) \in [1..Size(w[p]) -> Token(w)] BY <2>2 DEF PacketBytes
  <2> QED BY <2>1, <2>3
<1>2. Len(ss) = Len(w) /\ (Len(w) = 0 => ss = << >>) OBVIOUS
<1>3. \A p \in 1..Len(w) : ss[p] \in Seq(Token(w)) BY <1>1
<1>4. Stream(w) = FlattenSeq(ss) BY DEF Stream
<1> HIDE DEF ss
<1>5. Len(ss) \in Nat /\ (Len(ss) = 0 => ss = << >>) /\ \A p \in 1..Len(ss) : ss[p] \in Seq(Token(w))
  BY <1>2, <1>3
<1> QED BY <1>4, <1>5, FlattenType

LEMMA TokenIsCell ==
    ASSUME Len(W) \in Nat
    PROVE  Token(W) \subseteq Cell
BY DEF Token, Cell

-----------------------------------------------------------------------------
(* The buffers of the session                                              *)

LEMMA RxConsumed ==
    ASSUME NEW b, RxOK(b), NEW n \in Nat
    PROVE  RxOK(Consumed(b, n))
<1> DEFINE r == Consumed(b, n)
<1>1. BufOK(b) /\ \A i \in 1..b.used : b.mem[i] \in Token(W) BY DEF RxOK
<1>2. IsRemoved(r, b, n) BY <1>1, ConsumedOK
<1> HIDE DEF r
<1>3. BufOK(r) /\ r.used = b.used - MinOf(n, b.used) /\ \A i \in 1..r.used : r.mem[i] = b.mem[n + i] BY <1>2 DEF IsRemoved
<1>4. b.used \in Nat /\ r.used \in Nat BY <1>1, <1>3 DEF BufOK
<1>5. \A i \in 1..r.used : n + i \in 1..b.used BY <1>3, <1>4 DEF MinOf
<1>6. RxOK(r) BY <1>1, <1>3, <1>5 DEF RxOK
<1> QED BY <1>6 DEF r

LEMMA RxCleared ==
    ASSUME NEW b, BufOK(b)
    PROVE  RxOK(XByteBuffer_Clear(b))
<1>1. SUFFICES ASSUME NEW r, r = XByteBuffer_Clear(b) PROVE RxOK(r) OBVIOUS
<1>2. BufOK(r) /\ r.used = 0 BY <1>1, ClearOK
<1> QED BY <1>2 DEF RxOK

\* Received bytes are appended, or the buffer has failed.
LEMMA RxAdded ==
    ASSUME NEW b, RxOK(b), NEW d \in Seq(Token(W)), d # << >>, Len(W) \in Nat, NEW ok \in BOOLEAN,
           NEW r, r = XByteBuffer_Add(b, d, ok), Added(r)
    PROVE  RxOK(r) /\ r.used > 0
<1>1. BufOK(b) /\ \A i \in 1..b.used : b.mem[i] \in Token(W) BY DEF RxOK
<1>2. d \in Seq(Cell) BY TokenIsCell
<1>3. r = IF b.status < 0 THEN b
          ELSE IF ok \/ b.used + (Len(d) + 1) <= b.size THEN Extended(b, d) ELSE Failed(b)
  BY <1>1, <1>2, AddIs
<1>4. r.status >= 0 BY DEF Added
<1>5. b.status \in -1..1 /\ b.used \in Nat BY <1>1 DEF BufOK
<1>6. ~(b.status < 0) BY <1>3, <1>4, <1>5
<1>7. r # Failed(b) BY <1>4, <1>1 DEF Failed, BufOK, IsBuf
<1>8. r = Extended(b, d) BY <1>3, <1>6, <1>7
<1>9. b.status >= 0 BY <1>5, <1>6
<1>10. /\ BufOK(r) /\ r.used = b.used + Len(d)
       /\ \A i \in 1..b.used : r.mem[i] = b.mem[i]
       /\ \A i \in 1..Len(d) : r.mem[b.used + i] = d[i]
  BY <1>1, <1>2, <1>8, <1>9, ExtendedOK
<1>11. Len(d) \in Nat \ {0} OBVIOUS
<1>12. ASSUME NEW i \in 1..r.used PROVE r.mem[i] \in Token(W)
  <2>1. CASE i <= b.used BY <1>1, <1>5, <1>10, <2>1
  <2>2. CASE i > b.used
    <3>1. i - b.used \in 1..Len(d) /\ b.used + (i - b.used) = i BY <1>5, <1>10, <1>11, <2>2
    <3>2. r.mem[i] = d[i - b.used] BY <1>10, <3>1
    <3> QED BY <3>1, <3>2
  <2> QED BY <1>5, <2>1, <2>2
<1> QED BY <1>5, <1>10, <1>11, <1>12 DEF RxOK

\* A fragment is appended, or the buffer has failed.
LEMMA WsAdded ==
    ASSUME NEW b, BufOK(b), NEW d \in Seq(Cell), d # << >>, NEW ok \in BOOLEAN,
           NEW r, r = XByteBuffer_Add(b, d, ok), Added(r)
    PROVE  BufOK(r)
<1>1. r = IF b.status < 0 THEN b
          ELSE IF ok \/ b.used + (Len(d) + 1) <= b.size THEN Extended(b, d) ELSE Failed(b)
  BY AddIs
<1>2. r.status >= 0 BY DEF Added
<1>3. b.status \in -1..1 BY DEF BufOK
<1>4. ~(b.status < 0) BY <1>1, <1>2, <1>3
<1>5. r # Failed(b) BY <1>2 DEF Failed, BufOK, IsBuf
<1>6. r = Extended(b, d) /\ b.status >= 0 BY <1>1, <1>3, <1>4, <1>5
<1> QED BY <1>6, ExtendedOK

\* XAPI_PutTxBuff: when the buffer holds something afterwards, the message is its end;
\* else nothing was in it and nothing is.
IsPut(r, b, d) ==
    /\ BufOK(r)
    /\ UsedBytes(r) = IF r.used > 0 THEN UsedBytes(b) \o d ELSE UsedBytes(b)
LEMMA TxPut ==
    ASSUME NEW b, BufOK(b), NEW d \in Seq(Cell), d # << >>, NEW ok \in BOOLEAN, b.used > 0 => ok,
           NEW r, r = XByteBuffer_Add(b, d, ok)
    PROVE  IsPut(r, b, d)
<1> USE DEF IsPut
<1>1. r = IF b.status < 0 THEN b
          ELSE IF ok \/ b.used + (Len(d) + 1) <= b.size THEN Extended(b, d) ELSE Failed(b)
  BY AddIs
<1>2. b.status \in -1..1 /\ b.used \in Nat /\ (b.status < 0 => b.used = 0) BY DEF BufOK
<1>3. CASE r = Extended(b, d) /\ b.status >= 0
  <2>1. /\ BufOK(r) /\ r.used = b.used + Len(d)
        /\ \A i \in 1..b.used : r.mem[i] = b.mem[i]
        /\ \A i \in 1..Len(d) : r.mem[b.used + i] = d[i]
    BY <1>3, ExtendedOK
  <2>2. Len(d) \in Nat \ {0} OBVIOUS
  <2>3. /\ UsedBytes(b) \in Seq(Cell) /\ Len(UsedBytes(b)) = b.used
        /\ \A i \in 1..b.used : UsedBytes(b)[i] = b.mem[i]
    BY UsedBytesOK
  <2>4. /\ UsedBytes(r) \in Seq(Cell) /\ Len(UsedBytes(r)) = r.used
        /\ \A i \in 1..r.used : UsedBytes(r)[i] = r.mem[i]
    BY <2>1, UsedBytesOK
  <2> DEFINE u == UsedBytes(b)
             v == UsedBytes(r)
  <2> HIDE DEF u, v
  <2>5. u \o d \in Seq(Cell) /\ Len(u \o d) = b.used + Len(d) BY <2>3 DEF u
  <2>6. ASSUME NEW i \in 1..(b.used + Len(d)) PROVE v[i] = (u \o d)[i]
    <3>1. v[i] = r.mem[i] BY <2>1, <2>4 DEF v
    <3>2. CASE i <= b.used
      <4>1. i \in 1..b.used BY <1>2, <2>2, <3>2
      <4>2. (u \o d)[i] = u[i] BY <2>3, <2>5, <4>1 DEF u
      <4> QED BY <2>1, <2>3, <3>1, <4>1, <4>2 DEF u
    <3>3. CASE i > b.used
      <4>1. i - b.used \in 1..Len(d) /\ b.used + (i - b.used) = i BY <1>2, <2>2, <3>3
      <4>2. r.mem[i] = d[i - b.used] BY <2>1, <4>1
      <4>3. (u \o d)[i] = d[i - b.used] BY <1>2, <2>2, <2>3, <2>5, <3>3, <4>1 DEF u
      <4> QED BY <3>1, <4>2, <4>3
    <3>4. i <= b.used \/ i > b.used BY <1>2, <2>2
    <3> QED BY <3>2, <3>3, <3>4
  <2>7. v = u \o d
    <3>1. v \in Seq(Cell) /\ Len(v) = b.used + Len(d) BY <2>1, <2>4 DEF v
    <3> DEFINE x == u \o d
    <3>2. x \in Seq(Cell) /\ Len(x) = Len(v) /\ \A i \in 1..Len(v) : v[i] = x[i] BY <2>5, <2>6, <3>1
    <3> HIDE DEF x
    <3>3. v = x BY <3>1, <3>2
    <3> QED BY <3>3 DEF x
  <2> QED BY <1>2, <2>1, <2>2, <2>7 DEF u, v
<1>4. CASE b.status < 0
  <2>1. r = b BY <1>1, <1>4
  <2>2. ~(b.used > 0) BY <1>2, <1>4
  <2> QED BY <2>1, <2>2
<1>5. CASE r = Failed(b) /\ ~ok
  <2>1. b.used = 0 BY <1>2, <1>5
  <2>2. BufOK(r) /\ r.used = 0 BY <1>5, <2>1, FailedOK
  <2>3. UsedBytes(r) = << >> /\ UsedBytes(b) = << >> BY <2>1, <2>2, UsedBytesOK
  <2> QED BY <2>2, <2>3
<1> QED BY <1>1, <1>2, <1>3, <1>4, <1>5

\* What XSock_Write has sent is gone from the buffer, and only that.
LEMMA TxConsumed ==
    ASSUME NEW b, BufOK(b), NEW n \in 1..b.used
    PROVE  /\ BufOK(Consumed(b, n))
           /\ SubSeq(b.mem, 1, n) \in Seq(Cell)
           /\ UsedBytes(b) = SubSeq(b.mem, 1, n) \o UsedBytes(Consumed(b, n))
<1> DEFINE r == Consumed(b, n)
           s == SubSeq(b.mem, 1, n)
           u == UsedBytes(b)
           v == UsedBytes(r)
<1>1. b.used \in Nat /\ b.mem \in Seq(Cell) /\ b.used <= Len(b.mem) /\ Len(b.mem) \in Nat BY DEF BufOK
<1>2. n \in Nat BY <1>1
<1>3. IsRemoved(r, b, n) BY <1>2, ConsumedOK
<1>4. s \in Seq(Cell) /\ Len(s) = n /\ \A i \in 1..n : s[i] = b.mem[i] BY <1>1, <1>2
<1>5. u \in Seq(Cell) /\ Len(u) = b.used /\ \A i \in 1..b.used : u[i] = b.mem[i] BY UsedBytesOK
<1> HIDE DEF r, s, u
<1>6. BufOK(r) /\ r.used = b.used - n /\ \A i \in 1..r.used : r.mem[i] = b.mem[n + i]
  BY <1>1, <1>3 DEF IsRemoved, MinOf
<1>7. v \in Seq(Cell) /\ Len(v) = r.used /\ \A i \in 1..r.used : v[i] = r.mem[i] BY <1>6, UsedBytesOK
<1> HIDE DEF v
<1> DEFINE x == s \o v
<1>8. x \in Seq(Cell) /\ Len(x) = Len(u)
  <2>1. Len(s) \in Nat /\ Len(v) \in Nat /\ Len(s) + Len(v) = Len(u) BY <1>1, <1>2, <1>4, <1>5, <1>6, <1>7
  <2>2. s \in Seq(Cell) /\ v \in Seq(Cell) BY <1>4, <1>7
  <2> QED BY <2>1, <2>2
<1>9. ASSUME NEW i \in 1..b.used PROVE u[i] = x[i]
  <2>1. CASE i <= n
    <3>1. i \in 1..n BY <1>1, <2>1
    <3>2. x[i] = s[i] BY <1>4, <1>7, <3>1
    <3> QED BY <1>4, <1>5, <3>1, <3>2
  <2>2. CASE i > n
    <3>1. i - n \in 1..r.used /\ n + (i - n) = i BY <1>1, <1>6, <2>2
    <3>2. x[i] = v[i - n] BY <1>4, <1>7, <2>2, <3>1, <1>1, <1>6
    <3> QED BY <1>5, <1>6, <1>7, <3>1, <3>2
  <2>3. i <= n \/ i > n BY <1>1
  <2> QED BY <2>1, <2>2, <2>3
<1>10. u = x
  <2> HIDE DEF x
  <2> QED BY <1>5, <1>8, <1>9
<1> QED BY <1>4, <1>6, <1>10 DEF r, s, u, v, x

-----------------------------------------------------------------------------
(* The parsers                                                             *)

\* The packet whose byte is first in the receive buffer.
LEMMA FirstPacket ==
    ASSUME ConfOK, NEW b, RxOK(b), b.used > 0
    PROVE  /\ b.mem[1] \in Token(W) /\ b.used \in Nat /\ b.size \in Nat /\ Len(b.mem) = b.size
           /\ b.mem \in Seq(Cell) /\ b.used < b.size
           /\ UsedBytes(b) \in Seq(Cell) /\ Len(UsedBytes(b)) = b.used
           /\ UsedBytes(b)[1] = b.mem[1] /\ SubSeq(b.mem, 1, b.size)[1] = b.mem[1]
           /\ W[b.mem[1].p].head \in Nat /\ W[b.mem[1].p].body \in Nat
<1>1. BufOK(b) /\ \A i \in 1..b.used : b.mem[i] \in Token(W) BY DEF RxOK
<1>2. /\ b.mem \in Seq(Cell) /\ b.size \in Nat /\ b.used \in Nat /\ Len(b.mem) = b.size
      /\ b.used < b.size
  BY <1>1 DEF BufOK
<1>3. 1 \in 1..b.used BY <1>2
<1>4. b.mem[1] \in Token(W) BY <1>1, <1>3
<1>5. b.mem[1].p \in 1..Len(W) BY <1>4 DEF Token
<1>6. W[b.mem[1].p].head \in Nat /\ W[b.mem[1].p].body \in Nat BY <1>5 DEF ConfOK
<1>7. UsedBytes(b) \in Seq(Cell) /\ Len(UsedBytes(b)) = b.used /\ UsedBytes(b)[1] = b.mem[1]
  BY <1>1, <1>3, UsedBytesOK
<1>8. SubSeq(b.mem, 1, b.size)[1] = b.mem[1] BY <1>2
<1> QED BY <1>2, <1>4, <1>6, <1>7, <1>8

LEMMA ParseHTTP ==
    ASSUME ConfOK, NEW b, RxOK(b), b.used > 0
    PROVE  XHTTP_Parse(W, b).size \in Nat
<1> DEFINE d == UsedBytes(b)
           h == W[d[1].p]
<1>1. Len(d) \in Nat /\ h.head \in Nat /\ h.body \in Nat BY FirstPacket
<1>2. XHTTP_GetPacketSize(h, Len(d)) \in Nat
  <2> HIDE DEF d, h
  <2>1. CASE ~(h.ctype /\ h.body > 0) BY <1>1, <2>1 DEF XHTTP_GetPacketSize, XHTTP_GetExtraSize
  <2>2. CASE h.ctype /\ h.body > 0 BY <1>1, <2>2 DEF XHTTP_GetPacketSize, XHTTP_GetExtraSize
  <2> QED BY <2>1, <2>2
<1>3. XHTTP_Parse(W, b).size \in {0, XHTTP_GetPacketSize(h, Len(d))}
  <2> HIDE DEF d, h
  <2> DEFINE n == XHTTP_ParseHeaderLength(W, d)
             al == Aligned(W, d, "http")
             co == XHTTP_CheckComplete(h, Len(d) - n)
             ps == XHTTP_GetPacketSize(h, Len(d))
             dat == SubSeq(d, 1, n + h.body)
  <2>1. XHTTP_Parse(W, b) = CASE n = 0 -> Incomplete
          [] n > 0 /\ ~al -> Result("INVALID", 0, << >>, TRUE)
          [] n > 0 /\ al /\ co -> Result("COMPLETE", ps, dat, TRUE)
          [] OTHER -> Result("PARSED", 0, << >>, TRUE)
    BY DEF XHTTP_Parse, d, h
  <2> HIDE DEF n, al, co, ps, dat
  <2>2. XHTTP_Parse(W, b).size \in {0, ps} BY <2>1 DEF Incomplete, Result
  <2> QED BY <2>2 DEF ps
<1> QED BY <1>2, <1>3

LEMMA ParseMDTP ==
    ASSUME ConfOK, NEW b, RxOK(b), b.used > 0
    PROVE  XPacket_Parse(W, b, b.size).size \in Nat
<1> DEFINE d == SubSeq(b.mem, 1, b.size)
           h == W[d[1].p]
           n == b.size
           r == XPacket_Parse(W, b, n)
<1>1. n \in Nat /\ Size(h) \in Nat /\ h.head \in Nat
  <2>1. n \in Nat /\ h.head \in Nat /\ h.body \in Nat BY FirstPacket
  <2> HIDE DEF n, h
  <2> QED BY <2>1 DEF Size
<1>2. r.size \in {0, n, Size(h)}
  <2> DEFINE al == Aligned(W, d, "mdtp")
             sz == Size(h)
             dat == SubSeq(d, 1, sz)
             last == d[h.head] = NUL
  <2>1. r = CASE n < InfoBytes -> [Incomplete EXCEPT !.init = FALSE]
          [] n >= InfoBytes /\ ~al ->
                 Result("COMPLETE", n, <<JUNK>>, TRUE)
          [] n >= InfoBytes /\ al /\ n < h.head ->
                 [Incomplete EXCEPT !.init = FALSE]
          [] n >= InfoBytes /\ al /\ n >= h.head ->
                 IF last THEN Result("INVALID", 0, << >>, TRUE)
                 ELSE IF n < sz THEN Incomplete
                 ELSE Result("COMPLETE", sz, dat, TRUE)
    BY DEF XPacket_Parse
  <2>2. InfoBytes \in Nat BY WireAssumption
  <2> HIDE DEF r, al, sz, dat, last, h, d, n
  <2>3. n < InfoBytes \/ (n >= InfoBytes /\ ~al) \/ (n >= InfoBytes /\ al /\ n < h.head) \/ (n >= InfoBytes /\ al /\ n >= h.head)
    BY <1>1, <2>2
  <2>4. r.size \in {0, n, sz} BY <2>1, <2>3 DEF Incomplete, Result
  <2> QED BY <2>4 DEF sz
<1>3. r.size \in Nat
  <2> HIDE DEF r, n, h
  <2> QED BY <1>1, <1>2
<1> QED BY <1>3

LEMMA ParseWS ==
    ASSUME ConfOK, NEW b, RxOK(b), b.used > 0
    PROVE  XWebFrame_Parse(W, b).size \in Nat /\ XWebFrame_Parse(W, b).data \in Seq(Cell)
<1> DEFINE d == UsedBytes(b)
           h == W[d[1].p]
           u == UsedBytes(XWebFrame_Unmask(h, b))
           r == XWebFrame_Parse(W, b)
           al == Aligned(W, d, "ws")
           sz == Size(h)
           dat == SubSeq(u, h.head + 1, sz)
<1>1. Len(d) \in Nat /\ Len(d) = b.used /\ h.head \in Nat /\ sz \in Nat /\ b.used \in Nat /\ b.used < b.size
      /\ Len(b.mem) = b.size /\ b.size \in Nat /\ b.mem \in Seq(Cell) /\ d \in Seq(Cell)
  <2>1. Len(d) \in Nat /\ Len(d) = b.used /\ d \in Seq(Cell) BY FirstPacket
  <2>2. b.used \in Nat /\ b.used < b.size /\ Len(b.mem) = b.size /\ b.size \in Nat /\ b.mem \in Seq(Cell)
    BY FirstPacket
  <2>3. h.head \in Nat /\ h.body \in Nat BY FirstPacket
  <2> HIDE DEF h
  <2>4. sz \in Nat BY <2>3 DEF Size
  <2> QED BY <2>1, <2>2, <2>3, <2>4
<1>2. ASSUME Len(d) >= sz PROVE dat \in Seq(Cell)
  <2>1. CASE h.kind # "ws" \/ ~h.mask
    <3>1. u = d BY <2>1 DEF XWebFrame_Unmask
    <3>2. d \in Seq(Cell) BY <1>1
    <3> HIDE DEF d, u, h
    <3>3. u \in Seq(Cell) /\ h.head + 1 \in Nat \ {0} /\ sz \in Nat /\ sz <= Len(u) BY <1>1, <1>2, <3>1, <3>2
    <3> HIDE DEF sz
    <3> QED BY <3>3
  <2>2. CASE ~(h.kind # "ws" \/ ~h.mask)
    <3> DEFINE m == [i \in 1..Len(b.mem) |-> IF i > h.head /\ i <= sz THEN [b.mem[i] EXCEPT !.x = ~@] ELSE b.mem[i]]
    <3>1. XWebFrame_Unmask(h, b) = [b EXCEPT !.mem = m] BY <2>2 DEF XWebFrame_Unmask
    <3>2. \A i \in 1..b.used : b.mem[i] \in [p : Nat, k : Nat, x : BOOLEAN]
      <4>1. \A i \in 1..b.used : b.mem[i] \in Token(W) BY DEF RxOK
      <4>2. Token(W) \subseteq [p : Nat, k : Nat, x : BOOLEAN] BY DEF Token
      <4> QED BY <4>1, <4>2
    <3>3. ASSUME NEW i \in 1..Len(b.mem) PROVE m[i] \in Cell
      <4>1. b.mem[i] \in Cell BY <1>1
      <4>2. CASE i > h.head /\ i <= sz
        <5>1. i \in 1..b.used BY <1>1, <1>2, <4>2
        <5> DEFINE t == b.mem[i]
        <5>2. t \in [p : Nat, k : Nat, x : BOOLEAN] BY <3>2, <5>1
        <5>3. m[i] = [t EXCEPT !.x = ~@] BY <4>2
        <5> HIDE DEF t, m, sz, h
        <5>4. m[i] \in [p : Nat, k : Nat, x : BOOLEAN]
          <6>1. t.p \in Nat /\ t.k \in Nat /\ t.x \in BOOLEAN /\ t = [p |-> t.p, k |-> t.k, x |-> t.x] BY <5>2
          <6>2. m[i] = [p |-> t.p, k |-> t.k, x |-> ~t.x] BY <5>2, <5>3
          <6> QED BY <6>1, <6>2
        <5> QED BY <5>4 DEF Cell
      <4>3. CASE ~(i > h.head /\ i <= sz) 
        <5>1. m[i] = b.mem[i] BY <4>3
        <5> HIDE DEF m
        <5> QED BY <4>1, <5>1
      <4> QED BY <4>2, <4>3
    <3>4. m \in Seq(Cell) /\ Len(m) = b.size
      <4>1. m \in [1..b.size -> Cell] BY <1>1, <3>3
      <4> HIDE DEF m
      <4> QED BY <1>1, <4>1
    <3>5. u = SubSeq(m, 1, b.used)
      <4> DEFINE q == [b EXCEPT !.mem = m]
      <4> HIDE DEF m
      <4>1. q.mem = m /\ q.used = b.used BY DEF RxOK, BufOK, IsBuf
      <4> HIDE DEF q
      <4>2. UsedBytes(q) = SubSeq(m, 1, b.used) BY <4>1 DEF UsedBytes
      <4> QED BY <3>1, <4>2 DEF q
    <3> HIDE DEF m, u, sz, h, d
    <3>6. u \in Seq(Cell) /\ Len(u) = b.used BY <1>1, <3>4, <3>5
    <3>7. h.head + 1 \in Nat \ {0} /\ sz \in Nat /\ sz <= Len(u) BY <1>1, <1>2, <3>6
    <3> QED BY <3>6, <3>7
  <2> QED BY <2>1, <2>2
<1> DEFINE junk == Result("COMPLETE", Len(d), <<JUNK>>, TRUE)
           none == Result("INVALID", 0, << >>, TRUE)
           full == Result("COMPLETE", sz, dat, TRUE)
<1>3. r = CASE Len(d) < 2 -> Incomplete
          [] Len(d) >= 2 /\ ~al -> junk
          [] Len(d) >= 2 /\ al /\ Len(d) < sz -> Incomplete
          [] Len(d) >= 2 /\ al /\ Len(d) >= sz /\ h.huge -> none
          [] OTHER -> full
  BY DEF XWebFrame_Parse, XWebFrame_GetFrameLength
<1>4. << >> \in Seq(Cell) /\ <<JUNK>> \in Seq(Cell) BY DEF Cell
<1> HIDE DEF r, al, sz, dat, d, h, u, junk, none, full
<1>5. r \in {Incomplete, junk, none} \/ (r = full /\ Len(d) >= sz)
  <2>1. CASE Len(d) < 2 BY <1>3, <2>1
  <2>2. CASE Len(d) >= 2 /\ ~al BY <1>1, <1>3, <2>2
  <2>3. CASE Len(d) >= 2 /\ al /\ Len(d) < sz BY <1>1, <1>3, <2>3
  <2>4. CASE Len(d) >= 2 /\ al /\ Len(d) >= sz
    <3>1. CASE h.huge BY <1>1, <1>3, <2>4, <3>1
    <3>2. CASE ~h.huge BY <1>1, <1>3, <2>4, <3>2
    <3> QED BY <3>1, <3>2
  <2> QED BY <1>1, <2>1, <2>2, <2>3, <2>4
<1>6. r.size \in Nat BY <1>1, <1>5 DEF Incomplete, Result, junk, none, full
<1>7. r.data \in Seq(Cell)
  <2>1. r.data = << >> \/ r.data = <<JUNK>> \/ (r.data = dat /\ Len(d) >= sz) BY <1>5 DEF Incomplete, Result, junk, none, full
  <2> QED BY <1>2, <1>4, <2>1
<1> QED BY <1>6, <1>7 DEF r

-----------------------------------------------------------------------------
(* What the steps are made of: where the handler goes on, ...              *)

LEMMA ContinueOK ==
    ASSUME CtlOK(ctl), Continue
    PROVE  CtlOK(ctl') /\ ctl'.pc # "handle"
<1>1. 0 \in 0..(DrainMax - 1) BY StreamAssumption
<1>2. CASE ctl.ev = {}
  <2>1. ctl' = [pc |-> "idle", ev |-> {}, rounds |-> 0, size |-> 0] BY <1>2 DEF Continue, Idle
  <2> QED BY <1>1, <2>1 DEF CtlOK, Points
<1>3. CASE ctl.ev # {}
  <2>1. ctl' = [pc |-> "dispatch", ev |-> ctl.ev, rounds |-> 0, size |-> 0] BY <1>3 DEF Continue, Idle
  <2> QED BY <1>1, <2>1 DEF CtlOK, Points
<1> QED BY <1>2, <1>3

LEMMA ReloopOK ==
    ASSUME Reloop
    PROVE  CtlOK(ctl') /\ ctl'.pc # "handle"
<1>1. 0 \in 0..(DrainMax - 1) BY StreamAssumption
<1>2. ctl' = [pc |-> "idle", ev |-> {}, rounds |-> 0, size |-> 0] BY DEF Reloop, Idle
<1> QED BY <1>1, <1>2 DEF CtlOK, Points

LEMMA DisconnectOK ==
    ASSUME Disconnect
    PROVE  CtlOK(ctl') /\ ctl'.pc # "handle"
<1>1. 0 \in 0..(DrainMax - 1) BY StreamAssumption
<1>2. ctl' = [pc |-> "closed", ev |-> {}, rounds |-> 0, size |-> 0] BY DEF Disconnect, Idle
<1> QED BY <1>1, <1>2 DEF CtlOK, Points

\* ctl' with a new point of control, set of events and size.
LEMMA JumpOK ==
    ASSUME CtlOK(ctl), NEW p \in Points, NEW e \in SUBSET {"IN", "OUT"}, NEW n \in Nat,
           ctl' = [ctl EXCEPT !.pc = p, !.ev = e, !.size = n]
    PROVE  CtlOK(ctl') /\ ctl'.pc = p
<1>1. ctl' = [pc |-> p, ev |-> e, rounds |-> ctl.rounds, size |-> n] BY DEF CtlOK
<1> QED BY <1>1 DEF CtlOK

LEMMA GotoOK ==
    ASSUME CtlOK(ctl), NEW p \in Points, Goto(p)
    PROVE  CtlOK(ctl') /\ ctl'.pc = p
<1>1. ctl' = [ctl EXCEPT !.pc = p, !.ev = ctl.ev, !.size = ctl.size] BY DEF Goto, CtlOK
<1>2. ctl.ev \in SUBSET {"IN", "OUT"} /\ ctl.size \in Nat BY DEF CtlOK
<1> QED BY <1>1, <1>2, JumpOK

LEMMA ReadOK ==
    ASSUME CtlOK(ctl), NEW s, NEW n, XAPI_Read(s, n)
    PROVE  CtlOK(ctl') /\ ctl'.pc # "handle"
<1>1. CASE ~s.cancel /\ ctl.rounds + 1 < DrainMax /\ XSock_Pending(n)
  <2>1. ctl' = [pc |-> "read", ev |-> ctl.ev, rounds |-> ctl.rounds + 1, size |-> ctl.size]
    BY <1>1 DEF XAPI_Read, CtlOK
  <2>2. ctl.rounds + 1 \in 0..(DrainMax - 1) BY <1>1, StreamAssumption DEF CtlOK
  <2> QED BY <2>1, <2>2 DEF CtlOK, Points
<1>2. CASE ~(~s.cancel /\ ctl.rounds + 1 < DrainMax /\ XSock_Pending(n))
  <2>1. Continue BY <1>2 DEF XAPI_Read
  <2> QED BY <2>1, ContinueOK
<1> QED BY <1>1, <1>2

-----------------------------------------------------------------------------
(* ... what becomes of the session, ...                                    *)

Kept(r, s) == SesOK(r) /\ r.rx = s.rx /\ r.tx = s.tx

\* Only flags and event sets change.
LEMMA FlagsChange ==
    ASSUME NEW s, SesOK(s), NEW r, IsSes(r), Flags(r), r.rx = s.rx, r.tx = s.tx, r.ws = s.ws
    PROVE  Kept(r, s)
BY DEF Kept, SesOK, Bufs

LEMMA SetEventsOK ==
    ASSUME NEW s, SesOK(s), NEW e \in SUBSET {"IN", "OUT"}, NEW r, r = XAPI_SetEvents(s, e)
    PROVE  Kept(r, s)
<1>1. r = [s EXCEPT !.mask = e, !.events = e] BY DEF XAPI_SetEvents
<1>2. IsSes(s) /\ Flags(s) BY DEF SesOK
<1>3. IsSes(r) /\ r.rx = s.rx /\ r.tx = s.tx /\ r.ws = s.ws BY <1>1, <1>2 DEF IsSes
<1>4. r.mask = e /\ r.events = e /\ r.start = s.start /\ r.done = s.done /\ r.row = s.row /\ r.wor = s.wor
      /\ r.cancel = s.cancel
  BY <1>1, <1>2 DEF IsSes
<1>5. Flags(r) BY <1>2, <1>4 DEF Flags
<1> QED BY <1>3, <1>5, FlagsChange

LEMMA EnableOK ==
    ASSUME NEW s, SesOK(s), NEW e \in {"IN", "OUT"}
    PROVE  Kept(XAPI_EnableEvent(s, e), s)
<1>1. s.events \in SUBSET {"IN", "OUT"} BY DEF SesOK, Flags
<1>2. CASE e \in s.events
  <2>1. XAPI_EnableEvent(s, e) = s BY <1>2 DEF XAPI_EnableEvent
  <2> QED BY <2>1 DEF Kept
<1>3. CASE e \notin s.events
  <2>1. XAPI_EnableEvent(s, e) = XAPI_SetEvents(s, s.events \cup {e}) BY <1>3 DEF XAPI_EnableEvent
  <2>2. s.events \cup {e} \in SUBSET {"IN", "OUT"} BY <1>1
  <2> QED BY <2>1, <2>2, SetEventsOK
<1> QED BY <1>2, <1>3

LEMMA DisableOK ==
    ASSUME NEW s, SesOK(s), NEW e
    PROVE  Kept(XAPI_DisableEvent(s, e), s)
<1>1. s.events \in SUBSET {"IN", "OUT"} BY DEF SesOK, Flags
<1>2. CASE e \notin s.events
  <2>1. XAPI_DisableEvent(s, e) = s BY <1>2 DEF XAPI_DisableEvent
  <2> QED BY <2>1 DEF Kept
<1>3. CASE e \in s.events
  <2>1. XAPI_DisableEvent(s, e) = XAPI_SetEvents(s, s.events \ {e}) BY <1>3 DEF XAPI_DisableEvent
  <2>2. s.events \ {e} \in SUBSET {"IN", "OUT"} BY <1>1
  <2> QED BY <2>1, <2>2, SetEventsOK
<1> QED BY <1>2, <1>3

LEMMA RollbackOK ==
    ASSUME NEW s, SesOK(s)
    PROVE  Kept(XAPI_RollbackEvents(s), s)
<1>1. s.events \in SUBSET {"IN", "OUT"} BY DEF SesOK, Flags
<1> QED BY <1>1, SetEventsOK DEF XAPI_RollbackEvents

\* Another receive, transmit or fragment buffer.
LEMMA SetRx ==
    ASSUME NEW s, SesOK(s), NEW b, RxOK(b), NEW r, r = [s EXCEPT !.rx = b]
    PROVE  SesOK(r) /\ r.rx = b /\ r.tx = s.tx
<1>1. IsSes(s) /\ Flags(s) /\ BufOK(s.tx) /\ BufOK(s.ws) BY DEF SesOK, Bufs
<1>2. IsSes(r) /\ r.rx = b /\ r.tx = s.tx /\ r.ws = s.ws BY <1>1 DEF IsSes
<1>3. r.mask = s.mask /\ r.events = s.events /\ r.start = s.start /\ r.done = s.done /\ r.row = s.row /\ r.wor = s.wor
      /\ r.cancel = s.cancel
  BY <1>1 DEF IsSes
<1>4. Flags(r) BY <1>1, <1>3 DEF Flags
<1> QED BY <1>1, <1>2, <1>4 DEF SesOK, Bufs

LEMMA SetTx ==
    ASSUME NEW s, SesOK(s), NEW b, BufOK(b), NEW r, r = [s EXCEPT !.tx = b]
    PROVE  SesOK(r) /\ r.tx = b /\ r.rx = s.rx /\ r.start = s.start
<1>1. IsSes(s) /\ Flags(s) /\ RxOK(s.rx) /\ BufOK(s.ws) BY DEF SesOK, Bufs
<1>2. IsSes(r) /\ r.tx = b /\ r.rx = s.rx /\ r.ws = s.ws BY <1>1 DEF IsSes
<1>3. r.mask = s.mask /\ r.events = s.events /\ r.start = s.start /\ r.done = s.done /\ r.row = s.row /\ r.wor = s.wor
      /\ r.cancel = s.cancel
  BY <1>1 DEF IsSes
<1>4. Flags(r) BY <1>1, <1>3 DEF Flags
<1> QED BY <1>1, <1>2, <1>3, <1>4 DEF SesOK, Bufs

LEMMA SetWs ==
    ASSUME NEW s, SesOK(s), NEW b, BufOK(b), NEW f, NEW r, r = [s EXCEPT !.ws = b, !.frag = f]
    PROVE  Kept(r, s) /\ r.ws = b
<1>1. IsSes(s) /\ Flags(s) /\ RxOK(s.rx) /\ BufOK(s.tx) BY DEF SesOK, Bufs
<1>2. IsSes(r) /\ r.tx = s.tx /\ r.rx = s.rx /\ r.ws = b BY <1>1 DEF IsSes
<1>3. r.mask = s.mask /\ r.events = s.events /\ r.start = s.start /\ r.done = s.done /\ r.row = s.row /\ r.wor = s.wor
      /\ r.cancel = s.cancel
  BY <1>1 DEF IsSes
<1>4. Flags(r) BY <1>1, <1>3 DEF Flags
<1> QED BY <1>1, <1>2, <1>4 DEF SesOK, Bufs, Kept

-----------------------------------------------------------------------------
(* ... and of the whole.                                                   *)

SameOut(l) == LogOK(l) /\ l.out = log.out /\ l.put = log.put

\* Nothing is queued or sent.
LEMMA NothingSent ==
    ASSUME AllOK(ses, net, ctl, log), NEW s, SesOK(s), s.tx = ses.tx, NEW n, NetOK(n),
           NEW c, CtlOK(c), NEW l, SameOut(l), HandleOK(s, c)
    PROVE  AllOK(s, n, c, l)
BY DEF AllOK, SameOut, TxOK

LEMMA SameOutNow ==
    ASSUME LogOK(log)
    PROVE  SameOut(log)
BY DEF SameOut

LEMMA FailOK ==
    ASSUME AllOK(ses, net, ctl, log), NEW why, Fail(why)
    PROVE  AllOK(ses', net', ctl', log')
<1>1. log' = [log EXCEPT !.err = why] /\ Disconnect /\ ses' = ses /\ net' = net BY DEF Fail
<1>2. CtlOK(ctl') /\ ctl'.pc # "handle" BY <1>1, DisconnectOK
<1>3. SameOut(log') BY <1>1 DEF AllOK, LogOK, SameOut
<1> QED BY <1>1, <1>2, <1>3, NothingSent DEF AllOK, HandleOK

\* The handler only goes on.
LEMMA OnlyCtl ==
    ASSUME AllOK(ses, net, ctl, log), ses' = ses, net' = net, log' = log, CtlOK(ctl'), HandleOK(ses, ctl')
    PROVE  AllOK(ses', net', ctl', log')
BY DEF AllOK

LEMMA NoPacketOK ==
    ASSUME AllOK(ses, net, ctl, log), NEW r, NoPacket(r)
    PROVE  AllOK(ses', net', ctl', log')
<1>1. CASE r.st = "INVALID"
  <2>1. Fail("invalid") BY <1>1 DEF NoPacket
  <2> QED BY <2>1, FailOK
<1>2. CASE r.st = "INCOMPLETE" /\ ses.rx.used > RxMax
  <2>1. Fail("big") BY <1>2 DEF NoPacket
  <2> QED BY <2>1, FailOK
<1>3. CASE r.st # "INVALID" /\ ~(r.st = "INCOMPLETE" /\ ses.rx.used > RxMax)
  <2>1. XAPI_Read(ses, net) /\ UNCHANGED <<ses, net, log>> BY <1>3 DEF NoPacket
  <2>2. CtlOK(ctl') /\ ctl'.pc # "handle" BY <2>1, ReadOK DEF AllOK
  <2> QED BY <2>1, <2>2, OnlyCtl DEF HandleOK
<1> QED BY <1>1, <1>2, <1>3

\* A packet is given to the application.
LEMMA GiveOK ==
    ASSUME AllOK(ses, net, ctl, log), NEW s, Kept(s, ses), NEW t, NEW d, NEW n \in Nat, NEW p \in Points, p # "handle",
           Give(s, t, d, n, p)
    PROVE  AllOK(ses', net', ctl', log')
<1>1. /\ ses' = s /\ net' = net
      /\ log' = [log EXCEPT !.got = Append(@, [type |-> t, data |-> d])]
      /\ ctl' = [ctl EXCEPT !.pc = p, !.size = n]
  BY DEF Give
<1>2. ctl' = [ctl EXCEPT !.pc = p, !.ev = ctl.ev, !.size = n] BY <1>1 DEF AllOK, CtlOK
<1>3. CtlOK(ctl') /\ ctl'.pc = p BY <1>2, JumpOK DEF AllOK, CtlOK
<1>4. SameOut(log') BY <1>1 DEF AllOK, LogOK, SameOut
<1>5. NetOK(net') BY <1>1 DEF AllOK
<1>6. SesOK(ses') /\ ses'.tx = ses.tx BY <1>1 DEF Kept
<1> QED BY <1>3, <1>4, <1>5, <1>6, NothingSent DEF HandleOK

-----------------------------------------------------------------------------
(* The peer and the network                                                *)

\* A step of the peer or of TLS: another net, and a flag of the history.
LEMMA NetStep ==
    ASSUME AllOK(ses, net, ctl, log), ses' = ses, ctl' = ctl, NetOK(net'), SameOut(log')
    PROVE  AllOK(ses', net', ctl', log')
BY DEF AllOK, SameOut, TxOK

LEMMA EnvironmentOK ==
    ASSUME StreamInv, Environment
    PROVE  AllOK(ses', net', ctl', log') /\ conf' = conf
<1> USE DEF StreamInv
<1>1. NetOK(net) /\ LogOK(log) /\ CtlOK(ctl) BY DEF AllOK
<1>2. SameOut(log) BY <1>1, SameOutNow
<1>3. SendRoom \in Nat \ {0} BY StreamAssumption
<1>4. CASE Arrive
  <2>1. PICK n \in (net.sent + 1)..Len(conf.bytes) : net' = [net EXCEPT !.sent = n] BY <1>4 DEF Arrive
  <2>2. Len(conf.bytes) \in Nat BY DEF ConfOK
  <2>3. NetOK(net') BY <1>1, <2>1, <2>2 DEF NetOK
  <2> QED BY <1>2, <1>4, <2>3, NetStep DEF Arrive
<1>5. CASE Taken
  <2>1. NetOK(net') BY <1>1, <1>3, <1>5 DEF Taken, NetOK
  <2> QED BY <1>2, <1>5, <2>1, NetStep DEF Taken
<1>6. CASE Finish
  <2>1. NetOK(net') BY <1>1, <1>6 DEF Finish, NetOK
  <2> QED BY <1>2, <1>6, <2>1, NetStep DEF Finish
<1>7. CASE KeyUpdate
  <2>1. NetOK(net') BY <1>1, <1>7 DEF KeyUpdate, NetOK
  <2>2. SameOut(log') BY <1>1, <1>7 DEF KeyUpdate, LogOK, SameOut
  <2> QED BY <1>7, <2>1, <2>2, NetStep DEF KeyUpdate
<1>8. CASE Renegotiate
  <2>1. NetOK(net') BY <1>1, <1>8 DEF Renegotiate, NetOK
  <2>2. SameOut(log') BY <1>1, <1>8 DEF Renegotiate, LogOK, SameOut
  <2> QED BY <1>8, <2>1, <2>2, NetStep DEF Renegotiate
<1>9. CASE Answered
  <2>1. NetOK(net') BY <1>1, <1>9 DEF Answered, NetOK
  <2> QED BY <1>2, <1>9, <2>1, NetStep DEF Answered
<1>10. CASE XAPI_HungedEvent
  <2>1. Disconnect /\ conf' = conf /\ ses' = ses /\ net' = net /\ log' = log BY <1>10 DEF XAPI_HungedEvent
  <2>2. CtlOK(ctl') /\ ctl'.pc # "handle" BY <2>1, DisconnectOK
  <2> QED BY <2>1, <2>2, OnlyCtl DEF HandleOK
<1> QED BY <1>4, <1>5, <1>6, <1>7, <1>8, <1>9, <1>10 DEF Environment

-----------------------------------------------------------------------------
(* The event loop, writing and reading                                     *)

LEMMA PollOK ==
    ASSUME StreamInv, Poll
    PROVE  AllOK(ses', net', ctl', log') /\ conf' = conf
<1>1. AllOK(ses, net, ctl, log) /\ CtlOK(ctl) /\ Flags(ses) BY DEF StreamInv, AllOK, SesOK
<1>2. Ready \in SUBSET {"IN", "OUT"} /\ ctl.size \in Nat BY <1>1 DEF Ready, Flags, CtlOK
<1>3. ctl' = [ctl EXCEPT !.pc = "dispatch", !.ev = Ready, !.size = ctl.size] BY <1>1 DEF Poll, CtlOK
<1>4. "dispatch" \in Points /\ "dispatch" # "handle" BY DEF Points
<1>5. CtlOK(ctl') /\ ctl'.pc = "dispatch" BY <1>1, <1>2, <1>3, <1>4, JumpOK
<1> QED BY <1>1, <1>5, OnlyCtl DEF HandleOK, Poll

\* The session gets other flags and the handler goes on.
LEMMA FlagStep ==
    ASSUME AllOK(ses, net, ctl, log), Kept(ses', ses), net' = net, log' = log, CtlOK(ctl'), ctl'.pc # "handle"
    PROVE  AllOK(ses', net', ctl', log')
<1>1. SameOut(log') /\ NetOK(net') BY SameOutNow DEF AllOK
<1>2. SesOK(ses') /\ ses'.tx = ses.tx BY DEF Kept
<1> QED BY <1>1, <1>2, NothingSent DEF HandleOK

LEMMA WriteEventOK ==
    ASSUME StreamInv, XAPI_WriteEvent
    PROVE  AllOK(ses', net', ctl', log') /\ conf' = conf
<1>1. AllOK(ses, net, ctl, log) /\ CtlOK(ctl) /\ SesOK(ses) BY DEF StreamInv, AllOK
<1>2. ctl.ev \ {"OUT"} \in SUBSET {"IN", "OUT"} /\ ctl.size \in Nat BY <1>1 DEF CtlOK
<1>3. conf' = conf BY DEF XAPI_WriteEvent
<1>4. CASE ses.cancel
  <2>1. Disconnect /\ ses' = ses /\ net' = net /\ log' = log BY <1>4 DEF XAPI_WriteEvent
  <2>2. CtlOK(ctl') /\ ctl'.pc # "handle" BY <2>1, DisconnectOK
  <2> QED BY <1>1, <1>3, <2>1, <2>2, OnlyCtl DEF HandleOK
<1>5. CASE ~ses.cancel /\ ses.row
  <2>1. /\ ses' = [XAPI_RollbackEvents(ses) EXCEPT !.row = FALSE]
        /\ ctl' = [ctl EXCEPT !.pc = "read", !.ev = @ \ {"OUT"}]
        /\ net' = net /\ log' = log
    BY <1>5 DEF XAPI_WriteEvent
  <2>2. ctl' = [ctl EXCEPT !.pc = "read", !.ev = ctl.ev \ {"OUT"}, !.size = ctl.size] BY <1>1, <2>1 DEF CtlOK
  <2>3. CtlOK(ctl') /\ ctl'.pc # "handle"
    <3> DEFINE e == ctl.ev \ {"OUT"}
    <3>1. e \in SUBSET {"IN", "OUT"} /\ ctl.size \in Nat /\ CtlOK(ctl)
          /\ ctl' = [ctl EXCEPT !.pc = "read", !.ev = e, !.size = ctl.size]
      BY <1>1, <1>2, <2>2
    <3>2. "read" \in Points /\ "read" # "handle" BY DEF Points
    <3> HIDE DEF e
    <3> QED BY <3>1, <3>2, JumpOK
  <2>4. Kept(ses', ses)
    <3> DEFINE t == XAPI_RollbackEvents(ses)
    <3>1. Kept(t, ses) BY <1>1, RollbackOK
    <3> HIDE DEF t
    <3>2. SesOK(t) /\ IsSes(t) /\ Flags(t) BY <3>1 DEF Kept, SesOK
    <3>3. ses' = [t EXCEPT !.row = FALSE] BY <2>1 DEF t
    <3>4. IsSes(ses') /\ ses'.rx = t.rx /\ ses'.tx = t.tx /\ ses'.ws = t.ws BY <3>2, <3>3 DEF IsSes
    <3>5. Flags(ses') BY <3>2, <3>3 DEF IsSes, Flags
    <3>6. Kept(ses', t) BY <3>2, <3>4, <3>5, FlagsChange
    <3> QED BY <3>1, <3>6 DEF Kept
  <2> QED BY <1>1, <1>3, <2>1, <2>3, <2>4, FlagStep
<1>6. CASE ~ses.cancel /\ ~ses.row /\ Client /\ Is("WS") /\ ~ses.start /\ ~ses.done
  <2>1. PICK ok \in AllocOk : XAPI_RequestUpgrade(ok) BY <1>6 DEF XAPI_WriteEvent
  <2>2. CASE ~ok
    <3>1. Fail("alloc") BY <2>1, <2>2 DEF XAPI_RequestUpgrade
    <3> QED BY <1>1, <1>3, <3>1, FailOK
  <2>3. CASE ok
    <3>1. /\ ses' = [ses EXCEPT !.start = TRUE]
          /\ ctl' = [ctl EXCEPT !.pc = "cb_request", !.ev = @ \ {"OUT"}]
          /\ net' = net /\ log' = log
      BY <2>1, <2>3 DEF XAPI_RequestUpgrade
    <3>2. ctl' = [ctl EXCEPT !.pc = "cb_request", !.ev = ctl.ev \ {"OUT"}, !.size = ctl.size] BY <1>1, <3>1 DEF CtlOK
    <3>3. CtlOK(ctl') /\ ctl'.pc # "handle"
      <4> DEFINE e == ctl.ev \ {"OUT"}
      <4>1. e \in SUBSET {"IN", "OUT"} /\ ctl.size \in Nat /\ CtlOK(ctl)
            /\ ctl' = [ctl EXCEPT !.pc = "cb_request", !.ev = e, !.size = ctl.size]
        BY <1>1, <1>2, <3>2
      <4>2. "cb_request" \in Points /\ "cb_request" # "handle" BY DEF Points, Callbacks
      <4> HIDE DEF e
      <4> QED BY <4>1, <4>2, JumpOK
    <3>4. IsSes(ses') /\ ses'.rx = ses.rx /\ ses'.tx = ses.tx /\ ses'.ws = ses.ws BY <1>1, <3>1 DEF SesOK, IsSes
    <3>5. Flags(ses') BY <1>1, <3>1 DEF SesOK, IsSes, Flags
    <3>6. Kept(ses', ses) BY <1>1, <3>4, <3>5, FlagsChange
    <3> QED BY <1>1, <1>3, <3>1, <3>3, <3>6, FlagStep
  <2> QED BY <2>2, <2>3
<1>7. CASE ~ses.cancel /\ ~ses.row /\ ~(Client /\ Is("WS") /\ ~ses.start /\ ~ses.done)
  <2> DEFINE p == IF ses.tx.used = 0 THEN "cb_write" ELSE "write"
  <2>1. /\ ctl' = [ctl EXCEPT !.ev = @ \ {"OUT"}, !.pc = p]
        /\ ses' = ses /\ net' = net /\ log' = log
    BY <1>7 DEF XAPI_WriteEvent
  <2>2. p \in Points /\ p # "handle" BY DEF Points, Callbacks
  <2> HIDE DEF p
  <2>3. ctl' = [ctl EXCEPT !.pc = p, !.ev = ctl.ev \ {"OUT"}, !.size = ctl.size] BY <1>1, <2>1 DEF CtlOK
  <2>4. CtlOK(ctl') /\ ctl'.pc # "handle" BY <1>1, <1>2, <2>2, <2>3, JumpOK
  <2> QED BY <1>1, <1>3, <2>1, <2>4, OnlyCtl DEF HandleOK
<1> QED BY <1>4, <1>5, <1>6, <1>7

LEMMA ReadEventOK ==
    ASSUME StreamInv, XAPI_ReadEvent
    PROVE  AllOK(ses', net', ctl', log') /\ conf' = conf
<1>1. AllOK(ses, net, ctl, log) /\ CtlOK(ctl) /\ SesOK(ses) BY DEF StreamInv, AllOK
<1>2. {} \in SUBSET {"IN", "OUT"} /\ ctl.size \in Nat BY <1>1 DEF CtlOK
<1>3. conf' = conf /\ net' = net /\ log' = log BY DEF XAPI_ReadEvent
<1>4. CASE ses.cancel
  <2>1. Disconnect /\ ses' = ses BY <1>4 DEF XAPI_ReadEvent
  <2>2. CtlOK(ctl') /\ ctl'.pc # "handle" BY <2>1, DisconnectOK
  <2> QED BY <1>1, <1>3, <2>1, <2>2, OnlyCtl DEF HandleOK
<1>5. CASE ~ses.cancel /\ ses.wor
  <2>1. /\ ses' = [XAPI_RollbackEvents(ses) EXCEPT !.wor = FALSE]
        /\ ctl' = [ctl EXCEPT !.pc = "write", !.ev = {}]
    BY <1>5 DEF XAPI_ReadEvent
  <2>2. ctl' = [ctl EXCEPT !.pc = "write", !.ev = {}, !.size = ctl.size] BY <1>1, <2>1 DEF CtlOK
  <2>3. CtlOK(ctl') /\ ctl'.pc # "handle" BY <1>1, <1>2, <2>2, JumpOK DEF Points
  <2>4. Kept(ses', ses)
    <3> DEFINE t == XAPI_RollbackEvents(ses)
    <3>1. Kept(t, ses) BY <1>1, RollbackOK
    <3> HIDE DEF t
    <3>2. SesOK(t) /\ IsSes(t) /\ Flags(t) BY <3>1 DEF Kept, SesOK
    <3>3. ses' = [t EXCEPT !.wor = FALSE] BY <2>1 DEF t
    <3>4. IsSes(ses') /\ ses'.rx = t.rx /\ ses'.tx = t.tx /\ ses'.ws = t.ws BY <3>2, <3>3 DEF IsSes
    <3>5. Flags(ses') BY <3>2, <3>3 DEF IsSes, Flags
    <3>6. Kept(ses', t) BY <3>2, <3>4, <3>5, FlagsChange
    <3> QED BY <3>1, <3>6 DEF Kept
  <2> QED BY <1>1, <1>3, <2>1, <2>3, <2>4, FlagStep
<1>6. CASE ~ses.cancel /\ ~ses.wor
  <2>1. ctl' = [ctl EXCEPT !.pc = "read", !.ev = {}] /\ ses' = ses BY <1>6 DEF XAPI_ReadEvent
  <2>2. ctl' = [ctl EXCEPT !.pc = "read", !.ev = {}, !.size = ctl.size] BY <1>1, <2>1 DEF CtlOK
  <2>3. CtlOK(ctl') /\ ctl'.pc # "handle" BY <1>1, <1>2, <2>2, JumpOK DEF Points
  <2> QED BY <1>1, <1>3, <2>1, <2>3, OnlyCtl DEF HandleOK
<1> QED BY <1>4, <1>5, <1>6

LEMMA ConcatAssoc ==
    ASSUME NEW a \in Seq(Cell), NEW b \in Seq(Cell), NEW c \in Seq(Cell)
    PROVE  (a \o b) \o c = a \o (b \o c) /\ a \o b \in Seq(Cell)
<1> DEFINE x == (a \o b) \o c
           y == a \o (b \o c)
<1>1. Len(a) \in Nat /\ Len(b) \in Nat /\ Len(c) \in Nat OBVIOUS
<1>2. x \in Seq(Cell) /\ y \in Seq(Cell) /\ Len(x) = Len(a) + Len(b) + Len(c) /\ Len(y) = Len(x) OBVIOUS
<1>3. ASSUME NEW i \in 1..Len(x) PROVE x[i] = y[i]
  <2>1. i \in Nat /\ 1 <= i /\ i <= Len(a) + Len(b) + Len(c) BY <1>1, <1>2
  <2>2. CASE i <= Len(a) BY <1>1, <2>1, <2>2
  <2>3. CASE Len(a) < i /\ i <= Len(a) + Len(b) BY <1>1, <2>1, <2>3
  <2>4. CASE Len(a) + Len(b) < i BY <1>1, <2>1, <2>4, SMTT(30)
  <2> QED BY <1>1, <2>1, <2>2, <2>3, <2>4
<1> HIDE DEF x, y
<1>4. x = y BY <1>2, <1>3
<1> QED BY <1>4 DEF x, y

\* XSock_Write took the first n bytes.
LEMMA SentOK ==
    ASSUME StreamInv, NEW n \in 1..MinOf(net.room, ses.tx.used), Sent(n)
    PROVE  AllOK(ses', net', ctl', log')
<1> DEFINE b == ses.tx
           c == Consumed(b, n)
           x == SubSeq(b.mem, 1, n)
           s == [ses EXCEPT !.tx = c]
           off == XAPI_DisableEvent(s, "OUT")
<1>1. AllOK(ses, net, ctl, log) /\ SesOK(ses) /\ BufOK(b) /\ CtlOK(ctl) /\ LogOK(log) /\ NetOK(net)
  BY DEF StreamInv, AllOK, SesOK, Bufs
<1>2. b.used \in Nat /\ net.room \in 0..SendRoom /\ SendRoom \in Nat BY <1>1, StreamAssumption DEF BufOK, NetOK
<1>3. n \in 1..b.used /\ n <= net.room BY <1>2 DEF MinOf
<1>4. BufOK(c) /\ x \in Seq(Cell) /\ UsedBytes(b) = x \o UsedBytes(c) BY <1>1, <1>3, TxConsumed
<1>5. UsedBytes(c) \in Seq(Cell) BY <1>4, UsedBytesOK
<1>6. log' = [log EXCEPT !.out = @ \o x] /\ net' = [net EXCEPT !.room = @ - n, !.hs = "none"]
  BY DEF Sent
<1>7. NetOK(net')
  <2>1. net.room - n \in 0..SendRoom BY <1>2, <1>3
  <2> QED BY <1>1, <1>6, <2>1 DEF NetOK
<1>8. SesOK(s) /\ s.tx = c /\ s.start \in BOOLEAN
  <2> HIDE DEF c, x
  <2>1. SesOK(s) /\ s.tx = c BY <1>1, <1>4, SetTx
  <2> HIDE DEF s
  <2> QED BY <2>1 DEF SesOK, Flags
<1>9. /\ SesOK(ses') /\ ses'.tx = c
      /\ CtlOK(ctl') /\ ctl'.pc # "handle"
  <2> HIDE DEF b, c, x
  <2>1. \/ ses' = s /\ Continue
        \/ ses' = off /\ Goto("cb_complete")
        \/ ses' = XAPI_EnableEvent(off, "IN") /\ Continue
        \/ ses' = [off EXCEPT !.start = FALSE, !.done = s.start] /\ Continue
    <3>1. s.tx.used \in Nat BY <1>4, <1>8 DEF BufOK
    <3>2. CASE s.tx.used > 0 BY <3>2 DEF Sent, b, c
    <3>3. CASE s.tx.used = 0 /\ (~Is("WS") \/ s.done) BY <3>3 DEF Sent, b, c
    <3>4. CASE s.tx.used = 0 /\ Is("WS") /\ ~s.done /\ Client BY <3>4 DEF Sent, b, c
    <3>5. CASE s.tx.used = 0 /\ Is("WS") /\ ~s.done /\ ~Client BY <3>5 DEF Sent, b, c
    <3> HIDE DEF s
    <3> QED BY <3>1, <3>2, <3>3, <3>4, <3>5
  <2> HIDE DEF s
  <2>2. Kept(off, s) /\ SesOK(off) /\ off.tx = c BY <1>8, DisableOK DEF Kept
  <2> HIDE DEF off
  <2>3. CASE ses' = s /\ Continue BY <1>1, <1>8, <2>3, ContinueOK
  <2>4. CASE ses' = off /\ Goto("cb_complete")
    <3>1. "cb_complete" \in Points /\ "cb_complete" # "handle" BY DEF Points, Callbacks
    <3> QED BY <1>1, <2>2, <2>4, <3>1, GotoOK
  <2>5. CASE ses' = XAPI_EnableEvent(off, "IN") /\ Continue
    <3>1. Kept(ses', off) BY <2>2, <2>5, EnableOK
    <3> QED BY <1>1, <2>2, <2>5, <3>1, ContinueOK DEF Kept
  <2>6. CASE ses' = [off EXCEPT !.start = FALSE, !.done = s.start] /\ Continue
    <3>1. IsSes(off) /\ Flags(off) BY <2>2 DEF SesOK
    <3>2. IsSes(ses') /\ ses'.rx = off.rx /\ ses'.tx = off.tx /\ ses'.ws = off.ws BY <2>6, <3>1 DEF IsSes
    <3>3. ses'.start = FALSE /\ ses'.done = s.start /\ ses'.row = off.row /\ ses'.wor = off.wor
          /\ ses'.cancel = off.cancel /\ ses'.events = off.events /\ ses'.mask = off.mask
      BY <2>6, <3>1 DEF IsSes
    <3>4. Flags(ses') BY <1>8, <3>1, <3>3 DEF Flags
    <3>5. Kept(ses', off) BY <2>2, <3>2, <3>4, FlagsChange
    <3> QED BY <1>1, <2>2, <2>6, <3>5, ContinueOK DEF Kept
  <2> QED BY <2>1, <2>3, <2>4, <2>5, <2>6
<1> HIDE DEF c, x, s, off
<1>10. log.out \in Seq(Cell) /\ log'.out = log.out \o x /\ log'.put = log.put BY <1>1, <1>6 DEF LogOK
<1>11. (log.out \o x) \o UsedBytes(c) = log.out \o (x \o UsedBytes(c)) /\ log.out \o x \in Seq(Cell)
  BY <1>4, <1>5, <1>10, ConcatAssoc
<1>12. LogOK(log') BY <1>1, <1>6, <1>11 DEF LogOK
<1>13. log.out \o UsedBytes(b) = Queued(log.put) BY <1>1 DEF AllOK, TxOK
<1>14. TxOK(ses', log') BY <1>4, <1>9, <1>10, <1>11, <1>13 DEF TxOK
<1> QED BY <1>7, <1>9, <1>12, <1>14 DEF AllOK, HandleOK

LEMMA WriteOK ==
    ASSUME StreamInv, XAPI_Write
    PROVE  AllOK(ses', net', ctl', log') /\ conf' = conf
<1>1. AllOK(ses, net, ctl, log) /\ CtlOK(ctl) /\ SesOK(ses) /\ BufOK(ses.tx) BY DEF StreamInv, AllOK, SesOK, Bufs
<1>2. conf' = conf BY DEF XAPI_Write
<1>3. ses.tx.used \in Nat BY <1>1 DEF BufOK
<1>4. CASE ses.cancel
  <2>1. Disconnect /\ ses' = ses /\ net' = net /\ log' = log BY <1>4 DEF XAPI_Write
  <2>2. CtlOK(ctl') /\ ctl'.pc # "handle" BY <2>1, DisconnectOK
  <2> QED BY <1>1, <1>2, <2>1, <2>2, OnlyCtl DEF HandleOK
<1>5. CASE ~ses.cancel /\ ses.tx.used = 0
  <2>1. Continue /\ ses' = ses /\ net' = net /\ log' = log BY <1>5 DEF XAPI_Write
  <2>2. CtlOK(ctl') /\ ctl'.pc # "handle" BY <1>1, <2>1, ContinueOK
  <2> QED BY <1>1, <1>2, <2>1, <2>2, OnlyCtl DEF HandleOK
<1>6. CASE ~ses.cancel /\ ses.tx.used > 0 /\ net.hs = "expected"
  <2>1. /\ ses' = [BorrowMask(ses, "IN") EXCEPT !.wor = TRUE]
        /\ Continue /\ net' = net /\ log' = log
    BY <1>6 DEF XAPI_Write
  <2>2. CtlOK(ctl') /\ ctl'.pc # "handle" BY <1>1, <2>1, ContinueOK
  <2>3. Kept(ses', ses)
    <3>1. IsSes(ses) /\ Flags(ses) BY <1>1 DEF SesOK
    <3>2. ses' = [ses EXCEPT !.mask = {"IN"}, !.wor = TRUE] BY <2>1, <3>1 DEF BorrowMask, IsSes
    <3>3. IsSes(ses') /\ ses'.rx = ses.rx /\ ses'.tx = ses.tx /\ ses'.ws = ses.ws BY <3>1, <3>2 DEF IsSes
    <3>4. ses'.start = ses.start /\ ses'.done = ses.done /\ ses'.row = ses.row /\ ses'.wor = TRUE
          /\ ses'.cancel = ses.cancel /\ ses'.events = ses.events /\ ses'.mask = {"IN"}
      BY <3>1, <3>2 DEF IsSes
    <3>5. Flags(ses') BY <3>1, <3>4 DEF Flags
    <3> QED BY <1>1, <3>3, <3>5, FlagsChange
  <2> QED BY <1>1, <1>2, <2>1, <2>2, <2>3, FlagStep
<1>7. CASE ~ses.cancel /\ ses.tx.used > 0 /\ net.hs # "expected" /\ net.room = 0
  <2>1. IF conf.tls THEN Continue /\ UNCHANGED <<ses, net, log>> ELSE Fail("again")
    BY <1>7 DEF XAPI_Write
  <2>2. CASE Fail("again") BY <1>1, <1>2, <2>2, FailOK
  <2>3. CASE Continue /\ UNCHANGED <<ses, net, log>>
    <3>1. CtlOK(ctl') /\ ctl'.pc # "handle" BY <1>1, <2>3, ContinueOK
    <3> QED BY <1>1, <1>2, <2>3, <3>1, OnlyCtl DEF HandleOK
  <2> QED BY <2>1, <2>2, <2>3
<1>8. CASE ~ses.cancel /\ ses.tx.used > 0 /\ net.hs # "expected" /\ net.room # 0
  <2>1. PICK n \in 1..MinOf(net.room, ses.tx.used) : Sent(n) BY <1>8 DEF XAPI_Write
  <2> QED BY <1>2, <2>1, SentOK
<1> QED BY <1>3, <1>4, <1>5, <1>6, <1>7, <1>8

LEMMA AllocBool == AllocOk \subseteq BOOLEAN
BY DEF AllocOk

\* The bytes up to g are received; m is the connection after it.
LEMMA ReceivedOK ==
    ASSUME StreamInv, NEW g \in Nat, NEW n, net.given < g, g <= Len(conf.bytes), NetOK([n EXCEPT !.given = g]), Received(g, n)
    PROVE  AllOK(ses', net', ctl', log')
<1> DEFINE d == SubSeq(conf.bytes, net.given + 1, g)
<1>1. AllOK(ses, net, ctl, log) /\ CtlOK(ctl) /\ LogOK(log) /\ SesOK(ses) /\ RxOK(ses.rx) BY DEF StreamInv, AllOK, SesOK, Bufs
<1>2. Len(W) \in Nat /\ conf.bytes \in Seq(Token(W)) /\ net.given \in Nat BY <1>1 DEF StreamInv, ConfOK, AllOK, NetOK
<1>3. d \in Seq(Token(W)) /\ d # << >>
  <2>1. d \in Seq(Token(W)) /\ Len(d) = g - net.given BY <1>2
  <2> HIDE DEF d
  <2>2. Len(d) # 0 BY <1>2, <2>1
  <2> QED BY <2>1, <2>2
<1> HIDE DEF d
<1>4. PICK ok \in AllocOk :
        LET rx == XByteBuffer_Add(ses.rx, d, ok) IN
        IF Added(rx) THEN /\ ses' = [ses EXCEPT !.rx = rx]
                          /\ net' = [n EXCEPT !.given = g]
                          /\ Goto("handle")
                          /\ UNCHANGED log
                     ELSE Fail("alloc")
  BY DEF Received, d
<1>5. ok \in BOOLEAN BY AllocBool
<1> DEFINE rx == XByteBuffer_Add(ses.rx, d, ok)
<1>6. CASE ~Added(rx)
  <2>1. Fail("alloc") BY <1>4, <1>6
  <2> QED BY <1>1, <2>1, FailOK
<1>7. CASE Added(rx)
  <2>1. /\ ses' = [ses EXCEPT !.rx = rx] /\ net' = [n EXCEPT !.given = g]
        /\ Goto("handle") /\ log' = log
    BY <1>4, <1>7
  <2>2. RxOK(rx) /\ rx.used > 0 BY <1>1, <1>2, <1>3, <1>5, <1>7, RxAdded
  <2> HIDE DEF rx
  <2>3. SesOK(ses') /\ ses'.rx = rx /\ ses'.tx = ses.tx BY <1>1, <2>1, <2>2, SetRx
  <2>4. CtlOK(ctl') BY <1>1, <2>1, GotoOK DEF Points
  <2>5. NetOK(net') BY <2>1
  <2>6. SameOut(log') BY <1>1, <2>1, SameOutNow
  <2>7. HandleOK(ses', ctl') BY <2>2, <2>3 DEF HandleOK
  <2> QED BY <1>1, <2>3, <2>4, <2>5, <2>6, <2>7, NothingSent
<1> QED BY <1>6, <1>7

LEMMA ReadOnceOK ==
    ASSUME StreamInv, XAPI_ReadOnce
    PROVE  AllOK(ses', net', ctl', log') /\ conf' = conf
<1> DEFINE n == [net EXCEPT !.owe = FALSE, !.room = IF net.owe THEN @ - 1 ELSE @,
                            !.hs = IF @ = "arrived" THEN "none" ELSE @]
           wants == [BorrowMask(ses, "OUT") EXCEPT !.row = TRUE]
           blocked == net.owe /\ net.room = 0
           some == net.sent > net.given
           R == CASE ~conf.tls -> {MinOf(net.read + RxSize, net.sent)}
                  [] conf.tls /\ XSock_Pending(net) -> {net.read}
                  [] OTHER -> (net.read + 1)..MinOf(net.read + RecordMax, net.sent)
<1>1. AllOK(ses, net, ctl, log) /\ CtlOK(ctl) /\ LogOK(log) /\ SesOK(ses) /\ NetOK(net) BY DEF StreamInv, AllOK
<1>2. conf' = conf BY DEF XAPI_ReadOnce
<1>3. \/ blocked /\ ses' = wants /\ XAPI_Read(wants, net) /\ UNCHANGED <<net, log>>
      \/ /\ ~blocked /\ some
         /\ \E r \in R : Received(MinOf(net.given + RxSize, r), [n EXCEPT !.read = r])
      \/ ~blocked /\ ~some /\ net.eof /\ Fail("eof")
      \/ ~blocked /\ ~some /\ ~net.eof /\ ~conf.tls /\ Fail("again")
      \/ /\ ~blocked /\ ~some /\ ~net.eof /\ conf.tls
         /\ net' = n /\ XAPI_Read(ses, n) /\ UNCHANGED <<ses, log>>
  BY DEF XAPI_ReadOnce
<1> DEFINE ro == IF net.owe THEN net.room - 1 ELSE net.room
           h == IF net.hs = "arrived" THEN "none" ELSE net.hs
<1>4. /\ net = [sent |-> net.sent, read |-> net.read, given |-> net.given, room |-> net.room, owe |-> net.owe,
                hs |-> net.hs, eof |-> net.eof]
      /\ net.sent \in Nat /\ net.read \in Nat /\ net.given \in Nat /\ net.room \in 0..SendRoom /\ SendRoom \in Nat
      /\ net.given <= net.read /\ net.read <= net.sent /\ net.sent <= Len(conf.bytes)
      /\ (~conf.tls => net.given = net.read)
  BY <1>1, StreamAssumption DEF NetOK
<1>5. /\ n = [sent |-> n.sent, read |-> n.read, given |-> n.given, room |-> n.room, owe |-> n.owe,
              hs |-> n.hs, eof |-> n.eof]
      /\ n.sent = net.sent /\ n.read = net.read /\ n.given = net.given /\ n.room = ro
  <2>1. n = [net EXCEPT !.owe = FALSE, !.room = ro, !.hs = h] BY <1>4
  <2> HIDE DEF n, ro, h
  <2> QED BY <1>4, <2>1
<1>6. ~blocked => ro \in 0..SendRoom BY <1>4
<1> HIDE DEF n, wants, ro, h
<1>7. CASE blocked /\ ses' = wants /\ XAPI_Read(wants, net) /\ UNCHANGED <<net, log>>
  <2>1. CtlOK(ctl') /\ ctl'.pc # "handle" BY <1>1, <1>7, ReadOK
  <2>2. IsSes(ses) /\ Flags(ses) BY <1>1 DEF SesOK
  <2>3. ses' = [ses EXCEPT !.mask = {"OUT"}, !.row = TRUE] BY <1>7, <2>2 DEF BorrowMask, IsSes, wants
  <2>4. IsSes(ses') /\ ses'.rx = ses.rx /\ ses'.tx = ses.tx /\ ses'.ws = ses.ws BY <2>2, <2>3 DEF IsSes
  <2>5. ses'.start = ses.start /\ ses'.done = ses.done /\ ses'.row = TRUE /\ ses'.wor = ses.wor
        /\ ses'.cancel = ses.cancel /\ ses'.events = ses.events /\ ses'.mask = {"OUT"}
    BY <2>2, <2>3 DEF IsSes
  <2>6. Flags(ses') BY <2>2, <2>5 DEF Flags
  <2>7. Kept(ses', ses) BY <1>1, <2>4, <2>6, FlagsChange
  <2> QED BY <1>1, <1>2, <1>7, <2>1, <2>7, FlagStep
<1>8. CASE /\ ~blocked /\ some
           /\ \E r \in R : Received(MinOf(net.given + RxSize, r), [n EXCEPT !.read = r])
  <2>1. PICK r \in R : Received(MinOf(net.given + RxSize, r), [n EXCEPT !.read = r]) BY <1>8
  <2> DEFINE g == MinOf(net.given + RxSize, r)
             m == [n EXCEPT !.read = r]
             q == [m EXCEPT !.given = g]
  <2>2. RxSize \in Nat \ {0} /\ RecordMax \in Nat \ {0} /\ conf.tls \in BOOLEAN
    BY StreamAssumption DEF StreamInv, ConfOK
  <2>3. r \in Nat /\ net.given < r /\ r <= net.sent /\ (~conf.tls => r <= net.given + RxSize)
    <3>1. CASE ~conf.tls
      <4>1. r = MinOf(net.read + RxSize, net.sent) BY <2>2, <3>1
      <4> QED BY <1>4, <1>8, <2>2, <3>1, <4>1 DEF MinOf
    <3>2. CASE conf.tls /\ XSock_Pending(net)
      <4>1. r = net.read BY <2>2, <3>2
      <4> QED BY <1>4, <3>2, <4>1 DEF XSock_Pending
    <3>3. CASE conf.tls /\ ~XSock_Pending(net)
      <4>1. r \in (net.read + 1)..MinOf(net.read + RecordMax, net.sent) BY <2>2, <3>3
      <4> QED BY <1>4, <2>2, <3>3, <4>1 DEF MinOf
    <3> QED BY <2>2, <3>1, <3>2, <3>3
  <2>4. g \in Nat /\ net.given < g /\ g <= r /\ (~conf.tls => g = r) BY <1>4, <2>2, <2>3 DEF MinOf
  <2>5. g <= Len(conf.bytes)
    <3>1. Len(conf.bytes) \in Nat BY DEF StreamInv, ConfOK
    <3> HIDE DEF g
    <3> QED BY <1>4, <2>3, <2>4, <3>1
  <2>6. NetOK(q)
    <3> HIDE DEF g
    <3>1. /\ q = [sent |-> q.sent, read |-> q.read, given |-> q.given, room |-> q.room, owe |-> q.owe,
                  hs |-> q.hs, eof |-> q.eof]
          /\ q.sent = net.sent /\ q.read = r /\ q.given = g /\ q.room = ro
      <4>1. /\ m = [sent |-> m.sent, read |-> m.read, given |-> m.given, room |-> m.room, owe |-> m.owe,
                    hs |-> m.hs, eof |-> m.eof]
            /\ m.sent = net.sent /\ m.read = r /\ m.given = net.given /\ m.room = ro
        BY <1>5
      <4> HIDE DEF m
      <4> QED BY <4>1
    <3>2. ro \in 0..SendRoom BY <1>6, <1>8
    <3> HIDE DEF q
    <3> QED BY <1>4, <2>3, <2>4, <3>1, <3>2 DEF NetOK
  <2> HIDE DEF g
  <2> QED BY <1>2, <2>1, <2>4, <2>5, <2>6, ReceivedOK DEF g
<1>9. CASE Fail("eof") BY <1>1, <1>2, <1>9, FailOK
<1>10. CASE Fail("again") BY <1>1, <1>2, <1>10, FailOK
<1>11. CASE /\ ~blocked /\ ~some /\ ~net.eof /\ conf.tls
            /\ net' = n /\ XAPI_Read(ses, n) /\ UNCHANGED <<ses, log>>
  <2>1. CtlOK(ctl') /\ ctl'.pc # "handle" BY <1>1, <1>11, ReadOK
  <2>2. NetOK(net') BY <1>4, <1>5, <1>6, <1>11 DEF NetOK
  <2>3. SameOut(log') BY <1>1, <1>11, SameOutNow
  <2> QED BY <1>1, <1>2, <1>11, <2>1, <2>2, <2>3, NothingSent DEF HandleOK
<1> QED BY <1>3, <1>7, <1>8, <1>9, <1>10, <1>11

-----------------------------------------------------------------------------
(* The handlers of the protocols                                           *)

LEMMA HandleFacts ==
    ASSUME StreamInv, ctl.pc = "handle"
    PROVE  /\ AllOK(ses, net, ctl, log) /\ CtlOK(ctl) /\ SesOK(ses) /\ RxOK(ses.rx) /\ ses.rx.used > 0 /\ ConfOK
           /\ Kept(ses, ses) /\ "cb_read" \in Points /\ "cb_raw" \in Points /\ "cb_hsreq" \in Points /\ "cb_hsres" \in Points
<1>1. ConfOK /\ AllOK(ses, net, ctl, log) /\ CtlOK(ctl) /\ SesOK(ses) /\ HandleOK(ses, ctl) BY DEF StreamInv, AllOK
<1>2. RxOK(ses.rx) /\ Kept(ses, ses) BY <1>1 DEF SesOK, Bufs, Kept
<1>3. ses.rx.used > 0 BY <1>1 DEF HandleOK
<1>4. "cb_read" \in Points /\ "cb_raw" \in Points /\ "cb_hsreq" \in Points /\ "cb_hsres" \in Points BY DEF Points, Callbacks
<1> QED BY <1>1, <1>2, <1>3, <1>4

LEMMA HandleHTTPOK ==
    ASSUME StreamInv, XAPI_HandleHTTP
    PROVE  AllOK(ses', net', ctl', log') /\ conf' = conf
<1> DEFINE r == XHTTP_Parse(W, ses.rx)
<1>1. ctl.pc = "handle" /\ conf' = conf
      /\ IF r.st = "COMPLETE" THEN Give(ses, "http", r.data, r.size, "cb_read") ELSE NoPacket(r)
  BY DEF XAPI_HandleHTTP
<1>2. r.size \in Nat BY <1>1, HandleFacts, ParseHTTP
<1> HIDE DEF r
<1>3. CASE r.st = "COMPLETE"
  <2>1. Give(ses, "http", r.data, r.size, "cb_read") BY <1>1, <1>3
  <2> QED BY <1>1, <1>2, <2>1, HandleFacts, GiveOK
<1>4. CASE r.st # "COMPLETE"
  <2>1. NoPacket(r) BY <1>1, <1>4
  <2> QED BY <1>1, <2>1, HandleFacts, NoPacketOK
<1> QED BY <1>3, <1>4

LEMMA HandleMDTPOK ==
    ASSUME StreamInv, XAPI_HandleMDTP
    PROVE  AllOK(ses', net', ctl', log') /\ conf' = conf
<1> DEFINE r == XPacket_Parse(W, ses.rx, ses.rx.size)
<1>1. ctl.pc = "handle" /\ conf' = conf BY DEF XAPI_HandleMDTP
<1>2. (CASE r.st = "COMPLETE" -> Give(ses, "mdtp", r.data, r.size, "cb_read")
          [] r.st # "COMPLETE" /\ r.init -> NoPacket(r)
          [] OTHER -> /\ log' = [log EXCEPT !.undef = TRUE]
                      /\ Disconnect /\ UNCHANGED <<ses, net>>)
  BY DEF XAPI_HandleMDTP
<1>3. r.size \in Nat BY <1>1, HandleFacts, ParseMDTP
<1> HIDE DEF r
<1>4. CASE r.st = "COMPLETE"
  <2>1. Give(ses, "mdtp", r.data, r.size, "cb_read") BY <1>2, <1>4
  <2> QED BY <1>1, <1>3, <2>1, HandleFacts, GiveOK
<1>5. CASE r.st # "COMPLETE" /\ r.init
  <2>1. NoPacket(r) BY <1>2, <1>5
  <2> QED BY <1>1, <2>1, HandleFacts, NoPacketOK
<1>6. CASE r.st # "COMPLETE" /\ ~r.init
  <2>1. log' = [log EXCEPT !.undef = TRUE] /\ Disconnect /\ ses' = ses /\ net' = net BY <1>2, <1>6
  <2>2. CtlOK(ctl') /\ ctl'.pc # "handle" BY <2>1, DisconnectOK
  <2>3. AllOK(ses, net, ctl, log) BY <1>1, HandleFacts
  <2>4. SameOut(log') BY <2>1, <2>3 DEF AllOK, LogOK, SameOut
  <2>5. SesOK(ses') /\ NetOK(net') /\ HandleOK(ses', ctl') BY <2>1, <2>2, <2>3 DEF AllOK, HandleOK
  <2> QED BY <1>1, <2>1, <2>2, <2>3, <2>4, <2>5, NothingSent
<1> QED BY <1>4, <1>5, <1>6

LEMMA HandleRAWOK ==
    ASSUME StreamInv, XAPI_HandleRAW
    PROVE  AllOK(ses', net', ctl', log') /\ conf' = conf
<1>1. ctl.pc = "handle" /\ conf' = conf /\ Give(ses, "raw", UsedBytes(ses.rx), 0, "cb_raw") BY DEF XAPI_HandleRAW
<1> QED BY <1>1, HandleFacts, GiveOK

\* The handshake: the session gets other flags, and the application is called.
LEMMA HandshakeStep ==
    ASSUME AllOK(ses, net, ctl, log), NEW p \in Points, p # "handle", NEW n \in Nat,
           ctl' = [ctl EXCEPT !.pc = p, !.size = n], Kept(ses', ses), net' = net, log' = log
    PROVE  AllOK(ses', net', ctl', log')
<1>1. CtlOK(ctl) /\ ctl.ev \in SUBSET {"IN", "OUT"} BY DEF AllOK, CtlOK
<1>2. ctl' = [ctl EXCEPT !.pc = p, !.ev = ctl.ev, !.size = n] BY <1>1 DEF CtlOK
<1>3. CtlOK(ctl') /\ ctl'.pc = p BY <1>1, <1>2, JumpOK
<1> QED BY <1>3, FlagStep

LEMMA ServerHandshakeOK ==
    ASSUME StreamInv, XAPI_ServerHandshake
    PROVE  AllOK(ses', net', ctl', log') /\ conf' = conf
<1> DEFINE r == XHTTP_Parse(W, ses.rx)
<1>1. ctl.pc = "handle" /\ conf' = conf BY DEF XAPI_ServerHandshake
<1>2. r.size \in Nat /\ AllOK(ses, net, ctl, log) /\ SesOK(ses) /\ CtlOK(ctl) /\ "cb_hsreq" \in Points
  BY <1>1, HandleFacts, ParseHTTP
<1>3. \/ XAPI_Read(ses, net) /\ UNCHANGED <<ses, net, log>>
      \/ \E why : Fail(why)
      \/ NoPacket(r)
      \/ /\ ses' = [ses EXCEPT !.start = TRUE]
         /\ ctl' = [ctl EXCEPT !.pc = "cb_hsreq", !.size = r.size]
         /\ UNCHANGED <<net, log>>
  BY DEF XAPI_ServerHandshake
<1> HIDE DEF r
<1>4. CASE XAPI_Read(ses, net) /\ UNCHANGED <<ses, net, log>>
  <2>1. CtlOK(ctl') /\ ctl'.pc # "handle" BY <1>2, <1>4, ReadOK
  <2> QED BY <1>1, <1>2, <1>4, <2>1, OnlyCtl DEF HandleOK
<1>5. CASE \E why : Fail(why) BY <1>1, <1>2, <1>5, FailOK
<1>6. CASE NoPacket(r) BY <1>1, <1>2, <1>6, NoPacketOK
<1>7. CASE /\ ses' = [ses EXCEPT !.start = TRUE]
           /\ ctl' = [ctl EXCEPT !.pc = "cb_hsreq", !.size = r.size]
           /\ UNCHANGED <<net, log>>
  <2>1. IsSes(ses') /\ ses'.rx = ses.rx /\ ses'.tx = ses.tx /\ ses'.ws = ses.ws BY <1>2, <1>7 DEF SesOK, IsSes
  <2>2. Flags(ses') BY <1>2, <1>7 DEF SesOK, IsSes, Flags
  <2>3. Kept(ses', ses) BY <1>2, <2>1, <2>2, FlagsChange
  <2> QED BY <1>1, <1>2, <1>7, <2>3, HandshakeStep
<1> QED BY <1>3, <1>4, <1>5, <1>6, <1>7

LEMMA ClientHandshakeOK ==
    ASSUME StreamInv, XAPI_ClientHandshake
    PROVE  AllOK(ses', net', ctl', log') /\ conf' = conf
<1> DEFINE r == XHTTP_Parse(W, ses.rx)
           t == XAPI_EnableEvent(ses, "OUT")
<1>1. ctl.pc = "handle" /\ conf' = conf BY DEF XAPI_ClientHandshake
<1>2. r.size \in Nat /\ AllOK(ses, net, ctl, log) /\ SesOK(ses) /\ CtlOK(ctl) /\ "cb_hsres" \in Points
  BY <1>1, HandleFacts, ParseHTTP
<1>3. \/ XAPI_Read(ses, net) /\ UNCHANGED <<ses, net, log>>
      \/ \E why : Fail(why)
      \/ NoPacket(r)
      \/ /\ ses' = [t EXCEPT !.start = FALSE, !.done = TRUE]
         /\ ctl' = [ctl EXCEPT !.pc = "cb_hsres", !.size = r.size]
         /\ UNCHANGED <<net, log>>
  BY DEF XAPI_ClientHandshake
<1>0. Kept(t, ses) BY <1>2, EnableOK
<1> HIDE DEF r, t
<1>4. CASE XAPI_Read(ses, net) /\ UNCHANGED <<ses, net, log>>
  <2>1. CtlOK(ctl') /\ ctl'.pc # "handle" BY <1>2, <1>4, ReadOK
  <2> QED BY <1>1, <1>2, <1>4, <2>1, OnlyCtl DEF HandleOK
<1>5. CASE \E why : Fail(why) BY <1>1, <1>2, <1>5, FailOK
<1>6. CASE NoPacket(r) BY <1>1, <1>2, <1>6, NoPacketOK
<1>7. CASE /\ ses' = [t EXCEPT !.start = FALSE, !.done = TRUE]
           /\ ctl' = [ctl EXCEPT !.pc = "cb_hsres", !.size = r.size]
           /\ UNCHANGED <<net, log>>
  <2>1. SesOK(t) /\ IsSes(t) /\ Flags(t) BY <1>0 DEF Kept, SesOK
  <2>2. IsSes(ses') /\ ses'.rx = t.rx /\ ses'.tx = t.tx /\ ses'.ws = t.ws BY <1>7, <2>1 DEF IsSes
  <2>3. Flags(ses') BY <1>7, <2>1 DEF IsSes, Flags
  <2>4. Kept(ses', t) BY <2>1, <2>2, <2>3, FlagsChange
  <2>5. Kept(ses', ses) BY <1>0, <2>4 DEF Kept
  <2> QED BY <1>1, <1>2, <1>7, <2>5, HandshakeStep
<1> QED BY <1>3, <1>4, <1>5, <1>6, <1>7

\* The packet is removed from the receive buffer.
LEMMA ConsumeStep ==
    ASSUME AllOK(ses, net, ctl, log), NEW s, Kept(s, ses), NEW n \in Nat, ses' = [s EXCEPT !.rx = Consumed(@, n)],
           net' = net, SameOut(log'), CtlOK(ctl'), ctl'.pc = "handle" => ses'.rx.used > 0
    PROVE  AllOK(ses', net', ctl', log')
<1> DEFINE c == Consumed(s.rx, n)
<1>1. SesOK(s) /\ s.tx = ses.tx BY DEF Kept
<1>2. RxOK(s.rx) BY <1>1 DEF SesOK, Bufs
<1>3. RxOK(c) BY <1>2, RxConsumed
<1>4. ses' = [s EXCEPT !.rx = c] OBVIOUS
<1> HIDE DEF c
<1>5. SesOK(ses') /\ ses'.tx = ses.tx BY <1>1, <1>3, <1>4, SetRx
<1>6. NetOK(net') /\ HandleOK(ses', ctl') BY DEF AllOK, HandleOK
<1> QED BY <1>5, <1>6, NothingSent

LEMMA NextFrameOK ==
    ASSUME AllOK(ses, net, ctl, log), NEW s, Kept(s, ses), NEW n \in Nat, NextFrame(s, n)
    PROVE  AllOK(ses', net', ctl', log')
<1>1. ses' = [s EXCEPT !.rx = Consumed(@, n)] /\ net' = net /\ log' = log BY DEF NextFrame
<1>2. IF XByteBuffer_HasData(ses'.rx) THEN Goto("handle") ELSE XAPI_Read(ses', net) BY DEF NextFrame
<1>3. CtlOK(ctl) /\ SameOut(log') BY <1>1, SameOutNow DEF AllOK
<1>4. CtlOK(ctl') /\ (ctl'.pc = "handle" => ses'.rx.used > 0)
  <2>1. CASE XByteBuffer_HasData(ses'.rx)
    <3>1. Goto("handle") /\ ses'.rx.used > 0 BY <1>2, <2>1 DEF XByteBuffer_HasData
    <3> QED BY <1>3, <3>1, GotoOK DEF Points
  <2>2. CASE ~XByteBuffer_HasData(ses'.rx)
    <3>1. XAPI_Read(ses', net) BY <1>2, <2>2
    <3> QED BY <1>3, <3>1, ReadOK
  <2> QED BY <2>1, <2>2
<1> QED BY <1>1, <1>3, <1>4, ConsumeStep

\* A part of a message.
LEMMA FragmentOK ==
    ASSUME AllOK(ses, net, ctl, log), NEW f, NEW d \in Seq(Cell), NEW n \in Nat, Fragment(f, d, n)
    PROVE  AllOK(ses', net', ctl', log')
<1>1. SesOK(ses) /\ BufOK(ses.ws) BY DEF AllOK, SesOK, Bufs
<1>2. PICK ok \in AllocOk :
        LET ws == IF d = << >> THEN ses.ws ELSE XByteBuffer_Add(ses.ws, d, ok)
            s == [ses EXCEPT !.ws = ws, !.frag = IF @ = "none" THEN f.type ELSE @]
        IN  CASE ~Added(ws) -> Fail("alloc")
              [] Added(ws) /\ ses.frag # "none" /\ ws.used > RxMax -> Fail("toobig")
              [] Added(ws) /\ ~(ses.frag # "none" /\ ws.used > RxMax) /\ f.fin ->
                     Give(XAPI_ResetWSFragments(s), s.frag, UsedBytes(ws), n, "cb_read")
              [] OTHER -> NextFrame(s, n)
  BY DEF Fragment
<1> DEFINE ws == IF d = << >> THEN ses.ws ELSE XByteBuffer_Add(ses.ws, d, ok)
           t == IF ses.frag = "none" THEN f.type ELSE ses.frag
           s == [ses EXCEPT !.ws = ws, !.frag = t]
           big == ses.frag # "none" /\ ws.used > RxMax
<1>3. ok \in BOOLEAN BY AllocBool
<1>4. CASE ~Added(ws)
  <2>1. Fail("alloc") BY <1>2, <1>4
  <2> QED BY <2>1, FailOK
<1>5. CASE Added(ws) /\ big
  <2>1. Fail("toobig") BY <1>2, <1>5
  <2> QED BY <2>1, FailOK
<1>6. CASE Added(ws) /\ ~big
  <2>1. BufOK(ws)
    <3>1. CASE d = << >> BY <1>1, <3>1
    <3>2. CASE d # << >>
      <4>1. ws = XByteBuffer_Add(ses.ws, d, ok) BY <3>2
      <4> HIDE DEF ws
      <4> QED BY <1>1, <1>3, <1>6, <3>2, <4>1, WsAdded
    <3> QED BY <3>1, <3>2
  <2>2. CASE f.fin
    <3>1. Give(XAPI_ResetWSFragments(s), s.frag, UsedBytes(ws), n, "cb_read") BY <1>2, <1>6, <2>2
    <3> HIDE DEF ws, t
    <3>2. Kept(s, ses) /\ s.ws = ws BY <1>1, <2>1, SetWs
    <3> HIDE DEF s
    <3> DEFINE q == XAPI_ResetWSFragments(s)
    <3>3. Kept(q, s)
      <4> DEFINE c == XByteBuffer_Clear(s.ws)
      <4>1. BufOK(c) BY <2>1, <3>2, ClearOK
      <4>2. q = [s EXCEPT !.ws = c, !.frag = "none"] BY DEF XAPI_ResetWSFragments
      <4> HIDE DEF q, c
      <4>3. SesOK(s) BY <3>2 DEF Kept
      <4> QED BY <4>1, <4>2, <4>3, SetWs
    <3>4. Kept(q, ses) BY <3>2, <3>3 DEF Kept
    <3>5. "cb_read" \in Points /\ "cb_read" # "handle" BY DEF Points, Callbacks
    <3> HIDE DEF q
    <3> QED BY <3>1, <3>4, <3>5, GiveOK DEF q
  <2>3. CASE ~f.fin
    <3>1. NextFrame(s, n) BY <1>2, <1>6, <2>3
    <3> HIDE DEF ws, t
    <3>2. Kept(s, ses) BY <1>1, <2>1, SetWs
    <3> HIDE DEF s
    <3> QED BY <3>1, <3>2, NextFrameOK
  <2> QED BY <2>2, <2>3
<1> QED BY <1>4, <1>5, <1>6

LEMMA HandleWSOK ==
    ASSUME StreamInv, XAPI_HandleWS
    PROVE  AllOK(ses', net', ctl', log') /\ conf' = conf
<1> DEFINE r == XWebFrame_Parse(W, ses.rx)
           f == W[ses.rx.mem[1].p]
<1>1. ctl.pc = "handle" /\ conf' = conf BY DEF XAPI_HandleWS
<1>2. /\ r.size \in Nat /\ r.data \in Seq(Cell) /\ AllOK(ses, net, ctl, log) /\ Kept(ses, ses)
      /\ "cb_read" \in Points /\ "cb_read" # "handle"
  BY <1>1, HandleFacts, ParseWS
<1>3. \/ NoPacket(r)
      \/ \E t : Give(ses, t, r.data, r.size, "cb_read")
      \/ \E why : Fail(why)
      \/ Fragment(f, r.data, r.size)
  <2> DEFINE cont == (f.type = "continuation") = (ses.frag # "none")
             part == ses.frag # "none" \/ ~f.fin
  <2>0. CASE r.st # "COMPLETE" BY <2>0 DEF XAPI_HandleWS
  <2>1. CASE r.st = "COMPLETE" /\ f.kind # "ws" BY <2>1 DEF XAPI_HandleWS
  <2>2. CASE r.st = "COMPLETE" /\ f.kind = "ws" /\ f.type \in Control BY <2>2 DEF XAPI_HandleWS
  <2>3. CASE r.st = "COMPLETE" /\ f.kind = "ws" /\ f.type \notin Control /\ ~cont BY <2>3 DEF XAPI_HandleWS
  <2>4. CASE r.st = "COMPLETE" /\ f.kind = "ws" /\ f.type \notin Control /\ cont /\ part BY <2>4 DEF XAPI_HandleWS
  <2>5. CASE r.st = "COMPLETE" /\ f.kind = "ws" /\ f.type \notin Control /\ cont /\ ~part BY <2>5 DEF XAPI_HandleWS
  <2> HIDE DEF r, f, cont, part
  <2> QED BY <2>0, <2>1, <2>2, <2>3, <2>4, <2>5
<1> HIDE DEF r, f
<1>4. CASE NoPacket(r) BY <1>1, <1>2, <1>4, NoPacketOK
<1>5. CASE \E t : Give(ses, t, r.data, r.size, "cb_read") BY <1>1, <1>2, <1>5, GiveOK
<1>6. CASE \E why : Fail(why) BY <1>1, <1>2, <1>6, FailOK
<1>7. CASE Fragment(f, r.data, r.size) BY <1>1, <1>2, <1>7, FragmentOK
<1> QED BY <1>3, <1>4, <1>5, <1>6, <1>7

-----------------------------------------------------------------------------
(* The application                                                         *)

\* XAPI_PutTxBuff of the next message.
LEMMA PutOK ==
    ASSUME AllOK(ses, net, ctl, log), NEW ok \in IF ses.tx.used > 0 THEN {TRUE} ELSE AllocOk,
           NEW t, t = XAPI_PutTxBuff(ses, Message(log.put + 1), ok)
    PROVE  /\ SesOK(t) /\ t.rx = ses.rx
           /\ log.out \o UsedBytes(t.tx) = Queued(IF t.tx.used > 0 THEN log.put + 1 ELSE log.put)
<1> DEFINE m == Message(log.put + 1)
           b == XByteBuffer_Add(ses.tx, m, ok)
<1>1. SesOK(ses) /\ BufOK(ses.tx) /\ LogOK(log) /\ TxOK(ses, log) BY DEF AllOK, SesOK, Bufs
<1>2. log.put \in Nat /\ log.out \in Seq(Cell) BY <1>1 DEF LogOK
<1>3. m \in Seq(Cell) /\ m # << >> BY <1>2, MessageOK
<1>4. ok \in BOOLEAN /\ (ses.tx.used > 0 => ok)
  <2>1. CASE ses.tx.used > 0 BY <2>1
  <2>2. CASE ~(ses.tx.used > 0) BY <2>2, AllocBool
  <2> QED BY <2>1, <2>2
<1>5. t = [ses EXCEPT !.tx = b] BY DEF XAPI_PutTxBuff
<1>6. Queued(log.put + 1) = Queued(log.put) \o m BY <1>2, QueuedStep
<1> HIDE DEF m
<1>7. BufOK(b) /\ UsedBytes(b) = IF b.used > 0 THEN UsedBytes(ses.tx) \o m ELSE UsedBytes(ses.tx)
  <2>1. IsPut(b, ses.tx, m) BY <1>1, <1>3, <1>4, TxPut, Zenon
  <2> HIDE DEF b
  <2> QED BY <2>1 DEF IsPut
<1> HIDE DEF b
<1>8. SesOK(t) /\ t.tx = b /\ t.rx = ses.rx BY <1>1, <1>5, <1>7, SetTx
<1>9. UsedBytes(ses.tx) \in Seq(Cell) BY <1>1, UsedBytesOK
<1>10. log.out \o UsedBytes(ses.tx) = Queued(log.put) BY <1>1 DEF TxOK
<1>11. CASE b.used > 0
  <2>1. UsedBytes(b) = UsedBytes(ses.tx) \o m BY <1>7, <1>11
  <2>2. (log.out \o UsedBytes(ses.tx)) \o m = log.out \o (UsedBytes(ses.tx) \o m) BY <1>2, <1>3, <1>9, ConcatAssoc
  <2>3. log.out \o UsedBytes(b) = Queued(log.put + 1) BY <1>6, <1>10, <2>1, <2>2
  <2> QED BY <1>8, <1>11, <2>3
<1>12. CASE ~(b.used > 0)
  <2>1. UsedBytes(b) = UsedBytes(ses.tx) BY <1>7, <1>12
  <2> QED BY <1>8, <1>10, <1>12, <2>1
<1> QED BY <1>11, <1>12

LEMMA PutUpgradeOK ==
    ASSUME AllOK(ses, net, ctl, log), PutUpgrade(ses)
    PROVE  AllOK(ses', net', ctl', log')
<1>1. PICK ok \in IF ses.tx.used > 0 THEN {TRUE} ELSE AllocOk :
        LET t == XAPI_PutTxBuff(ses, Message(log.put + 1), ok) IN
        IF t.tx.used = 0 THEN Fail("alloc")
        ELSE /\ ses' = XAPI_EnableEvent(t, "OUT")
             /\ log' = [log EXCEPT !.put = @ + 1, !.upgrade = log.put + 1]
             /\ UNCHANGED net
             /\ IF Client THEN Goto("write") ELSE XAPI_Read(t, net)
  BY DEF PutUpgrade
<1> DEFINE t == XAPI_PutTxBuff(ses, Message(log.put + 1), ok)
<1>2. /\ SesOK(t) /\ t.rx = ses.rx
      /\ log.out \o UsedBytes(t.tx) = Queued(IF t.tx.used > 0 THEN log.put + 1 ELSE log.put)
  BY PutOK
<1>3. CASE t.tx.used = 0
  <2>1. Fail("alloc") BY <1>1, <1>3
  <2> QED BY <2>1, FailOK
<1>4. CASE t.tx.used # 0
  <2>1. /\ ses' = XAPI_EnableEvent(t, "OUT")
        /\ log' = [log EXCEPT !.put = @ + 1, !.upgrade = log.put + 1]
        /\ net' = net
        /\ IF Client THEN Goto("write") ELSE XAPI_Read(t, net)
    BY <1>1, <1>4
  <2> HIDE DEF t
  <2>2. CtlOK(ctl) /\ LogOK(log) /\ NetOK(net) BY DEF AllOK
  <2>3. CtlOK(ctl') /\ ctl'.pc # "handle"
    <3>1. CASE Client BY <2>1, <2>2, <3>1, GotoOK DEF Points
    <3>2. CASE ~Client BY <2>1, <2>2, <3>2, ReadOK
    <3> QED BY <3>1, <3>2
  <2>4. Kept(ses', t) BY <1>2, <2>1, EnableOK
  <2>5. LogOK(log') /\ log'.out = log.out /\ log'.put = log.put + 1
    <3> DEFINE k == log.put + 1
    <3>1. log' = [log EXCEPT !.put = k, !.upgrade = k] /\ k \in Nat BY <2>1, <2>2 DEF LogOK
    <3> HIDE DEF k
    <3>2. LogOK(log') /\ log'.out = log.out /\ log'.put = k BY <2>2, <3>1 DEF LogOK
    <3> QED BY <3>2 DEF k
  <2>6. t.tx.used > 0
    <3>1. t.tx.used \in Nat BY <1>2 DEF SesOK, Bufs, BufOK
    <3> QED BY <1>4, <3>1
  <2>7. TxOK(ses', log') BY <1>2, <2>4, <2>5, <2>6 DEF TxOK, Kept
  <2> QED BY <2>1, <2>2, <2>3, <2>4, <2>5, <2>7 DEF AllOK, Kept, HandleOK
<1> QED BY <1>3, <1>4

LEMMA ReturnOK ==
    ASSUME StreamInv, Return
    PROVE  AllOK(ses', net', ctl', log') /\ conf' = conf
<1> DEFINE adv == [ses EXCEPT !.rx = Consumed(@, ctl.size)]
<1>1. AllOK(ses, net, ctl, log) /\ CtlOK(ctl) /\ SesOK(ses) /\ LogOK(log) /\ SameOut(log) /\ Kept(ses, ses)
  BY SameOutNow DEF StreamInv, AllOK, Kept
<1>2. ctl.size \in Nat BY <1>1 DEF CtlOK
<1>3. conf' = conf /\ ctl.pc \in Callbacks /\ AfterCallback BY DEF Return
<1>4. CASE ctl.pc = "cb_read"
  <2>1. /\ ses' = adv /\ net' = net /\ log' = log
        /\ IF XByteBuffer_HasData(adv.rx) THEN Goto("handle") ELSE XAPI_Read(adv, net)
    BY <1>3, <1>4 DEF AfterCallback
  <2>2. NextFrame(ses, ctl.size) BY <2>1 DEF NextFrame
  <2> QED BY <1>1, <1>2, <1>3, <2>2, NextFrameOK
<1>5. CASE ctl.pc = "cb_raw"
  <2> DEFINE s == IF conf.keep THEN ses ELSE [ses EXCEPT !.rx = XByteBuffer_Clear(@)]
  <2>1. ses' = s /\ XAPI_Read(s, net) /\ net' = net /\ log' = log BY <1>3, <1>5 DEF AfterCallback
  <2>2. SesOK(s) /\ s.tx = ses.tx
    <3>1. CASE conf.keep BY <1>1, <3>1
    <3>2. CASE ~conf.keep
      <4> DEFINE c == XByteBuffer_Clear(ses.rx)
      <4>1. RxOK(c) BY <1>1, RxCleared DEF SesOK, Bufs, RxOK
      <4>2. s = [ses EXCEPT !.rx = c] BY <3>2
      <4> HIDE DEF c, s
      <4> QED BY <1>1, <4>1, <4>2, SetRx
    <3> QED BY <3>1, <3>2
  <2> HIDE DEF s
  <2>3. CtlOK(ctl') /\ ctl'.pc # "handle" BY <1>1, <2>1, ReadOK
  <2>4. SesOK(ses') /\ ses'.tx = ses.tx /\ NetOK(net') /\ SameOut(log') /\ HandleOK(ses', ctl')
    BY <1>1, <2>1, <2>2, <2>3 DEF AllOK, HandleOK
  <2> QED BY <1>1, <1>3, <2>3, <2>4, NothingSent
<1>6. CASE ctl.pc = "cb_hsreq"
  <2>1. ses' = adv /\ Goto("cb_hsans") /\ net' = net /\ log' = log BY <1>3, <1>6 DEF AfterCallback
  <2>2. CtlOK(ctl') /\ ctl'.pc # "handle" BY <1>1, <2>1, GotoOK DEF Points, Callbacks
  <2> QED BY <1>1, <1>2, <1>3, <2>1, <2>2, ConsumeStep
<1>7. CASE ctl.pc \in {"cb_hsans", "cb_request"}
  <2>1. PutUpgrade(ses) BY <1>3, <1>7 DEF AfterCallback
  <2> QED BY <1>1, <1>3, <2>1, PutUpgradeOK
<1>8. CASE ctl.pc = "cb_hsres"
  <2>1. /\ ses' = adv /\ net' = net /\ log' = log
        /\ IF ses'.rx.used > 0 THEN Goto("handle") ELSE XAPI_Read(ses', net)
    BY <1>3, <1>8 DEF AfterCallback
  <2>2. CtlOK(ctl') /\ (ctl'.pc = "handle" => ses'.rx.used > 0)
    <3> HIDE DEF adv
    <3>1. CASE ses'.rx.used > 0 BY <1>1, <2>1, <3>1, GotoOK DEF Points
    <3>2. CASE ~(ses'.rx.used > 0) BY <1>1, <2>1, <3>2, ReadOK
    <3> QED BY <3>1, <3>2
  <2> QED BY <1>1, <1>2, <1>3, <2>1, <2>2, ConsumeStep
<1>9. CASE ctl.pc = "cb_write"
  <2>1. /\ net' = net /\ log' = log
        /\ IF ses.tx.used > 0 THEN Goto("write") /\ UNCHANGED ses
           ELSE ses' = XAPI_DisableEvent(ses, "OUT") /\ Continue
    BY <1>3, <1>9 DEF AfterCallback
  <2>2. Kept(ses', ses) /\ CtlOK(ctl') /\ ctl'.pc # "handle"
    <3>1. CASE ses.tx.used > 0
      <4>1. Goto("write") /\ ses' = ses BY <2>1, <3>1
      <4>2. "write" \in Points /\ "write" # "handle" BY DEF Points
      <4> QED BY <1>1, <4>1, <4>2, GotoOK
    <3>2. CASE ~(ses.tx.used > 0)
      <4>1. ses' = XAPI_DisableEvent(ses, "OUT") /\ Continue BY <2>1, <3>2
      <4> QED BY <1>1, <4>1, DisableOK, ContinueOK
    <3> QED BY <3>1, <3>2
  <2> QED BY <1>1, <1>3, <2>1, <2>2, FlagStep
<1>10. CASE ctl.pc = "cb_complete"
  <2>1. Continue /\ ses' = ses /\ net' = net /\ log' = log BY <1>3, <1>10 DEF AfterCallback
  <2>2. CtlOK(ctl') /\ ctl'.pc # "handle" BY <1>1, <2>1, ContinueOK
  <2> QED BY <1>1, <1>3, <2>1, <2>2, OnlyCtl DEF HandleOK
<1> QED BY <1>3, <1>4, <1>5, <1>6, <1>7, <1>8, <1>9, <1>10 DEF Callbacks

\* Another number of queued messages.
LEMMA LogPut ==
    ASSUME LogOK(log), NEW k \in Nat, NEW l, l = [log EXCEPT !.put = k]
    PROVE  LogOK(l) /\ l.out = log.out /\ l.put = k
BY DEF LogOK

LEMMA AppSendOK ==
    ASSUME StreamInv, AppSend
    PROVE  AllOK(ses', net', ctl', log') /\ conf' = conf
<1>1. AllOK(ses, net, ctl, log) /\ CtlOK(ctl) /\ LogOK(log) /\ NetOK(net) /\ HandleOK(ses, ctl) BY DEF StreamInv, AllOK
<1>2. conf' = conf /\ net' = net /\ ctl' = ctl BY DEF AppSend
<1>3. PICK ok \in IF ses.tx.used > 0 THEN {TRUE} ELSE AllocOk :
         ses' = Put(ses, ok)[1] /\ log' = [log EXCEPT !.put = @ + Put(ses, ok)[2]]
  BY DEF AppSend
<1> DEFINE t == XAPI_PutTxBuff(ses, Message(log.put + 1), ok)
<1>4. /\ SesOK(t) /\ t.rx = ses.rx
      /\ log.out \o UsedBytes(t.tx) = Queued(IF t.tx.used > 0 THEN log.put + 1 ELSE log.put)
  BY <1>1, PutOK
<1>5. Put(ses, ok) = IF t.tx.used > 0 THEN <<XAPI_EnableEvent(t, "OUT"), 1>> ELSE <<t, 0>> BY DEF Put
<1> HIDE DEF t
<1>6. log.put \in Nat BY <1>1 DEF LogOK
<1> DEFINE k == IF t.tx.used > 0 THEN log.put + 1 ELSE log.put
<1>7. SesOK(ses') /\ ses'.rx = ses.rx /\ ses'.tx = t.tx /\ log' = [log EXCEPT !.put = k]
  <2>1. CASE t.tx.used > 0
    <3>1. Put(ses, ok) = <<XAPI_EnableEvent(t, "OUT"), 1>> BY <1>5, <2>1
    <3>2. ses' = XAPI_EnableEvent(t, "OUT") /\ log' = [log EXCEPT !.put = log.put + 1]
      <4> DEFINE q == XAPI_EnableEvent(t, "OUT")
      <4> HIDE DEF q
      <4>1. Put(ses, ok)[1] = q /\ Put(ses, ok)[2] = 1 BY <3>1 DEF q
      <4>2. ses' = q /\ log' = [log EXCEPT !.put = log.put + 1] BY <1>3, <4>1
      <4> QED BY <4>2 DEF q
    <3>3. Kept(ses', t) BY <1>4, <3>2, EnableOK
    <3> QED BY <1>4, <2>1, <3>2, <3>3 DEF Kept
  <2>2. CASE ~(t.tx.used > 0)
    <3>1. Put(ses, ok)[1] = t /\ Put(ses, ok)[2] = 0 BY <1>5, <2>2
    <3>2. ses' = t /\ log' = [log EXCEPT !.put = log.put + 0] BY <1>3, <3>1
    <3>3. log.put + 0 = log.put BY <1>6
    <3> QED BY <1>4, <2>2, <3>2, <3>3
  <2> QED BY <2>1, <2>2
<1>8. k \in Nat BY <1>6
<1> HIDE DEF k
<1>9. LogOK(log') /\ log'.out = log.out /\ log'.put = k BY <1>1, <1>7, <1>8, LogPut
<1>10. TxOK(ses', log') BY <1>4, <1>7, <1>9 DEF TxOK, k
<1>11. HandleOK(ses', ctl') BY <1>1, <1>2, <1>7 DEF HandleOK
<1> QED BY <1>1, <1>2, <1>7, <1>9, <1>10, <1>11 DEF AllOK

\* The packet that the callback was given is removed.
LEMMA ReloopConsumes ==
    ASSUME StreamInv,
           ses' = CASE ctl.pc \in {"cb_read", "cb_hsreq", "cb_hsres"} -> [ses EXCEPT !.rx = Consumed(@, ctl.size)]
                    [] ctl.pc = "cb_raw" /\ ~conf.keep -> [ses EXCEPT !.rx = XByteBuffer_Clear(@)]
                    [] OTHER -> ses
    PROVE  SesOK(ses') /\ ses'.tx = ses.tx
<1>1. SesOK(ses) /\ RxOK(ses.rx) /\ BufOK(ses.rx) /\ ctl.size \in Nat BY DEF StreamInv, AllOK, SesOK, Bufs, CtlOK, RxOK
<1>2. CASE ctl.pc \in {"cb_read", "cb_hsreq", "cb_hsres"}
  <2> DEFINE c == Consumed(ses.rx, ctl.size)
  <2>1. ses' = [ses EXCEPT !.rx = c] BY <1>2
  <2>2. RxOK(c) BY <1>1, RxConsumed
  <2> HIDE DEF c
  <2> QED BY <1>1, <2>1, <2>2, SetRx
<1>3. CASE ctl.pc = "cb_raw" /\ ~conf.keep
  <2> DEFINE c == XByteBuffer_Clear(ses.rx)
  <2>1. ses' = [ses EXCEPT !.rx = c] BY <1>3
  <2>2. RxOK(c) BY <1>1, RxCleared
  <2> HIDE DEF c
  <2> QED BY <1>1, <2>1, <2>2, SetRx
<1>4. CASE ctl.pc \notin {"cb_read", "cb_hsreq", "cb_hsres"} /\ ~(ctl.pc = "cb_raw" /\ ~conf.keep)
  BY <1>1, <1>4
<1> QED BY <1>2, <1>3, <1>4

LEMMA ReturnReloopOK ==
    ASSUME StreamInv, ReturnReloop
    PROVE  AllOK(ses', net', ctl', log') /\ conf' = conf
<1>1. AllOK(ses, net, ctl, log) /\ LogOK(log) /\ NetOK(net) BY DEF StreamInv, AllOK
<1>2. conf' = conf /\ net' = net /\ Reloop BY DEF ReturnReloop
<1>3. CtlOK(ctl') /\ ctl'.pc # "handle" BY <1>2, ReloopOK
<1>4. CASE ctl.pc \notin {"cb_hsans", "cb_request"}
  <2>1. SesOK(ses') /\ ses'.tx = ses.tx BY <1>4, ReloopConsumes DEF ReturnReloop
  <2>2. log' = [log EXCEPT !.reloop = TRUE] BY <1>4 DEF ReturnReloop
  <2>3. SameOut(log') BY <1>1, <2>2 DEF SameOut, LogOK
  <2> QED BY <1>1, <1>2, <1>3, <2>1, <2>3, NothingSent DEF HandleOK
<1>5. CASE ctl.pc \in {"cb_hsans", "cb_request"}
  <2>1. PICK ok \in IF ses.tx.used > 0 THEN {TRUE} ELSE AllocOk :
                LET t == XAPI_PutTxBuff(ses, Message(log.put + 1), ok) IN
                /\ ses' = t
                /\ log' = IF t.tx.used > 0 THEN [log EXCEPT !.reloop = TRUE, !.put = @ + 1, !.upgrade = log.put + 1]
                          ELSE [log EXCEPT !.reloop = TRUE]
    BY <1>5 DEF ReturnReloop
  <2> DEFINE t == XAPI_PutTxBuff(ses, Message(log.put + 1), ok)
             k == IF t.tx.used > 0 THEN log.put + 1 ELSE log.put
  <2>2. /\ SesOK(t) /\ t.rx = ses.rx
        /\ log.out \o UsedBytes(t.tx) = Queued(k)
    BY <1>1, PutOK
  <2>3. /\ ses' = t
        /\ log' = IF t.tx.used > 0 THEN [log EXCEPT !.reloop = TRUE, !.put = log.put + 1, !.upgrade = log.put + 1]
                  ELSE [log EXCEPT !.reloop = TRUE]
    BY <2>1
  <2> HIDE DEF t
  <2>4. log.put \in Nat BY <1>1 DEF LogOK
  <2>5. LogOK(log') /\ log'.out = log.out /\ log'.put = k
    <3>1. CASE t.tx.used > 0
      <4> DEFINE j == log.put + 1
      <4>1. log' = [log EXCEPT !.reloop = TRUE, !.put = j, !.upgrade = j] /\ j \in Nat /\ k = j BY <2>3, <2>4, <3>1
      <4> HIDE DEF j, k
      <4> QED BY <1>1, <4>1 DEF LogOK
    <3>2. CASE ~(t.tx.used > 0)
      <4>1. log' = [log EXCEPT !.reloop = TRUE] /\ k = log.put BY <2>3, <3>2
      <4> HIDE DEF k
      <4> QED BY <1>1, <4>1 DEF LogOK
    <3> QED BY <3>1, <3>2
  <2> HIDE DEF k
  <2>6. TxOK(ses', log') BY <2>2, <2>3, <2>5 DEF TxOK
  <2> QED BY <1>1, <1>2, <1>3, <2>2, <2>3, <2>5, <2>6 DEF AllOK, HandleOK
<1> QED BY <1>4, <1>5

LEMMA ApplicationOK ==
    ASSUME StreamInv, Application
    PROVE  AllOK(ses', net', ctl', log') /\ conf' = conf
<1>1. AllOK(ses, net, ctl, log) /\ CtlOK(ctl) /\ LogOK(log) /\ NetOK(net) /\ HandleOK(ses, ctl) /\ SesOK(ses)
      /\ IsSes(ses) /\ Flags(ses)
  BY DEF StreamInv, AllOK, SesOK
<1>2. CASE AppSend BY <1>2, AppSendOK
<1>3. CASE XAPI_RespondHTTP
  <2>1. ses' = [ses EXCEPT !.cancel = TRUE] /\ conf' = conf /\ net' = net /\ ctl' = ctl /\ log' = log
    BY <1>3 DEF XAPI_RespondHTTP
  <2>2. IsSes(ses') /\ ses'.rx = ses.rx /\ ses'.tx = ses.tx /\ ses'.ws = ses.ws BY <1>1, <2>1 DEF IsSes
  <2>3. Flags(ses') BY <1>1, <2>1 DEF IsSes, Flags
  <2>4. Kept(ses', ses) BY <1>1, <2>2, <2>3, FlagsChange
  <2>5. SameOut(log') /\ HandleOK(ses', ctl') BY <1>1, <2>1, <2>2, SameOutNow DEF HandleOK
  <2> QED BY <1>1, <2>1, <2>4, <2>5, NothingSent DEF Kept
<1>4. CASE AppPause
  <2>1. ses' = XAPI_DisableEvent(ses, "IN") /\ log' = [log EXCEPT !.paused = TRUE] /\ conf' = conf /\ net' = net /\ ctl' = ctl
    BY <1>4 DEF AppPause
  <2>2. Kept(ses', ses) BY <1>1, <2>1, DisableOK
  <2>3. SameOut(log') BY <1>1, <2>1 DEF SameOut, LogOK
  <2>4. HandleOK(ses', ctl') BY <1>1, <2>1, <2>2 DEF HandleOK, Kept
  <2> QED BY <1>1, <2>1, <2>2, <2>3, <2>4, NothingSent DEF Kept
<1>5. CASE AppResume
  <2>1. ses' = XAPI_EnableEvent(ses, "IN") /\ conf' = conf /\ net' = net /\ ctl' = ctl /\ log' = log
    BY <1>5 DEF AppResume
  <2>2. Kept(ses', ses) BY <1>1, <2>1, EnableOK
  <2>3. SameOut(log') BY <1>1, <2>1, SameOutNow
  <2>4. HandleOK(ses', ctl') BY <1>1, <2>1, <2>2 DEF HandleOK, Kept
  <2> QED BY <1>1, <2>1, <2>2, <2>3, <2>4, NothingSent DEF Kept
<1>6. CASE ReturnReloop BY <1>6, ReturnReloopOK
<1>7. CASE ReturnError
  <2>1. Disconnect /\ conf' = conf /\ ses' = ses /\ net' = net /\ log' = log BY <1>7 DEF ReturnError
  <2>2. CtlOK(ctl') /\ ctl'.pc # "handle" BY <2>1, DisconnectOK
  <2> QED BY <1>1, <2>1, <2>2, OnlyCtl DEF HandleOK
<1> QED BY <1>2, <1>3, <1>4, <1>5, <1>6, <1>7 DEF Application

-----------------------------------------------------------------------------
(* The theorems                                                            *)

\* EmptyBuffer is a buffer.
LEMMA EmptyOK ==
    ASSUME NEW b,
           b = [null |-> TRUE, mem |-> << >>, size |-> 0, used |-> 0, status |-> 1, fast |-> FALSE, bad |-> FALSE]
    PROVE  BufOK(b) /\ RxOK(b) /\ UsedBytes(b) = << >>
<1>2. << >> \in Seq(Cell) /\ Len(<< >>) = 0 OBVIOUS
<1>3. IsBuf(b) /\ b.null \in BOOLEAN /\ b.null /\ ~b.fast /\ ~b.bad BY DEF IsBuf
<1>4. b.mem = << >> /\ b.size = 0 /\ b.used = 0 /\ b.status = 1 OBVIOUS
<1>5. BufOK(b) BY <1>2, <1>3, <1>4 DEF BufOK
<1>6. RxOK(b) BY <1>4, <1>5 DEF RxOK
<1>7. UsedBytes(b) = << >> BY <1>4, <1>5, UsedBytesOK
<1> QED BY <1>5, <1>6, <1>7

LEMMA StreamInitOK ==
    ASSUME StreamInit
    PROVE  StreamInv
<1>1. PICK c \in Scenario :
        /\ conf = [type |-> c.type, role |-> c.role, tls |-> c.tls, keep |-> c.keep,
                   wire |-> c.wire, out |-> c.out, may |-> c.may,
                   bytes |-> Stream(c.wire)]
        /\ ses = LET e == IF c.type = "WS" /\ c.role = "CLIENT" THEN {"OUT"} ELSE {"IN"} IN
                 [rx |-> EmptyBuffer(FALSE), tx |-> EmptyBuffer(FALSE), ws |-> EmptyBuffer(FALSE),
                  frag |-> "none", start |-> FALSE, done |-> FALSE, events |-> e, mask |-> e,
                  row |-> FALSE, wor |-> FALSE, cancel |-> FALSE]
  BY DEF StreamInit
<1>2. conf.tls = c.tls /\ conf.wire = c.wire /\ conf.bytes = Stream(c.wire) BY <1>1
<1>3. c.tls \in BOOLEAN /\ Len(c.wire) \in Nat /\ \A p \in 1..Len(c.wire) : c.wire[p].head \in Nat /\ c.wire[p].body \in Nat
  BY StreamAssumption
<1>4. Stream(c.wire) \in Seq(Token(c.wire)) BY <1>3, StreamType
<1>5. ConfOK BY <1>2, <1>3, <1>4 DEF ConfOK, W
<1> DEFINE b == EmptyBuffer(FALSE)
           e == IF c.type = "WS" /\ c.role = "CLIENT" THEN {"OUT"} ELSE {"IN"}
<1>6. BufOK(b) /\ RxOK(b) /\ UsedBytes(b) = << >>
  <2>1. b = [null |-> TRUE, mem |-> << >>, size |-> 0, used |-> 0, status |-> 1, fast |-> FALSE, bad |-> FALSE]
    BY DEF EmptyBuffer
  <2> HIDE DEF b
  <2> QED BY <2>1, EmptyOK
<1>7. ses = [rx |-> b, tx |-> b, ws |-> b,
             frag |-> "none", start |-> FALSE, done |-> FALSE, events |-> e, mask |-> e,
             row |-> FALSE, wor |-> FALSE, cancel |-> FALSE]
  BY <1>1
<1>8. e \in SUBSET {"IN", "OUT"} OBVIOUS
<1> HIDE DEF b, e
<1>9. SesOK(ses) /\ ses.tx = b
  <2>1. IsSes(ses) /\ ses.rx = b /\ ses.tx = b /\ ses.ws = b BY <1>7 DEF IsSes
  <2>2. Flags(ses) BY <1>7, <1>8 DEF Flags
  <2> QED BY <1>6, <2>1, <2>2 DEF SesOK, Bufs
<1>10. NetOK(net)
  <2>1. net = [sent |-> 0, read |-> 0, given |-> 0, room |-> SendRoom, owe |-> FALSE, hs |-> "none", eof |-> FALSE]
    BY DEF StreamInit
  <2>2. SendRoom \in 0..SendRoom /\ Len(conf.bytes) \in Nat BY <1>5, StreamAssumption DEF ConfOK
  <2> QED BY <2>1, <2>2 DEF NetOK
<1>11. CtlOK(ctl) /\ ctl.pc # "handle"
  <2>1. ctl = [pc |-> "idle", ev |-> {}, rounds |-> 0, size |-> 0] BY DEF StreamInit, Idle
  <2>2. 0 \in 0..(DrainMax - 1) BY StreamAssumption
  <2> QED BY <2>1, <2>2 DEF CtlOK, Points
<1>12. LogOK(log) /\ log.out = << >> /\ log.put = 0
  <2>1. log = [got |-> << >>, out |-> << >>, put |-> 0, upgrade |-> 0, err |-> "none",
               undef |-> FALSE, reloop |-> FALSE, tls |-> FALSE, paused |-> FALSE]
    BY DEF StreamInit
  <2>2. << >> \in Seq(Cell) OBVIOUS
  <2> QED BY <2>1, <2>2 DEF LogOK
<1>13. TxOK(ses, log)
  <2>1. << >> \o << >> = << >> OBVIOUS
  <2> QED BY <1>6, <1>9, <1>12, <2>1, QueuedZero DEF TxOK
<1> QED BY <1>5, <1>9, <1>10, <1>11, <1>12, <1>13 DEF StreamInv, AllOK, HandleOK

LEMMA StreamStep ==
    ASSUME StreamInv, [StreamNext]_streamVars
    PROVE  StreamInv'
<1>1. AllOK(ses', net', ctl', log') /\ conf' = conf
  <2>1. CASE UNCHANGED streamVars BY <2>1 DEF streamVars, StreamInv
  <2>2. CASE Environment BY <2>2, EnvironmentOK
  <2>3. CASE Application BY <2>3, ApplicationOK
  <2>4. CASE Handler
    BY <2>4, PollOK, WriteEventOK, ReadEventOK, WriteOK, ReadOnceOK, HandleHTTPOK, HandleMDTPOK, HandleRAWOK,
       ServerHandshakeOK, ClientHandshakeOK, HandleWSOK, ReturnOK
    DEF Handler
  <2> QED BY <2>1, <2>2, <2>3, <2>4 DEF StreamNext
<1>2. W' = W BY <1>1 DEF W
<1>3. ConfOK' BY <1>1, <1>2 DEF StreamInv, ConfOK
<1>4. AllOK(ses, net, ctl, log)'
  BY <1>1, <1>2 DEF AllOK, SesOK, Bufs, RxOK, NetOK
<1> QED BY <1>3, <1>4 DEF StreamInv

\* The invariant says what is to be shown.
LEMMA StreamInvImplies ==
    ASSUME StreamInv
    PROVE  SentInOrder
<1>1. SesOK(ses) /\ NetOK(net) /\ CtlOK(ctl) /\ LogOK(log) /\ TxOK(ses, log) BY DEF StreamInv, AllOK
<1>2. ASSUME NEW b \in {ses.rx, ses.tx, ses.ws}
      PROVE  ~b.bad /\ b.used <= b.size /\ Len(b.mem) = b.size /\ b.status \in -1..1
  <2>1. BufOK(b) BY <1>1 DEF SesOK, Bufs, RxOK
  <2> QED BY <2>1 DEF BufOK
<1>3. ses.events \subseteq {"IN", "OUT"} /\ ses.mask \subseteq {"IN", "OUT"}
      /\ {ses.start, ses.done, ses.row, ses.wor, ses.cancel} \subseteq BOOLEAN
  BY <1>1 DEF SesOK, Flags
<1>4. net.given <= net.sent /\ net.sent <= Len(conf.bytes) /\ net.room \in 0..SendRoom
      /\ (conf.tls => net.given <= net.read /\ net.read <= net.sent)
  BY <1>1 DEF NetOK
<1>5. ctl.pc \in Callbacks \cup {"idle", "dispatch", "read", "handle", "write", "closed"} /\ ctl.rounds < DrainMax
  BY <1>1, StreamAssumption DEF CtlOK, Points
<1>6. StreamTypeOK BY <1>2, <1>3, <1>4, <1>5 DEF StreamTypeOK
<1> QED BY <1>1, <1>6 DEF SentInOrder, TxOK, Queued

\* The inductive invariant of a session's buffers and of its connection holds in every state of
\* XAPI_ReadEvent, XAPI_WriteEvent and the handlers they call.
THEOREM StreamInvariant == StreamSpec => []StreamInv
<1>1. StreamInit => StreamInv BY StreamInitOK
<1>2. StreamInv /\ [StreamNext]_streamVars => StreamInv' BY StreamStep
<1> QED BY <1>1, <1>2, PTL DEF StreamSpec

\* What a session has sent, followed by its transmit buffer, is at all times the queued messages, each
\* whole and in order: no partial XSock_Write, failed allocation, re-entrant callback or borrowed event
\* mask loses, repeats or reorders a byte, and no buffer is used outside its allocation.
THEOREM SendsInOrder == StreamSpec => []SentInOrder
<1>1. StreamInv => SentInOrder BY StreamInvImplies
<1> QED BY <1>1, StreamInvariant, PTL
=============================================================================
