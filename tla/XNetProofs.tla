----------------------------- MODULE XNetProofs -----------------------------
(***************************************************************************)
(* Sockets and the HTTP client.                                            *)
(*                                                                         *)
(* Sockets: who owns a descriptor and a TLS object, whichever call fails.  *)
(* The functions of sock.c see one structure; what the other structures    *)
(* own is a pair of sets F and H that no function may touch.  Each         *)
(* function is shown to keep Owns(w, F, H), and the invariant of the       *)
(* program says that every structure owns its part.                        *)
(*                                                                         *)
(* HTTP: what the handle, the call and the history know of the bytes of    *)
(* an answer, at every point of an exchange (Exchange).  There is a lemma  *)
(* for each way in which a step can end, and one for each action.          *)
(***************************************************************************)
EXTENDS XSock, XHTTP, FiniteSetTheorems, WellFoundedInduction, TLAPS

\* The fields of the records.
Shape(w) ==
    /\ DOMAIN w = {"sk", "fds", "heap", "file", "bad"}
    /\ DOMAIN w.sk = {"fd", "flags", "status", "priv", "name"}
    /\ DOMAIN w.sk.priv = {"id", "ctx", "ssl", "conn"}

\* The objects of a structure.
Own(k) == {k.priv.id, k.priv.ctx, k.priv.ssl} \ {Invalid}

\* The structure w.sk owns what the others (F and H) do not, once.
Owns(w, F, H) ==
    /\ Shape(w) /\ w.bad = {}
    /\ IsFiniteSet(w.fds) /\ IsFiniteSet(w.heap)
    /\ w.fds = F \cup ({w.sk.fd} \ {Invalid}) /\ w.sk.fd \notin F
    /\ w.heap = H \cup Own(w.sk) /\ Own(w.sk) \cap H = {}
    /\ Invalid \notin F /\ Invalid \notin H
    /\ w.sk.fd = Invalid => w.sk.priv.ctx = Invalid /\ w.sk.priv.ssl = Invalid
    /\ "tmp" \notin w.file

\* A structure that is being set up has no TLS object yet, and there is room for them.
Fresh(w) ==
    /\ w.sk.priv.ctx = Invalid /\ w.sk.priv.ssl = Invalid
    /\ Has(w, "SSL") => w.sk.priv.id # Invalid
    /\ Cardinality(w.heap) + 2 <= MaxHandles
    /\ w.sk.name = "final"
Setup(w, F, H) == Owns(w, F, H) /\ (IsOpen(w) => Fresh(w))

-----------------------------------------------------------------------------
(* The building blocks.                                                    *)

\* A set of natural numbers has a least element.
LEMMA Least ==
    ASSUME NEW T, T \subseteq Nat, T # {}
    PROVE  \E x \in T : \A y \in T : x <= y
<1> DEFINE L == OpToRel(<, Nat)
<1>1. IsWellFoundedOn(L, Nat) BY NatLessThanWellFounded
<1>2. \A x, y \in Nat : y < x => <<y, x>> \in L BY DEF OpToRel
<1> HIDE DEF L
<1>3. PICK x \in T : \A y \in T : ~(<<y, x>> \in L) BY <1>1, WFMin
<1>4. ASSUME NEW y \in T PROVE x <= y
  <2>1. x \in Nat /\ y \in Nat OBVIOUS
  <2>2. ~(y < x) BY <1>2, <1>3, <2>1
  <2> QED BY <2>1, <2>2
<1> QED BY <1>4

\* A free handle is a number that is not in use.
LEMMA FreeHandleNew ==
    ASSUME NEW S, IsFiniteSet(S), Cardinality(S) < MaxHandles
    PROVE  FreeHandle(S) \notin S /\ FreeHandle(S) # Invalid
<1> USE SockAssumption
<1> DEFINE T == (1..MaxHandles) \ S
<1>1. T # {}
  <2> SUFFICES ASSUME T = {} PROVE FALSE OBVIOUS
  <2>1. 1..MaxHandles \subseteq S OBVIOUS
  <2>2. Cardinality(1..MaxHandles) <= Cardinality(S) BY <2>1, FS_Subset
  <2>3. Cardinality(1..MaxHandles) = MaxHandles BY FS_Interval
  <2>4. Cardinality(S) \in Nat BY FS_CardinalityType
  <2> QED BY <2>2, <2>3, <2>4
<1>2. T \subseteq Nat OBVIOUS
<1>3. PICK m \in T : \A y \in T : m <= y BY <1>1, <1>2, Least
<1>4. Min(T) \in T
  BY <1>3 DEF Min
<1> QED BY <1>4 DEF FreeHandle, Invalid

\* What XSock_Close and a status do, field by field.
LEMMA StatusFields ==
    ASSUME NEW w, Shape(w), NEW st
    PROVE  /\ Shape(Status(w, st))
           /\ Status(w, st).sk.fd = w.sk.fd /\ Status(w, st).sk.priv = w.sk.priv
           /\ Status(w, st).sk.flags = w.sk.flags /\ Status(w, st).sk.status = st
           /\ Status(w, st).sk.name = w.sk.name
           /\ Status(w, st).fds = w.fds /\ Status(w, st).heap = w.heap
           /\ Status(w, st).file = w.file /\ Status(w, st).bad = w.bad
BY DEF Shape, Status

LEMMA CloseFields ==
    ASSUME NEW w, Shape(w), w.bad = {}
    PROVE  /\ Shape(XSock_Close(w))
           /\ XSock_Close(w).sk.fd = Invalid /\ XSock_Close(w).sk.priv = NoPriv
           /\ XSock_Close(w).sk.flags = w.sk.flags /\ XSock_Close(w).sk.status = w.sk.status
           /\ XSock_Close(w).fds = w.fds \ {w.sk.fd}
           /\ XSock_Close(w).heap = w.heap \ {w.sk.priv.ssl, w.sk.priv.ctx, w.sk.priv.id}
           /\ XSock_Close(w).file = w.file
           /\ XSock_Close(w).bad = (Own(w.sk) \ w.heap) \cup ({w.sk.fd} \ ({Invalid} \cup w.fds))
<1> DEFINE S == {w.sk.priv.ssl, w.sk.priv.ctx, w.sk.priv.id}
           v == Freed(w, S)
<1>1. /\ v.sk = w.sk /\ v.fds = w.fds /\ v.heap = w.heap \ S /\ v.file = w.file
      /\ v.bad = S \ ({Invalid} \cup w.heap) /\ DOMAIN v = DOMAIN w
  BY DEF Shape, Freed
<1>2. DOMAIN NoPriv = {"id", "ctx", "ssl", "conn"} BY DEF NoPriv
<1>3. S \ ({Invalid} \cup w.heap) = Own(w.sk) \ w.heap BY DEF Own
<1>4. XSock_Close(w) = [v EXCEPT !.sk.priv = NoPriv, !.sk.fd = Invalid, !.fds = @ \ {w.sk.fd},
                                !.bad = @ \cup ({w.sk.fd} \ ({Invalid} \cup w.fds))]
  BY DEF XSock_Close
<1> HIDE DEF v
<1>5. /\ XSock_Close(w).fds = w.fds \ {w.sk.fd} /\ XSock_Close(w).heap = w.heap \ S
      /\ XSock_Close(w).file = w.file /\ DOMAIN XSock_Close(w) = DOMAIN w
  BY <1>1, <1>4 DEF Shape
<1>6. XSock_Close(w).bad = (Own(w.sk) \ w.heap) \cup ({w.sk.fd} \ ({Invalid} \cup w.fds))
  BY <1>1, <1>3, <1>4 DEF Shape
<1>7. /\ XSock_Close(w).sk.fd = Invalid /\ XSock_Close(w).sk.priv = NoPriv
      /\ XSock_Close(w).sk.flags = w.sk.flags /\ XSock_Close(w).sk.status = w.sk.status
      /\ DOMAIN XSock_Close(w).sk = DOMAIN w.sk
  <2>1. XSock_Close(w).sk = [w.sk EXCEPT !.priv = NoPriv, !.fd = Invalid] BY <1>1, <1>4 DEF Shape
  <2> QED BY <2>1 DEF Shape
<1> QED BY <1>2, <1>5, <1>6, <1>7 DEF Shape

LEMMA StatusKeeps ==
    ASSUME NEW w, NEW F, NEW H, Owns(w, F, H), NEW st
    PROVE  Owns(Status(w, st), F, H)
<1> DEFINE v == Status(w, st)
<1>1. /\ Shape(v) /\ v.sk.fd = w.sk.fd /\ v.sk.priv = w.sk.priv
      /\ v.fds = w.fds /\ v.heap = w.heap /\ v.file = w.file /\ v.bad = w.bad
  BY StatusFields DEF Owns
<1> HIDE DEF v
<1>2. Own(v.sk) = Own(w.sk) BY <1>1 DEF Own
<1>3. Owns(v, F, H) BY <1>1, <1>2 DEF Owns
<1> QED BY <1>3 DEF v

LEMMA CloseKeeps ==
    ASSUME NEW w, NEW F, NEW H, Owns(w, F, H)
    PROVE  Owns(XSock_Close(w), F, H) /\ ~IsOpen(XSock_Close(w))
<1>1. Shape(w) /\ w.bad = {} BY DEF Owns
<1>2. NoPriv.id = Invalid /\ NoPriv.ctx = Invalid /\ NoPriv.ssl = Invalid BY DEF NoPriv
<1> DEFINE c == XSock_Close(w)
<1>3. /\ Shape(c) /\ c.sk.fd = Invalid /\ c.sk.priv = NoPriv
      /\ c.fds = w.fds \ {w.sk.fd}
      /\ c.heap = w.heap \ {w.sk.priv.ssl, w.sk.priv.ctx, w.sk.priv.id}
      /\ c.file = w.file
      /\ c.bad = (Own(w.sk) \ w.heap) \cup ({w.sk.fd} \ ({Invalid} \cup w.fds))
  BY <1>1, CloseFields
<1> HIDE DEF c
<1>4. c.bad = {} BY <1>3 DEF Owns
<1>5. c.fds = F BY <1>3 DEF Owns
<1>6. c.heap = H BY <1>3 DEF Owns, Own
<1>7. Own(c.sk) = {} BY <1>2, <1>3 DEF Own
<1>8. IsFiniteSet(c.fds) /\ IsFiniteSet(c.heap) BY <1>3, FS_Subset DEF Owns
<1>9. Owns(c, F, H) BY <1>2, <1>3, <1>4, <1>5, <1>6, <1>7, <1>8 DEF Owns
<1> QED BY <1>3, <1>9 DEF IsOpen, c

\* An error path releases what the structure owns and leaves the status.
LEMMA BrokenKeeps ==
    ASSUME NEW w, NEW F, NEW H, Owns(w, F, H), NEW st
    PROVE  /\ Owns(Broken(w, st), F, H) /\ ~IsOpen(Broken(w, st))
           /\ Broken(w, st).sk.status = st
<1>1. Owns(Status(w, st), F, H) BY StatusKeeps
<1>2. Shape(Status(w, st)) /\ Status(w, st).bad = {} BY <1>1 DEF Owns
<1>3. Status(w, st).sk.status = st BY StatusFields DEF Owns
<1> QED BY <1>1, <1>2, <1>3, CloseKeeps, CloseFields DEF Broken

\* A status and a check change nothing that is owned.
LEMMA CheckKeeps ==
    ASSUME NEW w, NEW F, NEW H, Owns(w, F, H)
    PROVE  /\ Owns(XSock_Check(w), F, H) /\ (IsOpen(XSock_Check(w)) <=> IsOpen(w))
           /\ XSock_Check(w).sk.flags = w.sk.flags /\ XSock_Check(w).sk.priv = w.sk.priv
           /\ XSock_Check(w).heap = w.heap /\ XSock_Check(w).sk.name = w.sk.name
           /\ IsOpen(w) => XSock_Check(w).sk.status = "NONE"
<1>1. Shape(w) BY DEF Owns
<1>2. Owns(Status(w, "NONE"), F, H) /\ Owns(Status(w, "INVALID"), F, H) BY StatusKeeps
<1>3. \A st : /\ Status(w, st).sk.fd = w.sk.fd /\ Status(w, st).sk.flags = w.sk.flags
              /\ Status(w, st).sk.priv = w.sk.priv /\ Status(w, st).heap = w.heap
              /\ Status(w, st).sk.status = st /\ Status(w, st).sk.name = w.sk.name
  BY <1>1, StatusFields
<1> QED BY <1>2, <1>3 DEF XSock_Check, IsOpen

LEMMA CheckSetup ==
    ASSUME NEW w, NEW F, NEW H, Setup(w, F, H)
    PROVE  Setup(XSock_Check(w), F, H)
BY CheckKeeps DEF Setup, Fresh, Has

LEMMA BrokenSetup ==
    ASSUME NEW w, NEW F, NEW H, Owns(w, F, H), NEW st
    PROVE  Setup(Broken(w, st), F, H) /\ ~IsOpen(Broken(w, st))
BY BrokenKeeps DEF Setup

LEMMA CallSetup ==
    ASSUME NEW w, NEW F, NEW H, Setup(w, F, H), NEW name, NEW st, NEW fail
    PROVE  /\ Setup(Call(w, name, st, fail), F, H)
           /\ IsOpen(Call(w, name, st, fail)) => Call(w, name, st, fail) = w
<1>1. Setup(Broken(w, st), F, H) /\ ~IsOpen(Broken(w, st)) BY BrokenSetup DEF Setup
<1> QED BY <1>1 DEF Call

LEMMA CallKeeps ==
    ASSUME NEW w, NEW F, NEW H, Owns(w, F, H), NEW name, NEW st, NEW fail
    PROVE  Owns(Call(w, name, st, fail), F, H)
BY BrokenKeeps DEF Call

LEMMA OptionKeeps ==
    ASSUME NEW w, NEW F, NEW H, Owns(w, F, H), NEW fail
    PROVE  Owns(SetOption(w, fail), F, H)
BY CheckKeeps, CallKeeps DEF SetOption

LEMMA OptionSetup ==
    ASSUME NEW w, NEW F, NEW H, Setup(w, F, H), NEW fail
    PROVE  Setup(SetOption(w, fail), F, H)
BY CheckSetup, CallSetup DEF SetOption

\* Other flags leave the owner as it is.
LEMMA FlagsKeep ==
    ASSUME NEW w, NEW F, NEW H, Owns(w, F, H), NEW G
    PROVE  Owns([w EXCEPT !.sk.flags = G], F, H)
<1> DEFINE v == [w EXCEPT !.sk.flags = G]
<1>1. Shape(w) BY DEF Owns
<1>2. /\ Shape(v) /\ v.sk.fd = w.sk.fd /\ v.sk.priv = w.sk.priv
      /\ v.fds = w.fds /\ v.heap = w.heap /\ v.file = w.file /\ v.bad = w.bad
  BY <1>1 DEF Shape
<1> HIDE DEF v
<1>3. Own(v.sk) = Own(w.sk) BY <1>2 DEF Own
<1>4. Owns(v, F, H) BY <1>2, <1>3 DEF Owns
<1> QED BY <1>4 DEF v

LEMMA NonBlockKeeps ==
    ASSUME NEW w, NEW F, NEW H, Owns(w, F, H), NEW on, NEW fail
    PROVE  Owns(XSock_NonBlock(w, on, fail), F, H)
<1> DEFINE v == Call(XSock_Check(w), "nonblock", "SETFL", fail)
<1>1. Owns(XSock_Check(w), F, H) BY CheckKeeps
<1>2. Owns(v, F, H) BY <1>1, CallKeeps
<1> HIDE DEF v
<1>3. \A G : Owns([v EXCEPT !.sk.flags = G], F, H) BY <1>2, FlagsKeep
<1>4. XSock_NonBlock(w, on, fail) =
        IF ~IsOpen(w) THEN XSock_Check(w)
        ELSE IF ~IsOpen(v) THEN v
        ELSE [v EXCEPT !.sk.flags = IF on THEN v.sk.flags \cup {"NB"} ELSE v.sk.flags \ {"NB"}]
  BY DEF XSock_NonBlock, v
<1> QED BY <1>1, <1>2, <1>3, <1>4

-----------------------------------------------------------------------------
(* Setting up.                                                             *)

\* v differs from w at most in status, name and socket file.
Alike(v, w) ==
    /\ Shape(v) /\ v.sk.fd = w.sk.fd /\ v.sk.priv = w.sk.priv /\ v.sk.flags = w.sk.flags
    /\ v.fds = w.fds /\ v.heap = w.heap /\ v.bad = w.bad

LEMMA AlikeKeeps ==
    ASSUME NEW v, NEW w, NEW F, NEW H, Alike(v, w), Setup(w, F, H), "tmp" \notin v.file
    PROVE  Owns(v, F, H) /\ (v.sk.name = "final" => Setup(v, F, H))
<1>1. Own(v.sk) = Own(w.sk) BY DEF Own, Alike
<1> QED BY <1>1 DEF Alike, Setup, Owns, Fresh, Has, IsOpen

\* A socket file that was made under a temporary name is renamed or removed.
LEMMA BindSetup ==
    ASSUME NEW w, NEW F, NEW H, Setup(w, F, H), IsOpen(w), NEW fail
    PROVE  /\ Setup(XSock_Bind(w, fail), F, H)
           /\ IsOpen(XSock_Bind(w, fail)) => XSock_Bind(w, fail).sk.flags = w.sk.flags
<1> DEFINE atomic == {"UNIX", "FORCE"} \subseteq w.sk.flags
           taken == Has(w, "UNIX") /\ ~atomic /\ "final" \in w.file
           v == IF atomic THEN [w EXCEPT !.sk.name = "tmp", !.file = @ \ {"tmp"}] ELSE w
           bound == IF Has(w, "UNIX") THEN [v EXCEPT !.file = @ \cup {v.sk.name}] ELSE v
           gone == [bound EXCEPT !.file = @ \ {"tmp"}]
           made == [bound EXCEPT !.file = (@ \ {"tmp"}) \cup {"final"}, !.sk.name = "final"]
<1>1. Shape(w) /\ "tmp" \notin w.file BY DEF Setup, Owns
<1>2. Alike(w, w) BY <1>1 DEF Alike
<1>3. Alike(v, w) /\ "tmp" \notin v.file /\ (~atomic => v = w)
  <2> DEFINE t == [w EXCEPT !.sk.name = "tmp", !.file = @ \ {"tmp"}]
  <2>1. Alike(t, w) /\ t.file = w.file \ {"tmp"} BY <1>1 DEF Shape, Alike
  <2> QED BY <1>1, <1>2, <2>1
<1> HIDE DEF v
<1>4. \A f : Alike([v EXCEPT !.file = f], w) /\ [v EXCEPT !.file = f].file = f
  BY <1>3 DEF Alike, Shape
<1>5. Alike(bound, w)
  BY <1>3, <1>4
<1> HIDE DEF bound
<1>6. Alike(gone, w) /\ gone.file = bound.file \ {"tmp"}
  BY <1>5 DEF Alike, Shape
<1>7. Alike(made, w) /\ made.file = (bound.file \ {"tmp"}) \cup {"final"} /\ made.sk.name = "final"
  BY <1>5 DEF Alike, Shape
<1> HIDE DEF gone, made
<1>8. Owns(v, F, H) BY <1>3, AlikeKeeps
<1>9. Owns(gone, F, H) BY <1>6, AlikeKeeps
<1>10. Setup(made, F, H) BY <1>7, AlikeKeeps
<1>11. /\ Setup(Broken(v, "BIND"), F, H) /\ ~IsOpen(Broken(v, "BIND"))
       /\ Setup(Broken(gone, "NAME"), F, H) /\ ~IsOpen(Broken(gone, "NAME"))
  BY <1>8, <1>9, BrokenSetup
<1>12. XSock_Bind(w, fail) =
         CASE fail = "bind" \/ taken -> Broken(v, "BIND")
           [] fail = "rename" /\ atomic -> Broken(gone, "NAME")
           [] OTHER -> IF atomic THEN made ELSE bound
  BY DEF XSock_Bind, v, bound, gone, made
<1>13. CASE fail = "bind" \/ taken
  <2>1. (fail = "rename" /\ atomic) \/ ~(fail = "rename" /\ atomic) OBVIOUS
  <2>2. XSock_Bind(w, fail) \in {Broken(v, "BIND"), Broken(gone, "NAME")} BY <1>12, <1>13
  <2> QED BY <1>11, <2>2
<1>14. CASE ~(fail = "bind" \/ taken) /\ fail = "rename" /\ atomic
  BY <1>11, <1>12, <1>14
<1>15. CASE ~(fail = "bind" \/ taken) /\ ~(fail = "rename" /\ atomic) /\ atomic
  BY <1>7, <1>10, <1>12, <1>15 DEF Alike
<1>16. CASE ~(fail = "bind" \/ taken) /\ ~atomic
  <2>1. XSock_Bind(w, fail) = bound BY <1>12, <1>16
  <2>2. v = w BY <1>3, <1>16
  <2>3. w.sk.name = "final" BY DEF Setup, Fresh
  <2>4. [w EXCEPT !.file = @ \cup {w.sk.name}].sk.name = w.sk.name BY <1>1 DEF Shape
  <2>5. "tmp" \notin bound.file /\ bound.sk.name = "final"
    BY <1>1, <1>4, <2>2, <2>3, <2>4 DEF bound
  <2> QED BY <1>5, <2>1, <2>5, AlikeKeeps DEF Alike
<1> QED BY <1>13, <1>14, <1>15, <1>16

\* XSock_SetSSLCTX and XSock_SetSSL of a structure with a private part.
LEMMA SetCtxFields ==
    ASSUME NEW w, Shape(w), w.sk.priv.id # Invalid, NEW c
    PROVE  LET v == XSock_SetSSLCTX(w, c) IN
           /\ Shape(v) /\ v.sk.fd = w.sk.fd /\ v.sk.priv.id = w.sk.priv.id
           /\ v.sk.priv.ctx = c /\ v.sk.priv.ssl = w.sk.priv.ssl
           /\ v.fds = w.fds /\ v.heap = w.heap /\ v.file = w.file /\ v.bad = w.bad
<1> DEFINE v == XSock_SetSSLCTX(w, c)
<1>1. v = [w EXCEPT !.sk.priv.ctx = c, !.sk.flags = @ \cup {"SSL"}]
  BY DEF XSock_SetSSLCTX, WithPriv
<1>2. v.sk = [w.sk EXCEPT !.priv.ctx = c, !.flags = @ \cup {"SSL"}]
  BY <1>1 DEF Shape
<1>3. v.sk.priv = [w.sk.priv EXCEPT !.ctx = c]
  BY <1>2 DEF Shape
<1>4. v.sk.fd = w.sk.fd /\ DOMAIN v.sk = DOMAIN w.sk
  BY <1>2 DEF Shape
<1>5. DOMAIN v = DOMAIN w /\ v.fds = w.fds /\ v.heap = w.heap /\ v.file = w.file /\ v.bad = w.bad
  BY <1>1 DEF Shape
<1> QED BY <1>3, <1>4, <1>5 DEF Shape

LEMMA SetSSLFields ==
    ASSUME NEW w, Shape(w), w.sk.priv.id # Invalid, NEW c
    PROVE  LET v == XSock_SetSSL(w, c) IN
           /\ Shape(v) /\ v.sk.fd = w.sk.fd /\ v.sk.priv.id = w.sk.priv.id
           /\ v.sk.priv.ssl = c /\ v.sk.priv.ctx = w.sk.priv.ctx
           /\ v.fds = w.fds /\ v.heap = w.heap /\ v.file = w.file /\ v.bad = w.bad
<1> DEFINE v == XSock_SetSSL(w, c)
<1>1. v = [w EXCEPT !.sk.priv.ssl = c, !.sk.flags = @ \cup {"SSL"}]
  BY DEF XSock_SetSSL, WithPriv
<1>2. v.sk = [w.sk EXCEPT !.priv.ssl = c, !.flags = @ \cup {"SSL"}]
  BY <1>1 DEF Shape
<1>3. v.sk.priv = [w.sk.priv EXCEPT !.ssl = c]
  BY <1>2 DEF Shape
<1>4. v.sk.fd = w.sk.fd /\ DOMAIN v.sk = DOMAIN w.sk
  BY <1>2 DEF Shape
<1>5. DOMAIN v = DOMAIN w /\ v.fds = w.fds /\ v.heap = w.heap /\ v.file = w.file /\ v.bad = w.bad
  BY <1>1 DEF Shape
<1> QED BY <1>3, <1>4, <1>5 DEF Shape

\* A new object is one that nobody owns.
LEMMA ObjectFields ==
    ASSUME NEW w, Shape(w), IsFiniteSet(w.heap), Cardinality(w.heap) < MaxHandles
    PROVE  LET v == WithObject(w)  h == FreeHandle(w.heap) IN
           /\ Shape(v) /\ v.sk = w.sk /\ v.fds = w.fds /\ v.file = w.file /\ v.bad = w.bad
           /\ v.heap = w.heap \cup {h} /\ h \notin w.heap /\ h # Invalid
           /\ IsFiniteSet(v.heap) /\ Cardinality(v.heap) = Cardinality(w.heap) + 1
<1> DEFINE v == WithObject(w)
           h == FreeHandle(w.heap)
<1>1. h \notin w.heap /\ h # Invalid BY FreeHandleNew
<1> HIDE DEF h
<1>2. v = [w EXCEPT !.heap = @ \cup {h}] BY DEF WithObject, h
<1>3. /\ Shape(v) /\ v.sk = w.sk /\ v.fds = w.fds /\ v.file = w.file /\ v.bad = w.bad
      /\ v.heap = w.heap \cup {h}
  BY <1>2 DEF Shape
<1>4. IsFiniteSet(v.heap) /\ Cardinality(v.heap) = Cardinality(w.heap) + 1
  BY <1>1, <1>3, FS_AddElement
<1> QED BY <1>1, <1>3, <1>4 DEF h

\* A handshake ends, is continued later or breaks the socket.
LEMMA HandshakeKeeps ==
    ASSUME NEW w, NEW F, NEW H, Owns(w, F, H), NEW st, NEW fail
    PROVE  Owns(Handshake(w, st, fail), F, H)
<1> DEFINE v == [w EXCEPT !.sk.priv.conn = TRUE]
<1>1. Shape(w) BY DEF Owns
<1>2. v.sk = [w.sk EXCEPT !.priv.conn = TRUE] BY <1>1 DEF Shape
<1>3. v.sk.priv = [w.sk.priv EXCEPT !.conn = TRUE] /\ v.sk.fd = w.sk.fd /\ DOMAIN v.sk = DOMAIN w.sk
  BY <1>1, <1>2 DEF Shape
<1>4. DOMAIN v = DOMAIN w /\ v.fds = w.fds /\ v.heap = w.heap /\ v.file = w.file /\ v.bad = w.bad
  BY <1>1 DEF Shape
<1>5. /\ v.sk.priv.id = w.sk.priv.id /\ v.sk.priv.ctx = w.sk.priv.ctx /\ v.sk.priv.ssl = w.sk.priv.ssl
      /\ DOMAIN v.sk.priv = DOMAIN w.sk.priv
  BY <1>1, <1>3 DEF Shape
<1> HIDE DEF v
<1>6. Own(v.sk) = Own(w.sk) BY <1>5 DEF Own
<1>7. Shape(v) BY <1>1, <1>3, <1>4, <1>5 DEF Shape
<1>8. Owns(v, F, H) BY <1>3, <1>4, <1>5, <1>6, <1>7 DEF Owns
<1>9. /\ Owns(Broken(w, "INVSSL"), F, H) /\ Owns(Broken(w, st), F, H) /\ Owns(Status(w, fail), F, H)
  BY BrokenKeeps, StatusKeeps
<1>10. Handshake(w, st, fail) \in {Broken(w, "INVSSL"), v, Status(w, fail), Broken(w, st)}
  BY DEF Handshake, v
<1> QED BY <1>8, <1>9, <1>10

\* The context of a listening socket belongs to it, or the socket is broken.
LEMMA ServerKeeps ==
    ASSUME NEW w, NEW F, NEW H, Setup(w, F, H), IsOpen(w), Has(w, "SSL"), NEW fail
    PROVE  Owns(XSock_InitSSLServer(w, fail), F, H)
<1> USE SockAssumption
<1> DEFINE ctx == FreeHandle(w.heap)
           o == WithObject(w)
           v == XSock_SetSSLCTX(o, ctx)
<1>1. Owns(w, F, H) /\ Fresh(w) /\ w.sk.priv.id # Invalid BY DEF Setup, Fresh
<1>2. Shape(w) /\ IsFiniteSet(w.heap) BY <1>1 DEF Owns
<1>3. Cardinality(w.heap) < MaxHandles
  BY <1>1, <1>2, FS_CardinalityType DEF Fresh
<1>4. /\ Shape(o) /\ o.sk = w.sk /\ o.fds = w.fds /\ o.file = w.file /\ o.bad = w.bad
      /\ o.heap = w.heap \cup {ctx} /\ ctx \notin w.heap /\ ctx # Invalid /\ IsFiniteSet(o.heap)
  BY <1>2, <1>3, ObjectFields
<1> HIDE DEF o, ctx
<1>5. /\ Shape(v) /\ v.sk.fd = w.sk.fd /\ v.sk.priv.id = w.sk.priv.id
      /\ v.sk.priv.ctx = ctx /\ v.sk.priv.ssl = Invalid
      /\ v.fds = w.fds /\ v.heap = w.heap \cup {ctx} /\ v.file = w.file /\ v.bad = w.bad
  BY <1>1, <1>4, SetCtxFields DEF Fresh
<1> HIDE DEF v
<1>6. Own(v.sk) = Own(w.sk) \cup {ctx} BY <1>1, <1>4, <1>5 DEF Own, Fresh
<1>7. v.heap = H \cup Own(v.sk) /\ Own(v.sk) \cap H = {} BY <1>1, <1>4, <1>5, <1>6 DEF Owns
<1>8. IsFiniteSet(v.heap) BY <1>4, <1>5
<1>9. Owns(v, F, H) BY <1>1, <1>5, <1>7, <1>8 DEF Owns, IsOpen
<1>10. Owns(Broken(w, "SSLMET"), F, H) /\ Owns(Broken(w, "SSLCTX"), F, H) BY <1>1, BrokenKeeps
<1>11. XSock_InitSSLServer(w, fail) \in {Broken(w, "SSLMET"), Broken(w, "SSLCTX"), v}
  BY <1>1 DEF XSock_InitSSLServer, v, o, ctx
<1> QED BY <1>9, <1>10, <1>11

\* Context and connection of a client belong to it, or are freed.
LEMMA ClientKeeps ==
    ASSUME NEW w, NEW F, NEW H, Setup(w, F, H), IsOpen(w), Has(w, "SSL"), NEW fail
    PROVE  Owns(XSock_InitSSLClient(w, fail), F, H)
<1> USE SockAssumption
<1> DEFINE ctx == FreeHandle(w.heap)
           w1 == WithObject(w)
           ssl == FreeHandle(w1.heap)
           w2 == WithObject(w1)
           f1 == Freed(w1, {ctx})
           f2 == Freed(w2, {ssl, ctx})
           u == XSock_SetSSLCTX(w2, ctx)
           v == XSock_SetSSL(u, ssl)
<1>1. Owns(w, F, H) /\ Fresh(w) /\ w.sk.priv.id # Invalid BY DEF Setup, Fresh
<1>2. Shape(w) /\ IsFiniteSet(w.heap) BY <1>1 DEF Owns
<1>3. Cardinality(w.heap) < MaxHandles /\ Cardinality(w.heap) + 1 < MaxHandles
  BY <1>1, <1>2, FS_CardinalityType DEF Fresh
<1>4. /\ Shape(w1) /\ w1.sk = w.sk /\ w1.fds = w.fds /\ w1.file = w.file /\ w1.bad = w.bad
      /\ w1.heap = w.heap \cup {ctx} /\ ctx \notin w.heap /\ ctx # Invalid
      /\ IsFiniteSet(w1.heap) /\ Cardinality(w1.heap) = Cardinality(w.heap) + 1
  BY <1>2, <1>3, ObjectFields
<1> HIDE DEF w1, ctx
<1>5. /\ Shape(w2) /\ w2.sk = w.sk /\ w2.fds = w.fds /\ w2.file = w.file /\ w2.bad = w.bad
      /\ w2.heap = w.heap \cup {ctx, ssl} /\ ssl \notin w.heap /\ ssl # Invalid
      /\ IsFiniteSet(w2.heap)
  <2>1. Cardinality(w1.heap) < MaxHandles BY <1>3, <1>4
  <2>2. /\ Shape(w2) /\ w2.sk = w1.sk /\ w2.fds = w1.fds /\ w2.file = w1.file /\ w2.bad = w1.bad
        /\ w2.heap = w1.heap \cup {ssl} /\ ssl \notin w1.heap /\ ssl # Invalid /\ IsFiniteSet(w2.heap)
    BY <1>4, <2>1, ObjectFields
  <2> QED BY <1>4, <2>2
<1> HIDE DEF w2, ssl
<1>6. Owns(f1, F, H)
  <2>1. /\ DOMAIN f1 = DOMAIN w1 /\ f1.sk = w1.sk /\ f1.fds = w1.fds /\ f1.file = w1.file
        /\ f1.heap = w1.heap \ {ctx} /\ f1.bad = w1.bad \cup ({ctx} \ ({Invalid} \cup w1.heap))
    BY <1>4 DEF Freed, Shape
  <2> HIDE DEF f1
  <2>2. f1.heap = w.heap /\ f1.bad = {} BY <1>1, <1>4, <2>1 DEF Owns
  <2> QED BY <1>1, <1>4, <2>1, <2>2 DEF Owns, Shape
<1>7. Owns(f2, F, H)
  <2>1. /\ DOMAIN f2 = DOMAIN w2 /\ f2.sk = w2.sk /\ f2.fds = w2.fds /\ f2.file = w2.file
        /\ f2.heap = w2.heap \ {ssl, ctx} /\ f2.bad = w2.bad \cup ({ssl, ctx} \ ({Invalid} \cup w2.heap))
    BY <1>5 DEF Freed, Shape
  <2> HIDE DEF f2
  <2>2. f2.heap = w.heap /\ f2.bad = {} BY <1>1, <1>4, <1>5, <2>1 DEF Owns
  <2> QED BY <1>1, <1>5, <2>1, <2>2 DEF Owns, Shape
<1>8. /\ Shape(u) /\ u.sk.fd = w.sk.fd /\ u.sk.priv.id = w.sk.priv.id
      /\ u.sk.priv.ctx = ctx
      /\ u.fds = w.fds /\ u.heap = w2.heap /\ u.file = w.file /\ u.bad = w.bad
  BY <1>1, <1>5, SetCtxFields
<1> HIDE DEF u
<1>9. /\ Shape(v) /\ v.sk.fd = w.sk.fd /\ v.sk.priv.id = w.sk.priv.id
      /\ v.sk.priv.ctx = ctx /\ v.sk.priv.ssl = ssl
      /\ v.fds = w.fds /\ v.heap = w2.heap /\ v.file = w.file /\ v.bad = w.bad
  BY <1>1, <1>8, SetSSLFields
<1> HIDE DEF v
<1>10. Own(v.sk) = Own(w.sk) \cup {ctx, ssl} BY <1>1, <1>4, <1>5, <1>9 DEF Own, Fresh
<1>11. v.heap = H \cup Own(v.sk) /\ Own(v.sk) \cap H = {} BY <1>1, <1>4, <1>5, <1>9, <1>10 DEF Owns
<1>12. Owns(v, F, H) BY <1>1, <1>5, <1>9, <1>11 DEF Owns, IsOpen
<1>13. /\ Owns(Broken(w, "SSLMET"), F, H) /\ Owns(Broken(w, "SSLCTX"), F, H)
       /\ Owns(Broken(f1, "SSLNEW"), F, H) /\ Owns(Broken(f2, "SSLCNT"), F, H)
  BY <1>1, <1>6, <1>7, BrokenKeeps
<1>14. Owns(Handshake(v, "SSLCNT", fail), F, H) BY <1>12, HandshakeKeeps
<1>15. XSock_InitSSLClient(w, fail) \in
         {Broken(w, "SSLMET"), Broken(w, "SSLCTX"), Broken(f1, "SSLNEW"), Broken(f2, "SSLCNT"),
          Handshake(v, "SSLCNT", fail)}
  BY DEF XSock_InitSSLClient, f1, f2, u, v, w1, w2, ctx, ssl
<1> QED BY <1>13, <1>14, <1>15

\* Setting up keeps the owner, whichever call fails.
LEMMA StreamKeeps ==
    ASSUME NEW w0, NEW F, NEW H, Setup(w0, F, H), NEW fail
    PROVE  Owns(XSock_SetupStream(w0, fail), F, H)
<1> DEFINE w == XSock_Check(w0)
           bound == XSock_Bind(w, fail)
           heard == IF IsOpen(bound) THEN Call(bound, "listen", "LISTEN", fail) ELSE bound
           joined == Call(w, "connect", "CONNECT", fail)
<1>1. Setup(w, F, H) BY CheckSetup
<1> HIDE DEF w
<1>2. CASE ~IsOpen(w)
  <2>1. XSock_SetupStream(w0, fail) = w BY <1>2 DEF XSock_SetupStream, w
  <2> QED BY <1>1, <2>1 DEF Setup
<1>3. CASE IsOpen(w)
  <2>1. Setup(bound, F, H) /\ (IsOpen(bound) => bound.sk.flags = w.sk.flags) BY <1>1, <1>3, BindSetup
  <2> HIDE DEF bound
  <2>2. Setup(heard, F, H) /\ (IsOpen(heard) => heard.sk.flags = w.sk.flags) BY <2>1, CallSetup
  <2>3. Setup(joined, F, H) /\ (IsOpen(joined) => joined.sk.flags = w.sk.flags) BY <1>1, CallSetup
  <2> HIDE DEF heard, joined
  <2>4. IsOpen(heard) /\ Has(w, "SSL") => Owns(XSock_InitSSLServer(heard, fail), F, H)
    BY <2>2, ServerKeeps DEF Has
  <2>5. IsOpen(joined) /\ Has(w, "SSL") => Owns(XSock_InitSSLClient(joined, fail), F, H)
    BY <2>3, ClientKeeps DEF Has
  <2>6. \/ XSock_SetupStream(w0, fail) \in {w, heard, joined}
        \/ IsOpen(heard) /\ Has(w, "SSL") /\ XSock_SetupStream(w0, fail) = XSock_InitSSLServer(heard, fail)
        \/ IsOpen(joined) /\ Has(w, "SSL") /\ XSock_SetupStream(w0, fail) = XSock_InitSSLClient(joined, fail)
    BY <1>3 DEF XSock_SetupStream, w, bound, heard, joined
  <2> QED BY <1>1, <2>2, <2>3, <2>4, <2>5, <2>6 DEF Setup
<1> QED BY <1>2, <1>3

LEMMA DgramKeeps ==
    ASSUME NEW w0, NEW F, NEW H, Setup(w0, F, H), NEW fail
    PROVE  Owns(XSock_SetupDgram(w0, fail), F, H)
<1> DEFINE w == XSock_Check(w0)
           reused == IF Has(w, "REUSEADDR") THEN w ELSE SetOption(w, fail)
           bound == IF IsOpen(reused) THEN XSock_Bind(reused, fail) ELSE reused
           called == Call(w, "connect", "CONNECT", fail)
           cast == Call(w, "option", "SETOPT", fail)
           member == XSock_AddMembership(bound, fail)
<1>1. Setup(w, F, H) BY CheckSetup
<1> HIDE DEF w
<1>2. Setup(reused, F, H) BY <1>1, OptionSetup
<1> HIDE DEF reused
<1>3. Setup(bound, F, H) BY <1>2, BindSetup
<1> HIDE DEF bound
<1>4. Setup(called, F, H) /\ Setup(cast, F, H) BY <1>1, CallSetup
<1>5. Setup(member, F, H) BY <1>3, CheckSetup, CallSetup DEF XSock_AddMembership
<1> HIDE DEF called, cast, member
<1>6. XSock_SetupDgram(w0, fail) \in {w, called, cast, member, bound}
  BY DEF XSock_SetupDgram, w, reused, bound, called, cast, member
<1> QED BY <1>1, <1>3, <1>4, <1>5, <1>6 DEF Setup

LEMMA AddrSetup ==
    ASSUME NEW w, NEW F, NEW H, Setup(w, F, H), NEW fail
    PROVE  Setup(XSock_SetupAddr(w, fail), F, H)
<1>1. Setup(Broken(w, "ADDR"), F, H) BY BrokenSetup DEF Setup
<1>2. Setup(XSock_Check(w), F, H) BY CheckSetup
<1>3. Setup(Call(XSock_Check(w), "reuse", "SETOPT", fail), F, H) BY <1>2, CallSetup
<1> QED BY <1>1, <1>3 DEF XSock_SetupAddr

\* XSock_Init of a structure that owns nothing: at most the private part is new.
Begun(w, F, H) ==
    /\ Owns(w, F, H) /\ w.sk.fd = Invalid /\ w.sk.name = "final"
    /\ Has(w, "SSL") => w.sk.priv.id # Invalid
    /\ Cardinality(w.heap) + 2 <= MaxHandles

LEMMA InitBegun ==
    ASSUME NEW w0, NEW F, NEW H, Owns(w0, F, H), w0.sk.fd = Invalid, w0.sk.priv = NoPriv,
           Cardinality(w0.heap) + 3 <= MaxHandles, NEW F0, NEW fail
    PROVE  Begun(XSock_Init(w0, F0, fail).w, F, H)
<1> USE SockAssumption
<1> DEFINE G == XSock_GetPrefredSSL(XFlags_Adjust(F0))
           k == [ClosedSock EXCEPT !.status = w0.sk.status]
           w == [w0 EXCEPT !.sk = k]
           h == FreeHandle(w.heap)
           o == WithObject(w)
           priv == [o EXCEPT !.sk.priv.id = h]
           v == IF "SSL" \in G THEN priv ELSE w
           st == IF SockType(G) = "NONE" THEN "SUPPORT" ELSE "NONE"
           e == [v EXCEPT !.sk.flags = G, !.sk.status = st]
<1>0. /\ DOMAIN NoPriv = {"id", "ctx", "ssl", "conn"}
      /\ NoPriv.id = Invalid /\ NoPriv.ctx = Invalid /\ NoPriv.ssl = Invalid
  BY DEF NoPriv
<1>1. /\ DOMAIN k = {"fd", "flags", "status", "priv", "name"}
      /\ k.fd = Invalid /\ k.priv = NoPriv /\ k.flags = {} /\ k.name = "final"
  BY DEF ClosedSock
<1> HIDE DEF k
<1>2. Shape(w0) /\ IsFiniteSet(w0.heap) /\ Cardinality(w0.heap) \in Nat
  BY FS_CardinalityType DEF Owns
<1>3. /\ Shape(w) /\ w.sk = k /\ w.fds = w0.fds /\ w.heap = w0.heap /\ w.file = w0.file /\ w.bad = w0.bad
  BY <1>0, <1>1, <1>2 DEF Shape
<1> HIDE DEF w
<1>4. Own(w0.sk) = {} /\ Own(w.sk) = {} BY <1>0, <1>1, <1>3 DEF Own
<1>5. Owns(w, F, H) BY <1>0, <1>1, <1>3, <1>4 DEF Owns
<1>6. Begun(w, F, H) BY <1>1, <1>2, <1>3, <1>5 DEF Begun, Has
<1>7. \A s : Begun(Status(w, s), F, H)
  <2> SUFFICES ASSUME NEW s PROVE Begun(Status(w, s), F, H) OBVIOUS
  <2> QED BY <1>3, <1>6, StatusFields, StatusKeeps DEF Begun, Has
<1>8. /\ Shape(o) /\ o.sk = w.sk /\ o.fds = w.fds /\ o.file = w.file /\ o.bad = w.bad
      /\ o.heap = w.heap \cup {h} /\ h \notin w.heap /\ h # Invalid
      /\ IsFiniteSet(o.heap) /\ Cardinality(o.heap) = Cardinality(w.heap) + 1
  BY <1>2, <1>3, ObjectFields
<1> HIDE DEF o, h
<1>9. /\ priv.sk.priv = [NoPriv EXCEPT !.id = h] /\ priv.sk.fd = Invalid /\ priv.sk.name = "final"
      /\ DOMAIN priv = DOMAIN o /\ DOMAIN priv.sk = DOMAIN o.sk
      /\ priv.fds = w.fds /\ priv.heap = o.heap /\ priv.file = w.file /\ priv.bad = w.bad
  <2>1. priv.sk = [o.sk EXCEPT !.priv.id = h] BY <1>8 DEF Shape
  <2>2. /\ DOMAIN priv = DOMAIN o
        /\ priv.fds = w.fds /\ priv.heap = o.heap /\ priv.file = w.file /\ priv.bad = w.bad
    BY <1>8 DEF Shape
  <2>3. o.sk = k BY <1>3, <1>8
  <2> QED BY <1>1, <2>1, <2>2, <2>3
<1>10. /\ DOMAIN priv.sk.priv = DOMAIN NoPriv
       /\ priv.sk.priv.id = h /\ priv.sk.priv.ctx = Invalid /\ priv.sk.priv.ssl = Invalid
  BY <1>0, <1>9
<1> HIDE DEF priv
<1>11. Shape(priv) BY <1>0, <1>8, <1>9, <1>10 DEF Shape
<1>12. Own(priv.sk) = {h} BY <1>8, <1>10 DEF Own
<1>13. Owns(priv, F, H) /\ priv.sk.priv.id # Invalid /\ Cardinality(priv.heap) + 2 <= MaxHandles
  <2>1. w.fds = F /\ w.heap = H BY <1>1, <1>3, <1>4, <1>5 DEF Owns
  <2>2. priv.heap = H \cup Own(priv.sk) /\ Own(priv.sk) \cap H = {}
    BY <1>8, <1>9, <1>12, <2>1
  <2>3. Cardinality(priv.heap) + 2 <= MaxHandles BY <1>2, <1>3, <1>8, <1>9
  <2>4. IsFiniteSet(priv.heap) /\ IsFiniteSet(priv.fds) BY <1>5, <1>8, <1>9 DEF Owns
  <2>5. priv.fds = F \cup ({priv.sk.fd} \ {Invalid}) /\ priv.sk.fd \notin F
    BY <1>5, <1>9, <2>1 DEF Owns
  <2>6. Owns(priv, F, H) BY <1>5, <1>9, <1>10, <1>11, <2>2, <2>4, <2>5 DEF Owns
  <2> QED BY <1>8, <1>10, <2>3, <2>6
<1>14. /\ Owns(v, F, H) /\ v.sk.fd = Invalid /\ v.sk.name = "final" /\ Cardinality(v.heap) + 2 <= MaxHandles
       /\ "SSL" \in G => v.sk.priv.id # Invalid
  BY <1>6, <1>9, <1>13 DEF Begun
<1> HIDE DEF v, G, st
<1>15. Shape(v) BY <1>14 DEF Owns
<1>16. /\ e.sk = [v.sk EXCEPT !.flags = G, !.status = st]
       /\ DOMAIN e = DOMAIN v
       /\ e.fds = v.fds /\ e.heap = v.heap /\ e.file = v.file /\ e.bad = v.bad
  BY <1>15 DEF Shape
<1>17. /\ DOMAIN e.sk = DOMAIN v.sk /\ e.sk.fd = v.sk.fd /\ e.sk.priv = v.sk.priv
       /\ e.sk.name = v.sk.name /\ e.sk.flags = G
  BY <1>15, <1>16 DEF Shape
<1> HIDE DEF e
<1>18. Own(e.sk) = Own(v.sk) BY <1>17 DEF Own
<1>19. Shape(e) BY <1>15, <1>16, <1>17 DEF Shape
<1>20. Begun(e, F, H) BY <1>14, <1>16, <1>17, <1>18, <1>19 DEF Owns, Begun, Has
<1>21. XSock_Init(w0, F0, fail).w \in {Status(w, "FLAGS"), Status(w, "ALLOC"), e}
  BY DEF XSock_Init, e, st, v, priv, o, h, w, k, G
<1> QED BY <1>7, <1>20, <1>21

\* The descriptor that socket or accept returns.
LEMMA OpenedSetup ==
    ASSUME NEW w, NEW F, NEW H, Begun(w, F, H), Cardinality(w.fds) < MaxHandles
    PROVE  LET h == FreeHandle(w.fds)  v == [w EXCEPT !.sk.fd = h, !.fds = @ \cup {h}] IN
           Setup(v, F, H) /\ IsOpen(v) /\ v.sk.priv = w.sk.priv
<1> DEFINE h == FreeHandle(w.fds)
           v == [w EXCEPT !.sk.fd = h, !.fds = @ \cup {h}]
<1>1. Shape(w) /\ IsFiniteSet(w.fds) /\ w.fds = F /\ Owns(w, F, H) BY DEF Begun, Owns
<1>2. h \notin w.fds /\ h # Invalid BY <1>1, FreeHandleNew
<1> HIDE DEF h
<1>3. /\ v.sk = [w.sk EXCEPT !.fd = h] /\ DOMAIN v = DOMAIN w
      /\ v.fds = w.fds \cup {h} /\ v.heap = w.heap /\ v.file = w.file /\ v.bad = w.bad
  BY <1>1 DEF Shape
<1>4. /\ DOMAIN v.sk = DOMAIN w.sk /\ v.sk.fd = h /\ v.sk.priv = w.sk.priv
      /\ v.sk.name = w.sk.name /\ v.sk.flags = w.sk.flags
  BY <1>1, <1>3 DEF Shape
<1> HIDE DEF v
<1>5. Own(v.sk) = Own(w.sk) BY <1>4 DEF Own
<1>6. IsFiniteSet(v.fds) BY <1>1, <1>3, FS_AddElement
<1>7. Shape(v) BY <1>1, <1>3, <1>4 DEF Shape
<1>8. v.fds = F \cup ({v.sk.fd} \ {Invalid}) /\ v.sk.fd \notin F BY <1>1, <1>2, <1>3, <1>4
<1>9. Owns(v, F, H) BY <1>1, <1>2, <1>3, <1>4, <1>5, <1>6, <1>7, <1>8 DEF Owns
<1>10. Fresh(v) BY <1>1, <1>3, <1>4 DEF Begun, Owns, Fresh, Has
<1> QED BY <1>2, <1>4, <1>9, <1>10 DEF Setup, IsOpen, v, h

\* XSock_Create: the new socket belongs to its structure, or everything was released.
LEMMA CreateKeeps ==
    ASSUME NEW w0, NEW F, NEW H, Owns(w0, F, H), w0.sk.fd = Invalid, w0.sk.priv = NoPriv,
           Cardinality(w0.heap) + 3 <= MaxHandles, Cardinality(w0.fds) < MaxHandles,
           NEW F0, NEW fail
    PROVE  Owns(XSock_CreateAdv(w0, F0, fail), F, H)
<1> DEFINE i == XSock_Init(w0, F0, fail)
           w == i.w
           made == [w EXCEPT !.sk.fd = FreeHandle(w.fds), !.fds = @ \cup {FreeHandle(w.fds)}]
           addr == XSock_SetupAddr(made, fail)
           up == CASE SockType(w.sk.flags) = "STREAM" -> XSock_SetupStream(addr, fail)
                   [] SockType(w.sk.flags) = "DGRAM" -> XSock_SetupDgram(addr, fail)
                   [] OTHER -> addr
<1>1. Begun(w, F, H) BY InitBegun
<1> HIDE DEF i
<1>2. Owns(w, F, H) /\ Owns(Status(w, "ARGS"), F, H) /\ Owns(Status(w, "CREATE"), F, H)
  BY <1>1, StatusKeeps DEF Begun
<1>3. w.fds = w0.fds BY <1>1 DEF Begun, Owns
<1>4. Setup(made, F, H) BY <1>1, <1>3, OpenedSetup
<1> HIDE DEF made
<1>5. Setup(addr, F, H) BY <1>4, AddrSetup
<1> HIDE DEF addr
<1>6. Owns(XSock_SetupStream(addr, fail), F, H) /\ Owns(XSock_SetupDgram(addr, fail), F, H)
  BY <1>5, StreamKeeps, DgramKeeps
<1>7. Owns(up, F, H) BY <1>5, <1>6 DEF Setup
<1> HIDE DEF up
<1>8. Owns(XSock_NonBlock(up, TRUE, fail), F, H) BY <1>7, NonBlockKeeps
<1>9. XSock_CreateAdv(w0, F0, fail) \in
        {w, Status(w, "ARGS"), Status(w, "CREATE"), addr, XSock_NonBlock(up, TRUE, fail), up}
  BY DEF XSock_CreateAdv, up, addr, made, i
<1> QED BY <1>2, <1>5, <1>7, <1>8, <1>9 DEF Setup

-----------------------------------------------------------------------------
(* Transfers.                                                              *)

\* What a transfer of an open structure may end with.
Fair(w, r, n, F, H) == Owns(r.w, F, H) /\ Truthful(w, r, n)

Told == {"NONE", "WANT_READ", "WANT_WRITE"}

\* The ways in which a transfer ends: it moved k bytes and tells so, it waits, or the socket
\* is broken.
LEMMA MovedFair ==
    ASSUME NEW u, NEW w, NEW F, NEW H, Owns(w, F, H), NEW n, NEW k \in Nat, k > 0
    PROVE  Fair(u, Done(w, k, k), n, F, H)
BY DEF Fair, Done, Truthful

LEMMA WaitFair ==
    ASSUME NEW u, NEW w, NEW F, NEW H, Owns(w, F, H), IsOpen(w), NEW n \in Nat,
           NEW st \in {"WANT_READ", "WANT_WRITE"}, NEW k \in Nat
    PROVE  Fair(u, Done(Status(w, st), k, k), n, F, H)
<1>1. Owns(Status(w, st), F, H) BY StatusKeeps
<1>2. Status(w, st).sk.status = st /\ IsOpen(Status(w, st)) BY StatusFields DEF Owns, IsOpen
<1> QED BY <1>1, <1>2 DEF Fair, Done, Truthful

LEMMA FailFair ==
    ASSUME NEW u, NEW w, NEW F, NEW H, Owns(w, F, H), NEW n \in Nat,
           NEW st, st \notin Told, NEW ret \in {-1, 0}, NEW k
    PROVE  Fair(u, Done(Broken(w, st), ret, k), n, F, H)
<1>1. Owns(Broken(w, st), F, H) /\ ~IsOpen(Broken(w, st)) /\ Broken(w, st).sk.status = st
  BY BrokenKeeps
<1> QED BY <1>1 DEF Fair, Done, Truthful, Told

LEMMA EndFair ==
    ASSUME NEW u, NEW w, NEW F, NEW H, Owns(w, F, H), NEW n \in Nat,
           NEW st, st \notin Told, NEW k \in Nat
    PROVE  Fair(u, Done(Broken(w, st), k, k), n, F, H)
<1>1. Owns(Broken(w, st), F, H) /\ ~IsOpen(Broken(w, st)) /\ Broken(w, st).sk.status = st
  BY BrokenKeeps
<1> QED BY <1>1 DEF Fair, Done, Truthful, Told

\* A connection that OpenSSL gave up.
LEMMA DisconnectedKeeps ==
    ASSUME NEW w, NEW F, NEW H, Owns(w, F, H)
    PROVE  Owns([w EXCEPT !.sk.priv.conn = FALSE], F, H)
<1> DEFINE v == [w EXCEPT !.sk.priv.conn = FALSE]
<1>1. Shape(w) BY DEF Owns
<1>2. v.sk = [w.sk EXCEPT !.priv.conn = FALSE] BY <1>1 DEF Shape
<1>3. v.sk.priv = [w.sk.priv EXCEPT !.conn = FALSE] /\ v.sk.fd = w.sk.fd /\ DOMAIN v.sk = DOMAIN w.sk
  BY <1>1, <1>2 DEF Shape
<1>4. DOMAIN v = DOMAIN w /\ v.fds = w.fds /\ v.heap = w.heap /\ v.file = w.file /\ v.bad = w.bad
  BY <1>1 DEF Shape
<1>5. /\ v.sk.priv.id = w.sk.priv.id /\ v.sk.priv.ctx = w.sk.priv.ctx /\ v.sk.priv.ssl = w.sk.priv.ssl
      /\ DOMAIN v.sk.priv = DOMAIN w.sk.priv
  BY <1>1, <1>3 DEF Shape
<1> HIDE DEF v
<1>6. Own(v.sk) = Own(w.sk) BY <1>5 DEF Own
<1>7. Shape(v) BY <1>1, <1>3, <1>4, <1>5 DEF Shape
<1>8. Owns(v, F, H) BY <1>3, <1>4, <1>5, <1>6, <1>7 DEF Owns
<1> QED BY <1>8 DEF v

LEMMA ReadEndsFair ==
    ASSUME NEW u, NEW w, NEW F, NEW H, Owns(w, F, H), NEW n \in Nat, NEW k \in Nat,
           NEW r \in ReadEnds(w, k) \cup ReadFails(w, k)
    PROVE  Fair(u, r, n, F, H)
<1> DEFINE d == [w EXCEPT !.sk.priv.conn = FALSE]
<1>1. Owns(d, F, H) BY DisconnectedKeeps
<1>2. \A st : Disconnected(w, st) = Broken(d, st) BY DEF Disconnected
<1> HIDE DEF d
<1>3. /\ "EOF" \notin Told /\ "SSLREAD" \notin Told /\ "SSLERR" \notin Told BY DEF Told
<1>4. -1 \in {-1, 0} OBVIOUS
<1>5. Fair(u, Done(Broken(d, "EOF"), k, k), n, F, H) BY <1>1, <1>3, EndFair
<1>6. /\ Fair(u, Done(Broken(d, "SSLREAD"), -1, k), n, F, H)
      /\ Fair(u, Done(Broken(d, "SSLERR"), -1, k), n, F, H)
      /\ Fair(u, Done(Broken(w, "SSLREAD"), -1, k), n, F, H)
  BY <1>1, <1>3, <1>4, FailFair
<1>7. \/ r = Done(Broken(d, "EOF"), k, k)
      \/ r = Done(Broken(d, "SSLREAD"), -1, k)
      \/ r = Done(Broken(d, "SSLERR"), -1, k)
      \/ r = Done(Broken(w, "SSLREAD"), -1, k)
  BY <1>2 DEF ReadEnds, ReadFails
<1> QED BY <1>5, <1>6, <1>7

LEMMA WriteFailsFair ==
    ASSUME NEW u, NEW w, NEW F, NEW H, Owns(w, F, H), NEW n \in Nat, NEW k,
           NEW r \in WriteFails(w, k)
    PROVE  Fair(u, r, n, F, H)
<1> DEFINE d == [w EXCEPT !.sk.priv.conn = FALSE]
<1>1. Owns(d, F, H) BY DisconnectedKeeps
<1>2. \A st : Disconnected(w, st) = Broken(d, st) BY DEF Disconnected
<1> HIDE DEF d
<1>3. /\ "SYSCALL" \notin Told /\ "SSLWRITE" \notin Told /\ "SSLERR" \notin Told BY DEF Told
<1>4. \A ret \in {-1, 0} : /\ Fair(u, Done(Broken(d, "SYSCALL"), ret, k), n, F, H)
                           /\ Fair(u, Done(Broken(d, "SSLERR"), ret, k), n, F, H)
                           /\ Fair(u, Done(Broken(w, "SSLWRITE"), ret, k), n, F, H)
  BY <1>1, <1>3, FailFair
<1>5. \E ret \in {-1, 0} : \/ r = Done(Broken(d, "SYSCALL"), ret, k)
                           \/ r = Done(Broken(d, "SSLERR"), ret, k)
                           \/ r = Done(Broken(w, "SSLWRITE"), ret, k)
  BY <1>2 DEF WriteFails
<1> QED BY <1>4, <1>5

\* A repeated call leaves the structure alike.
LEMMA RepeatedKeeps ==
    ASSUME NEW w, NEW F, NEW H, Owns(w, F, H), NEW st, NEW v \in Repeated(w, st)
    PROVE  Owns(v, F, H)
<1>1. v \in {w, Status(w, st)} BY DEF Repeated
<1> QED BY <1>1, StatusKeeps

LEMMA ReadLoopFair ==
    ASSUME NEW u, NEW w, NEW F, NEW H, Owns(w, F, H), IsOpen(w), NEW n \in Nat, n > 0,
           NEW exact, NEW r \in SSLReadLoop(w, n, exact)
    PROVE  Fair(u, r, n, F, H)
<1> DEFINE K == IF exact /\ ~Has(w, "NB") THEN {n} ELSE 1..n
           W(k) == {Done(Status(w, "WANT_WRITE"), k, k)}
                   \cup (IF Has(w, "NB") THEN {Done(Status(w, "WANT_READ"), k, k)} ELSE {})
<1>1. \/ \E v \in Repeated(w, "WANT_READ"), k \in K : r = Done(v, k, k)
      \/ \E k \in 0..(n - 1) : r \in ReadEnds(w, k) \cup ReadFails(w, k) \/ r \in W(k)
  BY DEF SSLReadLoop
<1>2. CASE \E v \in Repeated(w, "WANT_READ"), k \in K : r = Done(v, k, k)
  <2>1. PICK v \in Repeated(w, "WANT_READ"), k \in K : r = Done(v, k, k) BY <1>2
  <2>2. k \in Nat /\ k > 0 OBVIOUS
  <2>3. Owns(v, F, H) BY RepeatedKeeps
  <2> QED BY <2>1, <2>2, <2>3, MovedFair
<1>3. CASE \E k \in 0..(n - 1) : r \in ReadEnds(w, k) \cup ReadFails(w, k) \/ r \in W(k)
  <2>1. PICK k \in 0..(n - 1) : r \in ReadEnds(w, k) \cup ReadFails(w, k) \/ r \in W(k) BY <1>3
  <2>2. k \in Nat OBVIOUS
  <2>3. r \in ReadEnds(w, k) \cup ReadFails(w, k) => Fair(u, r, n, F, H) BY <2>2, ReadEndsFair
  <2>4. \A st \in {"WANT_READ", "WANT_WRITE"} : Fair(u, Done(Status(w, st), k, k), n, F, H)
    BY <2>2, WaitFair
  <2>5. r \in W(k) => \E st \in {"WANT_READ", "WANT_WRITE"} : r = Done(Status(w, st), k, k) OBVIOUS
  <2> QED BY <2>1, <2>3, <2>4, <2>5
<1> QED BY <1>1, <1>2, <1>3

LEMMA WriteLoopFair ==
    ASSUME NEW u, NEW w, NEW F, NEW H, Owns(w, F, H), IsOpen(w), NEW n \in Nat, n > 0,
           NEW r \in SSLWriteLoop(w, n)
    PROVE  Fair(u, r, n, F, H)
<1> DEFINE K == IF Has(w, "NB") THEN 1..n ELSE {n}
           L == IF Has(w, "NB") THEN {0} ELSE 0..(n - 1)
           W(k) == {Done(Status(w, "WANT_READ"), k, k)}
                   \cup (IF Has(w, "NB") THEN {Done(Status(w, "WANT_WRITE"), k, k)} ELSE {})
<1>1. \/ \E v \in Repeated(w, "WANT_WRITE"), k \in K : r = Done(v, k, k)
      \/ \E k \in L : r \in WriteFails(w, k) \/ r \in W(k)
  BY DEF SSLWriteLoop
<1>2. CASE \E v \in Repeated(w, "WANT_WRITE"), k \in K : r = Done(v, k, k)
  <2>1. PICK v \in Repeated(w, "WANT_WRITE"), k \in K : r = Done(v, k, k) BY <1>2
  <2>2. k \in Nat /\ k > 0 OBVIOUS
  <2>3. Owns(v, F, H) BY RepeatedKeeps
  <2> QED BY <2>1, <2>2, <2>3, MovedFair
<1>3. CASE \E k \in L : r \in WriteFails(w, k) \/ r \in W(k)
  <2>1. PICK k \in L : r \in WriteFails(w, k) \/ r \in W(k) BY <1>3
  <2>2. k \in Nat OBVIOUS
  <2>3. r \in WriteFails(w, k) => Fair(u, r, n, F, H) BY <2>2, WriteFailsFair
  <2>4. \A st \in {"WANT_READ", "WANT_WRITE"} : Fair(u, Done(Status(w, st), k, k), n, F, H)
    BY <2>2, WaitFair
  <2>5. r \in W(k) => \E st \in {"WANT_READ", "WANT_WRITE"} : r = Done(Status(w, st), k, k) OBVIOUS
  <2> QED BY <2>1, <2>3, <2>4, <2>5
<1> QED BY <1>1, <1>2, <1>3

LEMMA PlainFair ==
    ASSUME NEW u, NEW w, NEW F, NEW H, Owns(w, F, H), NEW n \in Nat,
           NEW st, st \notin Told, NEW reads, NEW r \in PlainIO(w, n, st, reads)
    PROVE  Fair(u, r, n, F, H)
<1>1. "EOF" \notin Told BY DEF Told
<1>2. -1 \in {-1, 0} /\ 0 \in {-1, 0} OBVIOUS
<1>3. \A k \in 1..n : Fair(u, Done(w, k, k), n, F, H)
  <2> SUFFICES ASSUME NEW k \in 1..n PROVE Fair(u, Done(w, k, k), n, F, H) OBVIOUS
  <2>1. k \in Nat /\ k > 0 OBVIOUS
  <2> QED BY <2>1, MovedFair
<1>4. /\ Fair(u, Done(Broken(w, st), -1, 0), n, F, H) /\ Fair(u, Done(Broken(w, st), 0, 0), n, F, H)
      /\ Fair(u, Done(Broken(w, "EOF"), 0, 0), n, F, H)
  BY <1>1, <1>2, FailFair
<1>5. \/ \E k \in 1..n : r = Done(w, k, k)
      \/ r = Done(Broken(w, st), -1, 0)
      \/ r = Done(Broken(w, st), 0, 0)
      \/ r = Done(Broken(w, "EOF"), 0, 0)
  BY DEF PlainIO
<1> QED BY <1>3, <1>4, <1>5

LEMMA ChunkFair ==
    ASSUME NEW u, NEW w, NEW F, NEW H, Owns(w, F, H), NEW n \in Nat, n > 0,
           NEW st, st \notin Told, NEW reads, NEW r \in ChunkIO(w, n, st, reads)
    PROVE  Fair(u, r, n, F, H)
<1>1. "EOF" \notin Told BY DEF Told
<1>2. -1 \in {-1, 0} /\ 0 \in {-1, 0} OBVIOUS
<1>3. Fair(u, Done(w, n, n), n, F, H) BY MovedFair
<1>4. \A k \in 0..(n - 1) :
         /\ Fair(u, Done(Broken(w, st), -1, k), n, F, H) /\ Fair(u, Done(Broken(w, st), 0, k), n, F, H)
         /\ Fair(u, Done(Broken(w, "EOF"), k, k), n, F, H)
  <2> SUFFICES ASSUME NEW k \in 0..(n - 1)
               PROVE  /\ Fair(u, Done(Broken(w, st), -1, k), n, F, H)
                      /\ Fair(u, Done(Broken(w, st), 0, k), n, F, H)
                      /\ Fair(u, Done(Broken(w, "EOF"), k, k), n, F, H)
    OBVIOUS
  <2>1. k \in Nat OBVIOUS
  <2> QED BY <1>1, <1>2, <2>1, FailFair, EndFair
<1>5. \/ r = Done(w, n, n)
      \/ \E k \in 0..(n - 1) : \/ r = Done(Broken(w, st), -1, k)
                               \/ r = Done(Broken(w, st), 0, k)
                               \/ r = Done(Broken(w, "EOF"), k, k)
  BY DEF ChunkIO
<1> QED BY <1>3, <1>4, <1>5

\* What precedes the loops: a closed socket, nothing asked for, TLS without a connection.
LEMMA TransferFair ==
    ASSUME NEW w, NEW F, NEW H, Owns(w, F, H), NEW n \in Nat, NEW loop,
           n > 0 /\ IsOpen(w) => \A r \in loop : Fair(w, r, n, F, H),
           NEW r \in Transfer(w, n, loop)
    PROVE  Fair(w, r, n, F, H)
<1> DEFINE v == XSock_Check(w)
<1>1. Owns(v, F, H) BY CheckKeeps
<1> HIDE DEF v
<1>2. "SSLINV" \notin Told /\ -1 \in {-1, 0} BY DEF Told
<1>3. Fair(w, Done(Broken(w, "SSLINV"), -1, 0), n, F, H) BY <1>2, FailFair
<1>4. ~IsOpen(w) => Fair(w, Done(v, -1, 0), n, F, H) BY <1>1 DEF Fair, Done, Truthful
<1>5. n = 0 => Fair(w, Done(v, 0, 0), n, F, H) BY <1>1 DEF Fair, Done, Truthful
<1>6. \/ ~IsOpen(w) /\ r = Done(v, -1, 0)
      \/ n = 0 /\ r = Done(v, 0, 0)
      \/ r = Done(Broken(w, "SSLINV"), -1, 0)
      \/ IsOpen(w) /\ n # 0 /\ r \in loop
  BY DEF Transfer, v
<1> QED BY <1>3, <1>4, <1>5, <1>6

LEMMA TransfersFair ==
    ASSUME NEW w, NEW F, NEW H, Owns(w, F, H), NEW n \in Nat,
           NEW r \in XSock_Read(w, n) \cup XSock_RecvChunk(w, n) \cup XSock_Write(w, n) \cup XSock_SendChunk(w, n)
    PROVE  Fair(w, r, n, F, H)
<1> DEFINE v == XSock_Check(w)
           R1 == IF Has(w, "SSL") THEN SSLReadLoop(v, n, FALSE) ELSE PlainIO(v, n, "READ", TRUE)
           R2 == IF Has(w, "SSL") THEN SSLReadLoop(v, n, TRUE) ELSE ChunkIO(v, n, "RECV", TRUE)
           W1 == IF Has(w, "SSL") THEN SSLWriteLoop(v, n) ELSE PlainIO(v, n, "WRITE", FALSE)
           W2 == IF Has(w, "SSL") THEN SSLWriteLoop(v, n) ELSE ChunkIO(v, n, "SEND", FALSE)
<1>1. Owns(v, F, H) /\ (IsOpen(v) <=> IsOpen(w)) BY CheckKeeps
<1>2. r \in Transfer(w, n, R1) \/ r \in Transfer(w, n, R2) \/ r \in Transfer(w, n, W1) \/ r \in Transfer(w, n, W2)
  BY DEF XSock_Read, XSock_RecvChunk, XSock_Write, XSock_SendChunk
<1> HIDE DEF v
<1>3. "READ" \notin Told /\ "RECV" \notin Told /\ "WRITE" \notin Told /\ "SEND" \notin Told BY DEF Told
<1>4. ASSUME n > 0, IsOpen(w), NEW x \in R1 PROVE Fair(w, x, n, F, H)
  BY <1>1, <1>3, <1>4, ReadLoopFair, PlainFair
<1>5. ASSUME n > 0, IsOpen(w), NEW x \in R2 PROVE Fair(w, x, n, F, H)
  BY <1>1, <1>3, <1>5, ReadLoopFair, ChunkFair
<1>6. ASSUME n > 0, IsOpen(w), NEW x \in W1 PROVE Fair(w, x, n, F, H)
  BY <1>1, <1>3, <1>6, WriteLoopFair, PlainFair
<1>7. ASSUME n > 0, IsOpen(w), NEW x \in W2 PROVE Fair(w, x, n, F, H)
  BY <1>1, <1>3, <1>7, WriteLoopFair, ChunkFair
<1> HIDE DEF R1, R2, W1, W2
<1> QED BY <1>2, <1>4, <1>5, <1>6, <1>7, TransferFair

LEMMA CertKeeps ==
    ASSUME NEW w, NEW F, NEW H, Owns(w, F, H), NEW fail
    PROVE  Owns(XSock_SetSSLCert(w, fail), F, H)
<1>1. Owns(XSock_Check(w), F, H) /\ Owns(Broken(w, "SSLINV"), F, H) BY CheckKeeps, BrokenKeeps
<1>2. Owns(Call(XSock_Check(w), "cert", "SSLCRT", fail), F, H) BY <1>1, CallKeeps
<1> QED BY <1>1, <1>2 DEF XSock_SetSSLCert

\* The flags that XSock_Init was given are among those of the structure it accepts.
LEMMA InitFlags ==
    ASSUME NEW w0, NEW F, NEW H, Owns(w0, F, H), NEW F0, NEW fail, XSock_Init(w0, F0, fail).ok
    PROVE  F0 \subseteq XSock_Init(w0, F0, fail).w.sk.flags
<1> DEFINE G == XSock_GetPrefredSSL(XFlags_Adjust(F0))
           k == [ClosedSock EXCEPT !.status = w0.sk.status]
           w == [w0 EXCEPT !.sk = k]
           o == WithObject(w)
           priv == [o EXCEPT !.sk.priv.id = FreeHandle(w.heap)]
           v == IF "SSL" \in G THEN priv ELSE w
           st == IF SockType(G) = "NONE" THEN "SUPPORT" ELSE "NONE"
           e == [v EXCEPT !.sk.flags = G, !.sk.status = st]
           i == XSock_Init(w0, F0, fail)
<1>1. F0 \subseteq G BY DEF XSock_GetPrefredSSL, XFlags_Adjust
<1>2. Shape(w0) BY DEF Owns
<1>3. DOMAIN k = {"fd", "flags", "status", "priv", "name"} BY DEF ClosedSock
<1> HIDE DEF k
<1>4. DOMAIN w = DOMAIN w0 /\ w.sk = k BY <1>2 DEF Shape
<1> HIDE DEF w
<1>5. DOMAIN o = DOMAIN w /\ o.sk = w.sk BY <1>2, <1>4 DEF WithObject, Shape
<1> HIDE DEF o
<1>6. DOMAIN priv = DOMAIN o /\ DOMAIN priv.sk = DOMAIN o.sk BY <1>2, <1>4, <1>5 DEF Shape
<1> HIDE DEF priv
<1>7. DOMAIN v = DOMAIN w0 /\ DOMAIN v.sk = {"fd", "flags", "status", "priv", "name"}
  BY <1>3, <1>4, <1>5, <1>6
<1> HIDE DEF v, st
<1>8. e.sk = [v.sk EXCEPT !.flags = G, !.status = st] BY <1>2, <1>7 DEF Shape
<1>9. e.sk.flags = G BY <1>7, <1>8
<1> HIDE DEF e
<1>10. \/ i = [w |-> Status(w, "FLAGS"), ok |-> FALSE]
       \/ i = [w |-> Status(w, "ALLOC"), ok |-> FALSE]
       \/ i = [w |-> e, ok |-> SockType(G) # "NONE"]
  BY Zenon DEF XSock_Init, e, st, v, priv, o, w, k, G
<1>11. i.w = e
  <2>1. CASE i = [w |-> Status(w, "FLAGS"), ok |-> FALSE] BY <2>1
  <2>2. CASE i = [w |-> Status(w, "ALLOC"), ok |-> FALSE] BY <2>2
  <2>3. CASE i = [w |-> e, ok |-> SockType(G) # "NONE"] BY <2>3
  <2> QED BY <1>10, <2>1, <2>2, <2>3
<1> QED BY <1>1, <1>9, <1>11

\* The connection object of an accepted peer.
LEMMA PeerKeeps ==
    ASSUME NEW w, NEW F, NEW H, Setup(w, F, H), IsOpen(w), w.sk.priv.id # Invalid
    PROVE  Owns(XSock_SetSSL(WithObject(w), FreeHandle(w.heap)), F, H)
<1> USE SockAssumption
<1> DEFINE ssl == FreeHandle(w.heap)
           o == WithObject(w)
           v == XSock_SetSSL(o, ssl)
<1>1. Owns(w, F, H) /\ Fresh(w) BY DEF Setup
<1>2. Shape(w) /\ IsFiniteSet(w.heap) BY <1>1 DEF Owns
<1>3. Cardinality(w.heap) < MaxHandles
  BY <1>1, <1>2, FS_CardinalityType DEF Fresh
<1>4. /\ Shape(o) /\ o.sk = w.sk /\ o.fds = w.fds /\ o.file = w.file /\ o.bad = w.bad
      /\ o.heap = w.heap \cup {ssl} /\ ssl \notin w.heap /\ ssl # Invalid /\ IsFiniteSet(o.heap)
  BY <1>2, <1>3, ObjectFields
<1> HIDE DEF o, ssl
<1>5. /\ Shape(v) /\ v.sk.fd = w.sk.fd /\ v.sk.priv.id = w.sk.priv.id
      /\ v.sk.priv.ssl = ssl /\ v.sk.priv.ctx = Invalid
      /\ v.fds = w.fds /\ v.heap = w.heap \cup {ssl} /\ v.file = w.file /\ v.bad = w.bad
  BY <1>1, <1>4, SetSSLFields DEF Fresh
<1> HIDE DEF v
<1>6. Own(v.sk) = Own(w.sk) \cup {ssl} BY <1>1, <1>4, <1>5 DEF Own, Fresh
<1>7. v.heap = H \cup Own(v.sk) /\ Own(v.sk) \cap H = {} BY <1>1, <1>4, <1>5, <1>6 DEF Owns
<1>8. IsFiniteSet(v.heap) BY <1>4, <1>5
<1>9. Owns(v, F, H) BY <1>1, <1>5, <1>7, <1>8 DEF Owns, IsOpen
<1> QED BY <1>9 DEF v, o, ssl

-----------------------------------------------------------------------------
(* The program.                                                            *)

FdsBut(s) == {sk[t].fd : t \in Socks \ {s}} \ {Invalid}
ObjectsBut(s) == UNION {Own(sk[t]) : t \in Socks \ {s}}

SockFields(k) ==
    /\ DOMAIN k = {"fd", "flags", "status", "priv", "name"}
    /\ DOMAIN k.priv = {"id", "ctx", "ssl", "conn"}

\* SocketsOwned, and that there are finitely many handles in records of the right fields.
SockInv ==
    /\ SocketsOwned
    /\ DOMAIN sk = Socks /\ \A s \in Socks : SockFields(sk[s])
    /\ IsFiniteSet(proc.fds) /\ IsFiniteSet(proc.heap)

\* Every structure owns its part.
LEMMA WorkOwns ==
    ASSUME SockInv, NEW s \in Socks
    PROVE  /\ Owns(Work(s), FdsBut(s), ObjectsBut(s))
           /\ Work(s).sk = sk[s] /\ Work(s).fds = proc.fds /\ Work(s).heap = proc.heap
<1> DEFINE w == Work(s)
           F == FdsBut(s)
           H == ObjectsBut(s)
<1>1. /\ w.sk = sk[s] /\ w.fds = proc.fds /\ w.heap = proc.heap /\ w.file = proc.file /\ w.bad = proc.bad
      /\ DOMAIN w = {"sk", "fds", "heap", "file", "bad"}
  BY DEF Work
<1> HIDE DEF w
<1>2. Shape(w) BY <1>1 DEF Shape, SockInv, SockFields
<1>3. w.fds = F \cup ({w.sk.fd} \ {Invalid}) /\ w.sk.fd \notin F
  BY <1>1 DEF SockInv, SocketsOwned, FdsBut
<1>4. \A t \in Socks : Objects(t) = Own(sk[t]) BY DEF Objects, Own
<1>5. w.heap = H \cup Own(w.sk) BY <1>1, <1>4 DEF SockInv, SocketsOwned, ObjectsBut
<1>6. Own(w.sk) \cap H = {} BY <1>1, <1>4 DEF SockInv, SocketsOwned, ObjectsBut
<1>7. Invalid \notin F /\ Invalid \notin H BY DEF FdsBut, ObjectsBut, Own
<1>8. Owns(w, F, H)
  BY <1>1, <1>2, <1>3, <1>5, <1>6, <1>7 DEF Owns, SockInv, SocketsOwned
<1> QED BY <1>1, <1>8 DEF w

\* A function that kept its part leaves the program in the invariant.
LEMMA CommitKeeps ==
    ASSUME SockInv, NEW s \in Socks, NEW w, Owns(w, FdsBut(s), ObjectsBut(s)),
           DOMAIN sk' = Socks, sk'[s] = w.sk,
           \A t \in Socks \ {s} : SockFields(sk'[t]) /\ sk'[t].fd = sk[t].fd /\ sk'[t].priv = sk[t].priv,
           proc' = [fds |-> w.fds, heap |-> w.heap, file |-> w.file, bad |-> w.bad],
           truth'
    PROVE  SockInv'
<1> DEFINE F == FdsBut(s)
           H == ObjectsBut(s)
<1>1. proc'.fds = w.fds /\ proc'.heap = w.heap /\ proc'.file = w.file /\ proc'.bad = w.bad OBVIOUS
<1>2. \A t \in Socks : Objects(t)' = Own(sk'[t]) BY DEF Objects, Own
<1>3. \A t \in Socks \ {s} : Own(sk'[t]) = Own(sk[t]) BY DEF Own
<1>4. \A t \in Socks : Objects(t) = Own(sk[t]) BY DEF Objects, Own
<1>5. F = {sk'[t].fd : t \in Socks \ {s}} \ {Invalid} BY DEF FdsBut
<1>6. proc'.fds = {sk'[t].fd : t \in Socks} \ {Invalid} BY <1>1, <1>5 DEF Owns
<1>7. proc'.heap = UNION {Own(sk'[t]) : t \in Socks}
  <2>1. w.heap = H \cup Own(sk'[s]) BY DEF Owns
  <2>2. H = UNION {Own(sk[t]) : t \in Socks \ {s}} BY DEF ObjectsBut
  <2> QED BY <1>1, <1>3, <2>1, <2>2
<1>8. \A t, x \in Socks : t # x => Own(sk'[t]) \cap Own(sk'[x]) = {}
  <2>1. \A t \in Socks \ {s} : Own(sk'[t]) \cap Own(sk'[s]) = {}
    BY <1>3 DEF Owns, ObjectsBut
  <2>2. \A t, x \in Socks \ {s} : t # x => Own(sk'[t]) \cap Own(sk'[x]) = {}
    BY <1>3, <1>4 DEF SockInv, SocketsOwned
  <2> QED BY <2>1, <2>2
<1>9. \A t, x \in Socks : t # x => (sk'[t].fd = sk'[x].fd => sk'[t].fd = Invalid)
  <2>1. \A t \in Socks \ {s} : sk'[t].fd = sk'[s].fd => sk'[t].fd = Invalid
    BY DEF Owns, FdsBut
  <2>2. \A t, x \in Socks \ {s} : t # x => (sk'[t].fd = sk'[x].fd => sk'[t].fd = Invalid)
    BY DEF SockInv, SocketsOwned
  <2> QED BY <2>1, <2>2
<1>10. \A t \in Socks : sk'[t].fd = Invalid => sk'[t].priv.ctx = Invalid /\ sk'[t].priv.ssl = Invalid
  BY DEF SockInv, SocketsOwned, Owns
<1>11. SockFields(sk'[s]) BY DEF Owns, Shape, SockFields
<1>12. /\ proc'.bad = {} /\ "tmp" \notin proc'.file /\ IsFiniteSet(proc'.fds) /\ IsFiniteSet(proc'.heap)
  BY <1>1 DEF Owns
<1>13. SocketsOwned'
  BY <1>2, <1>6, <1>7, <1>8, <1>9, <1>10, <1>12 DEF SocketsOwned
<1>14. \A t \in Socks : SockFields(sk'[t]) BY <1>11
<1> QED BY <1>12, <1>13, <1>14 DEF SockInv, SockFields

LEMMA CommitStep ==
    ASSUME SockInv, NEW s \in Socks, NEW w, Owns(w, FdsBut(s), ObjectsBut(s)), Commit(s, w), truth'
    PROVE  SockInv'
<1>1. sk' = [sk EXCEPT ![s] = w.sk] /\ DOMAIN sk = Socks BY DEF Commit, SockInv
<1>2. DOMAIN sk' = Socks /\ sk'[s] = w.sk /\ \A t \in Socks \ {s} : sk'[t] = sk[t] BY <1>1
<1>3. \A t \in Socks \ {s} : SockFields(sk'[t]) BY <1>2 DEF SockInv
<1>4. proc' = [fds |-> w.fds, heap |-> w.heap, file |-> w.file, bad |-> w.bad] BY DEF Commit
<1> QED BY <1>2, <1>3, <1>4, CommitKeeps

\* An action that moves no bytes.
LEMMA SilentTruth == ASSUME SockInv, Silent PROVE truth'
BY DEF SockInv, SocketsOwned, Silent

LEMMA RoomFacts ==
    ASSUME SockInv, Room
    PROVE  Cardinality(proc.fds) < MaxHandles /\ Cardinality(proc.heap) + 3 <= MaxHandles
BY DEF Room

\* The program begins without sockets.
LEMMA SockInitInv == SockInit => SockInv
<1> SUFFICES ASSUME SockInit PROVE SockInv OBVIOUS
<1>1. DOMAIN sk = Socks /\ \A s \in Socks : sk[s] = ClosedSock BY DEF SockInit
<1>2. /\ ClosedSock.fd = Invalid /\ ClosedSock.priv = NoPriv /\ SockFields(ClosedSock)
  BY DEF ClosedSock, NoPriv, SockFields
<1>3. NoPriv.id = Invalid /\ NoPriv.ctx = Invalid /\ NoPriv.ssl = Invalid BY DEF NoPriv
<1>4. proc.fds = {} /\ proc.heap = {} /\ proc.file = {} /\ proc.bad = {} /\ truth BY DEF SockInit
<1>5. \A s \in Socks : Objects(s) = {} BY <1>1, <1>2, <1>3 DEF Objects
<1>6. SocketsOwned BY <1>1, <1>2, <1>3, <1>4, <1>5 DEF SocketsOwned
<1>7. IsFiniteSet({}) BY FS_EmptySet
<1> QED BY <1>1, <1>2, <1>4, <1>6, <1>7 DEF SockInv

LEMMA CreateStep == ASSUME SockInv, SockCreate PROVE SockInv'
<1>1. PICK s \in Creators : Vacant(s) /\ Room /\
        \E w \in {XSock_CreateAdv(Work(s), F, fail) : F \in FlagSets, fail \in SetupFails} : Commit(s, w)
  BY DEF SockCreate
<1>2. PICK F \in FlagSets, fail \in SetupFails : Commit(s, XSock_CreateAdv(Work(s), F, fail)) BY <1>1
<1>3. s \in Socks BY SockAssumption
<1>4. /\ Owns(Work(s), FdsBut(s), ObjectsBut(s)) /\ Work(s).sk = sk[s]
      /\ Work(s).fds = proc.fds /\ Work(s).heap = proc.heap
  BY <1>3, WorkOwns
<1>5. Owns(XSock_CreateAdv(Work(s), F, fail), FdsBut(s), ObjectsBut(s))
  BY <1>1, <1>4, RoomFacts, CreateKeeps DEF Vacant
<1>6. truth' BY SilentTruth DEF SockCreate
<1> QED BY <1>2, <1>3, <1>5, <1>6, CommitStep

\* XSock_Accept: the peer belongs to the new structure, or nothing is left of it.
LEMMA AcceptedKeeps ==
    ASSUME NEW w0, NEW F, NEW H, Owns(w0, F, H), w0.sk.fd = Invalid, w0.sk.priv = NoPriv,
           Cardinality(w0.heap) + 3 <= MaxHandles, Cardinality(w0.fds) < MaxHandles,
           NEW server, NEW fail
    PROVE  Owns(Accepted(w0, server, fail), F, H)
<1> DEFINE i == XSock_Init(w0, (server.flags \ {"SERVER", "NB"}) \cup {"PEER"}, fail)
           v == [i.w EXCEPT !.sk.fd = FreeHandle(i.w.fds), !.fds = @ \cup {FreeHandle(i.w.fds)}]
           tls == "SSL" \in server.flags /\ server.priv.ctx # Invalid
           o == XSock_SetSSL(WithObject(v), FreeHandle(v.heap))
           peer == Handshake(o, "SSLACC", fail)
<1>1. Begun(i.w, F, H) BY InitBegun
<1>2. i.ok /\ tls => Has(i.w, "SSL")
  <2> SUFFICES ASSUME i.ok, tls PROVE Has(i.w, "SSL") OBVIOUS
  <2>1. (server.flags \ {"SERVER", "NB"}) \cup {"PEER"} \subseteq i.w.sk.flags BY InitFlags
  <2> QED BY <2>1 DEF Has
<1> HIDE DEF i
<1>3. i.w.fds = w0.fds BY <1>1 DEF Begun, Owns
<1>4. Setup(v, F, H) /\ IsOpen(v) /\ v.sk.priv = i.w.sk.priv BY <1>1, <1>3, OpenedSetup
<1> HIDE DEF v
<1>5. i.ok /\ tls => v.sk.priv.id # Invalid BY <1>1, <1>2, <1>4 DEF Begun
<1>6. i.ok /\ tls => Owns(o, F, H) BY <1>4, <1>5, PeerKeeps
<1> HIDE DEF o
<1>7. i.ok /\ tls => Owns(peer, F, H) BY <1>6, HandshakeKeeps
<1>8. Owns(i.w, F, H) /\ Owns(v, F, H) BY <1>1, <1>4 DEF Begun, Setup
<1>9. Owns(XSock_Close(i.w), F, H) /\ Owns(XSock_Close(v), F, H) BY <1>8, CloseKeeps
<1> HIDE DEF peer, tls
<1>10. Accepted(w0, server, fail) =
         CASE ~i.ok -> i.w
           [] i.ok /\ fail \in {"accept", "would block"} -> XSock_Close(i.w)
           [] i.ok /\ fail \notin {"accept", "would block"} /\ tls ->
                 IF fail = "ssl" THEN XSock_Close(v) ELSE peer
           [] OTHER -> v
  BY DEF Accepted, i, v, o, peer, tls
<1>11. CASE ~i.ok BY <1>8, <1>10, <1>11
<1>12. CASE i.ok /\ fail \in {"accept", "would block"} BY <1>9, <1>10, <1>12
<1>13. CASE i.ok /\ fail \notin {"accept", "would block"} /\ tls BY <1>7, <1>9, <1>10, <1>13
<1>14. CASE i.ok /\ fail \notin {"accept", "would block"} /\ ~tls BY <1>8, <1>10, <1>14
<1> QED BY <1>11, <1>12, <1>13, <1>14

LEMMA AcceptStep == ASSUME SockInv, XSock_Accept PROVE SockInv'
<1>1. PICK s \in Socks, p \in Socks, fail \in {"none", "priv", "accept", "would block", "ssl"} \cup Unfinished :
        /\ s # p /\ Vacant(p) /\ Room
        /\ sk' = [sk EXCEPT ![p] = Accepted(Work(p), sk[s], fail).sk, ![s].status = AcceptStatus(sk[s], fail)]
        /\ proc' = [fds |-> Accepted(Work(p), sk[s], fail).fds, heap |-> Accepted(Work(p), sk[s], fail).heap,
                    file |-> Accepted(Work(p), sk[s], fail).file, bad |-> Accepted(Work(p), sk[s], fail).bad]
        /\ Silent
  BY DEF XSock_Accept
<1> DEFINE w == Accepted(Work(p), sk[s], fail)
           st == AcceptStatus(sk[s], fail)
<1>2. /\ Owns(Work(p), FdsBut(p), ObjectsBut(p)) /\ Work(p).sk = sk[p]
      /\ Work(p).fds = proc.fds /\ Work(p).heap = proc.heap
  BY WorkOwns
<1>3. Owns(w, FdsBut(p), ObjectsBut(p))
  BY <1>1, <1>2, RoomFacts, AcceptedKeeps DEF Vacant
<1> HIDE DEF w, st
<1>4. DOMAIN sk = Socks BY DEF SockInv
<1>5. sk' = [sk EXCEPT ![p] = w.sk, ![s].status = st] BY <1>1 DEF w, st
<1>6. /\ DOMAIN sk' = Socks /\ sk'[p] = w.sk /\ sk'[s] = [sk[s] EXCEPT !.status = st]
      /\ \A t \in Socks \ {s, p} : sk'[t] = sk[t]
  BY <1>1, <1>4, <1>5
<1>7. SockFields(sk[s]) BY DEF SockInv
<1>8. SockFields(sk'[s]) /\ sk'[s].fd = sk[s].fd /\ sk'[s].priv = sk[s].priv
  BY <1>6, <1>7 DEF SockFields
<1>9. \A t \in Socks \ {p} : SockFields(sk'[t]) /\ sk'[t].fd = sk[t].fd /\ sk'[t].priv = sk[t].priv
  BY <1>6, <1>8 DEF SockInv
<1>10. truth' BY <1>1, SilentTruth
<1>11. proc' = [fds |-> w.fds, heap |-> w.heap, file |-> w.file, bad |-> w.bad] BY <1>1 DEF w
<1> QED BY <1>3, <1>6, <1>9, <1>10, <1>11, CommitKeeps

LEMMA HandshakeStep == ASSUME SockInv, SockHandshake PROVE SockInv'
<1>1. PICK s \in Socks, fail \in {"none"} \cup Unfinished :
        /\ Commit(s, Handshake(Work(s), IF "PEER" \in sk[s].flags THEN "SSLACC" ELSE "SSLCNT", fail))
        /\ Silent
  BY DEF SockHandshake
<1>2. Owns(Work(s), FdsBut(s), ObjectsBut(s)) BY WorkOwns
<1>3. truth' BY <1>1, SilentTruth
<1> DEFINE st == IF "PEER" \in sk[s].flags THEN "SSLACC" ELSE "SSLCNT"
<1> HIDE DEF st
<1>4. Commit(s, Handshake(Work(s), st, fail)) BY <1>1 DEF st
<1>5. Owns(Handshake(Work(s), st, fail), FdsBut(s), ObjectsBut(s)) BY <1>2, HandshakeKeeps
<1> QED BY <1>3, <1>4, <1>5, CommitStep

LEMMA TransferStep == ASSUME SockInv, SockTransfer PROVE SockInv'
<1>1. PICK s \in Socks, n \in 0..MaxAsk :
        \E r \in XSock_Read(Work(s), n) \cup XSock_RecvChunk(Work(s), n)
                 \cup XSock_Write(Work(s), n) \cup XSock_SendChunk(Work(s), n) :
            /\ Commit(s, r.w)
            /\ truth' = (truth /\ Truthful(Work(s), r, n))
  BY DEF SockTransfer
<1>2. PICK r \in XSock_Read(Work(s), n) \cup XSock_RecvChunk(Work(s), n)
                 \cup XSock_Write(Work(s), n) \cup XSock_SendChunk(Work(s), n) :
            /\ Commit(s, r.w)
            /\ truth' = (truth /\ Truthful(Work(s), r, n))
  BY <1>1
<1>3. Owns(Work(s), FdsBut(s), ObjectsBut(s)) BY WorkOwns
<1>4. n \in Nat BY SockAssumption
<1>5. Fair(Work(s), r, n, FdsBut(s), ObjectsBut(s)) BY <1>3, <1>4, TransfersFair
<1>6. Owns(r.w, FdsBut(s), ObjectsBut(s)) /\ Truthful(Work(s), r, n) BY <1>5 DEF Fair
<1>7. truth BY DEF SockInv, SocketsOwned
<1>8. truth' BY <1>2, <1>6, <1>7, Zenon
<1> QED BY <1>2, <1>6, <1>8, CommitStep

LEMMA OptionStep == ASSUME SockInv, SockOption PROVE SockInv'
<1>1. PICK s \in Socks :
        /\ \/ \E fail \in {"none", "option"} : Commit(s, SetOption(Work(s), fail))
           \/ \E on \in BOOLEAN, fail \in {"none", "nonblock"} : Commit(s, XSock_NonBlock(Work(s), on, fail))
           \/ \E fail \in {"none", "cert"} : Commit(s, XSock_SetSSLCert(Work(s), fail))
        /\ Silent
  BY DEF SockOption
<1>2. Owns(Work(s), FdsBut(s), ObjectsBut(s)) BY WorkOwns
<1>3. truth' BY <1>1, SilentTruth
<1>4. ASSUME NEW fail, Commit(s, SetOption(Work(s), fail)) PROVE SockInv'
  <2>1. Owns(SetOption(Work(s), fail), FdsBut(s), ObjectsBut(s)) BY <1>2, OptionKeeps
  <2> QED BY <1>3, <1>4, <2>1, CommitStep
<1>5. ASSUME NEW on, NEW fail, Commit(s, XSock_NonBlock(Work(s), on, fail)) PROVE SockInv'
  <2>1. Owns(XSock_NonBlock(Work(s), on, fail), FdsBut(s), ObjectsBut(s)) BY <1>2, NonBlockKeeps
  <2> QED BY <1>3, <1>5, <2>1, CommitStep
<1>6. ASSUME NEW fail, Commit(s, XSock_SetSSLCert(Work(s), fail)) PROVE SockInv'
  <2>1. Owns(XSock_SetSSLCert(Work(s), fail), FdsBut(s), ObjectsBut(s)) BY <1>2, CertKeeps
  <2> QED BY <1>3, <1>6, <2>1, CommitStep
<1> QED BY <1>1, <1>4, <1>5, <1>6, Zenon

LEMMA CloseStep == ASSUME SockInv, SockClose PROVE SockInv'
<1>1. PICK s \in Socks : Commit(s, XSock_Close(Work(s))) /\ Silent BY DEF SockClose
<1>2. Owns(Work(s), FdsBut(s), ObjectsBut(s)) BY WorkOwns
<1>3. Owns(XSock_Close(Work(s)), FdsBut(s), ObjectsBut(s)) BY <1>2, CloseKeeps
<1>4. truth' BY <1>1, SilentTruth
<1> QED BY <1>1, <1>3, <1>4, CommitStep

\* The invariant of the sockets, for any number of structures, flags and failures.
THEOREM SocketInvariant == SockSpec => []SockInv
<1>1. SockInit => SockInv BY SockInitInv
<1>2. SockInv /\ [SockNext]_sockVars => SockInv'
  <2> SUFFICES ASSUME SockInv, [SockNext]_sockVars PROVE SockInv' OBVIOUS
  <2>1. CASE UNCHANGED sockVars
    <3>1. sk' = sk /\ proc' = proc /\ (truth' <=> truth) BY <2>1 DEF sockVars
    <3>2. \A s \in Socks : Objects(s)' = Objects(s) BY <3>1 DEF Objects
    <3>3. SocketsOwned' BY <3>1, <3>2 DEF SockInv, SocketsOwned
    <3> QED BY <3>1, <3>3 DEF SockInv, SockFields
  <2> QED BY <2>1, CreateStep, AcceptStep, HandshakeStep, TransferStep, OptionStep, CloseStep DEF SockNext
<1> QED BY <1>1, <1>2, PTL DEF SockSpec

\* Every descriptor and TLS object of sock.c has one owner and is released once, whichever
\* call fails, and every transfer tells what it moved.
THEOREM SocketsStayOwned == SockSpec => []SocketsOwned
<1>1. SockInv => SocketsOwned BY DEF SockInv
<1> QED BY <1>1, SocketInvariant, PTL

-----------------------------------------------------------------------------
(* The HTTP exchange.                                                      *)

\* The fields of the three records.
IsHttp(h) ==
    /\ DOMAIN h = {"hdr", "request", "used", "complete", "hlen", "clen", "keep"}
    /\ DOMAIN h.request = {"hdr", "body"}
    /\ h.used \in Nat /\ h.hlen \in Nat /\ h.clen \in Nat
IsLine(l) ==
    /\ DOMAIN l = {"pc", "op", "open", "nb", "st", "body", "answer", "left", "auth", "cb", "takes", "size"}
    /\ l.pc \in {"user", "connect", "send", "header", "content", "done"}
    /\ l.answer.head \in Nat \ {0} /\ l.answer.stated \in Nat
    /\ l.left \in Nat /\ l.size \in Nat /\ l.body \in Nat
    /\ l.takes \in {"OK", "USR", "mixed"}
IsOutcome(o) ==
    /\ DOMAIN o = {"res", "told", "eaten", "read", "lost", "stopped", "fresh"}
    /\ o.told \in Nat /\ o.eaten \in Nat /\ o.read \in Nat /\ o.lost \in Nat

\* What holds at every point of an exchange: no byte is lost or counted twice.
Counted(h, l, o) ==
    /\ IsHttp(h) /\ IsLine(l) /\ IsOutcome(o)
    /\ h.used + o.eaten + o.lost = o.read
    /\ o.fresh
\* The buffer of a blocking call.
Bounded(h, l) == ~l.nb => h.used < RxSize + (IF h.hlen > 0 THEN ContentMax ELSE HeaderMax)
Unended(o) == o.told = 0 /\ o.lost = 0 /\ o.res \in {"NONE", "INCOMPLETE"}

Before(h, o) ==
    /\ h.used = 0 /\ o.eaten = 0 /\ Unended(o) /\ o.res = "NONE"
    /\ h.complete => h.request.hdr = h.hdr
InHeader(h, l, o) ==
    /\ Unended(o) /\ o.eaten = 0
    /\ ~h.complete /\ h.hlen = 0 /\ h.used < l.answer.head
    /\ ~l.nb => h.used < HeaderMax
\* nBodySize is what was received of the body, except on a non-blocking socket.
Sized(h, l, o) ==
    /\ l.takes = "USR" => o.eaten = 0 /\ l.size = h.used - h.hlen
    /\ l.takes = "OK" => /\ l.size <= h.used - h.hlen + o.eaten
                         /\ ~l.nb => l.size = h.used - h.hlen + o.eaten
InContent(h, l, o) ==
    /\ Unended(o)
    /\ ~h.complete /\ h.hlen = l.answer.head /\ h.clen = l.answer.stated /\ h.used >= h.hlen
    /\ ~l.nb => h.used < ContentMax
    /\ Sized(h, l, o)

HasArrived(l, o) == l.answer.stated > 0 /\ o.read >= l.answer.head + l.answer.stated
\* A call may end with status st.
MayEnd(h, l, o, st) ==
    /\ Counted(h, l, o) /\ Bounded(h, l) /\ o.told <= 1
    /\ st = "COMPLETE" /\ ~o.stopped /\ l.answer.stated > 0 /\ l.takes # "mixed" => HasArrived(l, o)
    /\ st \in {"EREAD", "INCOMPLETE"} /\ l.takes # "mixed" /\ ~(l.nb /\ l.takes = "OK") => ~HasArrived(l, o)
    /\ st \in Failures /\ l.cb => o.told = 1
IsEnded(h, l, o) ==
    /\ MayEnd(h, l, o, o.res)
    /\ l.op \in {"link exchange", "link perform"} => ~l.open

Exchange(h, l, o) ==
    /\ Counted(h, l, o)
    /\ l.pc \in {"user", "connect", "send"} => Before(h, o)
    /\ l.pc = "header" => InHeader(h, l, o)
    /\ l.pc = "content" => InContent(h, l, o)
    /\ l.pc = "done" => IsEnded(h, l, o)
HttpInv == Exchange(http, line, outcome)

-----------------------------------------------------------------------------
(* The ways in which a step ends.                                          *)

\* A call returns with a status that is true.
LEMMA ReturnKept ==
    ASSUME NEW h, NEW l, NEW o, NEW st, MayEnd(h, l, o, st), l.op = line.op, Return(h, l, o, st)
    PROVE  HttpInv'
<1> DEFINE m == [l EXCEPT !.pc = "done", !.open = IF Linked THEN FALSE ELSE @]
           q == [o EXCEPT !.res = st]
<1>1. http' = h /\ line' = m /\ outcome' = q BY DEF Return
<1>2. IsHttp(h) /\ IsLine(l) /\ IsOutcome(o) BY DEF MayEnd, Counted
<1>3. /\ m.pc = "done" /\ m.op = l.op /\ m.answer = l.answer /\ m.nb = l.nb /\ m.cb = l.cb
      /\ m.takes = l.takes /\ m.left = l.left /\ m.size = l.size /\ m.body = l.body /\ DOMAIN m = DOMAIN l
  BY <1>2 DEF IsLine
<1>4. m.op \in {"link exchange", "link perform"} => ~m.open
  BY <1>2 DEF IsLine, Linked
<1>5. /\ q.res = st /\ q.told = o.told /\ q.eaten = o.eaten /\ q.read = o.read /\ q.lost = o.lost
      /\ q.stopped = o.stopped /\ q.fresh = o.fresh /\ DOMAIN q = DOMAIN o
  BY <1>2 DEF IsOutcome
<1> HIDE DEF m, q
<1>6. IsLine(m) BY <1>2, <1>3 DEF IsLine
<1>7. IsOutcome(q) BY <1>2, <1>5 DEF IsOutcome
<1>8. Counted(h, m, q) BY <1>2, <1>5, <1>6, <1>7 DEF MayEnd, Counted
<1>9. Bounded(h, m) BY <1>3 DEF MayEnd, Bounded
<1>10. HasArrived(m, q) <=> HasArrived(l, o) BY <1>3, <1>5 DEF HasArrived
<1>11. MayEnd(h, m, q, q.res) BY <1>3, <1>5, <1>8, <1>9, <1>10 DEF MayEnd
<1>12. Exchange(h, m, q) BY <1>3, <1>4, <1>8, <1>11 DEF Exchange, IsEnded
<1> QED BY <1>1, <1>12 DEF HttpInv

\* A status that the callback has not been told yet.
MayTell(h, l, o, st) ==
    /\ Counted(h, l, o) /\ Bounded(h, l) /\ o.told = 0 /\ st # "COMPLETE"
    /\ st \in {"EREAD", "INCOMPLETE"} /\ l.takes # "mixed" /\ ~(l.nb /\ l.takes = "OK") => ~HasArrived(l, o)

LEMMA StatusKept ==
    ASSUME NEW h, NEW l, NEW o, NEW st, MayTell(h, l, o, st), l.op = line.op, l.cb = line.cb,
           XHTTP_StatusCb(h, l, o, st)
    PROVE  HttpInv'
<1> DEFINE q == [o EXCEPT !.told = IF line.cb THEN @ + 1 ELSE @]
<1>1. PICK v \in Verdicts : Return(h, l, q, IF v = "ERR" THEN "TERMINATED" ELSE st)
  BY Zenon DEF XHTTP_StatusCb
<1>2. IsHttp(h) /\ IsLine(l) /\ IsOutcome(o) BY DEF MayTell, Counted
<1>3. /\ q.eaten = o.eaten /\ q.read = o.read /\ q.lost = o.lost /\ q.res = o.res
      /\ q.stopped = o.stopped /\ q.fresh = o.fresh /\ DOMAIN q = DOMAIN o
  BY <1>2 DEF IsOutcome
<1>4. q.told = IF line.cb THEN 1 ELSE 0 BY <1>2 DEF IsOutcome, MayTell
<1> HIDE DEF q
<1>5. IsOutcome(q) BY <1>2, <1>3, <1>4 DEF IsOutcome
<1>6. Counted(h, l, q) BY <1>2, <1>3, <1>5 DEF Counted, MayTell
<1>7. HasArrived(l, q) <=> HasArrived(l, o) BY <1>3 DEF HasArrived
<1>8. "TERMINATED" \notin Failures BY DEF Failures
<1>9. MayEnd(h, l, q, IF v = "ERR" THEN "TERMINATED" ELSE st)
  <2>1. q.told <= 1 /\ (l.cb => q.told = 1) BY <1>4
  <2> QED BY <1>6, <1>7, <1>8, <2>1 DEF MayEnd, MayTell
<1> QED BY <1>1, <1>9, ReturnKept

\* The callback stops the message.
LEMMA StoppedKept ==
    ASSUME NEW h, NEW l, NEW o, Counted(h, l, o), Bounded(h, l), o.told <= 1, l.op = line.op, Stopped(h, l, o)
    PROVE  HttpInv'
<1> DEFINE g == [h EXCEPT !.complete = TRUE]
           q == [o EXCEPT !.stopped = TRUE]
<1>1. Return(g, l, q, "COMPLETE") BY DEF Stopped
<1>2. IsHttp(h) /\ IsLine(l) /\ IsOutcome(o) BY DEF Counted
<1>3. g.used = h.used /\ g.hlen = h.hlen /\ g.clen = h.clen /\ g.request = h.request /\ DOMAIN g = DOMAIN h
  BY <1>2 DEF IsHttp
<1>4. /\ q.eaten = o.eaten /\ q.read = o.read /\ q.lost = o.lost /\ q.told = o.told
      /\ q.stopped /\ q.fresh = o.fresh /\ DOMAIN q = DOMAIN o
  BY <1>2 DEF IsOutcome
<1> HIDE DEF g, q
<1>5. IsHttp(g) /\ IsOutcome(q) BY <1>2, <1>3, <1>4 DEF IsHttp, IsOutcome
<1>6. Counted(g, l, q) BY <1>2, <1>3, <1>4, <1>5 DEF Counted
<1>7. Bounded(g, l) BY <1>3 DEF Bounded
<1>8. "COMPLETE" \notin Failures BY DEF Failures
<1>9. MayEnd(g, l, q, "COMPLETE") BY <1>4, <1>6, <1>7, <1>8 DEF MayEnd
<1> QED BY <1>1, <1>9, ReturnKept

LEMMA ContinueKept ==
    ASSUME NEW h, NEW l, NEW o, Exchange(h, l, o), Continue(h, l, o)
    PROVE  HttpInv'
BY DEF Continue, HttpInv

LEMMA PauseKept ==
    ASSUME NEW h, NEW l, NEW o, Exchange(h, l, o), l.pc \in {"header", "content"}, Pause(h, l, o)
    PROVE  HttpInv'
<1> DEFINE q == [o EXCEPT !.res = "INCOMPLETE"]
<1>1. http' = h /\ line' = l /\ outcome' = q BY DEF Pause
<1>2. IsOutcome(o) BY DEF Exchange, Counted
<1>3. /\ q.res = "INCOMPLETE" /\ q.told = o.told /\ q.eaten = o.eaten /\ q.read = o.read /\ q.lost = o.lost
      /\ q.fresh = o.fresh /\ DOMAIN q = DOMAIN o
  BY <1>2 DEF IsOutcome
<1> HIDE DEF q
<1>4. IsOutcome(q) BY <1>2, <1>3 DEF IsOutcome
<1>5. Counted(h, l, q) BY <1>3, <1>4 DEF Exchange, Counted
<1>6. Unended(o) => Unended(q) BY <1>3 DEF Unended
<1>7. InHeader(h, l, o) => InHeader(h, l, q) BY <1>3, <1>6 DEF InHeader
<1>8. InContent(h, l, o) => InContent(h, l, q) BY <1>3, <1>6 DEF InContent, Sized
<1>9. Exchange(h, l, q) BY <1>5, <1>7, <1>8 DEF Exchange
<1> QED BY <1>1, <1>9 DEF HttpInv

-----------------------------------------------------------------------------
(* Building and sending a request.                                         *)

\* The handle before an exchange: what was assembled has the headers of the table.
Well(h) == IsHttp(h) /\ h.used = 0 /\ (h.complete => h.request.hdr = h.hdr)

LEMMA InitWell == Well(XHTTP_Init) /\ ~XHTTP_Init.complete /\ XHTTP_Init.hlen = 0
BY DEF Well, IsHttp, XHTTP_Init, NoMessage

LEMMA AddHeaderWell ==
    ASSUME NEW h, IsHttp(h), NEW k, NEW v, NEW update, NEW fail,
           NEW g, g = XHTTP_AddHeader(h, k, v, update, fail)
    PROVE  /\ IsHttp(g) /\ g.used = h.used /\ g.request = h.request
           /\ Well(h) => Well(g)
           /\ ~h.complete => ~g.complete
<1> DEFINE f == [h EXCEPT !.hdr = With(@, k, v), !.complete = FALSE]
<1>1. /\ DOMAIN f = DOMAIN h /\ f.used = h.used /\ f.request = h.request /\ f.hlen = h.hlen /\ f.clen = h.clen
      /\ ~f.complete
  BY DEF IsHttp
<1> HIDE DEF f
<1>2. IsHttp(f) BY <1>1 DEF IsHttp
<1>3. g \in {h, f} BY DEF XHTTP_AddHeader, f
<1> QED BY <1>1, <1>2, <1>3 DEF Well

LEMMA AssembleWell ==
    ASSUME NEW h, Well(h), NEW n \in Nat, NEW fail
    PROVE  LET r == XHTTP_Assemble(h, n, fail) IN
           Well(r.h) /\ (r.ok => r.h.request.hdr = r.h.hdr)
<1> DEFINE bare == [h EXCEPT !.request = NoMessage, !.used = 0, !.hlen = 0]
           sized == IF n = 0 THEN bare
                    ELSE XHTTP_AddHeader(bare, "Content-Length", n, TRUE, fail = "length")
           keeps == h.keep /\ ~XHTTP_GetHeader(sized, "Connection")
           alive == IF keeps THEN XHTTP_AddHeader(sized, "Connection", "keep-alive", TRUE, fail = "keep") ELSE sized
           made == [alive EXCEPT !.request = [hdr |-> alive.hdr, body |-> n],
                                 !.hlen = 1, !.clen = n, !.complete = TRUE]
<1>1. CASE h.complete
  <2>1. XHTTP_Assemble(h, n, fail) = [h |-> h, ok |-> TRUE] BY <1>1 DEF XHTTP_Assemble
  <2> QED BY <1>1, <2>1 DEF Well
<1>2. CASE ~h.complete
  <2>1. IsHttp(bare) /\ bare.used = 0 /\ ~bare.complete BY <1>2 DEF Well, IsHttp, NoMessage
  <2> HIDE DEF bare
  <2>2. IsHttp(sized) /\ sized.used = 0 /\ ~sized.complete
    <3> DEFINE yes == TRUE
               fails == fail = "length"
               g == XHTTP_AddHeader(bare, "Content-Length", n, yes, fails)
    <3> HIDE DEF yes, fails
    <3>1. IsHttp(g) /\ g.used = bare.used /\ ~g.complete BY <2>1, AddHeaderWell
    <3> HIDE DEF g
    <3>2. sized \in {bare, g} BY DEF sized, g, yes, fails
    <3> QED BY <2>1, <3>1, <3>2
  <2> HIDE DEF sized
  <2>3. IsHttp(alive) /\ alive.used = 0 /\ ~alive.complete
    <3> DEFINE yes == TRUE
               fails == fail = "keep"
               g == XHTTP_AddHeader(sized, "Connection", "keep-alive", yes, fails)
    <3> HIDE DEF yes, fails
    <3>1. IsHttp(g) /\ g.used = sized.used /\ ~g.complete BY <2>2, AddHeaderWell
    <3> HIDE DEF g
    <3>2. alive \in {sized, g} BY DEF alive, g, yes, fails
    <3> QED BY <2>2, <3>1, <3>2
  <2> HIDE DEF alive
  <2>4. IsHttp(made) /\ made.used = 0 /\ made.request.hdr = made.hdr BY <2>3 DEF IsHttp
  <2> HIDE DEF made
  <2>5. XHTTP_Assemble(h, n, fail) \in
            {[h |-> bare, ok |-> FALSE], [h |-> sized, ok |-> FALSE], [h |-> alive, ok |-> FALSE],
             [h |-> made, ok |-> TRUE]}
    BY <1>2 DEF XHTTP_Assemble, made, alive, keeps, sized, bare
  <2> QED BY <2>1, <2>2, <2>3, <2>4, <2>5 DEF Well
<1> QED BY <1>1, <1>2

LEMMA AnsweredIs ==
    ASSUME NEW l, IsLine(l), NEW x \in Answered(l)
    PROVE  IsLine(x) /\ x.pc = "header" /\ x.nb = l.nb /\ x.takes = l.takes
<1> USE HttpAssumption
<1>1. PICK a \in HttpAnswers :
          x = [l EXCEPT !.pc = "header", !.body = 0, !.auth = FALSE, !.answer = a, !.left = a.head + a.sent]
  BY DEF Answered
<1>2. a.head \in Nat \ {0} /\ a.stated \in Nat /\ a.sent \in Nat OBVIOUS
<1>3. a.head + a.sent \in Nat BY <1>2
<1>4. /\ x.pc = "header" /\ x.body = 0 /\ x.answer = a /\ x.left = a.head + a.sent
      /\ x.nb = l.nb /\ x.takes = l.takes /\ x.size = l.size /\ DOMAIN x = DOMAIN l
  BY <1>1 DEF IsLine
<1> QED BY <1>2, <1>3, <1>4 DEF IsLine

\* An exchange begins to receive with a fresh handle.
LEMMA ReceiveBegins ==
    ASSUME NEW h, NEW l, NEW o, IsHttp(h), h.used = 0, h.hlen = 0, ~h.complete, IsLine(l), l.pc = "header",
           IsOutcome(o), o.fresh, o.read = 0, o.eaten = 0, Unended(o)
    PROVE  Exchange(h, l, o)
<1> USE HttpAssumption
<1>1. Counted(h, l, o) BY DEF Counted, Unended
<1>2. l.answer.head > 0 BY DEF IsLine
<1>3. InHeader(h, l, o) BY <1>2 DEF InHeader, IsHttp
<1> QED BY <1>1, <1>3 DEF Exchange

\* Before the exchange nothing has been read.
Waiting == HttpInv /\ line.pc \in {"user", "connect", "send"}
LEMMA WaitingFacts ==
    ASSUME Waiting
    PROVE  /\ Well(http) /\ IsLine(line) /\ IsOutcome(outcome) /\ outcome.fresh /\ outcome.read = 0
           /\ outcome.eaten = 0 /\ Unended(outcome) /\ outcome.res = "NONE"
<1>1. Counted(http, line, outcome) /\ Before(http, outcome) BY DEF Waiting, HttpInv, Exchange
<1> QED BY <1>1 DEF Counted, Before, Well, Unended, IsHttp, IsOutcome

LEMMA StillWaiting ==
    ASSUME NEW h, NEW l, Waiting, Well(h), IsLine(l), l.pc \in {"user", "connect", "send"}
    PROVE  Exchange(h, l, outcome)
<1>1. Counted(h, l, outcome) BY WaitingFacts DEF Counted, Well, Unended, IsHttp, IsOutcome
<1>2. Before(h, outcome) BY WaitingFacts DEF Before, Well
<1> QED BY <1>1, <1>2 DEF Exchange

\* A failure before anything was read.
LEMMA EarlyFailure ==
    ASSUME NEW h, NEW l, NEW st, Waiting, Well(h), IsLine(l), st \notin {"COMPLETE", "EREAD", "INCOMPLETE"}
    PROVE  MayTell(h, l, outcome, st)
<1> USE HttpAssumption
<1>1. Counted(h, l, outcome) BY WaitingFacts DEF Counted, Well, Unended, IsHttp, IsOutcome
<1>2. Bounded(h, l) BY DEF Bounded, Well, IsHttp
<1> QED BY <1>1, <1>2, WaitingFacts DEF MayTell, Unended

LEMMA IdleIs == IsLine(Idle) /\ Idle.pc = "user"
BY DEF IsLine, Idle

LEMMA AddHeaderStep == ASSUME HttpInv, HttpAddHeader PROVE HttpInv'
<1>1. Waiting BY DEF HttpAddHeader, Waiting
<1>2. UNCHANGED <<line, outcome>> BY DEF HttpAddHeader
<1>3. PICK k \in HttpKeys, v \in {"x", "y"}, update \in BOOLEAN, fail \in BOOLEAN :
          http' = XHTTP_AddHeader(http, k, v, update, fail)
  BY DEF HttpAddHeader
<1>4. Well(http') BY <1>1, <1>3, WaitingFacts, AddHeaderWell DEF Well
<1>5. Exchange(http', line, outcome) BY <1>1, <1>4, WaitingFacts, StillWaiting DEF Waiting
<1> QED BY <1>2, <1>5 DEF HttpInv

LEMMA KeepAliveStep == ASSUME HttpInv, HttpKeepAlive PROVE HttpInv'
<1>1. Waiting BY DEF HttpKeepAlive, Waiting
<1>2. UNCHANGED <<line, outcome>> /\ http' = [http EXCEPT !.keep = TRUE] BY DEF HttpKeepAlive
<1>3. Well(http') BY <1>1, <1>2, WaitingFacts DEF Well, IsHttp
<1>4. Exchange(http', line, outcome) BY <1>1, <1>3, WaitingFacts, StillWaiting DEF Waiting
<1> QED BY <1>2, <1>4 DEF HttpInv

LEMMA AssembleStep == ASSUME HttpInv, HttpAssemble PROVE HttpInv'
<1>1. Waiting BY DEF HttpAssemble, Waiting
<1>2. UNCHANGED <<line, outcome>> BY DEF HttpAssemble
<1>3. PICK n \in HttpBodies, fail \in {"none", "line", "length", "keep", "rest"} :
          http' = XHTTP_Assemble(http, n, fail).h
  BY DEF HttpAssemble
<1>4. n \in Nat BY HttpAssumption
<1>5. Well(http') BY <1>1, <1>3, <1>4, WaitingFacts, AssembleWell
<1>6. Exchange(http', line, outcome) BY <1>1, <1>5, WaitingFacts, StillWaiting DEF Waiting
<1> QED BY <1>2, <1>6 DEF HttpInv

LEMMA CallStep == ASSUME HttpInv, HttpCall PROVE HttpInv'
<1>1. Waiting BY DEF HttpCall, Waiting
<1>2. UNCHANGED <<http, outcome>> BY DEF HttpCall
<1>3. PICK op \in {"perform", "exchange", "link perform", "link exchange", "receive"}, nb \in BOOLEAN, cb \in BOOLEAN,
           auth \in BOOLEAN, takes \in {"OK", "USR", "mixed"}, n \in HttpBodies :
          /\ op \in {"exchange", "link exchange"} => http.complete
          /\ op = "receive" => http = XHTTP_Init
          /\ op \in {"link perform", "link exchange"} => ~nb
          /\ op \notin {"link perform", "link exchange"} => ~auth
          /\ op \notin {"perform", "link perform"} => n = 0
          /\ ~cb => takes = "USR"
          /\ LET l == [Idle EXCEPT !.pc = IF op \in {"link perform", "link exchange"} THEN "connect" ELSE "send",
                                   !.op = op, !.open = op \in {"perform", "exchange", "receive"}, !.nb = nb,
                                   !.body = n, !.auth = auth, !.cb = cb, !.takes = takes]
             IN  line' \in IF op = "receive" THEN Answered(l) ELSE {l}
  BY Zenon DEF HttpCall
<1> DEFINE l == [Idle EXCEPT !.pc = IF op \in {"link perform", "link exchange"} THEN "connect" ELSE "send",
                             !.op = op, !.open = op \in {"perform", "exchange", "receive"}, !.nb = nb,
                             !.body = n, !.auth = auth, !.cb = cb, !.takes = takes]
<1>4. n \in Nat BY HttpAssumption
<1>5. IsLine(l) /\ l.pc \in {"connect", "send"}
  <2> DEFINE c == IF op \in {"link perform", "link exchange"} THEN "connect" ELSE "send"
             t == op \in {"perform", "exchange", "receive"}
             k == [Idle EXCEPT !.pc = c, !.op = op, !.open = t, !.nb = nb, !.body = n, !.auth = auth, !.cb = cb,
                               !.takes = takes]
  <2>1. c \in {"connect", "send"} OBVIOUS
  <2>2. l = k OBVIOUS
  <2> HIDE DEF c, t, l
  <2>3. /\ DOMAIN k = DOMAIN Idle /\ k.pc = c /\ k.answer = Idle.answer /\ k.left = Idle.left /\ k.size = Idle.size
        /\ k.body = n /\ k.takes = takes
    BY IdleIs DEF Idle
  <2> HIDE DEF k
  <2>4. IsLine(k) BY <1>4, <2>1, <2>3, IdleIs DEF IsLine
  <2> QED BY <2>1, <2>2, <2>3, <2>4
<1>6. line' \in IF op = "receive" THEN Answered(l) ELSE {l} BY <1>3
<1> HIDE DEF l
<1>7. CASE op = "receive"
  <2>1. http = XHTTP_Init BY <1>3, <1>7
  <2>2. IsLine(line') /\ line'.pc = "header" BY <1>5, <1>6, <1>7, AnsweredIs
  <2>3. Exchange(http, line', outcome)
    BY <1>1, <2>1, <2>2, ReceiveBegins, WaitingFacts, InitWell DEF Well
  <2> QED BY <1>2, <2>3 DEF HttpInv
<1>8. CASE op # "receive"
  <2>1. line' = l BY <1>6, <1>8
  <2>2. Exchange(http, l, outcome) BY <1>1, <1>5, WaitingFacts, StillWaiting
  <2> QED BY <1>2, <2>1, <2>2 DEF HttpInv
<1> QED BY <1>7, <1>8

LEMMA SoloStep == ASSUME HttpInv, HttpSoloPerform PROVE HttpInv'
<1>1. Waiting BY DEF HttpSoloPerform, Waiting
<1>2. PICK fail \in {"none", "Host", "User-Agent"}, n \in HttpBodies :
           LET h == XHTTP_AddHeader(http, "Host", "x", FALSE, fail = "Host")
               g == IF fail = "Host" THEN h ELSE XHTTP_AddHeader(h, "User-Agent", "x", FALSE, fail = "User-Agent")
               l == [Idle EXCEPT !.pc = "connect", !.op = "link perform", !.body = n]
           IN  IF fail = "none" THEN http' = g /\ line' = l /\ UNCHANGED outcome
               ELSE http' = g /\ line' = [Idle EXCEPT !.pc = "done"] /\ outcome' = [outcome EXCEPT !.res = "ESETHDR"]
  BY Zenon DEF HttpSoloPerform
<1> DEFINE no == FALSE
           host == fail = "Host"
           agent == fail = "User-Agent"
           h == XHTTP_AddHeader(http, "Host", "x", no, host)
           f == XHTTP_AddHeader(h, "User-Agent", "x", no, agent)
           g == IF fail = "Host" THEN h ELSE f
           l == [Idle EXCEPT !.pc = "connect", !.op = "link perform", !.body = n]
           e == [Idle EXCEPT !.pc = "done"]
<1>3. IF fail = "none" THEN http' = g /\ line' = l /\ UNCHANGED outcome
      ELSE http' = g /\ line' = e /\ outcome' = [outcome EXCEPT !.res = "ESETHDR"]
  BY <1>2, Zenon
<1> HIDE DEF no, host, agent
<1>4. Well(h) BY <1>1, WaitingFacts, AddHeaderWell DEF Well
<1> HIDE DEF h
<1>5. Well(f) BY <1>4, AddHeaderWell DEF Well
<1> HIDE DEF f
<1>6. Well(g) BY <1>4, <1>5
<1>7. n \in Nat BY HttpAssumption
<1>8. IsLine(l) /\ l.pc = "connect" BY <1>7 DEF IsLine, Idle
<1>9. IsLine(e) /\ e.pc = "done" /\ e.op = "none" BY DEF IsLine, Idle
<1> HIDE DEF g, l, e
<1>10. CASE fail = "none"
  <2>1. Exchange(g, l, outcome) BY <1>1, <1>6, <1>8, StillWaiting
  <2> QED BY <1>3, <1>10, <2>1 DEF HttpInv
<1>11. CASE fail # "none"
  <2> DEFINE q == [outcome EXCEPT !.res = "ESETHDR"]
  <2>1. http' = g /\ line' = e /\ outcome' = q BY <1>3, <1>11
  <2>2. /\ q.res = "ESETHDR" /\ q.told = outcome.told /\ q.eaten = outcome.eaten /\ q.read = outcome.read
        /\ q.lost = outcome.lost /\ q.fresh = outcome.fresh /\ DOMAIN q = DOMAIN outcome
    BY <1>1, WaitingFacts DEF IsOutcome
  <2> HIDE DEF q
  <2>3. IsOutcome(q) BY <1>1, <2>2, WaitingFacts DEF IsOutcome
  <2>4. Counted(g, e, q) /\ q.told = 0 BY <1>1, <1>6, <1>9, <2>2, <2>3, WaitingFacts DEF Counted, Well, Unended
  <2>5. Bounded(g, e) BY <1>6, HttpAssumption DEF Bounded, Well, IsHttp
  <2>6. "ESETHDR" \notin Failures BY DEF Failures
  <2>7. MayEnd(g, e, q, q.res) BY <2>2, <2>4, <2>5, <2>6 DEF MayEnd
  <2>8. Exchange(g, e, q) BY <1>9, <2>4, <2>7 DEF Exchange, IsEnded
  <2> QED BY <2>1, <2>8 DEF HttpInv
<1> QED BY <1>10, <1>11

LEMMA ConnectStep == ASSUME HttpInv, XHTTP_Connect PROVE HttpInv'
<1>1. Waiting BY DEF XHTTP_Connect, Waiting
<1> DEFINE yes == TRUE
           no == FALSE
           added == XHTTP_AddHeader(http, "Authorization", "x", yes, no)
           authorized == IF line.auth THEN added ELSE http
           step == [line EXCEPT !.open = TRUE, !.pc = "send"]
<1>2. \/ XHTTP_StatusCb(http, line, outcome, "ELINK")
      \/ Return(http, line, outcome, "ELINK")
      \/ \E st \in {"EPROTO", "ERESOLVE"} : XHTTP_StatusCb(http, line, outcome, st)
      \/ XHTTP_StatusCb(http, line, outcome, "EAUTH")
      \/ \E st \in {"ECONNECT", "ETIMEO"} : XHTTP_StatusCb(authorized, line, outcome, st)
      \/ http' = authorized /\ line' = step /\ UNCHANGED outcome
  BY Zenon DEF XHTTP_Connect
<1> HIDE DEF yes, no
<1>3. Well(http) /\ IsLine(line) BY <1>1, WaitingFacts
<1>4. Well(added) BY <1>3, AddHeaderWell DEF Well
<1> HIDE DEF added
<1>5. Well(authorized) BY <1>3, <1>4
<1> HIDE DEF authorized
<1>6. ASSUME NEW h, Well(h), NEW st, st \notin {"COMPLETE", "EREAD", "INCOMPLETE"}, XHTTP_StatusCb(h, line, outcome, st)
      PROVE  HttpInv'
  BY <1>1, <1>3, <1>6, EarlyFailure, StatusKept
<1>7. CASE Return(http, line, outcome, "ELINK")
  <2>1. MayTell(http, line, outcome, "ELINK") BY <1>1, <1>3, EarlyFailure
  <2>2. MayEnd(http, line, outcome, "ELINK") BY <2>1 DEF MayEnd, MayTell, Failures
  <2> QED BY <1>7, <2>2, ReturnKept
<1>8. CASE http' = authorized /\ line' = step /\ UNCHANGED outcome
  <2>1. IsLine(step) /\ step.pc = "send" BY <1>3 DEF IsLine
  <2> HIDE DEF step
  <2>2. Exchange(authorized, step, outcome) BY <1>1, <1>5, <2>1, StillWaiting
  <2> QED BY <1>8, <2>2 DEF HttpInv
<1> HIDE DEF step
<1>9. CASE XHTTP_StatusCb(http, line, outcome, "ELINK") BY <1>3, <1>6, <1>9
<1>10. CASE XHTTP_StatusCb(http, line, outcome, "EAUTH") BY <1>3, <1>6, <1>10
<1>11. CASE \E st \in {"EPROTO", "ERESOLVE"} : XHTTP_StatusCb(http, line, outcome, st) BY <1>3, <1>6, <1>11
<1>12. CASE \E st \in {"ECONNECT", "ETIMEO"} : XHTTP_StatusCb(authorized, line, outcome, st) BY <1>5, <1>6, <1>12
<1> QED BY <1>2, <1>7, <1>8, <1>9, <1>10, <1>11, <1>12

LEMMA AgainStep == ASSUME HttpAgain PROVE HttpInv'
<1>1. http' = XHTTP_Init /\ line' = Idle /\ outcome' = Untold BY DEF HttpAgain
<1>2. Exchange(XHTTP_Init, Idle, Untold)
  BY InitWell, IdleIs DEF Exchange, Counted, Before, Well, Unended, Untold, IsOutcome
<1> QED BY <1>1, <1>2 DEF HttpInv

LEMMA SendStep == ASSUME HttpInv, HttpSend PROVE HttpInv'
<1>1. Waiting BY DEF HttpSend, Waiting
<1>2. PICK fail \in {"none", "line", "length", "keep", "rest", "write", "want"} :
           LET performs == line.op \in {"perform", "link perform"}
               made == IF performs THEN XHTTP_Assemble(http, line.body, fail) ELSE [h |-> http, ok |-> TRUE]
               sent == [outcome EXCEPT !.fresh = performs => made.h.request.hdr = made.h.hdr]
           IN  CASE line.nb -> XHTTP_StatusCb(http, line, outcome, "EFDMODE")
                 [] ~line.nb /\ ~made.ok -> XHTTP_StatusCb(made.h, line, outcome, "EASSEMBLE")
                 [] ~line.nb /\ made.ok /\ fail \in {"write", "want"} ->
                        XHTTP_StatusCb(made.h, [line EXCEPT !.open = fail = "want"], outcome, "EWRITE")
                 [] OTHER -> \E v \in Verdicts :
                        IF v = "ERR" THEN Return(made.h, line, sent, "TERMINATED")
                        ELSE http' = XHTTP_Reset(made.h) /\ line' \in Answered(line) /\ outcome' = sent
  BY Zenon DEF HttpSend
<1> DEFINE performs == line.op \in {"perform", "link perform"}
           made == IF performs THEN XHTTP_Assemble(http, line.body, fail) ELSE [h |-> http, ok |-> TRUE]
           sent == [outcome EXCEPT !.fresh = performs => made.h.request.hdr = made.h.hdr]
           cut == [line EXCEPT !.open = fail = "want"]
<1>3. \/ XHTTP_StatusCb(http, line, outcome, "EFDMODE")
      \/ XHTTP_StatusCb(made.h, line, outcome, "EASSEMBLE")
      \/ XHTTP_StatusCb(made.h, cut, outcome, "EWRITE")
      \/ made.ok /\ \E v \in Verdicts :
            IF v = "ERR" THEN Return(made.h, line, sent, "TERMINATED")
            ELSE http' = XHTTP_Reset(made.h) /\ line' \in Answered(line) /\ outcome' = sent
  <2> HIDE DEF performs, made, sent, cut
  <2> QED BY <1>2 DEF performs, made, sent, cut
<1>4. Well(http) /\ IsLine(line) /\ line.body \in Nat BY <1>1, WaitingFacts DEF IsLine
<1>5. Well(made.h) /\ (made.ok /\ performs => made.h.request.hdr = made.h.hdr)
  BY <1>4, AssembleWell
<1>6. IsLine(cut) /\ cut.op = line.op /\ cut.cb = line.cb BY <1>4 DEF IsLine
<1> HIDE DEF cut
<1>7. CASE XHTTP_StatusCb(http, line, outcome, "EFDMODE")
  <2>1. MayTell(http, line, outcome, "EFDMODE") BY <1>1, <1>4, EarlyFailure
  <2> QED BY <1>7, <2>1, StatusKept
<1>8. CASE XHTTP_StatusCb(made.h, line, outcome, "EASSEMBLE")
  <2>1. MayTell(made.h, line, outcome, "EASSEMBLE") BY <1>1, <1>4, <1>5, EarlyFailure
  <2> QED BY <1>8, <2>1, StatusKept
<1>9. CASE XHTTP_StatusCb(made.h, cut, outcome, "EWRITE")
  <2>1. MayTell(made.h, cut, outcome, "EWRITE") BY <1>1, <1>5, <1>6, EarlyFailure
  <2> QED BY <1>6, <1>9, <2>1, StatusKept
<1>10. ASSUME made.ok, NEW v \in Verdicts,
              IF v = "ERR" THEN Return(made.h, line, sent, "TERMINATED")
              ELSE http' = XHTTP_Reset(made.h) /\ line' \in Answered(line) /\ outcome' = sent
       PROVE  HttpInv'
  <2> DEFINE new == performs => made.h.request.hdr = made.h.hdr
  <2>1. new BY <1>5, <1>10
  <2>2. sent = [outcome EXCEPT !.fresh = new] OBVIOUS
  <2> HIDE DEF sent, made, performs, new
  <2>3. /\ sent.fresh = new /\ sent.told = outcome.told /\ sent.eaten = outcome.eaten /\ sent.read = outcome.read
        /\ sent.lost = outcome.lost /\ sent.res = outcome.res /\ DOMAIN sent = DOMAIN outcome
    BY <1>1, <2>2, WaitingFacts DEF IsOutcome
  <2>4. IsOutcome(sent) BY <1>1, <2>3, WaitingFacts DEF IsOutcome
  <2>5. sent.fresh /\ sent.read = 0 /\ sent.eaten = 0 /\ Unended(sent) BY <1>1, <2>1, <2>3, WaitingFacts DEF Unended
  <2>6. CASE v = "ERR"
    <3>1. Counted(made.h, line, sent) BY <1>4, <1>5, <2>4, <2>5 DEF Counted, Well, Unended
    <3>2. Bounded(made.h, line) BY <1>5, HttpAssumption DEF Bounded, Well, IsHttp
    <3>3. MayEnd(made.h, line, sent, "TERMINATED") BY <2>5, <3>1, <3>2 DEF MayEnd, Unended, Failures
    <3> QED BY <1>10, <2>6, <3>3, ReturnKept
  <2>7. CASE v # "ERR"
    <3>1. http' = XHTTP_Reset(made.h) /\ line' \in Answered(line) /\ outcome' = sent BY <1>10, <2>7
    <3>2. IsHttp(http') /\ http'.used = 0 /\ http'.hlen = 0 /\ ~http'.complete
      BY <3>1, InitWell DEF XHTTP_Reset, XHTTP_Init, IsHttp, NoMessage
    <3>3. IsLine(line') /\ line'.pc = "header" BY <1>4, <3>1, AnsweredIs
    <3>4. Exchange(http', line', sent) BY <2>4, <2>5, <3>2, <3>3, ReceiveBegins
    <3> QED BY <3>1, <3>4 DEF HttpInv
  <2> QED BY <2>6, <2>7
<1> QED BY <1>3, <1>7, <1>8, <1>9, <1>10

-----------------------------------------------------------------------------
(* Receiving.                                                              *)

\* A read and what the call knows after it.
LEMMA ReadIs ==
    ASSUME IsLine(line), NEW r \in Reads
    PROVE  LET l == AfterRead(r) IN
           /\ r.n \in Nat /\ r.n <= RxSize /\ IsLine(l) /\ l.pc = line.pc /\ l.op = line.op /\ l.cb = line.cb
           /\ l.nb = line.nb /\ l.takes = line.takes /\ l.answer = line.answer /\ l.size = line.size
<1> USE HttpAssumption
<1> DEFINE l == AfterRead(r)
<1>1. line.left \in Nat BY DEF IsLine
<1>2. r.n \in Nat /\ r.n <= RxSize /\ r.n <= line.left
  <2> DEFINE most == IF line.left < RxSize THEN line.left ELSE RxSize
  <2>1. most \in Nat /\ most <= RxSize /\ most <= line.left BY <1>1
  <2> HIDE DEF most
  <2>2. r.n \in 1..most \/ r.n \in {0} BY Zenon DEF Reads, most
  <2> QED BY <1>1, <2>1, <2>2
<1>3. line.left - r.n \in Nat BY <1>1, <1>2
<1>4. /\ l.pc = line.pc /\ l.op = line.op /\ l.cb = line.cb /\ l.body = line.body /\ l.left = line.left - r.n
      /\ l.nb = line.nb /\ l.takes = line.takes /\ l.answer = line.answer /\ l.size = line.size
      /\ DOMAIN l = DOMAIN line
  BY DEF AfterRead, IsLine
<1> HIDE DEF l
<1>5. IsLine(l) BY <1>3, <1>4 DEF IsLine
<1> QED BY <1>2, <1>4, <1>5 DEF l

\* What XHTTP_Parse makes of h.
ParsedFrom(h, p) ==
    /\ IsHttp(p.h) /\ p.h.used = h.used
    /\ p.st \in {"INCOMPLETE", "INVALID", "COMPLETE", "PARSED", "TERMINATED"}
    /\ p.st = "INCOMPLETE" => ~p.h.complete /\ p.h.hlen = 0 /\ h.used < line.answer.head
    /\ p.st = "INVALID" => p.calls /\ ~line.answer.valid
    /\ p.st \in {"COMPLETE", "PARSED"} => line.answer.valid /\ p.h.hlen = line.answer.head /\ h.used >= line.answer.head
    /\ p.st = "COMPLETE" /\ line.answer.stated > 0 => h.used >= line.answer.head + line.answer.stated
    /\ p.st = "PARSED" => ~p.h.complete /\ p.h.clen = line.answer.stated

LEMMA ParseIs ==
    ASSUME NEW h, IsHttp(h), ~h.complete, h.hlen = 0, IsLine(line)
    PROVE  ParsedFrom(h, XHTTP_Parse(h))
<1> DEFINE g == [h EXCEPT !.hlen = line.answer.head]
           p == [g EXCEPT !.clen = line.answer.stated]
           d == [p EXCEPT !.complete = TRUE]
<1>1. line.answer.head \in Nat \ {0} /\ line.answer.stated \in Nat BY DEF IsLine
<1>2. /\ IsHttp(g) /\ g.used = h.used /\ g.hlen = line.answer.head /\ ~g.complete BY <1>1 DEF IsHttp
<1> HIDE DEF g
<1>3. IsHttp(p) /\ p.used = h.used /\ p.hlen = line.answer.head /\ p.clen = line.answer.stated /\ ~p.complete
  BY <1>1, <1>2 DEF IsHttp
<1> HIDE DEF p
<1>4. IsHttp(d) /\ d.used = h.used /\ d.hlen = line.answer.head BY <1>3 DEF IsHttp
<1> HIDE DEF d
<1>5. CASE h.used < line.answer.head
  <2>1. XHTTP_Parse(h) = [h |-> h, st |-> "INCOMPLETE", calls |-> FALSE]
    BY <1>1, <1>5 DEF XHTTP_Parse, IsHttp
  <2> QED BY <1>5, <2>1 DEF ParsedFrom
<1>6. CASE h.used >= line.answer.head /\ ~line.answer.valid
  <2>1. XHTTP_Parse(h) = [h |-> g, st |-> "INVALID", calls |-> TRUE]
    BY <1>1, <1>6 DEF XHTTP_Parse, IsHttp, g
  <2> QED BY <1>2, <1>6, <2>1 DEF ParsedFrom
<1>7. CASE h.used >= line.answer.head /\ line.answer.valid /\ XHTTP_CheckComplete(p)
  <2>1. XHTTP_Parse(h) = [h |-> d, st |-> "COMPLETE", calls |-> TRUE]
    BY <1>1, <1>7 DEF XHTTP_Parse, IsHttp, g, p, d
  <2>2. line.answer.stated > 0 => h.used >= line.answer.head + line.answer.stated
    BY <1>1, <1>3, <1>7 DEF XHTTP_CheckComplete, XHTTP_GetBodySize, IsHttp
  <2> QED BY <1>4, <1>7, <2>1, <2>2 DEF ParsedFrom
<1>8. CASE h.used >= line.answer.head /\ line.answer.valid /\ ~XHTTP_CheckComplete(p)
  <2>1. XHTTP_Parse(h) = [h |-> p, st |-> "PARSED", calls |-> TRUE]
    BY <1>1, <1>8 DEF XHTTP_Parse, IsHttp, g, p
  <2> QED BY <1>3, <1>8, <2>1 DEF ParsedFrom
<1> QED BY <1>1, <1>5, <1>6, <1>7, <1>8 DEF IsHttp

LEMMA JudgedIs ==
    ASSUME NEW h, IsHttp(h), ~h.complete, h.hlen = 0, IsLine(line), NEW v
    PROVE  ParsedFrom(h, Judged(XHTTP_Parse(h), v))
<1> DEFINE p == XHTTP_Parse(h)
           j == [p EXCEPT !.st = "TERMINATED", !.h.complete = FALSE]
<1>1. ParsedFrom(h, p) BY ParseIs
<1>2. DOMAIN p = {"h", "st", "calls"} BY DEF XHTTP_Parse
<1> HIDE DEF p
<1>3. j.st = "TERMINATED" /\ j.h = [p.h EXCEPT !.complete = FALSE] BY <1>2
<1>4. IsHttp(p.h) /\ p.h.used = h.used BY <1>1 DEF ParsedFrom
<1> HIDE DEF j
<1>5. IsHttp(j.h) /\ j.h.used = h.used BY <1>3, <1>4 DEF IsHttp
<1>6. ParsedFrom(h, j) BY <1>3, <1>5 DEF ParsedFrom
<1>7. Judged(p, v) \in {p, j} BY DEF Judged, j
<1> QED BY <1>1, <1>6, <1>7 DEF p

\* XHTTP_ReadHeader has left its loop.
HeadRead(p, l, o) ==
    /\ Counted(p.h, l, o) /\ o.eaten = 0 /\ o.lost = 0 /\ o.told <= 1 /\ o.res \in {"NONE", "INCOMPLETE"}
    /\ l.pc = "header" /\ l.op = line.op /\ l.answer = line.answer
    /\ ~l.nb => p.h.used < HeaderMax + RxSize
    /\ p.st # "TERMINATED" => o.told = 0
    /\ p.st \in {"INCOMPLETE", "COMPLETE", "PARSED", "TERMINATED"}
    /\ p.st = "INCOMPLETE" => InHeader(p.h, l, o)

LEMMA HeaderReadKept ==
    ASSUME NEW h, NEW p, NEW l, NEW o, ParsedFrom(h, p), HeadRead(p, l, o), HeaderRead(p, l, o)
    PROVE  HttpInv'
<1> USE HttpAssumption
<1> DEFINE body == XHTTP_GetBodySize(p.h)
           k == [l EXCEPT !.pc = "content", !.size = body]
<1>1. /\ Counted(p.h, l, o) /\ IsHttp(p.h) /\ IsLine(l) /\ IsOutcome(o) /\ l.op = line.op /\ o.told <= 1
      /\ l.answer = line.answer
  BY DEF HeadRead, Counted
<1>2. Bounded(p.h, l) BY <1>1 DEF HeadRead, Bounded, IsHttp
<1>3. p.st = "COMPLETE" /\ l.answer.stated > 0 => HasArrived(l, o)
  BY <1>1 DEF HeadRead, HasArrived, ParsedFrom, Counted, IsHttp, IsLine
<1>4. CASE Return(p.h, l, o, "TERMINATED")
  <2>1. MayEnd(p.h, l, o, "TERMINATED") BY <1>1, <1>2 DEF MayEnd, Failures
  <2> QED BY <1>1, <1>4, <2>1, ReturnKept
<1>5. CASE Stopped(p.h, l, o)
  <2> QED BY <1>1, <1>2, <1>5, StoppedKept
<1>6. CASE p.st = "INCOMPLETE" /\ Pause(p.h, l, o)
  <2>1. Exchange(p.h, l, o) BY <1>1, <1>6 DEF Exchange, HeadRead
  <2> QED BY <1>6, <2>1, PauseKept DEF HeadRead
<1>7. CASE p.st = "PARSED" /\ Continue(p.h, k, o)
  <2>1. /\ ~p.h.complete /\ p.h.hlen = l.answer.head /\ p.h.clen = l.answer.stated /\ p.h.used >= l.answer.head
    BY <1>1, <1>7 DEF ParsedFrom
  <2>2. body = p.h.used - p.h.hlen /\ body \in Nat BY <1>1, <2>1 DEF XHTTP_GetBodySize, IsHttp, IsLine
  <2> HIDE DEF body
  <2>3. /\ DOMAIN k = DOMAIN l /\ k.pc = "content" /\ k.size = body /\ k.answer = l.answer /\ k.left = l.left
        /\ k.body = l.body /\ k.takes = l.takes /\ k.nb = l.nb
    BY <1>1 DEF IsLine
  <2> HIDE DEF k
  <2>4. IsLine(k) BY <1>1, <2>2, <2>3 DEF IsLine
  <2>5. Counted(p.h, k, o) BY <1>1, <2>4 DEF Counted
  <2>6. Unended(o) /\ o.eaten = 0 BY <1>7 DEF HeadRead, Unended
  <2>7. ~k.nb => p.h.used < ContentMax BY <1>1, <2>3 DEF HeadRead, IsHttp
  <2>8. Sized(p.h, k, o) BY <1>1, <2>2, <2>3, <2>6 DEF Sized, IsHttp
  <2>9. InContent(p.h, k, o) BY <2>1, <2>3, <2>6, <2>7, <2>8 DEF InContent
  <2>10. Exchange(p.h, k, o) BY <2>3, <2>5, <2>9 DEF Exchange
  <2> QED BY <1>7, <2>10, ContinueKept
<1>8. CASE p.st \in {"COMPLETE", "TERMINATED"} /\ Return(p.h, l, o, p.st)
  <2>1. MayEnd(p.h, l, o, p.st) BY <1>1, <1>2, <1>3, <1>8 DEF MayEnd, Failures
  <2> QED BY <1>1, <1>8, <2>1, ReturnKept
<1> QED
  <2>1. PICK vh \in Verdicts, vc \in Verdicts :
          LET asks == p.st \in {"COMPLETE", "PARSED"} /\ body > 0
          IN  CASE vh = "ERR" -> Return(p.h, l, o, "TERMINATED")
              [] vh = "NON" -> Stopped(p.h, l, o)
              [] vh = "GO" /\ asks /\ vc = "ERR" -> Return(p.h, l, o, "TERMINATED")
              [] vh = "GO" /\ asks /\ vc = "NON" -> Stopped(p.h, l, o)
              [] vh = "GO" /\ (asks => vc = "GO") ->
                     IF p.st = "INCOMPLETE" THEN Pause(p.h, l, o)
                     ELSE IF p.st = "PARSED" THEN Continue(p.h, k, o)
                     ELSE Return(p.h, l, o, p.st)
    BY DEF HeaderRead
  <2> HIDE DEF k, body
  <2>2. vh \in {"ERR", "NON", "GO"} /\ vc \in {"ERR", "NON", "GO"} BY DEF Verdicts
  <2>3. p.st \in {"INCOMPLETE", "COMPLETE", "PARSED", "TERMINATED"} BY DEF HeadRead
  <2> QED BY <1>4, <1>5, <1>6, <1>7, <1>8, <2>1, <2>2, <2>3

LEMMA ReadHeaderStep == ASSUME HttpInv, XHTTP_ReadHeader PROVE HttpInv'
<1> USE HttpAssumption
<1>1. PICK r \in Reads, v \in Verdicts :
           LET l == AfterRead(r)
               p == Judged(XHTTP_Parse([http EXCEPT !.used = @ + r.n]), v)
               told == line.cb /\ p.calls /\ ~line.answer.valid
               o == [outcome EXCEPT !.read = @ + r.n]
               asked == [o EXCEPT !.told = IF told THEN @ + 1 ELSE @]
           IN  \/ r.n = 0 /\ XHTTP_StatusCb(http, l, o, "EREAD")
               \/ r.n > 0 /\ XHTTP_StatusCb(http, l, [o EXCEPT !.lost = @ + r.n], "EALLOC")
               \/ /\ r.n > 0 /\ p.st \in {"COMPLETE", "PARSED"}
                  /\ XHTTP_StatusCb([p.h EXCEPT !.clen = 0, !.complete = FALSE], l, o, "EALLOC")
               \/ r.n > 0 /\ p.st = "INVALID" /\ Return(p.h, l, asked, "INVALID")
               \/ /\ r.n > 0 /\ p.st = "INCOMPLETE"
                  /\ IF p.h.used >= HeaderMax THEN XHTTP_StatusCb(p.h, l, o, "BIGHDR")
                     ELSE IF l.nb THEN HeaderRead(p, l, o) ELSE Continue(p.h, l, o)
               \/ r.n > 0 /\ p.st \in {"COMPLETE", "PARSED", "TERMINATED"} /\ HeaderRead(p, l, asked)
  BY Zenon DEF XHTTP_ReadHeader
<1> DEFINE l == AfterRead(r)
           h == [http EXCEPT !.used = @ + r.n]
           p == Judged(XHTTP_Parse(h), v)
           told == line.cb /\ p.calls /\ ~line.answer.valid
           o == [outcome EXCEPT !.read = @ + r.n]
           lost == [o EXCEPT !.lost = @ + r.n]
           asked == [o EXCEPT !.told = IF told THEN @ + 1 ELSE @]
           bare == [p.h EXCEPT !.clen = 0, !.complete = FALSE]
<1>2. /\ IsHttp(http) /\ IsLine(line) /\ IsOutcome(outcome) /\ InHeader(http, line, outcome)
      /\ Counted(http, line, outcome) /\ line.pc = "header"
  BY DEF HttpInv, Exchange, Counted, XHTTP_ReadHeader
<1>3. /\ r.n \in Nat /\ r.n <= RxSize /\ IsLine(l) /\ l.pc = "header" /\ l.op = line.op /\ l.cb = line.cb
      /\ l.nb = line.nb /\ l.answer = line.answer
  BY <1>2, ReadIs
<1>4. IsHttp(h) /\ h.used = http.used + r.n /\ h.hlen = 0 /\ ~h.complete
  BY <1>2, <1>3 DEF IsHttp, InHeader
<1>5. ParsedFrom(h, p) /\ IsHttp(p.h) /\ p.h.used = h.used
  <2> HIDE DEF h
  <2>1. ParsedFrom(h, p) BY <1>2, <1>4, JudgedIs
  <2> HIDE DEF p
  <2> QED BY <2>1 DEF ParsedFrom
<1>6. /\ DOMAIN o = DOMAIN outcome /\ o.read = outcome.read + r.n /\ o.told = 0 /\ o.eaten = 0 /\ o.lost = 0
      /\ o.fresh = outcome.fresh /\ o.res \in {"NONE", "INCOMPLETE"} /\ IsOutcome(o)
  BY <1>2, <1>3 DEF IsOutcome, InHeader, Unended
<1> HIDE DEF o, p, l
<1>7. IsOutcome(lost) /\ lost.told = 0 /\ lost.eaten = 0 /\ lost.lost = r.n /\ lost.read = o.read /\ lost.fresh = o.fresh
  BY <1>3, <1>6 DEF IsOutcome
<1>8. /\ IsOutcome(asked) /\ asked.told = (IF told THEN 1 ELSE 0) /\ asked.eaten = 0 /\ asked.lost = 0
      /\ asked.read = o.read /\ asked.fresh = o.fresh /\ asked.res = o.res
  <2> HIDE DEF told
  <2> QED BY <1>6 DEF IsOutcome
<1>9. /\ IsHttp(bare) /\ bare.used = h.used BY <1>5 DEF IsHttp
<1> HIDE DEF lost, asked, bare, h
<1>10. o.fresh /\ http.used = outcome.read BY <1>2, <1>6 DEF Counted, InHeader, Unended, IsHttp, IsOutcome
<1>11. Counted(p.h, l, o) /\ Counted(p.h, l, asked) /\ Counted(bare, l, o)
  BY <1>2, <1>3, <1>4, <1>5, <1>6, <1>8, <1>9, <1>10 DEF Counted, IsHttp, IsOutcome
<1>12. Counted(http, l, lost)
  BY <1>2, <1>3, <1>6, <1>7, <1>10 DEF Counted, IsHttp, IsOutcome
<1>13. ~l.nb => http.used < HeaderMax /\ h.used < HeaderMax + RxSize
  BY <1>2, <1>3, <1>4 DEF InHeader, IsHttp
<1>14. Bounded(http, l) /\ Bounded(p.h, l) /\ Bounded(bare, l)
  BY <1>2, <1>5, <1>9, <1>13 DEF Bounded, IsHttp
<1>15. CASE r.n = 0 /\ XHTTP_StatusCb(http, l, o, "EREAD")
  <2>1. ~HasArrived(l, o) BY <1>2, <1>3, <1>6, <1>10, <1>15 DEF HasArrived, InHeader, IsLine, IsHttp
  <2>2. Counted(http, l, o) BY <1>2, <1>3, <1>6, <1>10, <1>15 DEF Counted, IsHttp, IsOutcome
  <2>3. MayTell(http, l, o, "EREAD") BY <1>6, <1>14, <2>1, <2>2 DEF MayTell
  <2> QED BY <1>3, <1>15, <2>3, StatusKept
<1>16. CASE XHTTP_StatusCb(http, l, lost, "EALLOC")
  <2>1. MayTell(http, l, lost, "EALLOC") BY <1>7, <1>12, <1>14 DEF MayTell
  <2> QED BY <1>3, <1>16, <2>1, StatusKept
<1>17. CASE XHTTP_StatusCb(bare, l, o, "EALLOC")
  <2>1. MayTell(bare, l, o, "EALLOC") BY <1>6, <1>11, <1>14 DEF MayTell
  <2> QED BY <1>3, <1>17, <2>1, StatusKept
<1>18. CASE p.st = "INVALID" /\ Return(p.h, l, asked, "INVALID")
  <2>1. told <=> l.cb BY <1>3, <1>5, <1>18 DEF ParsedFrom
  <2>2. asked.told <= 1 /\ (l.cb => asked.told = 1) BY <1>8, <2>1
  <2>3. MayEnd(p.h, l, asked, "INVALID") BY <1>11, <1>14, <2>2 DEF MayEnd
  <2> QED BY <1>3, <1>18, <2>3, ReturnKept
<1>19. CASE p.st = "INCOMPLETE" /\ p.h.used >= HeaderMax /\ XHTTP_StatusCb(p.h, l, o, "BIGHDR")
  <2>1. MayTell(p.h, l, o, "BIGHDR") BY <1>6, <1>11, <1>14 DEF MayTell
  <2> QED BY <1>3, <1>19, <2>1, StatusKept
<1>20. p.st = "INCOMPLETE" /\ (l.nb \/ p.h.used < HeaderMax) => InHeader(p.h, l, o)
  BY <1>3, <1>5, <1>6 DEF InHeader, Unended, ParsedFrom
<1>21. CASE p.st = "INCOMPLETE" /\ l.nb /\ HeaderRead(p, l, o)
  <2>1. HeadRead(p, l, o) BY <1>3, <1>5, <1>6, <1>11, <1>20, <1>21 DEF HeadRead
  <2> QED BY <1>5, <1>21, <2>1, HeaderReadKept
<1>22. CASE p.st = "INCOMPLETE" /\ p.h.used < HeaderMax /\ Continue(p.h, l, o)
  <2>1. Exchange(p.h, l, o) BY <1>3, <1>11, <1>20, <1>22 DEF Exchange
  <2> QED BY <1>22, <2>1, ContinueKept
<1>23. CASE p.st \in {"COMPLETE", "PARSED", "TERMINATED"} /\ HeaderRead(p, l, asked)
  <2>1. p.st # "TERMINATED" => asked.told = 0 BY <1>5, <1>8, <1>23 DEF ParsedFrom
  <2>2. asked.told <= 1 BY <1>8
  <2>3. HeadRead(p, l, asked) BY <1>3, <1>5, <1>6, <1>8, <1>11, <1>13, <1>23, <2>1, <2>2 DEF HeadRead
  <2> QED BY <1>5, <1>23, <2>3, HeaderReadKept
<1>24. p.h.used >= HeaderMax \/ p.h.used < HeaderMax BY <1>5 DEF IsHttp
<1>25. \/ r.n = 0 /\ XHTTP_StatusCb(http, l, o, "EREAD")
       \/ r.n > 0 /\ XHTTP_StatusCb(http, l, lost, "EALLOC")
       \/ /\ r.n > 0 /\ p.st \in {"COMPLETE", "PARSED"}
          /\ XHTTP_StatusCb(bare, l, o, "EALLOC")
       \/ r.n > 0 /\ p.st = "INVALID" /\ Return(p.h, l, asked, "INVALID")
       \/ /\ r.n > 0 /\ p.st = "INCOMPLETE"
          /\ IF p.h.used >= HeaderMax THEN XHTTP_StatusCb(p.h, l, o, "BIGHDR")
             ELSE IF l.nb THEN HeaderRead(p, l, o) ELSE Continue(p.h, l, o)
       \/ r.n > 0 /\ p.st \in {"COMPLETE", "PARSED", "TERMINATED"} /\ HeaderRead(p, l, asked)
  BY <1>1, Zenon DEF l, h, p, o, lost, asked, bare
<1> QED BY <1>15, <1>16, <1>17, <1>18, <1>19, <1>21, <1>22, <1>23, <1>24, <1>25

\* n bytes of content go to the buffer.
LEMMA BufferKept ==
    ASSUME NEW n \in Nat, n <= RxSize, NEW l, NEW o, InContent(http, line, outcome), IsHttp(http), IsLine(l), IsOutcome(o),
           l.pc = "content", l.op = line.op, l.cb = line.cb, l.nb = line.nb, l.answer = line.answer,
           l.takes = line.takes, l.takes # "OK",
           o.fresh, Unended(o), o.eaten = outcome.eaten, http.used + n + o.eaten = o.read,
           Buffer(n, l, o)
    PROVE  HttpInv'
<1> USE HttpAssumption
<1> DEFINE h == [http EXCEPT !.used = @ + n]
           size == XHTTP_GetBodySize(h)
           m == [l EXCEPT !.size = size]
           full == h.clen > 0 /\ size >= h.clen
           lost == [o EXCEPT !.lost = @ + n]
           done == [h EXCEPT !.complete = TRUE]
<1>1. \/ XHTTP_StatusCb(http, l, lost, "EALLOC")
      \/ full /\ Return(done, m, o, "COMPLETE")
      \/ l.nb /\ Pause(h, m, o)
      \/ ~full /\ Return(h, m, o, "INCOMPLETE")
      \/ ~l.nb /\ h.used >= ContentMax /\ XHTTP_StatusCb(h, m, o, "BIGCNT")
      \/ ~l.nb /\ ~(h.used >= ContentMax) /\ Continue(h, m, o)
  <2> HIDE DEF h, size, m, full, lost, done
  <2> QED BY DEF Buffer, h, size, m, full, lost, done
<1>2. /\ IsHttp(h) /\ h.used = http.used + n /\ h.hlen = http.hlen /\ h.clen = http.clen /\ h.complete = http.complete
  BY DEF IsHttp
<1> HIDE DEF h
<1>3. /\ http.hlen = l.answer.head /\ http.clen = l.answer.stated /\ http.used >= http.hlen /\ ~http.complete
      /\ ~l.nb => http.used < ContentMax
      /\ l.takes = "USR" => o.eaten = 0
  BY DEF InContent, Sized
<1>4. size = h.used - h.hlen /\ size \in Nat
  BY <1>2, <1>3 DEF XHTTP_GetBodySize, IsHttp, IsLine
<1> HIDE DEF size
<1>5. /\ DOMAIN m = DOMAIN l /\ m.pc = "content" /\ m.size = size /\ m.answer = l.answer /\ m.left = l.left
      /\ m.body = l.body /\ m.takes = l.takes /\ m.nb = l.nb /\ m.op = l.op /\ m.cb = l.cb
  BY DEF IsLine
<1> HIDE DEF m
<1>6. IsLine(m) BY <1>4, <1>5 DEF IsLine
<1>7. IsHttp(done) /\ done.used = h.used /\ done.hlen = h.hlen BY <1>2 DEF IsHttp
<1>8. IsOutcome(lost) /\ lost.lost = n /\ lost.told = 0 /\ lost.eaten = o.eaten /\ lost.read = o.read /\ lost.fresh = o.fresh
  <2>1. o.lost = 0 /\ o.told = 0 BY DEF Unended
  <2>2. /\ DOMAIN lost = DOMAIN o /\ lost.lost = o.lost + n /\ lost.told = o.told /\ lost.eaten = o.eaten
        /\ lost.read = o.read /\ lost.fresh = o.fresh
    BY DEF IsOutcome
  <2> HIDE DEF lost
  <2> QED BY <2>1, <2>2 DEF IsOutcome
<1> HIDE DEF done, lost
<1>9. Counted(h, m, o) /\ Counted(done, m, o)
  BY <1>2, <1>6, <1>7 DEF Counted, Unended, IsHttp, IsOutcome
<1>10. Counted(http, l, lost) BY <1>8 DEF Counted, IsHttp, IsOutcome
<1>11. Bounded(h, m) /\ Bounded(done, m) /\ Bounded(http, l)
  BY <1>2, <1>3, <1>5, <1>7 DEF Bounded, IsHttp, IsLine
<1>12. CASE XHTTP_StatusCb(http, l, lost, "EALLOC")
  <2>1. MayTell(http, l, lost, "EALLOC") BY <1>8, <1>10, <1>11 DEF MayTell
  <2> QED BY <1>12, <2>1, StatusKept
<1>13. CASE full /\ Return(done, m, o, "COMPLETE")
  <2>1. HasArrived(m, o)
    BY <1>2, <1>3, <1>4, <1>5, <1>13 DEF HasArrived, IsHttp, IsLine, IsOutcome
  <2>2. MayEnd(done, m, o, "COMPLETE") BY <1>9, <1>11, <2>1 DEF MayEnd, Unended, Failures
  <2> QED BY <1>5, <1>13, <2>2, ReturnKept
<1>14. Sized(h, m, o) BY <1>2, <1>3, <1>4, <1>5 DEF Sized, IsHttp
<1>15. CASE l.nb /\ Pause(h, m, o)
  <2>1. InContent(h, m, o) BY <1>2, <1>3, <1>5, <1>14, <1>15 DEF InContent, IsHttp
  <2>2. Exchange(h, m, o) BY <1>5, <1>9, <2>1 DEF Exchange
  <2> QED BY <1>5, <1>15, <2>2, PauseKept
<1>16. CASE ~full /\ Return(h, m, o, "INCOMPLETE")
  <2>1. m.takes # "mixed" => ~HasArrived(m, o)
    BY <1>2, <1>3, <1>4, <1>5, <1>16 DEF HasArrived, IsHttp, IsLine, IsOutcome
  <2>2. MayEnd(h, m, o, "INCOMPLETE") BY <1>9, <1>11, <2>1 DEF MayEnd, Unended, Failures
  <2> QED BY <1>5, <1>16, <2>2, ReturnKept
<1>17. CASE XHTTP_StatusCb(h, m, o, "BIGCNT")
  <2>1. MayTell(h, m, o, "BIGCNT") BY <1>9, <1>11 DEF MayTell, Unended
  <2> QED BY <1>5, <1>17, <2>1, StatusKept
<1>18. CASE ~l.nb /\ ~(h.used >= ContentMax) /\ Continue(h, m, o)
  <2>1. h.used < ContentMax BY <1>2, <1>18 DEF IsHttp
  <2>2. InContent(h, m, o) BY <1>2, <1>3, <1>5, <1>14, <2>1 DEF InContent, IsHttp
  <2>3. Exchange(h, m, o) BY <1>5, <1>9, <2>2 DEF Exchange
  <2> QED BY <1>18, <2>3, ContinueKept
<1> QED BY <1>1, <1>12, <1>13, <1>15, <1>16, <1>17, <1>18

LEMMA ReadContentStep == ASSUME HttpInv, XHTTP_ReadContent PROVE HttpInv'
<1> USE HttpAssumption
<1>1. /\ IsHttp(http) /\ IsLine(line) /\ IsOutcome(outcome) /\ InContent(http, line, outcome)
      /\ Counted(http, line, outcome) /\ line.pc = "content"
  BY DEF HttpInv, Exchange, Counted, XHTTP_ReadContent
<1>2. /\ ~http.complete /\ http.hlen = line.answer.head /\ http.clen = line.answer.stated /\ http.used >= http.hlen
      /\ Sized(http, line, outcome) /\ outcome.lost = 0 /\ outcome.told = 0 /\ http.used + outcome.eaten = outcome.read
  BY <1>1 DEF InContent, Unended, Counted, IsHttp, IsOutcome
<1>3. line.answer.head \in Nat \ {0} /\ line.answer.stated \in Nat /\ line.size \in Nat BY <1>1 DEF IsLine
<1>4. CASE ContentEnds /\ Return([http EXCEPT !.complete = @ \/ http.clen > 0], line, outcome, "COMPLETE")
  <2> DEFINE b == http.complete \/ http.clen > 0
             g == [http EXCEPT !.complete = b]
  <2>1. Return(g, line, outcome, "COMPLETE") BY <1>4
  <2> HIDE DEF b
  <2>2. IsHttp(g) /\ g.used = http.used /\ g.hlen = http.hlen BY <1>1 DEF IsHttp
  <2> HIDE DEF g
  <2>3. Counted(g, line, outcome) BY <1>1, <2>2 DEF Counted
  <2>4. Bounded(g, line) BY <1>1, <1>2, <1>3, <2>2 DEF Bounded, InContent, IsHttp
  <2>5. line.answer.stated > 0 /\ line.takes # "mixed" => HasArrived(line, outcome)
    <3> SUFFICES ASSUME line.answer.stated > 0, line.takes # "mixed" PROVE HasArrived(line, outcome) OBVIOUS
    <3>1. line.size >= line.answer.stated BY <1>2, <1>4 DEF ContentEnds
    <3>2. line.size <= http.used - http.hlen + outcome.eaten
      BY <1>1, <1>2, <1>3 DEF Sized, IsLine, IsHttp, IsOutcome
    <3> QED BY <1>1, <1>2, <1>3, <3>1, <3>2 DEF HasArrived, IsHttp, IsOutcome
  <2>6. MayEnd(g, line, outcome, "COMPLETE") BY <1>2, <2>3, <2>4, <2>5 DEF MayEnd, Failures
  <2> QED BY <2>1, <2>6, ReturnKept
<1>5. ASSUME NEW r \in Reads, NEW v \in Verdicts, NEW keeps \in Kept, ~ContentEnds,
             LET l == AfterRead(r)
                 o == [outcome EXCEPT !.read = @ + r.n]
                 handed == [o EXCEPT !.eaten = @ + r.n]
             IN  \/ r.n = 0 /\ ReadEndCompletes(l) /\ Return(http, l, o, "COMPLETE")
                 \/ r.n = 0 /\ ~ReadEndCompletes(l) /\ XHTTP_StatusCb(http, l, o, "EREAD")
                 \/ r.n > 0 /\ v = "ERR" /\ Return(http, l, handed, "TERMINATED")
                 \/ r.n > 0 /\ v = "NON" /\ Stopped(http, l, handed)
                 \/ r.n > 0 /\ v = "GO" /\ keeps = "OK" /\ l.nb
                    /\ Pause(http, [l EXCEPT !.size = XHTTP_GetBodySize(http)], handed)
                 \/ r.n > 0 /\ v = "GO" /\ keeps = "OK" /\ ~l.nb
                    /\ Continue(http, [l EXCEPT !.size = @ + r.n], handed)
                 \/ r.n > 0 /\ v = "GO" /\ keeps = "USR" /\ Buffer(r.n, l, o)
      PROVE  HttpInv'
  <2> DEFINE l == AfterRead(r)
             o == [outcome EXCEPT !.read = @ + r.n]
             handed == [o EXCEPT !.eaten = @ + r.n]
             again == [l EXCEPT !.size = XHTTP_GetBodySize(http)]
             more == [l EXCEPT !.size = @ + r.n]
  <2>1. /\ r.n \in Nat /\ r.n <= RxSize /\ IsLine(l) /\ l.pc = "content" /\ l.op = line.op /\ l.cb = line.cb
        /\ l.nb = line.nb /\ l.answer = line.answer /\ l.takes = line.takes /\ l.size = line.size
    BY <1>1, ReadIs
  <2>2. /\ DOMAIN o = DOMAIN outcome /\ o.read = outcome.read + r.n /\ o.told = outcome.told /\ o.eaten = outcome.eaten
        /\ o.lost = outcome.lost /\ o.fresh = outcome.fresh /\ o.res = outcome.res
    BY <1>1 DEF IsOutcome
  <2> HIDE DEF o
  <2>3. IsOutcome(o) BY <1>1, <2>1, <2>2 DEF IsOutcome
  <2>4. /\ DOMAIN handed = DOMAIN o /\ handed.read = o.read /\ handed.told = o.told /\ handed.eaten = o.eaten + r.n
        /\ handed.lost = o.lost /\ handed.fresh = o.fresh /\ handed.res = o.res
    BY <2>3 DEF IsOutcome
  <2> HIDE DEF handed
  <2>5. IsOutcome(handed) BY <2>1, <2>3, <2>4 DEF IsOutcome
  <2>6. Unended(o) /\ Unended(handed) /\ o.told = 0 /\ handed.told = 0 /\ o.fresh
    BY <1>1, <2>2, <2>4 DEF InContent, Unended, Counted
  <2>7. XHTTP_GetBodySize(http) = http.used - http.hlen /\ XHTTP_GetBodySize(http) \in Nat
    BY <1>1, <1>2, <1>3 DEF XHTTP_GetBodySize, IsHttp
  <2>8. /\ DOMAIN again = DOMAIN l /\ again.pc = "content" /\ again.size = XHTTP_GetBodySize(http)
        /\ again.answer = l.answer /\ again.left = l.left /\ again.body = l.body /\ again.takes = l.takes /\ again.nb = l.nb
    BY <2>1 DEF IsLine
  <2>9. /\ DOMAIN more = DOMAIN l /\ more.pc = "content" /\ more.size = l.size + r.n
        /\ more.answer = l.answer /\ more.left = l.left /\ more.body = l.body /\ more.takes = l.takes /\ more.nb = l.nb
    BY <2>1 DEF IsLine
  <2> HIDE DEF l, again, more
  <2>10. IsLine(again) BY <2>1, <2>7, <2>8 DEF IsLine
  <2>11. IsLine(more) BY <2>1, <2>9 DEF IsLine
  <2>12. Counted(http, l, handed) /\ Counted(http, again, handed) /\ Counted(http, more, handed)
    BY <1>1, <1>2, <2>1, <2>2, <2>4, <2>5, <2>6, <2>10, <2>11 DEF Counted, IsHttp, IsOutcome
  <2>13. Bounded(http, l) BY <1>1, <1>2, <1>3, <2>1 DEF Bounded, InContent, IsHttp
  <2>14. r.n = 0 => Counted(http, l, o)
    BY <1>1, <1>2, <2>1, <2>2, <2>3, <2>6 DEF Counted, IsHttp, IsOutcome
  <2>15. CASE r.n = 0 /\ ReadEndCompletes(l) /\ Return(http, l, o, "COMPLETE")
    <3>1. l.answer.stated = 0 BY <1>2, <2>1, <2>15 DEF ReadEndCompletes
    <3>2. MayEnd(http, l, o, "COMPLETE") BY <2>6, <2>13, <2>14, <2>15, <3>1 DEF MayEnd, Failures
    <3> QED BY <2>1, <2>15, <3>2, ReturnKept
  <2>16. CASE r.n = 0 /\ XHTTP_StatusCb(http, l, o, "EREAD")
    <3>1. l.takes # "mixed" /\ ~(l.nb /\ l.takes = "OK") => ~HasArrived(l, o)
      <4> SUFFICES ASSUME l.takes # "mixed", ~(l.nb /\ l.takes = "OK"), l.answer.stated > 0
                   PROVE  ~(o.read >= l.answer.head + l.answer.stated)
        BY DEF HasArrived
      <4>1. line.size = http.used - http.hlen + outcome.eaten
        BY <1>1, <1>2, <1>3, <2>1 DEF Sized, IsLine, IsHttp, IsOutcome
      <4>2. ~(line.size >= line.answer.stated) BY <1>2, <1>5, <2>1 DEF ContentEnds
      <4> QED BY <1>1, <1>2, <1>3, <2>1, <2>2, <2>16, <4>1, <4>2 DEF IsHttp, IsOutcome
    <3>2. MayTell(http, l, o, "EREAD") BY <2>6, <2>13, <2>14, <2>16, <3>1 DEF MayTell
    <3> QED BY <2>1, <2>16, <3>2, StatusKept
  <2>17. CASE Return(http, l, handed, "TERMINATED")
    <3>1. MayEnd(http, l, handed, "TERMINATED") BY <2>6, <2>12, <2>13 DEF MayEnd, Failures
    <3> QED BY <2>1, <2>17, <3>1, ReturnKept
  <2>18. CASE Stopped(http, l, handed)
    <3>1. handed.told <= 1 BY <2>6
    <3> QED BY <2>1, <2>12, <2>13, <2>18, <3>1, StoppedKept
  <2>19. keeps = "OK" => l.takes # "USR" BY <2>1 DEF Kept
  <2>20. CASE keeps = "OK" /\ l.nb /\ Pause(http, again, handed)
    <3>1. Sized(http, again, handed)
      BY <1>1, <1>2, <2>1, <2>2, <2>4, <2>7, <2>8, <2>19, <2>20 DEF Sized, IsHttp, IsOutcome
    <3>2. InContent(http, again, handed) BY <1>1, <1>2, <2>1, <2>6, <2>8, <2>20, <3>1 DEF InContent
    <3>3. Exchange(http, again, handed) BY <2>8, <2>12, <3>2 DEF Exchange
    <3> QED BY <2>8, <2>20, <3>3, PauseKept
  <2>21. CASE keeps = "OK" /\ ~l.nb /\ Continue(http, more, handed)
    <3>1. Sized(http, more, handed)
      BY <1>1, <1>2, <1>3, <2>1, <2>2, <2>4, <2>9, <2>19, <2>21 DEF Sized, IsHttp, IsOutcome
    <3>2. InContent(http, more, handed) BY <1>1, <1>2, <2>1, <2>6, <2>9, <2>21, <3>1 DEF InContent
    <3>3. Exchange(http, more, handed) BY <2>9, <2>12, <3>2 DEF Exchange
    <3> QED BY <2>21, <3>3, ContinueKept
  <2>22. CASE keeps = "USR" /\ Buffer(r.n, l, o)
    <3>1. l.takes # "OK" BY <2>1, <2>22 DEF Kept
    <3>2. http.used + r.n + o.eaten = o.read BY <1>1, <1>2, <2>1, <2>2 DEF IsHttp, IsOutcome
    <3> QED BY <1>1, <2>1, <2>2, <2>3, <2>6, <2>22, <3>1, <3>2, BufferKept
  <2>23. \/ r.n = 0 /\ ReadEndCompletes(l) /\ Return(http, l, o, "COMPLETE")
         \/ r.n = 0 /\ ~ReadEndCompletes(l) /\ XHTTP_StatusCb(http, l, o, "EREAD")
         \/ r.n > 0 /\ v = "ERR" /\ Return(http, l, handed, "TERMINATED")
         \/ r.n > 0 /\ v = "NON" /\ Stopped(http, l, handed)
         \/ r.n > 0 /\ v = "GO" /\ keeps = "OK" /\ l.nb /\ Pause(http, again, handed)
         \/ r.n > 0 /\ v = "GO" /\ keeps = "OK" /\ ~l.nb /\ Continue(http, more, handed)
         \/ r.n > 0 /\ v = "GO" /\ keeps = "USR" /\ Buffer(r.n, l, o)
    BY <1>5, Zenon DEF l, o, handed, again, more
  <2> QED BY <2>15, <2>16, <2>17, <2>18, <2>20, <2>21, <2>22, <2>23
<1> QED BY <1>4, <1>5, Zenon DEF XHTTP_ReadContent

-----------------------------------------------------------------------------
(* The program.                                                            *)

LEMMA HttpInitInv == HttpInit => HttpInv
<1> SUFFICES ASSUME HttpInit PROVE HttpInv OBVIOUS
<1>1. Exchange(XHTTP_Init, Idle, Untold)
  BY InitWell, IdleIs DEF Exchange, Counted, Before, Well, Unended, Untold, IsOutcome
<1> QED BY <1>1 DEF HttpInit, HttpInv

LEMMA HttpNextInv == HttpInv /\ [HttpNext]_httpVars => HttpInv'
<1> SUFFICES ASSUME HttpInv, [HttpNext]_httpVars PROVE HttpInv' OBVIOUS
<1>1. CASE UNCHANGED httpVars BY <1>1 DEF httpVars, HttpInv
<1>2. CASE HttpNext
  BY <1>2, AddHeaderStep, KeepAliveStep, AssembleStep, CallStep, SoloStep, ConnectStep, SendStep,
     ReadHeaderStep, ReadContentStep, AgainStep DEF HttpNext
<1> QED BY <1>1, <1>2

LEMMA HttpInvExchanged == HttpInv => HttpExchanged
<1> USE HttpAssumption
<1> SUFFICES ASSUME HttpInv PROVE HttpExchanged OBVIOUS
<1>1. Counted(http, line, outcome) /\ IsHttp(http) /\ IsLine(line) /\ IsOutcome(outcome)
  BY DEF HttpInv, Exchange, Counted
<1>2. ContentMax > HeaderMax OBVIOUS
<1>3. HasArrived(line, outcome) <=> Arrived BY DEF HasArrived, Arrived
<1>4. CASE line.pc = "done"
  <2>1. IsEnded(http, line, outcome) BY <1>4 DEF HttpInv, Exchange
  <2>2. MayEnd(http, line, outcome, outcome.res) /\ (Linked => ~line.open) BY <2>1 DEF IsEnded, Linked
  <2>3. outcome.res \in {"EREAD", "INCOMPLETE"} /\ line.pc = "done" /\ line.takes # "mixed"
           /\ ~(line.nb /\ line.takes = "OK") => ~Arrived
    BY <1>3, <2>2 DEF MayEnd
  <2>4. outcome.res = "COMPLETE" /\ ~outcome.stopped /\ line.answer.stated > 0 /\ line.takes # "mixed" => Arrived
    BY <1>3, <2>2 DEF MayEnd
  <2>5. Bounded(http, line) /\ outcome.told <= 1 /\ (outcome.res \in Failures /\ line.cb => outcome.told = 1)
    BY <2>2 DEF MayEnd
  <2> QED BY <1>1, <1>2, <2>2, <2>3, <2>4, <2>5 DEF HttpExchanged, Bounded, Counted
<1>5. CASE line.pc # "done"
  <2>1. Unended(outcome) /\ Bounded(http, line)
    <3>1. CASE line.pc \in {"user", "connect", "send"}
      BY <1>1, <3>1 DEF HttpInv, Exchange, Before, Bounded
    <3>2. CASE line.pc = "header"
      BY <1>1, <3>2 DEF HttpInv, Exchange, InHeader, Bounded, IsHttp
    <3>3. CASE line.pc = "content"
      BY <1>1, <3>3 DEF HttpInv, Exchange, InContent, Bounded, IsHttp, IsLine
    <3> QED BY <1>1, <1>5, <3>1, <3>2, <3>3 DEF IsLine
  <2>2. outcome.told = 0 /\ outcome.res \in {"NONE", "INCOMPLETE"} BY <2>1 DEF Unended
  <2>3. outcome.res # "COMPLETE" /\ outcome.res \notin Failures BY <2>2 DEF Failures
  <2> QED BY <1>1, <1>2, <1>5, <2>1, <2>2, <2>3 DEF HttpExchanged, Bounded, Counted
<1> QED BY <1>4, <1>5

\* The inductive invariant of an exchange.  At every point of the header and of the
\* content the bytes read are those in the buffer and those handed over; the header is
\* incomplete while it is read (http.c:893); nBodySize (http.c:954) is exactly what
\* came of the body, except where a callback keeps content on a non-blocking socket;
\* and before anything is sent, a message marked complete has the headers of the table.
THEOREM HttpInvariant == HttpSpec => []HttpInv
<1> QED BY HttpInitInv, HttpNextInv, PTL DEF HttpSpec

\* An exchange ends with the truth (http.c:944), for every length of headers, bodies and
\* reads, any limits with room for one more read, any failing call and any callback: it
\* is complete only when the stated content has arrived, content that has arrived is no
\* error, no byte is lost or delivered twice, a failure is told once, and the socket of
\* a link is closed.
THEOREM HttpStaysExchanged == HttpSpec => []HttpExchanged
<1> QED BY HttpInvariant, HttpInvExchanged, PTL
=============================================================================
