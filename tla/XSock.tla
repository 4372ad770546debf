-------------------------------- MODULE XSock --------------------------------
(***************************************************************************)
(* The sockets of src/net/sock.c (POSIX build with OpenSSL): setting up,   *)
(* accepting, TLS, reading and writing, options and closing, where every   *)
(* system call may fail.  A function is an operator on a work record w:    *)
(* the socket structure sk it is called with, the open descriptors fds and *)
(* the live heap and OpenSSL objects of the process, the socket file, and  *)
(* bad, the handles that were closed or freed twice.  fail names the call  *)
(* that fails, or what a TLS handshake wants instead of ending.            *)
(***************************************************************************)
EXTENDS Integers, FiniteSets, FiniteSetsExt

CONSTANTS Socks,       \* socket structures of the program
          Creators,    \* those that sockets are created in; the others take peers
          FlagSets,    \* the flags that sockets are created with
          MaxHandles,  \* bound: descriptors, and objects, at one time
          MaxAsk       \* bound: bytes asked for in one call

ASSUME SockAssumption ==
    /\ Creators \subseteq Socks /\ MaxHandles \in Nat \ {0} /\ MaxAsk \in Nat
    /\ FlagSets \subseteq SUBSET {"TCP", "UDP", "RAW", "UNIX", "SSL", "SSLV2", "CLIENT", "SERVER",
                                  "BROADCAST", "MULTICAST", "NB", "FORCE", "REUSEADDR"}

VARIABLES
    sk,     \* sk[s]: the xsock_t
    proc,   \* fds, heap, file (final and temporary name of the socket file), bad
    truth   \* history: every transfer told the caller what happened

sockVars == <<sk, proc, truth>>

Invalid == 0      \* XSOCK_INVALID, and no object
FreeHandle(S) == Min((1..MaxHandles) \ S)

NoPriv == [id |-> Invalid, ctx |-> Invalid, ssl |-> Invalid, conn |-> FALSE]
ClosedSock == [fd |-> Invalid, flags |-> {}, status |-> "NONE", priv |-> NoPriv, name |-> "final"]

IsOpen(w) == w.sk.fd # Invalid
Has(w, f) == f \in w.sk.flags
Status(w, st) == [w EXCEPT !.sk.status = st]

\* A new object, and objects that are freed; free(NULL) does nothing.
WithObject(w) == [w EXCEPT !.heap = @ \cup {FreeHandle(w.heap)}]
Freed(w, S) == [w EXCEPT !.heap = @ \ S, !.bad = @ \cup (S \ ({Invalid} \cup w.heap))]

\* Mutant: the descriptor is closed and its number is kept.
CloseKeepsNumber(w) ==
    LET v == Freed(w, {w.sk.priv.ssl, w.sk.priv.ctx, w.sk.priv.id}) IN
    IF ~IsOpen(w) THEN [v EXCEPT !.sk.priv = NoPriv]
    ELSE [v EXCEPT !.sk.priv = NoPriv, !.fds = @ \ {w.sk.fd}, !.bad = @ \cup ({w.sk.fd} \ w.fds)]

XSock_Close(w) ==
    LET v == Freed(w, {w.sk.priv.ssl, w.sk.priv.ctx, w.sk.priv.id}) IN
    [v EXCEPT !.sk.priv = NoPriv, !.sk.fd = Invalid, !.fds = @ \ {w.sk.fd},
              !.bad = @ \cup ({w.sk.fd} \ ({Invalid} \cup w.fds))]

\* The end of most error paths.
Broken(w, st) == XSock_Close(Status(w, st))

\* XSock_Check of an open socket; the callers return when it is not open.
XSock_Check(w) ==
    IF IsOpen(w) THEN Status(w, "NONE")
    ELSE IF w.sk.status = "NONE" THEN Status(w, "INVALID") ELSE w

\* A system call that breaks the socket when it fails.
Call(w, name, st, fail) == IF fail = name THEN Broken(w, st) ELSE w

-----------------------------------------------------------------------------
(* Setting up.                                                             *)

XFlags_Adjust(F) ==
    F \cup (IF "SSLV2" \in F THEN {"SSL"} ELSE {})
      \cup (IF F \cap {"BROADCAST", "MULTICAST"} # {} THEN {"UDP"} ELSE {})

\* The newest version for a client or a server that names none.
XSock_GetPrefredSSL(F) ==
    F \cup (IF "SSL" \in F /\ F \cap {"CLIENT", "SERVER"} # {} THEN {"SSLV2"} ELSE {})

\* Whether there is a method for the flags.
XSock_GetSSLMethod(w, fail) == Has(w, "SSLV2") /\ fail # "method"

\* nType, by XSock_SetFlags.
SockType(F) ==
    CASE "UNIX" \in F -> IF "UDP" \in F THEN "DGRAM" ELSE "STREAM"
      [] "UNIX" \notin F /\ "TCP" \in F -> "STREAM"
      [] F \cap {"UNIX", "TCP"} = {} /\ "UDP" \in F -> "DGRAM"
      [] F \cap {"UNIX", "TCP", "UDP"} = {} /\ "RAW" \in F -> "RAW"
      [] OTHER -> "NONE"

\* XSock_Init: [w, ok].
XSock_Init(w0, F0, fail) ==
    LET F == XSock_GetPrefredSSL(XFlags_Adjust(F0))
        w == [w0 EXCEPT !.sk = [ClosedSock EXCEPT !.status = w0.sk.status]]
        priv == [WithObject(w) EXCEPT !.sk.priv.id = FreeHandle(w.heap)]
        v == IF "SSL" \in F THEN priv ELSE w
    IN  CASE F = {} -> [w |-> Status(w, "FLAGS"), ok |-> FALSE]
          [] F # {} /\ "SSL" \in F /\ fail = "priv" -> [w |-> Status(w, "ALLOC"), ok |-> FALSE]
          [] OTHER -> [w |-> [v EXCEPT !.sk.flags = F,
                                       !.sk.status = IF SockType(F) = "NONE" THEN "SUPPORT" ELSE "NONE"],
                       ok |-> SockType(F) # "NONE"]

\* XSock_ReuseAddr, XSock_TimeOutR and S, XSock_Linger, XSock_Oobinline, XSock_NoDelay:
\* one option of an open socket.
SetOption(w, fail) == IF IsOpen(w) THEN Call(XSock_Check(w), "option", "SETOPT", fail) ELSE XSock_Check(w)

XSock_NonBlock(w, on, fail) ==
    LET v == Call(XSock_Check(w), "nonblock", "SETFL", fail) IN
    IF ~IsOpen(w) THEN XSock_Check(w)
    ELSE IF ~IsOpen(v) THEN v
    ELSE [v EXCEPT !.sk.flags = IF on THEN @ \cup {"NB"} ELSE @ \ {"NB"}]

\* XSock_Bind: with FORCE a socket file is made under a temporary name and renamed;
\* otherwise a file that is there makes bind fail.
XSock_Bind(w, fail) ==
    LET atomic == {"UNIX", "FORCE"} \subseteq w.sk.flags
        taken == Has(w, "UNIX") /\ ~atomic /\ "final" \in w.file
        v == IF atomic THEN [w EXCEPT !.sk.name = "tmp", !.file = @ \ {"tmp"}] ELSE w
        bound == IF Has(w, "UNIX") THEN [v EXCEPT !.file = @ \cup {v.sk.name}] ELSE v
    IN  CASE fail = "bind" \/ taken -> Broken(v, "BIND")
          [] fail = "rename" /\ atomic -> Broken([bound EXCEPT !.file = @ \ {"tmp"}], "NAME")
          [] OTHER -> IF atomic THEN [bound EXCEPT !.file = (@ \ {"tmp"}) \cup {"final"}, !.sk.name = "final"]
                      ELSE bound

\* XSock_SetSSLCTX and XSock_SetSSL: the private part is made when there is none.
WithPriv(w) == IF w.sk.priv.id # Invalid THEN w
               ELSE [WithObject(w) EXCEPT !.sk.priv = [NoPriv EXCEPT !.id = FreeHandle(w.heap)]]
XSock_SetSSLCTX(w, ctx) == [WithPriv(w) EXCEPT !.sk.priv.ctx = ctx, !.sk.flags = @ \cup {"SSL"}]
XSock_SetSSL(w, ssl) == [WithPriv(w) EXCEPT !.sk.priv.ssl = ssl, !.sk.flags = @ \cup {"SSL"}]

\* XSock_SSLConnect and XSock_SSLAccept.
Unfinished == {"handshake", "WANT_READ", "WANT_WRITE"}
Handshake(w, st, fail) ==
    CASE w.sk.priv.ssl = Invalid -> Broken(w, "INVSSL")
      [] w.sk.priv.ssl # Invalid /\ fail \notin Unfinished -> [w EXCEPT !.sk.priv.conn = TRUE]
      [] w.sk.priv.ssl # Invalid /\ fail \in Unfinished ->
             IF fail # "handshake" /\ Has(w, "NB") THEN Status(w, fail) ELSE Broken(w, st)

XSock_InitSSLServer(w, fail) ==
    LET ctx == FreeHandle(w.heap) IN
    CASE ~XSock_GetSSLMethod(w, fail) -> Broken(w, "SSLMET")
      [] XSock_GetSSLMethod(w, fail) /\ fail = "ctx" -> Broken(w, "SSLCTX")
      [] OTHER -> IF w.sk.priv.id = Invalid /\ fail = "priv" THEN Broken(WithObject(w), "ALLOC")
                  ELSE XSock_SetSSLCTX(WithObject(w), ctx)

XSock_InitSSLClient(w, fail) ==
    LET ctx == FreeHandle(w.heap)
        w1 == WithObject(w)
        ssl == FreeHandle(w1.heap)
        w2 == WithObject(w1)
        method == XSock_GetSSLMethod(w, fail)
    IN  CASE ~method -> Broken(w, "SSLMET")
          [] method /\ fail = "ctx" -> Broken(w, "SSLCTX")
          [] method /\ fail = "ssl" -> Broken(Freed(w1, {ctx}), "SSLNEW")
          [] method /\ fail = "host" -> Broken(Freed(w2, {ssl, ctx}), "SSLCNT")
          [] OTHER -> Handshake(XSock_SetSSL(XSock_SetSSLCTX(w2, ctx), ssl), "SSLCNT", fail)

XSock_AddMembership(w, fail) == Call(XSock_Check(w), "join", "SETOPT", fail)

XSock_SetupStream(w0, fail) ==
    LET w == XSock_Check(w0)
        bound == XSock_Bind(w, fail)
        heard == IF IsOpen(bound) THEN Call(bound, "listen", "LISTEN", fail) ELSE bound
        joined == Call(w, "connect", "CONNECT", fail)
    IN  CASE ~IsOpen(w) -> w
          [] IsOpen(w) /\ Has(w, "SERVER") ->
                 IF IsOpen(heard) /\ Has(w, "SSL") THEN XSock_InitSSLServer(heard, fail) ELSE heard
          [] IsOpen(w) /\ ~Has(w, "SERVER") /\ Has(w, "CLIENT") ->
                 IF IsOpen(joined) /\ Has(w, "SSL") THEN XSock_InitSSLClient(joined, fail) ELSE joined
          [] OTHER -> w

XSock_SetupDgram(w0, fail) ==
    LET w == XSock_Check(w0)
        reused == IF Has(w, "REUSEADDR") THEN w ELSE SetOption(w, fail)
        bound == IF IsOpen(reused) THEN XSock_Bind(reused, fail) ELSE reused
    IN  CASE ~IsOpen(w) -> w
          [] IsOpen(w) /\ Has(w, "CLIENT") -> Call(w, "connect", "CONNECT", fail)
          [] IsOpen(w) /\ ~Has(w, "CLIENT") /\ Has(w, "BROADCAST") -> Call(w, "option", "SETOPT", fail)
          [] IsOpen(w) /\ ~Has(w, "CLIENT") /\ ~Has(w, "BROADCAST") /\ Has(w, "MULTICAST") ->
                 IF IsOpen(bound) THEN XSock_AddMembership(bound, fail) ELSE bound
          [] OTHER -> w

\* XSock_SetupAddr: a socket whose address is not found is closed by the caller; a
\* failing XSock_ReuseAddr closes it here.
XSock_SetupAddr(w, fail) ==
    IF fail = "addr" /\ ~Has(w, "UNIX") /\ ~Has(w, "RAW") THEN Broken(w, "ADDR")
    ELSE IF Has(w, "REUSEADDR") THEN Call(XSock_Check(w), "reuse", "SETOPT", fail) ELSE w

\* XSock_CreateAdv, XSock_Create, XSock_Open and XSock_Setup.
XSock_CreateAdv(w0, F, fail) ==
    LET i == XSock_Init(w0, F, fail)
        w == i.w
        made == [w EXCEPT !.sk.fd = FreeHandle(w.fds), !.fds = @ \cup {FreeHandle(w.fds)}]
        addr == XSock_SetupAddr(made, fail)
        up == CASE SockType(w.sk.flags) = "STREAM" -> XSock_SetupStream(addr, fail)
                [] SockType(w.sk.flags) = "DGRAM" -> XSock_SetupDgram(addr, fail)
                [] OTHER -> addr
    IN  CASE ~i.ok -> w
          [] i.ok /\ fail = "args" -> Status(w, "ARGS")
          [] i.ok /\ fail = "socket" -> Status(w, "CREATE")
          [] i.ok /\ fail = "addr" /\ ~IsOpen(addr) -> addr
          [] OTHER -> IF Has(up, "NB") THEN XSock_NonBlock(up, TRUE, fail) ELSE up

-----------------------------------------------------------------------------
(* Reading and writing: the sets of possible results [w, ret, moved].      *)

Done(w, ret, moved) == [w |-> w, ret |-> ret, moved |-> moved]

\* XSock_Read and XSock_Recv, XSock_Write and XSock_Send without TLS.
PlainIO(w, n, st, reads) ==
    {Done(w, k, k) : k \in 1..n} \cup {Done(Broken(w, st), -1, 0)}
    \cup {Done(Broken(w, IF reads THEN "EOF" ELSE st), 0, 0)}

\* XSock_RecvChunk and XSock_SendChunk: k bytes were moved before the last call.
ChunkIO(w, n, st, reads) ==
    {Done(w, n, n)}
    \cup UNION {{Done(Broken(w, st), -1, k),
                 IF reads THEN Done(Broken(w, "EOF"), k, k) ELSE Done(Broken(w, st), 0, k)} : k \in 0..(n - 1)}

Disconnected(w, st) == Broken([w EXCEPT !.sk.priv.conn = FALSE], st)

\* SSL_ERROR_ZERO_RETURN, or SSL_ERROR_SYSCALL without an error.
ReadEnds(w, got) == {Done(Disconnected(w, "EOF"), got, got)}

ReadFails(w, got) ==
    {Done(Disconnected(w, st), -1, got) : st \in {"SSLREAD", "SSLERR"}}
    \cup {Done(Broken(w, "SSLREAD"), -1, got)}

\* A blocking call that OpenSSL made wait is repeated and keeps the status of the wait.
Repeated(w, st) == IF Has(w, "NB") THEN {w} ELSE {w, Status(w, st)}

\* The loop of XSock_SSLRead: it ends with what was asked for, before that when OpenSSL has
\* no more or a socket that does not block would wait, or fails after any k bytes.
SSLReadLoop(w, n, exact) ==
    {Done(v, k, k) : v \in Repeated(w, "WANT_READ"), k \in IF exact /\ ~Has(w, "NB") THEN {n} ELSE 1..n}
    \cup UNION {ReadEnds(w, k) \cup ReadFails(w, k) \cup {Done(Status(w, "WANT_WRITE"), k, k)}
                \cup (IF Has(w, "NB") THEN {Done(Status(w, "WANT_READ"), k, k)} ELSE {}) : k \in 0..(n - 1)}

WriteFails(w, sent) ==
    {Done(Disconnected(w, st), ret, sent) : st \in {"SYSCALL", "SSLERR"}, ret \in {0, -1}}
    \cup {Done(Broken(w, "SSLWRITE"), ret, sent) : ret \in {0, -1}}

\* The loop of XSock_SSLWrite: without blocking there is one call.
SSLWriteLoop(w, n) ==
    {Done(v, k, k) : v \in Repeated(w, "WANT_WRITE"), k \in IF Has(w, "NB") THEN 1..n ELSE {n}}
    \cup UNION {WriteFails(w, k) \cup {Done(Status(w, "WANT_READ"), k, k)}
                \cup (IF Has(w, "NB") THEN {Done(Status(w, "WANT_WRITE"), k, k)} ELSE {})
               : k \in IF Has(w, "NB") THEN {0} ELSE 0..(n - 1)}

\* What precedes the loops.
Transfer(w, n, loop) ==
    LET v == XSock_Check(w) IN
    CASE ~IsOpen(w) -> {Done(v, -1, 0)}
      [] IsOpen(w) /\ n = 0 -> {Done(v, 0, 0)}
      [] OTHER -> IF Has(w, "SSL") /\ w.sk.priv.ssl = Invalid THEN {Done(Broken(w, "SSLINV"), -1, 0)}
                  ELSE loop

XSock_Read(w, n) ==
    LET v == XSock_Check(w) IN
    Transfer(w, n, IF Has(w, "SSL") THEN SSLReadLoop(v, n, FALSE)
                   ELSE PlainIO(v, n, "READ", TRUE))

XSock_RecvChunk(w, n) ==
    LET v == XSock_Check(w) IN
    Transfer(w, n, IF Has(w, "SSL") THEN SSLReadLoop(v, n, TRUE)
                   ELSE ChunkIO(v, n, "RECV", TRUE))

XSock_Write(w, n) ==
    LET v == XSock_Check(w) IN
    Transfer(w, n, IF Has(w, "SSL") THEN SSLWriteLoop(v, n) ELSE PlainIO(v, n, "WRITE", FALSE))

XSock_SendChunk(w, n) ==
    LET v == XSock_Check(w) IN
    Transfer(w, n, IF Has(w, "SSL") THEN SSLWriteLoop(v, n) ELSE ChunkIO(v, n, "SEND", FALSE))

-----------------------------------------------------------------------------
(* The program: every structure is created when nothing is in it, and      *)
(* closed before it is created again.                                      *)

Work(s) == [sk |-> sk[s], fds |-> proc.fds, heap |-> proc.heap, file |-> proc.file, bad |-> proc.bad]
Commit(s, w) ==
    /\ sk' = [sk EXCEPT ![s] = w.sk]
    /\ proc' = [fds |-> w.fds, heap |-> w.heap, file |-> w.file, bad |-> w.bad]
Silent == UNCHANGED truth
Room == Cardinality(proc.fds) < MaxHandles /\ Cardinality(proc.heap) + 3 <= MaxHandles

Vacant(s) == sk[s].fd = Invalid /\ sk[s].priv = NoPriv

SockInit ==
    /\ sk = [s \in Socks |-> ClosedSock]
    /\ proc = [fds |-> {}, heap |-> {}, file |-> {}, bad |-> {}]
    /\ truth = TRUE

SetupFails == {"none", "priv", "args", "socket", "addr", "reuse", "bind", "rename", "listen", "connect",
               "method", "ctx", "ssl", "host", "option", "join", "nonblock"} \cup Unfinished

SockCreate ==
    \E s \in Creators :
        /\ Vacant(s) /\ Room
        /\ \E w \in {XSock_CreateAdv(Work(s), F, fail) : F \in FlagSets, fail \in SetupFails} : Commit(s, w)
        /\ Silent

\* XSock_Accept from the structure server: what becomes of the new one, w0, ...
Accepted(w0, server, fail) ==
    LET i == XSock_Init(w0, (server.flags \ {"SERVER", "NB"}) \cup {"PEER"}, fail)
        v == [i.w EXCEPT !.sk.fd = FreeHandle(i.w.fds), !.fds = @ \cup {FreeHandle(i.w.fds)}]
        tls == "SSL" \in server.flags /\ server.priv.ctx # Invalid
    IN  CASE ~i.ok -> i.w
          [] i.ok /\ fail \in {"accept", "would block"} -> XSock_Close(i.w)
          [] i.ok /\ fail \notin {"accept", "would block"} /\ tls ->
                 IF fail = "ssl" THEN XSock_Close(v)
                 ELSE Handshake(XSock_SetSSL(WithObject(v), FreeHandle(v.heap)), "SSLACC", fail)
          [] OTHER -> v

\* ... and the status that it leaves in the server's.
AcceptStatus(server, fail) ==
    CASE fail = "would block" -> "WANT_READ"
      [] fail = "accept" -> "ACCEPT"
      [] fail = "ssl" /\ "SSL" \in server.flags /\ server.priv.ctx # Invalid -> "SSLNEW"
      [] OTHER -> "NONE"

XSock_Accept ==
    \E s, p \in Socks, fail \in {"none", "priv", "accept", "would block", "ssl"} \cup Unfinished :
        LET w == Accepted(Work(p), sk[s], fail) IN
        /\ s # p /\ sk[s].fd # Invalid /\ "SERVER" \in sk[s].flags /\ Vacant(p) /\ Room
        /\ sk' = [sk EXCEPT ![p] = w.sk, ![s].status = AcceptStatus(sk[s], fail)]
        /\ proc' = [fds |-> w.fds, heap |-> w.heap, file |-> w.file, bad |-> w.bad]
        /\ Silent

\* A handshake that wants to read or write is continued by the program.
SockHandshake ==
    \E s \in Socks, fail \in {"none"} \cup Unfinished :
        /\ sk[s].fd # Invalid /\ sk[s].priv.ssl # Invalid /\ ~sk[s].priv.conn
        /\ Commit(s, Handshake(Work(s), IF "PEER" \in sk[s].flags THEN "SSLACC" ELSE "SSLCNT", fail))
        /\ Silent

\* A transfer that returns a count moved exactly so many bytes; one that returns no
\* bytes left the open socket closed with the reason in its status, or wants to read
\* or write and moved nothing.
Truthful(w, r, n) ==
    /\ r.ret > 0 => r.ret = r.moved
    /\ n > 0 /\ r.ret <= 0 /\ IsOpen(w) =>
           IF IsOpen(r.w) THEN r.moved = 0 /\ r.w.sk.status \in {"WANT_READ", "WANT_WRITE"}
           ELSE r.w.sk.status \notin {"NONE", "WANT_READ", "WANT_WRITE"}

SockTransfer ==
    \E s \in Socks, n \in 0..MaxAsk :
        \E r \in XSock_Read(Work(s), n) \cup XSock_RecvChunk(Work(s), n)
                 \cup XSock_Write(Work(s), n) \cup XSock_SendChunk(Work(s), n) :
            /\ Commit(s, r.w)
            /\ truth' = (truth /\ Truthful(Work(s), r, n))

\* XSock_SetSSLCert: the failure of any step breaks the socket.
XSock_SetSSLCert(w, fail) ==
    IF ~IsOpen(w) THEN XSock_Check(w)
    ELSE IF w.sk.priv.ctx = Invalid THEN Broken(w, "SSLINV")
    ELSE Call(XSock_Check(w), "cert", "SSLCRT", fail)

\* Options, the mode and certificates.
SockOption ==
    \E s \in Socks :
        /\ \/ \E fail \in {"none", "option"} : Commit(s, SetOption(Work(s), fail))
           \/ \E on \in BOOLEAN, fail \in {"none", "nonblock"} : Commit(s, XSock_NonBlock(Work(s), on, fail))
           \/ \E fail \in {"none", "cert"} : Commit(s, XSock_SetSSLCert(Work(s), fail))
        /\ Silent

\* XSock_Close, XSock_Free.
SockClose == \E s \in Socks : Commit(s, XSock_Close(Work(s))) /\ Silent

SockNext == SockCreate \/ XSock_Accept \/ SockHandshake \/ SockTransfer \/ SockOption \/ SockClose

SockSpec == SockInit /\ [][SockNext]_sockVars

-----------------------------------------------------------------------------
Objects(s) == {sk[s].priv.id, sk[s].priv.ctx, sk[s].priv.ssl} \ {Invalid}

\* Whichever call of a set-up, an accept or a transfer fails, every descriptor and
\* every TLS object belongs to exactly one socket structure, and none is closed or
\* freed twice (XSock_Close, sock.c:825; a second close would hit a descriptor that
\* was given out again); a closed socket keeps no TLS object and an open one no
\* temporary socket file.  Every transfer tells the caller what it moved: no byte is
\* lost on a connection that goes on (docs/net/sock.md:521).
SocketsOwned ==
    /\ proc.bad = {}
    /\ proc.fds = {sk[s].fd : s \in Socks} \ {Invalid}
    /\ proc.heap = UNION {Objects(s) : s \in Socks}
    /\ \A s, t \in Socks : s # t => Objects(s) \cap Objects(t) = {} /\ (sk[s].fd = sk[t].fd => sk[s].fd = Invalid)
    /\ \A s \in Socks : sk[s].fd = Invalid => sk[s].priv.ctx = Invalid /\ sk[s].priv.ssl = Invalid
    /\ "tmp" \notin proc.file
    /\ truth
=============================================================================
