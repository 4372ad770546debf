----------------------------- MODULE XAPIStream -----------------------------
(***************************************************************************)
(* What the READ and WRITE callbacks of src/net/api.c do with the bytes of *)
(* one session: XAPI_ReadEvent and XAPI_WriteEvent, the receive and the    *)
(* transmit buffer, the HTTP, MDTP, WebSocket and raw handlers, the        *)
(* WebSocket handshake and fragments, and the event mask, which a TLS      *)
(* connection that wants the other direction borrows.                      *)
(*                                                                         *)
(* The peer's stream arrives in any pieces and the kernel takes what is    *)
(* sent in any pieces.  The handlers run in the thread of the event loop;  *)
(* at the points cb_... the application callback runs, queues a message,   *)
(* and returns.  Changing the mask (XEvents_Modify) always succeeds.       *)
(***************************************************************************)
EXTENDS XWire

CONSTANTS Scenario,   \* [type, role, tls, keep, wire, out, may]: the session, the packets
                      \* its peer sends, and as bounds the messages we send and which
                      \* of "alloc" (failed allocations), "pause", "reloop", "error"
                      \* (what the application does), "eof" and "tls" may happen
          RxSize,     \* XAPI_RX_SIZE: what one read takes at most
          RxMax,      \* pApi->nRxSize
          DrainMax,   \* XAPI_SSL_DRAIN_MAX
          RecordMax,  \* the longest TLS record
          SendRoom,   \* bound: what the kernel buffers of the bytes we send
          OutLen,     \* bytes of a message the application sends
          AllowMissingKey,   \* pApi->bAllowMissingKey
          Assumed     \* what is assumed, see CutAllowed and PutAllowed

ASSUME StreamAssumption ==
    /\ RxSize \in Nat \ {0} /\ RxMax \in Nat /\ DrainMax \in Nat \ {0}
    /\ RecordMax \in Nat \ {0} /\ RecordMax <= RxSize * DrainMax
    /\ SendRoom \in Nat \ {0} /\ OutLen \in Nat \ {0}
    /\ AllowMissingKey \in BOOLEAN /\ Assumed \subseteq {"mdtp", "handshake"}
    /\ \A c \in Scenario :
          /\ c.tls \in BOOLEAN /\ Len(c.wire) \in Nat
          /\ \A p \in 1..Len(c.wire) : c.wire[p].head \in Nat /\ c.wire[p].body \in Nat

VARIABLES
    conf,  \* the scenario, with the bytes of its wire
    ses,   \* xapi_session_t: rx, tx, ws (wsBuffer), frag (eWSFragType, "none" unless
           \* bWSFragStart), start, done (bHandshake...), events (nEvents), mask
           \* (what the kernel watches), row (bReadOnWrite), wor (bWriteOnRead),
           \* cancel (bCancel)
    net,   \* the connection: sent (bytes the peer sent), read (taken from the
           \* kernel), given (handed to the session), room (in the kernel's send
           \* buffer), owe (TLS has to write before it reads on), hs ("expected":
           \* TLS cannot write before a record that is to come, "arrived"), eof
    ctl,   \* the handler: pc, ev (events still to dispatch), rounds, size (of the
           \* packet being handled)
    log    \* history: got (given to the application), out (bytes sent), put
           \* (messages queued), upgrade (the message that is our part of the
           \* handshake), err (why the library ended the session), undef (an
           \* uninitialised packet was cleared), reloop, tls, paused (steps taken)

streamVars == <<conf, ses, net, ctl, log>>

\* The bytes of outgoing message i; the packets of the peer.
Message(i) == [k \in 1..OutLen |-> [p |-> i, k |-> k, x |-> FALSE]]
W == conf.wire
Is(t) == conf.type = t
Client == conf.role = "CLIENT"
May(x) == x \in conf.may
AllocOk == IF May("alloc") THEN BOOLEAN ELSE {TRUE}

-----------------------------------------------------------------------------
(* The event mask and the transmit buffer.                                 *)

XAPI_SetEvents(s, e) == [s EXCEPT !.mask = e, !.events = e]

XAPI_EnableEvent(s, e) ==
    IF e \in s.events THEN s ELSE XAPI_SetEvents(s, s.events \cup {e})

XAPI_DisableEvent(s, e) ==
    IF e \in s.events THEN XAPI_SetEvents(s, s.events \ {e}) ELSE s

\* Mutant: the borrowed mask is not given back.
RollbackForgotten(s) == s

XAPI_RollbackEvents(s) == XAPI_SetEvents(s, s.events)

\* XAPI_SetEvents for one direction, after which nEvents is put back.
BorrowMask(s, e) == [s EXCEPT !.mask = {e}]

\* XByteBuffer_Advance: an allocation always shrinks.
Consumed(b, n) == XByteBuffer_Advance(b, n, TRUE)

XAPI_PutTxBuff(s, m, ok) == [s EXCEPT !.tx = XByteBuffer_Add(@, m, ok)]

-----------------------------------------------------------------------------
(* How a handler returns to the event loop.                                *)

Idle == [pc |-> "idle", ev |-> {}, rounds |-> 0, size |-> 0]
Goto(p) == ctl' = [ctl EXCEPT !.pc = p]

Continue ==
    ctl' = IF ctl.ev = {} THEN Idle ELSE [Idle EXCEPT !.pc = "dispatch", !.ev = ctl.ev]
Reloop == ctl' = Idle
Disconnect == ctl' = [Idle EXCEPT !.pc = "closed"]

\* XAPI_Read goes on while TLS holds bytes it has decrypted.
XSock_Pending(n) == n.read > n.given
\* Mutant: one read for every event.
ReadOnceOnly(s, n) == Continue

XAPI_Read(s, n) ==
    IF ~s.cancel /\ ctl.rounds + 1 < DrainMax /\ XSock_Pending(n)
    THEN ctl' = [ctl EXCEPT !.pc = "read", !.rounds = @ + 1]
    ELSE Continue

\* An error is reported and the session ends.
Fail(why) ==
    /\ log' = [log EXCEPT !.err = why]
    /\ Disconnect
    /\ UNCHANGED <<ses, net>>

-----------------------------------------------------------------------------
(* The peer and the network.  What happens while a handler runs is seen    *)
(* when it next asks the kernel, so it happens there.                      *)

UpgradeSent == log.upgrade > 0 /\ Len(log.out) >= log.upgrade * OutLen

\* A WebSocket server is sent frames after its answer, a client is answered
\* after its request.
MaySend(n) == ~Is("WS") \/ UpgradeSent \/ (~Client /\ conf.bytes[n].p = 1)

\* An MDTP packet is looked for in the whole allocation, one byte more than was
\* received.  With "mdtp" assumed no piece ends where that byte is taken for the
\* last one of a header or of a payload, nor inside of a header.
CutAllowed(n) ==
    LET b == conf.bytes[n] IN
    \/ "mdtp" \notin Assumed \/ ~Is("MDTP")
    \/ b.k = Size(W[b.p]) \/ (b.k >= W[b.p].head /\ b.k # Size(W[b.p]) - 1)

Asks == ctl.pc \in {"idle", "read", "write"}

Arrive ==
    /\ Asks /\ ~net.eof /\ net.hs # "expected"
    /\ \E n \in (net.sent + 1)..Len(conf.bytes) : MaySend(n) /\ CutAllowed(n) /\ net' = [net EXCEPT !.sent = n]
    /\ UNCHANGED <<conf, ses, ctl, log>>

\* The peer takes what the kernel holds of the bytes we sent.
Taken ==
    /\ Asks /\ net.room < SendRoom
    /\ net' = [net EXCEPT !.room = SendRoom]
    /\ UNCHANGED <<conf, ses, ctl, log>>

\* The peer sends no more.
Finish ==
    /\ Asks /\ May("eof") /\ ~net.eof /\ net.hs # "expected"
    /\ net' = [net EXCEPT !.eof = TRUE]
    /\ UNCHANGED <<conf, ses, ctl, log>>

\* TLS has to answer the peer before it reads on (a key update), ...
KeyUpdate ==
    /\ conf.tls /\ May("tls") /\ ctl.pc = "idle" /\ ~log.tls
    /\ net' = [net EXCEPT !.owe = TRUE]
    /\ log' = [log EXCEPT !.tls = TRUE]
    /\ UNCHANGED <<conf, ses, ctl>>

\* ... or has to hear from the peer before it writes on (a renegotiation that the
\* peer asked for: it sends nothing else until then).
Renegotiate ==
    /\ conf.tls /\ May("tls") /\ ctl.pc = "idle" /\ ~log.tls /\ net.sent = net.read /\ ~net.eof
    /\ net' = [net EXCEPT !.hs = "expected"]
    /\ log' = [log EXCEPT !.tls = TRUE]
    /\ UNCHANGED <<conf, ses, ctl>>

Answered ==
    /\ net.hs = "expected"
    /\ net' = [net EXCEPT !.hs = "arrived"]
    /\ UNCHANGED <<conf, ses, ctl, log>>

-----------------------------------------------------------------------------
(* The event loop.                                                         *)

Ready ==
    {e \in ses.mask : IF e = "OUT" THEN net.room > 0
                      ELSE net.sent > net.read \/ net.eof \/ net.hs = "arrived"}

Poll ==
    /\ ctl.pc = "idle" /\ Ready # {}
    /\ ctl' = [ctl EXCEPT !.pc = "dispatch", !.ev = Ready]
    /\ UNCHANGED <<conf, ses, net, log>>

\* XAPI_HungedEvent and XAPI_ClosedEvent: unread bytes are dropped.
XAPI_HungedEvent ==
    /\ ctl.pc = "idle" /\ net.eof
    /\ Disconnect
    /\ UNCHANGED <<conf, ses, net, log>>

\* XAPI_RequestUpgrade up to the callback.
XAPI_RequestUpgrade(ok) ==
    IF ok THEN /\ ses' = [ses EXCEPT !.start = TRUE]
               /\ ctl' = [ctl EXCEPT !.pc = "cb_request", !.ev = @ \ {"OUT"}]
               /\ UNCHANGED <<net, log>>
          ELSE Fail("alloc")

XAPI_WriteEvent ==
    /\ ctl.pc = "dispatch" /\ "OUT" \in ctl.ev
    /\ UNCHANGED conf
    /\ CASE ses.cancel -> Disconnect /\ UNCHANGED <<ses, net, log>>
         [] ~ses.cancel /\ ses.row ->
                /\ ses' = [XAPI_RollbackEvents(ses) EXCEPT !.row = FALSE]
                /\ ctl' = [ctl EXCEPT !.pc = "read", !.ev = @ \ {"OUT"}]
                /\ UNCHANGED <<net, log>>
         [] ~ses.cancel /\ ~ses.row /\ Client /\ Is("WS") /\ ~ses.start /\ ~ses.done ->
                \E ok \in AllocOk : XAPI_RequestUpgrade(ok)
         [] OTHER ->
                /\ ctl' = [ctl EXCEPT !.ev = @ \ {"OUT"},
                                      !.pc = IF ses.tx.used = 0 THEN "cb_write" ELSE "write"]
                /\ UNCHANGED <<ses, net, log>>

XAPI_ReadEvent ==
    /\ ctl.pc = "dispatch" /\ ctl.ev = {"IN"}
    /\ UNCHANGED <<conf, net, log>>
    /\ CASE ses.cancel -> Disconnect /\ UNCHANGED ses
         [] ~ses.cancel /\ ses.wor ->
                /\ ses' = [XAPI_RollbackEvents(ses) EXCEPT !.wor = FALSE]
                /\ ctl' = [ctl EXCEPT !.pc = "write", !.ev = {}]
         [] OTHER -> ctl' = [ctl EXCEPT !.pc = "read", !.ev = {}] /\ UNCHANGED ses

-----------------------------------------------------------------------------
(* Writing.                                                                *)

\* Mutant: a partial send counts as a whole one.
SentWhole(n) ==
    /\ log' = [log EXCEPT !.out = @ \o SubSeq(ses.tx.mem, 1, n)]
    /\ net' = [net EXCEPT !.room = @ - n, !.hs = "none"]
    /\ ses' = XAPI_DisableEvent([ses EXCEPT !.tx = XByteBuffer_Clear(@)], "OUT")
    /\ Continue

\* XAPI_Write after XSock_Write sent the first n bytes.
Sent(n) ==
    LET s == [ses EXCEPT !.tx = Consumed(@, n)]
        off == XAPI_DisableEvent(s, "OUT")
    IN  /\ log' = [log EXCEPT !.out = @ \o SubSeq(ses.tx.mem, 1, n)]
        /\ net' = [net EXCEPT !.room = @ - n, !.hs = "none"]
        /\ CASE s.tx.used > 0 -> ses' = s /\ Continue
             [] s.tx.used = 0 /\ (~Is("WS") \/ s.done) -> ses' = off /\ Goto("cb_complete")
             [] s.tx.used = 0 /\ Is("WS") /\ ~s.done /\ Client ->
                    ses' = XAPI_EnableEvent(off, "IN") /\ Continue
             [] s.tx.used = 0 /\ Is("WS") /\ ~s.done /\ ~Client ->
                    /\ ses' = [off EXCEPT !.start = FALSE, !.done = s.start]
                    /\ Continue

XAPI_Write ==
    /\ ctl.pc = "write"
    /\ UNCHANGED conf
    /\ CASE ses.cancel -> Disconnect /\ UNCHANGED <<ses, net, log>>
         [] ~ses.cancel /\ ses.tx.used = 0 -> Continue /\ UNCHANGED <<ses, net, log>>
         [] ~ses.cancel /\ ses.tx.used > 0 /\ net.hs = "expected" ->
                /\ ses' = [BorrowMask(ses, "IN") EXCEPT !.wor = TRUE]
                /\ Continue
                /\ UNCHANGED <<net, log>>
         [] ~ses.cancel /\ ses.tx.used > 0 /\ net.hs # "expected" /\ net.room = 0 ->
                IF conf.tls THEN Continue /\ UNCHANGED <<ses, net, log>> ELSE Fail("again")
         [] OTHER -> \E n \in 1..MinOf(net.room, ses.tx.used) : Sent(n)

-----------------------------------------------------------------------------
(* Reading.                                                                *)

\* The bytes up to g are added to the receive buffer.
Received(g, n) ==
    \E ok \in AllocOk :
        LET rx == XByteBuffer_Add(ses.rx, SubSeq(conf.bytes, net.given + 1, g), ok) IN
        IF Added(rx) THEN /\ ses' = [ses EXCEPT !.rx = rx]
                          /\ net' = [n EXCEPT !.given = g]
                          /\ Goto("handle")
                          /\ UNCHANGED log
                     ELSE Fail("alloc")

\* XAPI_ReadOnce up to the handler of the session's type.  XSock_Read hands out
\* what the kernel holds, and under TLS one record at a time.  TLS writes what it
\* owes first.
XAPI_ReadOnce ==
    LET n == [net EXCEPT !.owe = FALSE, !.room = IF net.owe THEN @ - 1 ELSE @,
                         !.hs = IF @ = "arrived" THEN "none" ELSE @]
        wants == [BorrowMask(ses, "OUT") EXCEPT !.row = TRUE]
        blocked == net.owe /\ net.room = 0
        some == net.sent > net.given
    IN  /\ ctl.pc = "read"
        /\ UNCHANGED conf
        /\ \/ blocked /\ ses' = wants /\ XAPI_Read(wants, net) /\ UNCHANGED <<net, log>>
           \/ /\ ~blocked /\ some
              /\ \E r \in CASE ~conf.tls -> {MinOf(net.read + RxSize, net.sent)}
                            [] conf.tls /\ XSock_Pending(net) -> {net.read}
                            [] OTHER -> (net.read + 1)..MinOf(net.read + RecordMax, net.sent) :
                     Received(MinOf(net.given + RxSize, r), [n EXCEPT !.read = r])
           \/ ~blocked /\ ~some /\ net.eof /\ Fail("eof")
           \/ ~blocked /\ ~some /\ ~net.eof /\ ~conf.tls /\ Fail("again")
           \/ /\ ~blocked /\ ~some /\ ~net.eof /\ conf.tls
              /\ net' = n /\ XAPI_Read(ses, n) /\ UNCHANGED <<ses, log>>

\* What a handler does with a packet that is not there: an error, or too many
\* bytes of an incomplete one, or back to XAPI_Read for more.
NoPacket(r) ==
    CASE r.st = "INVALID" -> Fail("invalid")
      [] r.st = "INCOMPLETE" /\ ses.rx.used > RxMax -> Fail("big")
      [] OTHER -> XAPI_Read(ses, net) /\ UNCHANGED <<ses, net, log>>

\* XAPI_ServiceCb with a packet: the application is given it.
Give(s, type, data, size, pc) ==
    /\ ses' = s
    /\ log' = [log EXCEPT !.got = Append(@, [type |-> type, data |-> data])]
    /\ ctl' = [ctl EXCEPT !.pc = pc, !.size = size]
    /\ UNCHANGED net

XAPI_HandleHTTP ==
    LET r == XHTTP_Parse(W, ses.rx) IN
    /\ ctl.pc = "handle" /\ Is("HTTP")
    /\ UNCHANGED conf
    /\ IF r.st = "COMPLETE" THEN Give(ses, "http", r.data, r.size, "cb_read") ELSE NoPacket(r)

\* The packet is parsed up to the size of the allocation, not to the bytes used,
\* and cleared at the end whether or not it was initialised.
XAPI_HandleMDTP ==
    LET r == XPacket_Parse(W, ses.rx, ses.rx.size) IN
    /\ ctl.pc = "handle" /\ Is("MDTP")
    /\ UNCHANGED conf
    /\ CASE r.st = "COMPLETE" -> Give(ses, "mdtp", r.data, r.size, "cb_read")
         [] r.st # "COMPLETE" /\ r.init -> NoPacket(r)
         [] OTHER -> /\ log' = [log EXCEPT !.undef = TRUE]
                     /\ Disconnect /\ UNCHANGED <<ses, net>>

XAPI_HandleRAW ==
    /\ ctl.pc = "handle" /\ Is("SOCK")
    /\ UNCHANGED conf
    /\ Give(ses, "raw", UsedBytes(ses.rx), 0, "cb_raw")

-----------------------------------------------------------------------------
(* The WebSocket handshake.                                                *)

\* XAPI_HeaderHasTokenCI on the Upgrade header and the key against XAPI_GetWSKey.
HandshakeError(h) ==
    \/ ~h.upgrade
    \/ h.key = "none" /\ ~AllowMissingKey
    \/ h.key = "bad" /\ Client

\* XAPI_ServerHandshake, once the client's request is there.
XAPI_ServerHandshake ==
    LET r == XHTTP_Parse(W, ses.rx)
        h == W[ses.rx.mem[1].p]
        hello == ses.rx.used >= 3 /\ h.kind = "hello"
    IN  /\ ctl.pc = "handle" /\ Is("WS") /\ ~ses.done /\ ~Client
        /\ UNCHANGED conf
        /\ CASE ses.start -> XAPI_Read(ses, net) /\ UNCHANGED <<ses, net, log>>
             [] ~ses.start /\ hello -> Fail("invalid")
             [] ~ses.start /\ ~hello /\ r.st # "COMPLETE" -> NoPacket(r)
             [] ~ses.start /\ ~hello /\ r.st = "COMPLETE" /\ HandshakeError(h) -> Fail("refused")
             [] OTHER -> /\ ses' = [ses EXCEPT !.start = TRUE]
                         /\ ctl' = [ctl EXCEPT !.pc = "cb_hsreq", !.size = r.size]
                         /\ UNCHANGED <<net, log>>

\* XAPI_ClientHandshake, once the server's answer is there.
XAPI_ClientHandshake ==
    LET r == XHTTP_Parse(W, ses.rx)
        h == W[ses.rx.mem[1].p]
    IN  /\ ctl.pc = "handle" /\ Is("WS") /\ ~ses.done /\ Client
        /\ UNCHANGED conf
        /\ CASE ~ses.start -> XAPI_Read(ses, net) /\ UNCHANGED <<ses, net, log>>
             [] ses.start /\ r.st # "COMPLETE" -> NoPacket(r)
             [] ses.start /\ r.st = "COMPLETE" /\ HandshakeError(h) -> Fail("refused")
             [] OTHER ->
                    /\ ses' = [XAPI_EnableEvent(ses, "OUT") EXCEPT !.start = FALSE, !.done = TRUE]
                    /\ ctl' = [ctl EXCEPT !.pc = "cb_hsres", !.size = r.size]
                    /\ UNCHANGED <<net, log>>

-----------------------------------------------------------------------------
(* WebSocket frames.                                                       *)

Control == {"ping", "pong", "close"}
Data == {"binary", "text"}

\* Mutant: the type of the fragments stays.
FragmentTypeKept(s) == [s EXCEPT !.ws = XByteBuffer_Clear(@)]

XAPI_ResetWSFragments(s) == [s EXCEPT !.ws = XByteBuffer_Clear(@), !.frag = "none"]

\* The end of XAPI_HandleWS when no callback was called: the frame is removed.
NextFrame(s, size) ==
    LET t == [s EXCEPT !.rx = Consumed(@, size)] IN
    /\ ses' = t
    /\ UNCHANGED <<net, log>>
    /\ IF XByteBuffer_HasData(t.rx) THEN Goto("handle") ELSE XAPI_Read(t, net)

\* A part d of a message is added to wsBuffer; f is the frame and n its length.
Fragment(f, d, n) ==
    \E ok \in AllocOk :
        LET ws == IF d = << >> THEN ses.ws ELSE XByteBuffer_Add(ses.ws, d, ok)
            s == [ses EXCEPT !.ws = ws, !.frag = IF @ = "none" THEN f.type ELSE @]
        IN  CASE ~Added(ws) -> Fail("alloc")
              [] Added(ws) /\ ses.frag # "none" /\ ws.used > RxMax -> Fail("toobig")
              [] Added(ws) /\ ~(ses.frag # "none" /\ ws.used > RxMax) /\ f.fin ->
                     Give(XAPI_ResetWSFragments(s), s.frag, UsedBytes(ws), n, "cb_read")
              [] OTHER -> NextFrame(s, n)

XAPI_HandleWS ==
    LET r == XWebFrame_Parse(W, ses.rx)
        f == W[ses.rx.mem[1].p]
        part == ses.frag # "none" \/ ~f.fin
    IN  /\ ctl.pc = "handle" /\ Is("WS") /\ ses.done
        /\ UNCHANGED conf
        /\ CASE r.st # "COMPLETE" -> NoPacket(r)
             [] r.st = "COMPLETE" /\ f.kind # "ws" -> Give(ses, "none", r.data, r.size, "cb_read")
             [] r.st = "COMPLETE" /\ f.kind = "ws" ->
                    CASE f.type \in Control -> Give(ses, f.type, r.data, r.size, "cb_read")
                      [] f.type \notin Control /\ (f.type = "continuation") # (ses.frag # "none") ->
                             Fail("invalid")
                      [] f.type \notin Control /\ (f.type = "continuation") = (ses.frag # "none") /\ part ->
                             Fragment(f, r.data, r.size)
                      [] OTHER -> Give(ses, f.type, r.data, r.size, "cb_read")

-----------------------------------------------------------------------------
(* The application.                                                        *)

\* A message queued in a handshake callback leaves before the handshake itself;
\* with "handshake" assumed the application does not do that, nor before it.
PutAllowed == "handshake" \notin Assumed \/ ~Is("WS") \/ ses.done

Callbacks == {"cb_read", "cb_raw", "cb_hsreq", "cb_hsans", "cb_hsres", "cb_request",
              "cb_write", "cb_complete"}

\* Any callback, or one of another session or of a timer while this one is idle.
AppTurn == ctl.pc \in Callbacks \cup {"idle"}

\* A message is queued and writing is asked for; XAPI_PutTxBuff reports a failed
\* allocation only when nothing else is queued.
Put(s, ok) ==
    LET t == XAPI_PutTxBuff(s, Message(log.put + 1), ok) IN
    IF t.tx.used > 0 THEN <<XAPI_EnableEvent(t, "OUT"), 1>> ELSE <<t, 0>>

AppSend ==
    /\ AppTurn /\ log.put < conf.out /\ PutAllowed
    /\ \E ok \in IF ses.tx.used > 0 THEN {TRUE} ELSE AllocOk :
           /\ ses' = Put(ses, ok)[1]
           /\ log' = [log EXCEPT !.put = @ + Put(ses, ok)[2]]
    /\ UNCHANGED <<conf, net, ctl>>

\* XAPI_RespondHTTP that cannot assemble its response.
XAPI_RespondHTTP ==
    /\ ctl.pc = "cb_read" /\ Is("HTTP") /\ May("alloc")
    /\ ses' = [ses EXCEPT !.cancel = TRUE]
    /\ UNCHANGED <<conf, net, ctl, log>>

\* The application stops reading and goes on reading.
AppPause ==
    /\ AppTurn /\ May("pause") /\ ~log.paused /\ "IN" \in ses.events
    /\ ses' = XAPI_DisableEvent(ses, "IN")
    /\ log' = [log EXCEPT !.paused = TRUE]
    /\ UNCHANGED <<conf, net, ctl>>

AppResume ==
    /\ AppTurn /\ "IN" \notin ses.events /\ log.paused
    /\ ses' = XAPI_EnableEvent(ses, "IN")
    /\ UNCHANGED <<conf, net, ctl, log>>

\* The library's own part of the WebSocket handshake is queued.
PutUpgrade(s) ==
    \E ok \in IF s.tx.used > 0 THEN {TRUE} ELSE AllocOk :
        LET t == XAPI_PutTxBuff(s, Message(log.put + 1), ok) IN
        IF t.tx.used = 0 THEN Fail("alloc")
        ELSE /\ ses' = XAPI_EnableEvent(t, "OUT")
             /\ log' = [log EXCEPT !.put = @ + 1, !.upgrade = log.put + 1]
             /\ UNCHANGED net
             /\ IF Client THEN Goto("write") ELSE XAPI_Read(t, net)

\* What is left of a handler after its callback returned to go on.
AfterCallback ==
    LET adv == [ses EXCEPT !.rx = Consumed(@, ctl.size)] IN
    CASE ctl.pc = "cb_read" ->
             /\ ses' = adv /\ UNCHANGED <<net, log>>
             /\ IF XByteBuffer_HasData(adv.rx) THEN Goto("handle") ELSE XAPI_Read(adv, net)
      [] ctl.pc = "cb_raw" ->
             LET s == IF conf.keep THEN ses ELSE [ses EXCEPT !.rx = XByteBuffer_Clear(@)] IN
             ses' = s /\ XAPI_Read(s, net) /\ UNCHANGED <<net, log>>
      [] ctl.pc = "cb_hsreq" -> ses' = adv /\ Goto("cb_hsans") /\ UNCHANGED <<net, log>>
      [] ctl.pc \in {"cb_hsans", "cb_request"} -> PutUpgrade(ses)
      [] ctl.pc = "cb_hsres" ->
             /\ ses' = adv /\ UNCHANGED <<net, log>>
             /\ IF adv.rx.used > 0 THEN Goto("handle") ELSE XAPI_Read(adv, net)
      [] ctl.pc = "cb_write" ->
             /\ UNCHANGED <<net, log>>
             /\ IF ses.tx.used > 0 THEN Goto("write") /\ UNCHANGED ses
                ELSE ses' = XAPI_DisableEvent(ses, "OUT") /\ Continue
      [] ctl.pc = "cb_complete" -> Continue /\ UNCHANGED <<ses, net, log>>

Return == ctl.pc \in Callbacks /\ AfterCallback /\ UNCHANGED conf

\* The callback returned XAPI_RELOOP: the packet it was given is removed, our part
\* of the handshake is queued, and nothing that follows in the handler happens.
ReturnReloop ==
    /\ ctl.pc \in Callbacks /\ May("reloop") /\ ~log.reloop
    /\ \/ /\ ctl.pc \notin {"cb_hsans", "cb_request"}
          /\ ses' = CASE ctl.pc \in {"cb_read", "cb_hsreq", "cb_hsres"} -> [ses EXCEPT !.rx = Consumed(@, ctl.size)]
                      [] ctl.pc = "cb_raw" /\ ~conf.keep -> [ses EXCEPT !.rx = XByteBuffer_Clear(@)]
                      [] OTHER -> ses
          /\ log' = [log EXCEPT !.reloop = TRUE]
       \/ /\ ctl.pc \in {"cb_hsans", "cb_request"}
          /\ \E ok \in IF ses.tx.used > 0 THEN {TRUE} ELSE AllocOk :
                LET t == XAPI_PutTxBuff(ses, Message(log.put + 1), ok) IN
                /\ ses' = t
                /\ log' = IF t.tx.used > 0 THEN [log EXCEPT !.reloop = TRUE, !.put = @ + 1, !.upgrade = log.put + 1]
                          ELSE [log EXCEPT !.reloop = TRUE]
    /\ Reloop
    /\ UNCHANGED <<conf, net>>

\* The callback returned an error.
ReturnError ==
    /\ ctl.pc \in Callbacks /\ May("error")
    /\ Disconnect
    /\ UNCHANGED <<conf, ses, net, log>>

-----------------------------------------------------------------------------
\* A peer of a server, or a client that has connected.  A WebSocket client waits
\* to write first.
StreamInit ==
    /\ \E c \in Scenario :
        /\ conf = [type |-> c.type, role |-> c.role, tls |-> c.tls, keep |-> c.keep,
                   wire |-> c.wire, out |-> c.out, may |-> c.may,
                   bytes |-> Stream(c.wire)]
        /\ ses = LET e == IF c.type = "WS" /\ c.role = "CLIENT" THEN {"OUT"} ELSE {"IN"} IN
                 [rx |-> EmptyBuffer(FALSE), tx |-> EmptyBuffer(FALSE), ws |-> EmptyBuffer(FALSE),
                  frag |-> "none", start |-> FALSE, done |-> FALSE, events |-> e, mask |-> e,
                  row |-> FALSE, wor |-> FALSE, cancel |-> FALSE]
    /\ net = [sent |-> 0, read |-> 0, given |-> 0, room |-> SendRoom, owe |-> FALSE,
              hs |-> "none", eof |-> FALSE]
    /\ ctl = Idle
    /\ log = [got |-> << >>, out |-> << >>, put |-> 0, upgrade |-> 0, err |-> "none",
              undef |-> FALSE, reloop |-> FALSE, tls |-> FALSE, paused |-> FALSE]

Handler ==
    \/ Poll \/ XAPI_WriteEvent \/ XAPI_ReadEvent \/ XAPI_Write \/ XAPI_ReadOnce
    \/ XAPI_HandleHTTP \/ XAPI_HandleMDTP \/ XAPI_HandleRAW \/ XAPI_ServerHandshake
    \/ XAPI_ClientHandshake \/ XAPI_HandleWS \/ Return

Application ==
    AppSend \/ XAPI_RespondHTTP \/ AppPause \/ AppResume \/ ReturnReloop \/ ReturnError

Environment ==
    Arrive \/ Taken \/ Finish \/ KeyUpdate \/ Renegotiate \/ Answered \/ XAPI_HungedEvent

StreamNext == ctl.pc # "closed" /\ (Handler \/ Application \/ Environment)

\* The loop runs and callbacks return: weak fairness of Handler, written with the
\* predicate that says when it is enabled, for its steps are those that move ctl.
HandlerTurn == ctl.pc \notin {"idle", "closed"} \/ (ctl.pc = "idle" /\ Ready # {})
HandlerFairness == []<>~HandlerTurn \/ []<><<TRUE>>_ctl

\* The peer takes what we send and answers what its TLS is asked, and a paused
\* application goes on reading.
StreamFairness ==
    /\ HandlerFairness
    /\ WF_streamVars(ctl.pc # "closed" /\ Taken)
    /\ WF_streamVars(ctl.pc # "closed" /\ Answered)
    /\ SF_streamVars(ctl.pc # "closed" /\ AppResume)

StreamSpec == StreamInit /\ [][StreamNext]_streamVars /\ StreamFairness

-----------------------------------------------------------------------------
(* Properties.                                                             *)

\* The types; the receive, transmit and fragment buffers stay inside their
\* allocations, and the offsets of the connection are in order.
StreamTypeOK ==
    /\ \A b \in {ses.rx, ses.tx, ses.ws} :
           ~b.bad /\ b.used <= b.size /\ Len(b.mem) = b.size /\ b.status \in -1..1
    /\ ses.events \subseteq {"IN", "OUT"} /\ ses.mask \subseteq {"IN", "OUT"}
    /\ {ses.start, ses.done, ses.row, ses.wor, ses.cancel} \subseteq BOOLEAN
    /\ net.given <= net.sent /\ net.sent <= Len(conf.bytes) /\ net.room \in 0..SendRoom
    /\ (conf.tls => net.given <= net.read /\ net.read <= net.sent)
    /\ ctl.pc \in Callbacks \cup {"idle", "dispatch", "read", "handle", "write", "closed"}
    /\ ctl.rounds < DrainMax

\* The reference: what packet p of wire w means after the packets that gave a.
Payload(w, p) == [k \in 1..w[p].body |-> [p |-> p, k |-> w[p].head + k, x |-> FALSE]]
Frame1(w, a, p) ==
    LET f == w[p]
        whole == [type |-> IF a.frag = "none" THEN f.type ELSE a.frag, data |-> a.part \o Payload(w, p)]
    IN  CASE f.type \in Control ->
                 [a EXCEPT !.msgs = Append(@, [type |-> f.type, data |-> Payload(w, p)])]
          [] f.type \notin Control /\ (f.huge \/ (f.type = "continuation") # (a.frag # "none")) ->
                 [a EXCEPT !.ok = FALSE]
          [] OTHER -> IF f.fin THEN [a EXCEPT !.msgs = Append(@, whole), !.part = << >>, !.frag = "none"]
                      ELSE [a EXCEPT !.part = whole.data, !.frag = whole.type]
Meaning(type, w, a, p) ==
    CASE ~a.ok \/ (type = "WS" /\ w[p].kind = "http") -> a
      [] a.ok /\ type = "WS" /\ w[p].kind = "hello" -> [a EXCEPT !.ok = FALSE]
      [] a.ok /\ type = "WS" /\ w[p].kind = "ws" -> Frame1(w, a, p)
      [] OTHER -> [a EXCEPT !.msgs = Append(@, [type |-> w[p].kind, data |-> PacketBytes(w, p)])]

\* What the first n packets of a wire mean, and how many packets n bytes hold.
Reference ==
    [c \in {<<d.type, d.wire>> : d \in Scenario} |->
        [n \in 0..Len(c[2]) |->
            FoldLeft(LAMBDA a, p : Meaning(c[1], c[2], a, p),
                     [ok |-> TRUE, msgs |-> << >>, part |-> << >>, frag |-> "none"],
                     [i \in 1..n |-> i])]]
Expected(n) ==
    LET whole == {i \in 1..n : conf.bytes[i].k = Size(W[conf.bytes[i].p])} IN
    Reference[<<conf.type, W>>][Cardinality(whole)]

\* However the stream was cut into pieces and records, the application is given
\* the peer's messages, each whole, once and in order, and a raw session its bytes.
DeliveredAsSent ==
    /\ ~log.undef
    /\ IF Is("SOCK")
       THEN LET data == [i \in 1..Len(log.got) |-> log.got[i].data]
                all == SubSeq(conf.bytes, 1, net.given)
            IN  data # << >> /\ ctl.pc # "handle" => all = IF conf.keep THEN data[Len(data)] ELSE FlattenSeq(data)
       ELSE IsPrefix(log.got, Expected(net.given).msgs)

\* The library ends a session only for what its peer did: an invalid sequence of
\* frames, a refused handshake, a packet or message that is longer than the limit.
NoFalseError ==
    CASE log.err = "invalid" -> ~Expected(net.given).ok
      [] log.err = "refused" -> HandshakeError(W[1])
      [] log.err = "big" -> \E p \in 1..Len(W) : Size(W[p]) > RxMax
      [] log.err = "toobig" -> Len(Expected(net.given).part) > RxMax \/
             \E m \in Range(Expected(net.given).msgs) : Len(m.data) > RxMax
      [] OTHER -> log.err # "again"

\* What is on the wire, followed by what is still queued, is the messages that
\* were queued, in order: a partial send, a retry and a borrowed mask lose nothing,
\* and no buffer of the session is written outside its allocation.
SentInOrder ==
    /\ StreamTypeOK
    /\ log.out \o UsedBytes(ses.tx) = FlattenSeq([i \in 1..log.put |-> Message(i)])

\* A message that has arrived is given to the application though no other byte
\* arrives after it, unless the session ends, an error is pending, or the
\* application asked for a new loop.
Drained ==
    []<>(\/ ctl.pc = "closed" \/ ses.cancel \/ log.reloop
         \/ IF Is("SOCK") THEN net.given = net.sent
            ELSE Len(log.got) = Len(Expected(net.sent).msgs))

\* What is queued is sent: a write that waits to read, and a read that waits to
\* write, give the mask back.
Flushed == []<>(ctl.pc = "closed" \/ ses.cancel \/ log.reloop \/ ses.tx.used = 0)
=============================================================================
