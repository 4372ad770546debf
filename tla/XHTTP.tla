-------------------------------- MODULE XHTTP --------------------------------
(***************************************************************************)
(* The HTTP messages and the client of src/net/http.c: the header table,   *)
(* assembling a message, connecting, sending it and receiving the answer   *)
(* piece by piece, with a callback that may end the exchange at each step. *)
(* A loop of the code is an action for each of its iterations.             *)
(***************************************************************************)
EXTENDS Integers, Functions

CONSTANTS HttpKeys,      \* header names as the user spells them
          HttpBodies,    \* lengths of the request's body
          HttpAnswers,   \* what the peer may answer, see below
          RxSize,        \* XHTTP_RX_SIZE
          HeaderMax, ContentMax   \* nHeaderMax, nContentMax

ASSUME HttpAssumption ==
    /\ HttpBodies \subseteq Nat /\ 0 \in HttpBodies /\ RxSize \in Nat \ {0} /\ HeaderMax \in Nat \ {0} /\ ContentMax \in Nat
    /\ ContentMax >= HeaderMax + RxSize
    /\ HttpAnswers \subseteq [head : Nat \ {0}, valid : BOOLEAN, stated : Nat, ctype : BOOLEAN, sent : Nat]

VARIABLES
    http,    \* the xhttp_t: header table, rawData and the fields of both
    line,    \* the call in progress, its socket and what the peer still sends
    outcome  \* what the caller and the callback were told

httpVars == <<http, line, outcome>>

NoHeaders == [k \in {} |-> "none"]
NoMessage == [hdr |-> NoHeaders, body |-> 0]

\* rawData is the request that was assembled, and used bytes that were received.
XHTTP_Init == [hdr |-> NoHeaders, request |-> NoMessage, used |-> 0, complete |-> FALSE,
               hlen |-> 0, clen |-> 0, keep |-> FALSE]

\* XHTTP_Reset: the soft one keeps the memory only.
XHTTP_Reset(h) == [XHTTP_Init EXCEPT !.keep = h.keep]

Idle == [pc |-> "user", op |-> "none", open |-> FALSE, nb |-> FALSE, st |-> "NONE", body |-> 0,
         answer |-> [head |-> 1, valid |-> FALSE, stated |-> 0, ctype |-> FALSE, sent |-> 0], left |-> 0,
         auth |-> FALSE, cb |-> FALSE, takes |-> "USR", size |-> 0]

Untold == [res |-> "NONE", told |-> 0, eaten |-> 0, read |-> 0, lost |-> 0, stopped |-> FALSE, fresh |-> TRUE]

-----------------------------------------------------------------------------
(* Messages.                                                               *)

LowerCase(k) == CASE k = "Connection" -> "connection" [] k = "Content-Length" -> "content-length" [] OTHER -> k
XHTTP_GetHeader(h, name) == LowerCase(name) \in DOMAIN h.hdr

With(hdr, k, v) == [x \in DOMAIN hdr \cup {k} |-> IF x = k THEN v ELSE hdr[x]]

\* XHTTP_PutHeader and XHTTP_AddHeader.  A name that is there takes another value only
\* with nAllowUpdate; the table is under the names as they are spelled.
XHTTP_AddHeader(h, k, v, update, fail) ==
    IF fail \/ (k \in DOMAIN h.hdr /\ h.hdr[k] # v /\ ~update) THEN h
    ELSE [h EXCEPT !.hdr = With(@, k, v), !.complete = FALSE]

\* XHTTP_Assemble with a body of n bytes: [h, ok].  fail is the part whose memory is
\* missing.
XHTTP_Assemble(h, n, fail) ==
    LET bare == [h EXCEPT !.request = NoMessage, !.used = 0, !.hlen = 0]
        sized == IF n = 0 THEN bare
                 ELSE XHTTP_AddHeader(bare, "Content-Length", n, TRUE, fail = "length")
        keeps == h.keep /\ ~XHTTP_GetHeader(sized, "Connection")
        alive == IF keeps THEN XHTTP_AddHeader(sized, "Connection", "keep-alive", TRUE, fail = "keep") ELSE sized
    IN  CASE h.complete -> [h |-> h, ok |-> TRUE]
          [] ~h.complete /\ fail = "line" -> [h |-> bare, ok |-> FALSE]
          [] ~h.complete /\ fail = "length" /\ n > 0 -> [h |-> sized, ok |-> FALSE]
          [] ~h.complete /\ (fail = "rest" \/ (fail = "keep" /\ keeps)) -> [h |-> alive, ok |-> FALSE]
          [] OTHER -> [h |-> [alive EXCEPT !.request = [hdr |-> alive.hdr, body |-> n],
                                           !.hlen = 1, !.clen = n, !.complete = TRUE], ok |-> TRUE]

\* XHTTP_GetBodySize of a message that was received.
XHTTP_GetBodySize(h) == IF h.hlen > 0 /\ h.used > h.hlen THEN h.used - h.hlen ELSE 0

-----------------------------------------------------------------------------
(* The callback.  A verdict is "ERR" (stop with an error), "NON" (stop, the *)
(* message is complete) or "GO"; then line.takes tells whether the callback *)
(* keeps content for itself (XSTDOK) or leaves it to the buffer (XSTDUSR).  *)

Verdicts == IF line.cb THEN {"ERR", "NON", "GO"} ELSE {"GO"}

\* The end of a call: XHTTP_LinkExchange and XHTTP_LinkPerform close their socket.
Linked == line.op \in {"link exchange", "link perform"}
Return(h, l, o, st) ==
    /\ http' = h
    /\ line' = [l EXCEPT !.pc = "done", !.open = IF Linked THEN FALSE ELSE @]
    /\ outcome' = [o EXCEPT !.res = st]

\* XHTTP_StatusCb: the callback may turn any status into a termination.
XHTTP_StatusCb(h, l, o, st) ==
    \E v \in Verdicts :
        Return(h, l, [o EXCEPT !.told = IF line.cb THEN @ + 1 ELSE @], IF v = "ERR" THEN "TERMINATED" ELSE st)

\* The verdict "NON" on content or on a header.
Stopped(h, l, o) == Return([h EXCEPT !.complete = TRUE], l, [o EXCEPT !.stopped = TRUE], "COMPLETE")

-----------------------------------------------------------------------------
(* The user builds a message and calls one of the functions.               *)

HttpInit == http = XHTTP_Init /\ line = Idle /\ outcome = Untold

\* XHTTP_AddHeader by the user, and nKeepAlive.
HttpAddHeader ==
    /\ line.pc = "user"
    /\ http' \in {XHTTP_AddHeader(http, k, v, update, fail) :
                     k \in HttpKeys, v \in {"x", "y"}, update, fail \in BOOLEAN}
    /\ UNCHANGED <<line, outcome>>

\* The request is with the peer, whose answer is read from now on.
Answered(l) ==
    {[l EXCEPT !.pc = "header", !.body = 0, !.auth = FALSE, !.answer = a, !.left = a.head + a.sent] : a \in HttpAnswers}

HttpKeepAlive == line.pc = "user" /\ ~http.keep /\ http' = [http EXCEPT !.keep = TRUE] /\ UNCHANGED <<line, outcome>>

HttpAssemble ==
    /\ line.pc = "user"
    /\ \E n \in HttpBodies, fail \in {"none", "line", "length", "keep", "rest"} :
           http' = XHTTP_Assemble(http, n, fail).h
    /\ UNCHANGED <<line, outcome>>

\* XHTTP_Perform, XHTTP_Exchange (of an assembled request) or the two with a link,
\* XHTTP_EasyExchange and XHTTP_EasyPerform; or XHTTP_Receive on a socket of the user.
HttpCall ==
    /\ line.pc = "user"
    /\ \E op \in {"perform", "exchange", "link perform", "link exchange", "receive"}, nb, cb, auth \in BOOLEAN,
          takes \in {"OK", "USR", "mixed"}, n \in HttpBodies :
           /\ op \in {"exchange", "link exchange"} => http.complete
           /\ op = "receive" => http = XHTTP_Init
           /\ op \in {"link perform", "link exchange"} => ~nb
           /\ op \notin {"link perform", "link exchange"} => ~auth
           /\ op \notin {"perform", "link perform"} => n = 0
           /\ ~cb => takes = "USR"
           /\ LET l == [Idle EXCEPT !.pc = IF op \in {"link perform", "link exchange"} THEN "connect" ELSE "send",
                                    !.op = op, !.open = op \in {"perform", "exchange", "receive"}, !.nb = nb,
                                    !.body = n, !.auth = auth, !.cb = cb, !.takes = takes]
              IN  line' \in IF op = "receive" THEN Answered(l) ELSE {l}
    /\ UNCHANGED <<http, outcome>>

\* XHTTP_SoloPerform: a fresh request with two headers.
HttpSoloPerform ==
    /\ line.pc = "user" /\ http = XHTTP_Init
    /\ \E fail \in {"none", "Host", "User-Agent"}, n \in HttpBodies :
           LET h == XHTTP_AddHeader(http, "Host", "x", FALSE, fail = "Host")
               g == IF fail = "Host" THEN h ELSE XHTTP_AddHeader(h, "User-Agent", "x", FALSE, fail = "User-Agent")
               l == [Idle EXCEPT !.pc = "connect", !.op = "link perform", !.body = n]
           IN  IF fail = "none" THEN http' = g /\ line' = l /\ UNCHANGED outcome
               ELSE http' = g /\ line' = [Idle EXCEPT !.pc = "done"] /\ outcome' = [outcome EXCEPT !.res = "ESETHDR"]

\* XHTTP_EasyExchange tells the callback of a link it cannot read, XHTTP_EasyPerform
\* does not; then XHTTP_Connect.
XHTTP_Connect ==
    /\ line.pc = "connect"
    /\ LET authorized == IF line.auth THEN XHTTP_AddHeader(http, "Authorization", "x", TRUE, FALSE) ELSE http
           step == [line EXCEPT !.open = TRUE, !.pc = "send"]
       IN  \/ IF line.op = "link exchange" THEN XHTTP_StatusCb(http, line, outcome, "ELINK")
              ELSE Return(http, line, outcome, "ELINK")
           \/ \E st \in {"EPROTO", "ERESOLVE"} : XHTTP_StatusCb(http, line, outcome, st)
           \/ line.auth /\ XHTTP_StatusCb(http, line, outcome, "EAUTH")
           \/ \E st \in {"ECONNECT", "ETIMEO"} : XHTTP_StatusCb(authorized, line, outcome, st)
           \/ http' = authorized /\ line' = step /\ UNCHANGED outcome

\* XHTTP_Perform, which receives into the same handle, and XHTTP_Exchange, which
\* receives into another one, up to their XHTTP_Receive.  The history remembers
\* whether all headers of a performed request were sent.
HttpSend ==
    /\ line.pc = "send"
    /\ \E fail \in {"none", "line", "length", "keep", "rest", "write", "want"} :
           LET performs == line.op \in {"perform", "link perform"}
               made == IF performs THEN XHTTP_Assemble(http, line.body, fail) ELSE [h |-> http, ok |-> TRUE]
               sent == [outcome EXCEPT !.fresh = performs => made.h.request.hdr = made.h.hdr]
           IN  CASE line.nb -> XHTTP_StatusCb(http, line, outcome, "EFDMODE")
                 [] ~line.nb /\ ~made.ok -> XHTTP_StatusCb(made.h, line, outcome, "EASSEMBLE")
                 [] ~line.nb /\ made.ok /\ fail \in {"write", "want"} ->
                        XHTTP_StatusCb(made.h, [line EXCEPT !.open = fail = "want"], outcome, "EWRITE")
                 [] OTHER -> \E v \in Verdicts :
                        IF v = "ERR" THEN Return(made.h, line, sent, "TERMINATED")
                        ELSE http' = XHTTP_Reset(made.h) /\ line' \in Answered(line) /\ outcome' = sent

-----------------------------------------------------------------------------
(* Receiving.                                                              *)

\* XSock_Read: some bytes, perhaps with a TLS status; the end of the connection once
\* everything was read; an error, or a TLS status, at any time.
Reads ==
    [n : 1..(IF line.left < RxSize THEN line.left ELSE RxSize), st : {"NONE", "WANT_WRITE"}, open : {TRUE}]
    \cup [n : {0}, st : IF line.left = 0 THEN {"EOF", "READ"} ELSE {"READ"}, open : {FALSE}]
    \cup [n : {0}, st : {"WANT_WRITE"}, open : {TRUE}]

AfterRead(r) == [line EXCEPT !.left = @ - r.n, !.st = r.st, !.open = r.open]

\* XHTTP_CheckComplete
XHTTP_CheckComplete(h) ==
    \/ h.clen > 0 /\ h.clen <= XHTTP_GetBodySize(h)
    \/ h.clen = 0 /\ ~line.answer.ctype

\* XHTTP_Parse: [h, st, calls], where calls tells that the callback is asked.
XHTTP_Parse(h) ==
    LET g == [h EXCEPT !.hlen = line.answer.head]
        p == [g EXCEPT !.clen = line.answer.stated]
    IN  CASE h.used < line.answer.head -> [h |-> h, st |-> "INCOMPLETE", calls |-> FALSE]
          [] h.used >= line.answer.head /\ ~line.answer.valid -> [h |-> g, st |-> "INVALID", calls |-> TRUE]
          [] OTHER -> IF XHTTP_CheckComplete(p) THEN [h |-> [p EXCEPT !.complete = TRUE], st |-> "COMPLETE", calls |-> TRUE]
                      ELSE [h |-> p, st |-> "PARSED", calls |-> TRUE]

\* The callback was asked about the status of XHTTP_Parse, and answered v: a message
\* that it terminates is not marked complete.
Judged(p, v) == IF p.calls /\ v = "ERR" THEN [p EXCEPT !.st = "TERMINATED", !.h.complete = FALSE] ELSE p

\* A call that returns on a non-blocking socket and is made again.
Pause(h, l, o) == http' = h /\ line' = l /\ outcome' = [o EXCEPT !.res = "INCOMPLETE"]
Continue(h, l, o) == http' = h /\ line' = l /\ outcome' = o

\* XHTTP_ReadHeader after its loop: the callback is asked about the header, and about
\* the content that came with it.
HeaderRead(p, l, o) ==
    \E vh, vc \in Verdicts :
        LET body == XHTTP_GetBodySize(p.h)
            asks == p.st \in {"COMPLETE", "PARSED"} /\ body > 0
        IN  CASE vh = "ERR" -> Return(p.h, l, o, "TERMINATED")
              [] vh = "NON" -> Stopped(p.h, l, o)
              [] vh = "GO" /\ asks /\ vc = "ERR" -> Return(p.h, l, o, "TERMINATED")
              [] vh = "GO" /\ asks /\ vc = "NON" -> Stopped(p.h, l, o)
              [] vh = "GO" /\ (asks => vc = "GO") ->
                     IF p.st = "INCOMPLETE" THEN Pause(p.h, l, o)
                     ELSE IF p.st = "PARSED" THEN Continue(p.h, [l EXCEPT !.pc = "content", !.size = body], o)
                     ELSE Return(p.h, l, o, p.st)

\* One turn of its loop.
XHTTP_ReadHeader ==
    /\ line.pc = "header"
    /\ \E r \in Reads, v \in Verdicts :
           LET l == AfterRead(r)
               p == Judged(XHTTP_Parse([http EXCEPT !.used = @ + r.n]), v)
               told == line.cb /\ p.calls /\ ~line.answer.valid
               o == [outcome EXCEPT !.read = @ + r.n]
               asked == [o EXCEPT !.told = IF told THEN @ + 1 ELSE @]
           IN  \/ r.n = 0 /\ XHTTP_StatusCb(http, l, o, "EREAD")
               \/ r.n > 0 /\ XHTTP_StatusCb(http, l, [o EXCEPT !.lost = @ + r.n], "EALLOC")
               \/ /\ r.n > 0 /\ p.st \in {"COMPLETE", "PARSED"}
                  /\ XHTTP_StatusCb([p.h EXCEPT !.clen = 0, !.complete = FALSE], l, o, "EALLOC")
               \/ r.n > 0 /\ p.st = "INVALID" /\ Return(p.h, l, asked, "INVALID")
               \/ /\ r.n > 0 /\ p.st = "INCOMPLETE"
                  /\ IF p.h.used >= HeaderMax THEN XHTTP_StatusCb(p.h, l, o, "BIGHDR")
                     ELSE IF l.nb THEN HeaderRead(p, l, o) ELSE Continue(p.h, l, o)
               \/ r.n > 0 /\ p.st \in {"COMPLETE", "PARSED", "TERMINATED"} /\ HeaderRead(p, l, asked)

\* A message whose whole content is there, or that has none.
ContentEnds ==
    \/ http.complete
    \/ http.clen > 0 /\ line.size >= http.clen
    \/ http.clen = 0 /\ ~line.answer.ctype

\* Mutant: the end of the connection completes a message of any length.
EndOfFileCompletes(l) == l.st = "EOF" \/ XHTTP_GetBodySize(http) = http.clen

\* Nothing was read: a message without a length ends there, one with a length fails.
ReadEndCompletes(l) ==
    http.clen = 0 /\ (l.st = "EOF" \/ XHTTP_GetBodySize(http) = 0)

\* The callback keeps a piece of content, or leaves it to the buffer.
Kept == {t \in {"OK", "USR"} : line.takes \in {t, "mixed"}}

\* n bytes of content were read and the callback leaves them to the buffer.
Buffer(n, l, o) ==
    LET h == [http EXCEPT !.used = @ + n]
        size == XHTTP_GetBodySize(h)
        m == [l EXCEPT !.size = size]
        full == h.clen > 0 /\ size >= h.clen
    IN  \/ XHTTP_StatusCb(http, l, [o EXCEPT !.lost = @ + n], "EALLOC")
        \/ IF l.st # "NONE" \/ l.nb
           THEN IF full THEN Return([h EXCEPT !.complete = TRUE], m, o, "COMPLETE")
                ELSE IF l.nb THEN Pause(h, m, o) ELSE Return(h, m, o, "INCOMPLETE")
           ELSE IF h.used >= ContentMax THEN XHTTP_StatusCb(h, m, o, "BIGCNT") ELSE Continue(h, m, o)

\* XHTTP_ReadContent: one turn of its loops.  line.size is nBodySize, which on a
\* non-blocking socket begins again with every call.
XHTTP_ReadContent ==
    /\ line.pc = "content"
    /\ \/ ContentEnds /\ Return([http EXCEPT !.complete = @ \/ http.clen > 0], line, outcome, "COMPLETE")
       \/ \E r \in Reads, v \in Verdicts, keeps \in Kept :
              LET l == AfterRead(r)
                  o == [outcome EXCEPT !.read = @ + r.n]
                  handed == [o EXCEPT !.eaten = @ + r.n]
              IN  /\ ~ContentEnds
                  /\ \/ r.n = 0 /\ ReadEndCompletes(l) /\ Return(http, l, o, "COMPLETE")
                     \/ r.n = 0 /\ ~ReadEndCompletes(l) /\ XHTTP_StatusCb(http, l, o, "EREAD")
                     \/ r.n > 0 /\ v = "ERR" /\ Return(http, l, handed, "TERMINATED")
                     \/ r.n > 0 /\ v = "NON" /\ Stopped(http, l, handed)
                     \/ r.n > 0 /\ v = "GO" /\ keeps = "OK" /\ l.nb
                        /\ Pause(http, [l EXCEPT !.size = XHTTP_GetBodySize(http)], handed)
                     \/ r.n > 0 /\ v = "GO" /\ keeps = "OK" /\ ~l.nb
                        /\ Continue(http, [l EXCEPT !.size = @ + r.n], handed)
                     \/ r.n > 0 /\ v = "GO" /\ keeps = "USR" /\ Buffer(r.n, l, o)

\* XHTTP_Clear and XHTTP_InitRequest: the handle is used again.
HttpAgain == line.pc = "done" /\ http' = XHTTP_Init /\ line' = Idle /\ outcome' = Untold

HttpNext ==
    \/ HttpAddHeader \/ HttpKeepAlive \/ HttpAssemble \/ HttpCall \/ HttpSoloPerform
    \/ XHTTP_Connect \/ HttpSend \/ XHTTP_ReadHeader \/ XHTTP_ReadContent \/ HttpAgain

HttpSpec == HttpInit /\ [][HttpNext]_httpVars

-----------------------------------------------------------------------------
Failures == {"INVALID", "EREAD", "EWRITE", "EPROTO", "ETIMEO", "EALLOC", "EFDMODE", "ECONNECT", "ERESOLVE",
             "EASSEMBLE", "EAUTH"}
Arrived == line.answer.stated > 0 /\ outcome.read >= line.answer.head + line.answer.stated

\* An exchange ends with the truth (http.c:944): it is complete only when the stated
\* content has arrived or the callback said so, content that has arrived is never an
\* error unless memory, a limit or a callback says so, and every byte that was read is
\* in the buffer or was handed to the callback once.  This holds for a callback that
\* always does the same with content, and does not keep it on a non-blocking socket.
\* The buffer of a blocking call stays within one read of its limits, a performed request carries every
\* header of the table (nComplete, http.c:516), a failure is told to the callback
\* once, and a call with a link leaves no socket open.
HttpExchanged ==
    /\ outcome.fresh
    /\ line.pc \in {"header", "content", "done"} /\ http.request = NoMessage
           => http.used + outcome.eaten + outcome.lost = outcome.read
    /\ outcome.res = "COMPLETE" /\ ~outcome.stopped /\ line.answer.stated > 0
       /\ line.takes # "mixed" => Arrived
    /\ outcome.res \in {"EREAD", "INCOMPLETE"} /\ line.pc = "done" /\ line.takes # "mixed"
       /\ ~(line.nb /\ line.takes = "OK") => ~Arrived
    /\ ~line.nb => http.used < RxSize + IF http.hlen > 0 /\ ContentMax > HeaderMax THEN ContentMax ELSE HeaderMax
    /\ outcome.res \in Failures /\ line.cb => outcome.told = 1
    /\ outcome.told <= 1
    /\ line.pc = "done" /\ Linked => ~line.open
=============================================================================
