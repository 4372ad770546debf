------------------------------- MODULE XWire -------------------------------
(***************************************************************************)
(* What a peer sends to a session, and the parsers that look for the first *)
(* packet of a receive buffer: XHTTP_Parse (src/net/http.c), XPacket_Parse *)
(* (src/net/mdtp.c) and XWebFrame_Parse (src/net/ws.c).                    *)
(*                                                                         *)
(* A packet is a record of what its header says.  Byte k of packet p of a  *)
(* wire is the token [p, k, x], with x TRUE while the byte is masked.  A   *)
(* parser sees a field of a header only when the bytes that carry it are   *)
(* in the buffer, and what it finds there when the buffer does not begin   *)
(* with a packet is nobody's packet.                                       *)
(***************************************************************************)
EXTENDS XByteBuffer, SequencesExt

CONSTANTS InfoBytes,      \* XPACKET_INFO_BYTES (4)
          Len7, Len16     \* the longest payload a WebSocket frame states in 7
                          \* and in 16 bits of its header (125 and 65535)

ASSUME WireAssumption ==
    InfoBytes \in Nat \ {0} /\ Len7 \in Nat /\ Len16 \in Nat /\ Len7 < Len16

\* head: bytes of the header, body: bytes after it, which is the Content-Length
\* unless it is 0.  ctype: has a Content-Type; upgrade: asks for or grants a
\* WebSocket; key: "none", "good", or "bad" when it does not fit.
HTTP(head, body, ctype, upgrade, key) ==
    [kind |-> "http", head |-> head, body |-> body, ctype |-> ctype,
     upgrade |-> upgrade, key |-> key]

\* XPacket_Create: InfoBytes bytes with the length of the JSON header, the
\* header and the payload.
XPacket_Create(json, body) ==
    [kind |-> "mdtp", head |-> InfoBytes + json, body |-> body]

\* The first bytes of a TLS client hello, sent to a plain WebSocket server.
Hello == [kind |-> "hello", head |-> 3, body |-> 0]

\* XWS_CreateFrame: the header states the length in 1, 3 or 9 bytes ...
XWS_CreateFrame(n) == IF n <= Len7 THEN 2 ELSE IF n <= Len16 THEN 4 ELSE 10

\* ... and XWebFrame_Mask inserts the key after it and masks the payload.
XWebFrame_Create(type, fin, mask, n) ==
    [kind |-> "ws", head |-> XWS_CreateFrame(n) + (IF mask THEN 4 ELSE 0),
     body |-> n, type |-> type, fin |-> fin, mask |-> mask, huge |-> FALSE]

\* A frame whose 64-bit length has its top bit set or cannot be added to.
HugeFrame == [XWebFrame_Create("binary", TRUE, FALSE, 0) EXCEPT !.head = 10, !.huge = TRUE]

Size(pkt) == pkt.head + pkt.body

\* The bytes of packet p of wire w, and the whole wire as a stream.
PacketBytes(w, p) ==
    [k \in 1..Size(w[p]) |->
        [p |-> p, k |-> k,
         x |-> w[p].kind = "ws" /\ w[p].mask /\ k > w[p].head]]
Stream(w) == FlattenSeq([p \in 1..Len(w) |-> PacketBytes(w, p)])

-----------------------------------------------------------------------------
(* The parsers.  The result has the status, the size of the packet, what   *)
(* the packet gives to the application and whether the object it was       *)
(* parsed into was initialised.                                            *)

Result(st, size, data, init) == [st |-> st, size |-> size, data |-> data, init |-> init]
Incomplete == Result("INCOMPLETE", 0, << >>, TRUE)

\* Bytes d begin with a packet of the given kind.
Aligned(w, d, kind) == d[1] # NUL /\ d[1].k = 1 /\ w[d[1].p].kind = kind

\* XHTTP_ParseHeaderLength: the bytes up to the first empty line.
XHTTP_ParseHeaderLength(w, d) ==
    LET ends == {i \in 1..Len(d) : w[d[i].p].kind = "http" /\ d[i].k = w[d[i].p].head}
    IN  IF ends = {} THEN 0 ELSE CHOOSE i \in ends : \A j \in ends : i <= j

\* Mutant: what follows a body is taken for a part of it.
ExtraIgnored(h, n) == 0

\* XHTTP_GetExtraSize when n bytes follow the header of h: without both headers
\* every one of them is extra.
XHTTP_GetExtraSize(h, n) ==
    IF ~(h.ctype /\ h.body > 0) THEN n ELSE IF n > h.body THEN n - h.body ELSE 0

\* XHTTP_GetPacketSize
XHTTP_GetPacketSize(h, used) == used - XHTTP_GetExtraSize(h, used - h.head)

\* XHTTP_CheckComplete
XHTTP_CheckComplete(h, n) ==
    \/ h.body > 0 /\ h.body <= n
    \/ h.body = 0 /\ ~h.ctype

\* XHTTP_ParseBuff on the used bytes of buffer b.  A first line that is not one
\* has no method and no URI.
XHTTP_Parse(w, b) ==
    LET d == UsedBytes(b)
        n == XHTTP_ParseHeaderLength(w, d)
        h == w[d[1].p]
    IN  CASE n = 0 -> Incomplete
          [] n > 0 /\ ~Aligned(w, d, "http") -> Result("INVALID", 0, << >>, TRUE)
          [] n > 0 /\ Aligned(w, d, "http") /\ XHTTP_CheckComplete(h, Len(d) - n) ->
                 Result("COMPLETE", XHTTP_GetPacketSize(h, Len(d)),
                        SubSeq(d, 1, n + h.body), TRUE)
          [] OTHER -> Result("PARSED", 0, << >>, TRUE)

\* XPacket_Parse over the n bytes that the caller says there are.  The packet
\* object is initialised only after its header was found to be there.  The JSON
\* parser refuses a header whose last byte is not its own.
XPacket_Parse(w, b, n) ==
    LET d == SubSeq(b.mem, 1, n)
        h == w[d[1].p]
    IN  CASE n < InfoBytes -> [Incomplete EXCEPT !.init = FALSE]
          [] n >= InfoBytes /\ ~Aligned(w, d, "mdtp") ->
                 Result("COMPLETE", n, <<JUNK>>, TRUE)
          [] n >= InfoBytes /\ Aligned(w, d, "mdtp") /\ n < h.head ->
                 [Incomplete EXCEPT !.init = FALSE]
          [] n >= InfoBytes /\ Aligned(w, d, "mdtp") /\ n >= h.head ->
                 IF d[h.head] = NUL THEN Result("INVALID", 0, << >>, TRUE)
                 ELSE IF n < Size(h) THEN Incomplete
                 ELSE Result("COMPLETE", Size(h), SubSeq(d, 1, Size(h)), TRUE)

\* XWebFrame_GetFrameLength
XWebFrame_GetFrameLength(h) == Size(h)

\* XWebFrame_Unmask: the payload in the buffer itself, in place.
XWebFrame_Unmask(h, b) ==
    IF h.kind # "ws" \/ ~h.mask THEN b
    ELSE [b EXCEPT !.mem = [i \in 1..Len(b.mem) |->
             IF i > h.head /\ i <= Size(h) THEN [b.mem[i] EXCEPT !.x = ~@] ELSE b.mem[i]]]

\* XWebFrame_ParseBuff: the second byte tells how many bytes the length and the
\* mask take.
XWebFrame_Parse(w, b) ==
    LET d == UsedBytes(b)
        h == w[d[1].p]
        u == UsedBytes(XWebFrame_Unmask(h, b))
    IN  CASE Len(d) < 2 -> Incomplete
          [] Len(d) >= 2 /\ ~Aligned(w, d, "ws") -> Result("COMPLETE", Len(d), <<JUNK>>, TRUE)
          [] Len(d) >= 2 /\ Aligned(w, d, "ws") /\ Len(d) < Size(h) -> Incomplete
          [] Len(d) >= 2 /\ Aligned(w, d, "ws") /\ Len(d) >= Size(h) /\ h.huge ->
                 Result("INVALID", 0, << >>, TRUE)
          [] OTHER -> Result("COMPLETE", XWebFrame_GetFrameLength(h),
                             SubSeq(u, h.head + 1, Size(h)), TRUE)
=============================================================================
