---------------------------- MODULE MCXAPIStream ----------------------------
(* The sessions and the wires that TLC checks XAPIStream on.               *)
EXTENDS XAPIStream

Session(type, role, tls, keep, out, may, wire) ==
    [type |-> type, role |-> role, tls |-> tls, keep |-> keep, out |-> out, may |-> may,
     wire |-> wire]

Request == HTTP(2, 0, FALSE, TRUE, "good")
Get == HTTP(2, 0, FALSE, FALSE, "none")
Post == HTTP(2, 2, TRUE, FALSE, "none")
Frame(type, fin, n) == XWebFrame_Create(type, fin, FALSE, n)
Masked(type, fin, n) == XWebFrame_Create(type, fin, TRUE, n)

Packets == <<XPacket_Create(1, 2), XPacket_Create(1, 2)>>

\* Pipelined HTTP requests, with and without a body; MDTP packets; raw bytes.
Plain ==
    {Session("HTTP", "PEER", FALSE, FALSE, 1, {"alloc", "error", "reloop"}, <<Post, Get>>),
     Session("HTTP", "PEER", FALSE, FALSE, 0, {"eof"}, <<Get, Post, Get>>),
     Session("HTTP", "CLIENT", TRUE, FALSE, 1, {"tls", "pause", "error", "eof"}, <<Post, Get>>),
     Session("MDTP", "PEER", FALSE, FALSE, 1, {"eof", "reloop"}, Packets),
     Session("SOCK", "PEER", TRUE, TRUE, 0, {"eof", "reloop"}, <<HTTP(3, 0, FALSE, FALSE, "none")>>),
     Session("SOCK", "CLIENT", TRUE, FALSE, 2, {"tls"}, <<HTTP(5, 0, FALSE, FALSE, "none")>>)}

\* Handshakes that succeed, and messages in one frame and in several, with a
\* control frame in between.
Web ==
    {Session("WS", "PEER", FALSE, FALSE, 1, {"alloc", "reloop"},
             <<Request, Frame("text", FALSE, 1), Frame("ping", TRUE, 0), Masked("continuation", TRUE, 1),
               Frame("text", TRUE, 0)>>),
     Session("WS", "PEER", TRUE, FALSE, 2, {"tls", "pause", "alloc"}, <<Request, Masked("text", TRUE, 1)>>),
     Session("WS", "CLIENT", TRUE, FALSE, 2, {"tls", "pause"}, <<Request, Frame("binary", TRUE, 2)>>),
     Session("WS", "CLIENT", FALSE, FALSE, 1, {"alloc", "error", "reloop", "eof"},
             <<Request, Frame("close", TRUE, 1)>>)}

\* Streams that have to be refused.
Broken ==
    {Session("WS", "PEER", FALSE, FALSE, 0, {}, wire) : wire \in
        {<<Hello>>, <<HTTP(2, 0, FALSE, FALSE, "good")>>, <<HTTP(2, 0, FALSE, TRUE, "none")>>,
         <<Request, Frame("continuation", TRUE, 1)>>,
         <<Request, Frame("text", FALSE, 1), Frame("binary", TRUE, 1)>>,
         <<Request, Frame("text", FALSE, 3), Frame("continuation", FALSE, 3),
           Frame("continuation", TRUE, 1)>>,
         <<Request, HugeFrame>>}} \cup
    {Session("HTTP", "CLIENT", FALSE, FALSE, 0, {}, <<HTTP(8, 0, FALSE, FALSE, "none")>>),
     Session("WS", "CLIENT", FALSE, FALSE, 0, {}, <<HTTP(2, 0, FALSE, TRUE, "bad")>>)}

OneMdtp == {Session("MDTP", "PEER", FALSE, FALSE, 0, {}, Packets)}
AllSessions == Plain \cup Web \cup Broken
=============================================================================
