----------------------------- MODULE MCXLibrary -----------------------------
(***************************************************************************)
(* The library's building blocks, each checked by itself: subject is the   *)
(* component whose operations are called, all others stay as they are.     *)
(***************************************************************************)
EXTENDS XArray, XMap, XPool, XList, XJSON, XSock, XHTTP, XLog, XSearch

MCEntryKey == [e \in Entries |-> CASE e = "p" -> 1 [] e \in {"q", "r"} -> 2 [] OTHER -> 3]

\* Keys a and b collide in every table, c follows them around its end.
MCKeyHash == [k \in MapKeys |-> IF k = "c" THEN 6 ELSE 3]

MCNameRank == [n \in JsonNames |-> IF n = "a" THEN 2 ELSE 1]
MCJsonStrings ==
    UNION {[1..n -> {"q", "b", "n", "c"}] : n \in 0..2}
    \cup {<<"b", "u", "0", "0", "0", "0">>, <<"b", "u", "0", "x", "0", "0">>, <<"l", "x">>, <<"b", "q", "b">>}

MCDelimiters == {<<",">>, <<",", ",">>}
MCPatterns == UNION {[1..n -> {"a", "*", "?"}] : n \in 0..2} \cup {<<"*", "a", "*">>, <<"a", "*", "*", "a">>}

MCFlagSets == {{"TCP", "CLIENT", "SSL", "NB"}, {"TCP", "SERVER", "SSL"}, {"UNIX", "SERVER", "FORCE"},
               {"MULTICAST", "REUSEADDR"}, {"SSL"}}

\* Answers of a server: with a body, cut off, without a length, wrong, too long in head or body.
Answer(head, valid, stated, ctype, sent) ==
    [head |-> head, valid |-> valid, stated |-> stated, ctype |-> ctype, sent |-> sent]
MCHttpAnswers ==
    {Answer(2, TRUE, 2, TRUE, 3), Answer(2, TRUE, 2, FALSE, 1), Answer(1, TRUE, 0, TRUE, 5), Answer(1, TRUE, 0, FALSE, 1),
     Answer(2, FALSE, 0, FALSE, 0), Answer(5, TRUE, 0, FALSE, 0), Answer(2, TRUE, 6, TRUE, 6)}

MCPaths == {<<"t">>, <<"t", "d">>, <<"t", "d", "f">>, <<"t", "e">>}
MCFileData == {<<"x", "\n", "\n", "y", "x">>, <<"y", "x", "\n", "x", "\n">>}
MCFileModes == {{1, 2}, {1, 2, 3, 4}}
MCUmask == {4, 5, 8}
MCNameText == [n \in {"t", "d", "e", "f"} |-> CASE n = "f" -> <<"A", "b">> [] n = "e" -> <<"b">> [] OTHER -> <<"a">>]
MCSearchTops == {<<"t">>}
AnyFile == [size |-> -1, max |-> 0, min |-> 0, perm |-> 0, types |-> {}, name |-> << >>, text |-> << >>, fold |-> FALSE,
            lines |-> FALSE, matchOnly |-> FALSE, buffer |-> 0, recursive |-> TRUE]
MCSearchOptions ==
    {[AnyFile EXCEPT !.text = <<"x">>, !.lines = TRUE],
     [AnyFile EXCEPT !.text = <<"x">>, !.buffer = 2],
     [AnyFile EXCEPT !.name = <<"b", ";", "*", "b">>, !.fold = TRUE, !.types = {"file", "dir"}, !.recursive = FALSE],
     [AnyFile EXCEPT !.perm = 740, !.types = {"exec"}, !.min = 1, !.max = 5, !.size = 5, !.text = <<"y">>, !.matchOnly = TRUE]}

\* The files of a tree differ in text and permissions: the one at t/e from those elsewhere.
FileTrees ==
    {t \in Trees : \A p \in Paths :
        t[p].kind = "file" => IF p = <<"t", "e">> THEN t[p].mode = {1, 2} /\ Head(t[p].data) = "y"
                              ELSE t[p].mode = {1, 2, 3, 4} /\ Head(t[p].data) = "x"}

\* A search is run on the trees with a directory at the top and at most one plain file beside d.
SearchTrees ==
    {t \in Trees :
        LET e == t[<<"t", "e">>] IN
        t[<<"t">>].kind = "dir" /\ (e.kind = "none" \/ (e.mode = {1, 2} /\ Head(e.data) = "y"))}

VARIABLE subject

Init ==
    /\ subject \in {"array", "map", "pool", "list", "json", "string", "sock", "http", "log", "file", "search"}
    /\ IF subject = "array" THEN ArrayInit ELSE arr = XArray_Init(0, FALSE, TRUE) /\ list = << >> /\ live = {} /\ freed2 = FALSE /\ sorted = FALSE
    /\ IF subject = "map" THEN MapInit ELSE map = XMap_Init(0, FALSE, TRUE) /\ call = NoCall /\ dict = NoPairs
    /\ IF subject = "pool" THEN PoolInit ELSE chunks = <<Chunk(DefaultSize)>> /\ blocks = {}
    /\ IF subject = "list" THEN ListInit ELSE links = [n \in ListNodes |-> Unlinked(FALSE)] /\ chain = << >> /\ ring = FALSE /\ cursor = NULL /\ lost = FALSE
    /\ IF subject = "json" THEN JsonInit ELSE js = EmptyParser
    /\ StringInit
    /\ SockInit
    /\ HttpInit
    /\ LogInit
    /\ fs \in CASE subject = "file" -> FileTrees [] subject = "search" -> SearchTrees [] OTHER -> {[p \in Paths |-> NoNode]}
    /\ job = NoJob /\ srch = NotSearching

Next ==
    /\ UNCHANGED subject
    /\ \/ /\ subject = "array" /\ ArrayNext
          /\ UNCHANGED <<mapVars, poolVars, listVars, jsonVars, stringVars, sockVars, httpVars, logVars, fs, job, srch>>
       \/ /\ subject = "map" /\ MapNext
          /\ UNCHANGED <<arrayVars, poolVars, listVars, jsonVars, stringVars, sockVars, httpVars, logVars, fs, job, srch>>
       \/ /\ subject = "pool" /\ PoolNext
          /\ UNCHANGED <<arrayVars, mapVars, listVars, jsonVars, stringVars, sockVars, httpVars, logVars, fs, job, srch>>
       \/ /\ subject = "list" /\ ListNext
          /\ UNCHANGED <<arrayVars, mapVars, poolVars, jsonVars, stringVars, sockVars, httpVars, logVars, fs, job, srch>>
       \/ /\ subject = "json" /\ JsonNext
          /\ UNCHANGED <<arrayVars, mapVars, poolVars, listVars, stringVars, sockVars, httpVars, logVars, fs, job, srch>>
       \/ /\ subject = "string" /\ StringNext
          /\ UNCHANGED <<arrayVars, mapVars, poolVars, listVars, jsonVars, sockVars, httpVars, logVars, fs, job, srch>>
       \/ /\ subject = "sock" /\ SockNext
          /\ UNCHANGED <<arrayVars, mapVars, poolVars, listVars, jsonVars, stringVars, httpVars, logVars, fs, job, srch>>
       \/ /\ subject = "http" /\ HttpNext
          /\ UNCHANGED <<arrayVars, mapVars, poolVars, listVars, jsonVars, stringVars, sockVars, logVars, fs, job, srch>>
       \/ /\ subject = "log" /\ LogNext
          /\ UNCHANGED <<arrayVars, mapVars, poolVars, listVars, jsonVars, stringVars, sockVars, httpVars, fs, job, srch>>
       \/ /\ subject = "file" /\ FileNext
          /\ UNCHANGED <<arrayVars, mapVars, poolVars, listVars, jsonVars, stringVars, sockVars, httpVars, logVars, srch>>
       \/ /\ subject = "search" /\ SearchNext
          /\ UNCHANGED <<arrayVars, mapVars, poolVars, listVars, jsonVars, stringVars, sockVars, httpVars, logVars, job>>

vars == <<subject, arrayVars, mapVars, poolVars, listVars, jsonVars, stringVars, sockVars, httpVars, logVars, fs, job, srch>>
Spec == Init /\ [][Next]_vars
=============================================================================
