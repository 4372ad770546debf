-------------------------------- MODULE XJSON --------------------------------
(***************************************************************************)
(* The JSON parser, the object tree and the writer of src/data/json.c.     *)
(* The parser takes one token after another; its recursion is a stack of   *)
(* frames.  Every object of the tree is named by a number, so that one     *)
(* that is lost or freed twice is seen.  A token is <<type, value>>; names *)
(* and numbers are atoms, and the text of a string is a sequence of the    *)
(* kinds of characters that the code tells apart.                          *)
(***************************************************************************)
EXTENDS Integers, Sequences, FiniteSets, SequencesExt

CONSTANTS JsonNames,       \* names of pairs
          NameRank,        \* the order in which XMap_Iterate meets them
          JsonItems,       \* texts of numbers
          JsonStrings,     \* texts of strings
          ObjInitialSize,  \* XOBJ_INITIAL_SIZE
          MaxTokens, MaxObjects,   \* bounds: tokens parsed, objects created
          ArrayGrowthFails         \* whether growing an array may run out of memory

ASSUME JsonAssumption ==
    /\ NameRank \in [JsonNames -> Nat] /\ ObjInitialSize \in Nat \ {0}
    /\ MaxTokens \in Nat /\ MaxObjects \in Nat /\ ArrayGrowthFails \in BOOLEAN

NoName == "NULL"

VARIABLE
    js   \* state ("parse", "ok", "failed", "gone"), toks (tokens taken), stack (of
         \* frames [node, at, name]), root (pRootObj, a sequence of at most one node),
         \* update (nAllowUpdate of the root), err (nError), last (id given last), live
         \* (objects not freed), twice (an object was freed twice), from ("text", "api")

jsonVars == <<js>>

\* A node of the tree: an object, an array (kids are its items) or an item (tok).
Node(id, kind, name, tok) == [id |-> id, kind |-> kind, name |-> name, tok |-> tok, kids |-> << >>]

RECURSIVE Ids(_)
Ids(node) == {node.id} \cup UNION {Ids(node.kids[i]) : i \in 1..Len(node.kids)}
IdsOf(nodes) == UNION {Ids(nodes[i]) : i \in 1..Len(nodes)}

\* Objects that are in use: those of the frames and of the root.
Held(j) == IdsOf([i \in 1..Len(j.stack) |-> j.stack[i].node]) \cup IdsOf(j.root)

-----------------------------------------------------------------------------
(* Strings: the kinds of characters are the quote "q", the backslash "b",  *)
(* a letter "n" that may follow a backslash, "u", a hex digit "0", a       *)
(* control character "l" that has a short form, another one "c", and "x".  *)

\* XJSON_ValidEscapeLength at place i of s.
XJSON_ValidEscapeLength(s, i) ==
    CASE i < Len(s) /\ s[i] = "b" /\ s[i + 1] \in {"q", "b", "n"} -> 2
      [] i + 5 <= Len(s) /\ s[i] = "b" /\ s[i + 1] = "u" /\ \A k \in 2..5 : s[i + k] = "0" -> 6
      [] OTHER -> 0

EscapedChar(c) ==
    CASE c \in {"q", "b"} -> <<"b", c>> [] c = "l" -> <<"b", "n">>
      [] c = "c" -> <<"b", "u", "0", "0", "0", "0">> [] OTHER -> <<c>>

\* XJSON_EscapeString; a valid escape in the text is kept.
RECURSIVE EscapeFrom(_, _)
EscapeFrom(s, i) ==
    LET n == XJSON_ValidEscapeLength(s, i) IN
    CASE i > Len(s) -> << >>
      [] i <= Len(s) /\ n > 0 -> SubSeq(s, i, i + n - 1) \o EscapeFrom(s, i + n)
      [] OTHER -> EscapedChar(s[i]) \o EscapeFrom(s, i + 1)
XJSON_EscapeString(s) == EscapeFrom(s, 1)

\* XJSON_ParseQuote: whether s, put between quotes, is read as one token.
RECURSIVE QuoteFrom(_, _)
QuoteFrom(s, i) ==
    CASE i > Len(s) -> TRUE
      [] i <= Len(s) /\ s[i] = "b" ->
             /\ i < Len(s)
             /\ \/ s[i + 1] \in {"q", "b", "n"} /\ QuoteFrom(s, i + 2)
                \/ /\ s[i + 1] = "u" /\ i + 5 <= Len(s)
                   /\ (\A k \in 2..5 : s[i + k] = "0") /\ QuoteFrom(s, i + 6)
      [] OTHER -> s[i] \notin {"q", "l", "c"} /\ QuoteFrom(s, i + 1)
XJSON_ParseQuote(s) == QuoteFrom(s, 1)

-----------------------------------------------------------------------------
(* The tree.                                                               *)

\* XJSON_GetObject: the place of the pair with this name, 0 if there is none.
XJSON_GetObject(node, name) ==
    LET at == {i \in 1..Len(node.kids) : node.kids[i].name = name} IN
    IF node.kind # "object" \/ at = {} THEN 0 ELSE CHOOSE i \in at : TRUE

\* An array that is full before it takes one more entry.
ArrayFull(n) == \E k \in 0..n : n = ObjInitialSize * 2^k

\* XJSON_AddObject: [node, err, freed].  mem: what runs out of memory: nothing
\* ("ok"), the entry of the map or the array ("entry"), or the block of an array
\* that has to grow ("grow"): then XArray_Add has cleared the new entry with the
\* array's callback, which frees the object.
XJSON_AddObject(dst, update, src, mem) ==
    LET at == XJSON_GetObject(dst, src.name)
        result(node, err, freed) == [node |-> node, err |-> err, freed |-> freed]
        grow == dst.kind = "array" /\ ArrayFull(Len(dst.kids)) /\ mem = "grow"
    IN  CASE (dst.kind = "object") # (src.name # NoName) -> result(dst, "INVALID", {})
          [] dst.kind = "object" /\ src.name # NoName /\ at # 0 ->
                 IF update THEN result([dst EXCEPT !.kids[at] = src], "NONE", Ids(dst.kids[at]))
                           ELSE result(dst, "EXITS", {})
          [] OTHER ->
                 CASE grow -> result(dst, "ALLOC", Ids(src))
                   [] ~grow /\ mem = "entry" -> result(dst, "ALLOC", {})
                   [] OTHER -> result([dst EXCEPT !.kids = Append(@, src)], "NONE", {})

\* Frees the objects S (XJSON_FreeObject).
Drop(j, S) == [j EXCEPT !.live = @ \ S, !.twice = @ \/ ~(S \subseteq j.live)]

\* What can run out of memory when an object is added.
Memory == {"ok", "entry"} \cup (IF ArrayGrowthFails THEN {"grow"} ELSE {})

-----------------------------------------------------------------------------
(* The parser.                                                             *)

IsItem(t) == t[1] \in {"item", "quote"}

\* The parser fails: every frame frees its object, and XJSON_Parse the root.
Fail(j, err) ==
    [Drop(j, Held(j)) EXCEPT !.state = "failed", !.err = err, !.stack = << >>, !.root = << >>]

\* A new object of the tree; the caller puts it somewhere.
Created(j) == [j EXCEPT !.last = @ + 1, !.live = @ \cup {j.last + 1}]

\* XJSON_ParseNewObject, XJSON_ParseNewArray, and the root.
Open(j, kind, name) ==
    [Created(j) EXCEPT !.stack = Append(@, [node |-> Node(j.last + 1, kind, name, <<"none", NoName>>),
                                            at |-> "first", name |-> NoName])]

\* The top frame goes on at p.
Go(j, p) == [j EXCEPT !.stack[Len(j.stack)].at = p]

\* Mutant: an object that cannot be added is not freed.
AddAndForget(j, node, mem) ==
    LET n == Len(j.stack)
        r == XJSON_AddObject(j.stack[n].node, FALSE, node, mem)
        d == Drop(j, r.freed)
    IN  IF r.err # "NONE" THEN Fail(d, r.err) ELSE Go([d EXCEPT !.stack[n].node = r.node], "after")

\* Adds node to the object of the top frame, and frees it when that fails.
AddToTop(j, node, mem) ==
    LET n == Len(j.stack)
        r == XJSON_AddObject(j.stack[n].node, FALSE, node, mem)
        d == Drop(j, r.freed)
    IN  IF r.err # "NONE" THEN Fail(Drop(d, Ids(node)), r.err)
        ELSE Go([d EXCEPT !.stack[n].node = r.node], "after")

\* The end of the object or array of the top frame.
CloseTop(j, mem) ==
    LET n == Len(j.stack)
        node == j.stack[n].node
        rest == [j EXCEPT !.stack = SubSeq(@, 1, n - 1)]
    IN  IF n = 1 THEN [rest EXCEPT !.root = <<node>>] ELSE AddToTop(rest, node, mem)

\* XJSON_PutItem.
XJSON_PutItem(j, name, t, mem) == AddToTop(Created(j), Node(j.last + 1, "item", name, t), mem)

\* A value: an item, or the begin of an object or an array.
Value(j, name, t, mem) ==
    CASE IsItem(t) -> XJSON_PutItem(j, name, t, mem)
      [] t[1] = "lcurly" -> Open(j, "object", name)
      [] t[1] = "lsquare" -> Open(j, "array", name)
      [] OTHER -> Fail(j, "UNEXPECTED")

\* XJSON_Parse before its first token.
XJSON_Parse(j, t) ==
    CASE t[1] = "lcurly" -> Open(j, "object", NoName)
      [] t[1] = "lsquare" -> Open(j, "array", NoName)
      [] t[1] = "end" -> Fail(j, "BOUNDS")
      [] OTHER -> Fail(j, "UNEXPECTED")

\* After the root only spaces may follow.
ParseEnd(j, t) == IF t[1] = "end" THEN [j EXCEPT !.state = "ok"] ELSE Fail(j, "UNEXPECTED")

\* XJSON_ParseObjectNext and XJSON_ParsePair.  A NUL where a name is expected makes
\* the parser fail without an error code.
XJSON_ParseObject(j, f, t, mem) ==
    CASE t[1] = "end" -> Fail(j, "BOUNDS")
      [] t[1] # "end" /\ f.at \in {"first", "next"} ->
             CASE t[1] = "rcurly" /\ f.at = "first" -> CloseTop(j, mem)
               [] t[1] = "quote" -> Go([j EXCEPT !.stack[Len(j.stack)].name = t[2]], "colon")
               [] t[1] = "eof" -> Fail(j, j.err)
               [] OTHER -> Fail(j, "UNEXPECTED")
      [] t[1] # "end" /\ f.at = "colon" -> IF t[1] = "colon" THEN Go(j, "value") ELSE Fail(j, "UNEXPECTED")
      [] t[1] # "end" /\ f.at = "value" -> Value(j, f.name, t, mem)
      [] t[1] # "end" /\ f.at = "after" ->
             CASE t[1] = "comma" -> Go(j, "next")
               [] t[1] = "rcurly" -> CloseTop(j, mem)
               [] OTHER -> Fail(j, "UNEXPECTED")

\* XJSON_ParseArrayNext.
XJSON_ParseArray(j, f, t, mem) ==
    CASE t[1] = "end" -> Fail(j, "BOUNDS")
      [] t[1] # "end" /\ f.at \in {"first", "next"} ->
             IF t[1] = "rsquare" /\ f.at = "first" THEN CloseTop(j, mem) ELSE Value(j, NoName, t, mem)
      [] t[1] # "end" /\ f.at = "after" ->
             CASE t[1] = "comma" -> Go(j, "next")
               [] t[1] = "rsquare" -> CloseTop(j, mem)
               [] OTHER -> Fail(j, "UNEXPECTED")

\* The tokens of the lexer (XJSON_GetNextToken): a NUL is "eof", what is no token is
\* "bad", the end of the text is "end".  A quote as a name is an atom.
NameTokens == {<<"quote", n>> : n \in JsonNames}
ItemTokens == {<<"item", v>> : v \in JsonItems}
Tokens ==
    {<<t, NoName>> : t \in {"lcurly", "rcurly", "lsquare", "rsquare", "comma", "colon",
                            "eof", "bad", "end"}}
    \cup ItemTokens \cup NameTokens

JsonToken ==
    \E t \in Tokens, mem \in Memory :
        LET j == [js EXCEPT !.toks = Append(@, t)]
            f == js.stack[Len(js.stack)]
        IN  /\ js.state = "parse" /\ Len(js.toks) < MaxTokens
            /\ js' = CASE js.stack = << >> /\ js.root = << >> -> XJSON_Parse(j, t)
                       [] js.root # << >> -> ParseEnd(j, t)
                       [] js.stack # << >> ->
                          IF f.node.kind = "object" THEN XJSON_ParseObject(j, f, t, mem)
                                                    ELSE XJSON_ParseArray(j, f, t, mem)

\* An allocation of the parser fails: of an object, its name or its value.
JsonNoMemory ==
    /\ js.state = "parse" /\ js.root = << >>
    /\ js' = Fail(js, "ALLOC")

-----------------------------------------------------------------------------
(* The functions that change a tree.                                       *)

Root == js.root[1]

\* A new object with this name and content is added to the root, and freed when that
\* fails.
AddNew(kind, name, tok, mem) ==
    LET node == Node(js.last + 1, kind, name, tok)
        r == XJSON_AddObject(Root, js.update, node, mem)
        d == Drop(Created(js), r.freed)
    IN  /\ js.state = "ok" /\ js.last < MaxObjects
        /\ js' = IF r.err = "NONE" THEN [d EXCEPT !.root = <<r.node>>, !.from = "api"]
                 ELSE Drop(d, Ids(node))

\* XJSON_AddU64, U32, U16, Int and Float.
JsonAddNumber ==
    \E name \in JsonNames \cup {NoName}, t \in ItemTokens, mem \in Memory : AddNew("item", name, t, mem)

\* XJSON_AddString, XJSON_AddStrIfUsed; XJSON_AddBool and XJSON_AddNull add numbers'
\* kind of items.
JsonAddString ==
    \E name \in JsonNames \cup {NoName}, s \in JsonStrings, mem \in Memory :
        AddNew("item", name, <<"string", s>>, mem)

\* XJSON_GetOrCreateObject and XJSON_GetOrCreateArray where there is no such child.
JsonGetOrCreate ==
    \E name \in JsonNames, kind \in {"object", "array"}, mem \in Memory :
        /\ js.state = "ok" /\ XJSON_GetObject(Root, name) = 0
        /\ AddNew(kind, name, <<"none", NoName>>, mem)

JsonRemoveArrayItem ==
    /\ js.state = "ok"
    /\ \E i \in 1..Len(Root.kids) :
           /\ Root.kind = "array"
           /\ js' = [Drop(js, Ids(Root.kids[i])) EXCEPT
                         !.root = <<[Root EXCEPT !.kids = RemoveAt(@, i)]>>, !.from = "api"]

JsonDestroy ==
    /\ js.state = "ok"
    /\ js' = [Drop(js, Held(js)) EXCEPT !.state = "gone", !.root = << >>]

-----------------------------------------------------------------------------
(* The writer.                                                             *)

\* xjson_writer_t: out (what was written), size, len, avail, grows (nAlloc), tab
\* (nTabSize), ind (nIndents), ok, bad (a byte was written past the end).
XJSON_InitWriter(size, grows, tab) ==
    [out |-> << >>, size |-> size, len |-> 0, avail |-> size, grows |-> grows, tab |-> tab,
     ind |-> 0, ok |-> TRUE, bad |-> FALSE]

\* XJSON_Realloc.
XJSON_Realloc(w, n) ==
    CASE n < w.avail -> w
      [] n >= w.avail /\ w.grows -> [w EXCEPT !.size = @ + n, !.avail = @ + n]
      [] OTHER -> [w EXCEPT !.ok = FALSE]

TextLength(text) == IF text[1] = "string" THEN Len(text[2]) + 2 ELSE 1

\* One piece of n bytes; the terminating NUL follows it.
Piece(w, text, n) ==
    LET r == XJSON_Realloc(w, n) IN
    IF ~w.ok \/ ~r.ok THEN [w EXCEPT !.ok = FALSE]
    ELSE [r EXCEPT !.out = IF text[1] = "space" THEN @ ELSE Append(@, text),
                   !.len = @ + n, !.avail = @ - n, !.bad = @ \/ r.len + n >= r.size]

\* XJSON_WriteString, with XJSON_AppedSpaces when it indents.
XJSON_WriteString(w, indent, text) ==
    Piece(IF indent /\ w.tab > 0 THEN Piece(w, <<"space", NoName>>, w.ind) ELSE w,
          text, TextLength(text))

\* XJSON_WriteName: the name and the colon.
XJSON_WriteName(w, node) ==
    IF node.name = NoName THEN w
    ELSE Piece(XJSON_WriteString(w, TRUE, <<"quote", node.name>>), <<"colon", NoName>>, 1)

\* XJSON_WriteItem.
XJSON_WriteItem(w, node) ==
    XJSON_WriteString(XJSON_WriteName(w, node), node.name = NoName,
        IF node.tok[1] = "string" THEN <<"string", XJSON_EscapeString(node.tok[2])>> ELSE node.tok)

\* The order in which the kids of a node are written.
WriteOrder(node) ==
    IF node.kind = "array" THEN node.kids
    ELSE SetToSortSeq(ToSet(node.kids), LAMBDA a, b : NameRank[a.name] < NameRank[b.name])

Newline == <<"space", NoName>>

\* XJSON_WriteObject: XJSON_WriteItem, XJSON_WriteHashmap and XJSON_WriteArray.
RECURSIVE XJSON_WriteObject(_, _)
XJSON_WriteObject(w, node) ==
    LET kids == WriteOrder(node)
        n == Len(kids)
        ends == IF node.kind = "object" THEN <<"lcurly", "rcurly">> ELSE <<"lsquare", "rsquare">>
        open == XJSON_WriteString(XJSON_WriteName(w, node), node.name = NoName, <<ends[1], NoName>>)
        lines == w.tab > 0 /\ n > 0
        begun == IF lines THEN [XJSON_WriteString(open, FALSE, Newline) EXCEPT !.ind = @ + w.tab] ELSE open
        kid(v, i) == LET a == XJSON_WriteObject(v, kids[i])
                         b == IF i < n THEN XJSON_WriteString(a, FALSE, <<"comma", NoName>>) ELSE a
                     IN  IF w.tab > 0 THEN XJSON_WriteString(b, FALSE, Newline) ELSE b
        done == FoldLeft(kid, begun, [i \in 1..n |-> i])
    IN  IF node.kind = "item" THEN XJSON_WriteItem(w, node)
        ELSE XJSON_WriteString(IF lines THEN [done EXCEPT !.ind = @ - w.tab] ELSE done,
                               lines, <<ends[2], NoName>>)

-----------------------------------------------------------------------------
Fresh(state, root, update, from) ==
    [state |-> state, toks |-> << >>, stack |-> << >>, root |-> root, update |-> update,
     err |-> "NONE", last |-> Len(root), live |-> IdsOf(root), twice |-> FALSE, from |-> from]

\* Before XJSON_Parse.
EmptyParser == Fresh("parse", << >>, FALSE, "text")

\* A parser, or a tree begun by XJSON_NewObject or XJSON_NewArray.
JsonInit ==
    \/ js = EmptyParser
    \/ \E kind \in {"object", "array"}, update \in BOOLEAN :
           js = Fresh("ok", <<Node(1, kind, NoName, <<"none", NoName>>)>>, update, "api")

JsonNext ==
    \/ JsonToken \/ JsonNoMemory \/ JsonAddNumber \/ JsonAddString \/ JsonGetOrCreate
    \/ JsonRemoveArrayItem \/ JsonDestroy

-----------------------------------------------------------------------------
\* The texts of a tree: what JSON writes for it, the pairs of an object in any order.
RECURSIVE Texts(_)
Texts(node) ==
    LET named(k) == IF k.name = NoName THEN << >> ELSE <<<<"quote", k.name>>, <<"colon", NoName>>>>
        orders == IF node.kind = "array" THEN {node.kids} ELSE SetToSeqs(ToSet(node.kids))
        bodies(s) == LET go[i \in 0..Len(s)] ==
                             IF i = 0 THEN {<< >>}
                             ELSE {a \o (IF i > 1 THEN <<<<"comma", NoName>>>> ELSE << >>) \o named(s[i]) \o b :
                                       a \in go[i - 1], b \in Texts(s[i])}
                     IN  go[Len(s)]
        ends == IF node.kind = "object" THEN <<"lcurly", "rcurly">> ELSE <<"lsquare", "rsquare">>
    IN  CASE node.kind = "item" /\ node.tok[1] = "string" -> {<<<<"string", XJSON_EscapeString(node.tok[2])>>>>}
          [] node.kind = "item" /\ node.tok[1] # "string" -> {<<node.tok>>}
          [] OTHER -> {<<<<ends[1], NoName>>>> \o b \o <<<<ends[2], NoName>>>> :
                           b \in UNION {bodies(s) : s \in orders}}

\* Whichever token is wrong and whichever allocation fails, every object that was
\* created is in the tree, in a frame of the parser, or freed, and none is freed twice
\* (the parser unwinds at json.c:750 and 775, XJSON_Parse frees the root at 1035).
JsonOwned == Held(js) = js.live /\ ~js.twice

\* A text that is accepted is a text of the tree that the parser built, to the last
\* token and with every name once.  Whatever a tree holds, the writer (json.c:1592)
\* writes a text of it or, into a buffer that is too small, fails, and never writes
\* past the end of the buffer, which it grows by exactly what it lacks; every string
\* it writes is one that the parser reads as one token, and one that came from a
\* text is written as it was.  Every object has one owner.
JsonFaithful ==
    /\ JsonOwned
    /\ js.state = "ok" /\ js.from = "text" => Front(js.toks) \in Texts(Root)
    /\ js.root # << >> =>
           \A tab \in {0, 2} : \A size \in 1..9 : \A grows \in BOOLEAN :
               LET w == XJSON_WriteObject(XJSON_InitWriter(size, grows, tab), Root) IN
               /\ ~w.bad /\ w.avail = w.size - w.len
               /\ grows => w.ok
               /\ w.ok => w.out \in Texts(Root) /\ w.ind = 0
    /\ \A i \in 1..Len(js.root) : \A k \in ToSet(Root.kids) : k.tok[1] = "string" =>
           /\ XJSON_ParseQuote(XJSON_EscapeString(k.tok[2]))
           /\ XJSON_ParseQuote(k.tok[2]) => XJSON_EscapeString(k.tok[2]) = k.tok[2]
=============================================================================
