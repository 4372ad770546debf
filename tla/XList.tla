-------------------------------- MODULE XList --------------------------------
(***************************************************************************)
(* The doubly linked list of src/data/list.c, pointer by pointer.  The     *)
(* caller addresses the list by any of its nodes; what is a list here is   *)
(* only the pointers pNext and pPrev of the nodes.                         *)
(***************************************************************************)
EXTENDS Integers, Sequences, FiniteSets, SequencesExt

CONSTANT ListNodes    \* the nodes that can be allocated

NULL == "NULL"
ASSUME NullIsNoNode == NULL \notin ListNodes

VARIABLES
    links,   \* links[n]: next, prev and cb (data.onClear is set) of node n
    chain,   \* history: the nodes of the list in their order
    ring,    \* history: XList_MakeRing closed the list
    cursor,  \* the pList of an XList_Clear that runs, or NULL
    lost     \* XList_Unlink freed, or gave back, what is not in the list

listVars == <<links, chain, ring, cursor, lost>>

Unlinked(cb) == [next |-> NULL, prev |-> NULL, cb |-> cb]

\* If n is a node, its field is set to v.
SetNext(l, n, v) == IF n = NULL THEN l ELSE [l EXCEPT ![n].next = v]
SetPrev(l, n, v) == IF n = NULL THEN l ELSE [l EXCEPT ![n].prev = v]

\* XListData_MergeCtx: a node without a callback takes over that of node p.
MergeCtx(l, n, p) == [l EXCEPT ![n].cb = @ \/ l[p].cb]

\* The nodes that a loop along pNext or pPrev meets from node n on: the least set that
\* holds n and, with a node, what its pointer leads to.
Forward(l, n) ==
    {m \in ListNodes : \A S \in SUBSET ListNodes : n \in S /\ (\A x \in S : l[x].next \in S \cup {NULL}) => m \in S}
Backward(l, n) ==
    {m \in ListNodes : \A S \in SUBSET ListNodes : n \in S /\ (\A x \in S : l[x].prev \in S \cup {NULL}) => m \in S}

XList_GetHead(l, n) == CHOOSE h \in Backward(l, n) : l[h].prev = NULL
XList_GetTail(l, n) == CHOOSE t \in Forward(l, n) : l[t].next = NULL

\* Mutant: the next node keeps its pointer to the detached one.
DetachOneWay(l, n) == [SetNext(l, l[n].prev, l[n].next) EXCEPT ![n].prev = NULL, ![n].next = NULL]

XList_Detach(l, n) ==
    [SetPrev(SetNext(l, l[n].prev, l[n].next), l[n].next, l[n].prev)
        EXCEPT ![n].prev = NULL, ![n].next = NULL]

\* What XList_Unlink returns.
UnlinkRet(l, n) == IF l[n].next # NULL THEN l[n].next ELSE l[n].prev

XList_InsertPrev(l, at, n) ==
    LET p == l[at].prev
        m == MergeCtx(l, n, at)
    IN  SetNext([m EXCEPT ![at].prev = n, ![n].prev = p, ![n].next = at], p, n)

XList_InsertNext(l, at, n) ==
    LET q == l[at].next
        m == MergeCtx(l, n, at)
    IN  SetPrev([m EXCEPT ![at].next = n, ![n].next = q, ![n].prev = at], q, n)

XList_InsertHead(l, at, n) ==
    LET h == XList_GetHead(l, at) IN
    [MergeCtx(l, n, h) EXCEPT ![h].prev = n, ![n].next = h, ![n].prev = NULL]

XList_InsertTail(l, at, n) ==
    LET t == XList_GetTail(l, at) IN
    [MergeCtx(l, n, t) EXCEPT ![t].next = n, ![n].prev = t, ![n].next = NULL]

XList_MakeRing(l, n) ==
    LET h == XList_GetHead(l, n)
        t == XList_GetTail(l, n)
    IN  SetNext(SetPrev(l, h, t), t, h)

\* The node is met again.
XList_IsRing(l, n) == l[n].next # NULL /\ n \in Forward(l, l[n].next)

\* XList_Search with a comparison that holds for the nodes of S only: the first of them.
XList_Search(l, n, S) ==
    LET hits == S \cap Forward(l, XList_GetHead(l, n)) IN
    IF hits = {} THEN NULL ELSE CHOOSE m \in hits : hits \subseteq Forward(l, m)

-----------------------------------------------------------------------------
Place1(n) == CHOOSE i \in 1..Len(chain) : chain[i] = n
Nodes == ToSet(chain)

\* XList_New or XList_Init of a first node.
ListInit ==
    /\ \E n \in ListNodes, cb \in BOOLEAN :
           /\ links = [m \in ListNodes |-> Unlinked(m = n /\ cb)]
           /\ chain = <<n>>
    /\ ring = FALSE /\ cursor = NULL /\ lost = FALSE

\* XList_PushPrev, XList_PushNext, and XList_InsertPrev or XList_InsertNext of a node.
ListInsertPrev ==
    \E at \in Nodes, n \in ListNodes \ Nodes :
        /\ cursor = NULL
        /\ links' = XList_InsertPrev(links, at, n)
        /\ chain' = InsertAt(chain, Place1(at), n)
        /\ UNCHANGED <<ring, cursor, lost>>

ListInsertNext ==
    \E at \in Nodes, n \in ListNodes \ Nodes :
        /\ cursor = NULL
        /\ links' = XList_InsertNext(links, at, n)
        /\ chain' = InsertAt(chain, Place1(at) + 1, n)
        /\ UNCHANGED <<ring, cursor, lost>>

\* XList_PushFront and XList_PushBack; in a ring there is no head to find.
ListInsertHead ==
    \E at \in Nodes, n \in ListNodes \ Nodes :
        /\ cursor = NULL /\ ~ring
        /\ links' = XList_InsertHead(links, at, n)
        /\ chain' = InsertAt(chain, 1, n)
        /\ UNCHANGED <<ring, cursor, lost>>

ListInsertTail ==
    \E at \in Nodes, n \in ListNodes \ Nodes :
        /\ cursor = NULL /\ ~ring
        /\ links' = XList_InsertTail(links, at, n)
        /\ chain' = InsertAt(chain, Len(chain) + 1, n)
        /\ UNCHANGED <<ring, cursor, lost>>

\* XList_Unlink of a node, which has to be in the list; what it returns has to be
\* another node of the list, as long as there is one.
XList_Unlink(n) ==
    /\ links' = [XList_Detach(links, n) EXCEPT ![n].cb = FALSE]
    /\ chain' = IF n \in Nodes THEN RemoveAt(chain, Place1(n)) ELSE chain
    /\ lost' = (lost \/ n \notin Nodes
                     \/ UnlinkRet(links, n) \notin IF Len(chain) = 1 THEN {NULL} ELSE Nodes \ {n})

\* XList_Unlink by the user, XList_RemoveHead, XList_RemoveTail, and XList_Remove after
\* its search.  A ring of one node is not unlinked: XList_Unlink would return the node
\* that it freed.
ListUnlink ==
    \E at \in Nodes, S \in SUBSET ListNodes :
        LET n == IF ring THEN at ELSE XList_Search(links, at, S) IN
        /\ cursor = NULL /\ (ring => Len(chain) > 1)
        /\ n # NULL
        /\ XList_Unlink(n)
        /\ UNCHANGED <<ring, cursor>>

ListMakeRing ==
    \E at \in Nodes :
        /\ cursor = NULL /\ ~ring
        /\ links' = XList_MakeRing(links, at)
        /\ ring' = TRUE
        /\ UNCHANGED <<chain, cursor, lost>>

\* XList_Clear from any node, and one turn of its loop.
ListClear ==
    /\ cursor = NULL /\ ~ring
    /\ cursor' \in Nodes
    /\ UNCHANGED <<links, chain, ring, lost>>

ListClearNext ==
    /\ cursor # NULL
    /\ XList_Unlink(cursor)
    /\ cursor' = UnlinkRet(links, cursor)
    /\ UNCHANGED ring

\* An empty list is begun again.
ListBegin ==
    \E n \in ListNodes, cb \in BOOLEAN :
        /\ chain = << >> /\ cursor = NULL
        /\ links' = [links EXCEPT ![n] = Unlinked(cb)]
        /\ chain' = <<n>>
        /\ UNCHANGED <<ring, cursor, lost>>

ListNext ==
    \/ ListInsertPrev \/ ListInsertNext \/ ListInsertHead \/ ListInsertTail
    \/ ListUnlink \/ ListMakeRing \/ ListClear \/ ListClearNext \/ ListBegin

ListSpec == ListInit /\ [][ListNext]_listVars

-----------------------------------------------------------------------------
\* What pNext and pPrev of the i-th node of a chain have to be.
NextOf(c, r, i) == IF i < Len(c) THEN c[i + 1] ELSE IF r THEN c[1] ELSE NULL
PrevOf(c, r, i) == IF i > 1 THEN c[i - 1] ELSE IF r THEN c[Len(c)] ELSE NULL

\* Whatever is inserted and unlinked at either side of any node, pNext and pPrev
\* lead through the nodes in their order, forth and back, and around exactly when
\* XList_MakeRing was called (XList_IsRing); the node that XList_Unlink returns is
\* one that is left, and XList_Clear frees every node once, from wherever it starts.
ListLinked ==
    /\ \A i \in 1..Len(chain) : /\ links[chain[i]].next = NextOf(chain, ring, i)
                                /\ links[chain[i]].prev = PrevOf(chain, ring, i)
    /\ \A m \in ListNodes \ Nodes : links[m].next = NULL /\ links[m].prev = NULL
    /\ \A m \in Nodes : XList_IsRing(links, m) = ring
    /\ ~lost
=============================================================================
