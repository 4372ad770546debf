------------------------------- MODULE XSearch -------------------------------
(***************************************************************************)
(* The file search of src/sys/srch.c: a walk through a tree that another   *)
(* process changes, with a user's callback that keeps, drops or ends, and  *)
(* another thread that may interrupt it.  The calls of XSearch for nested  *)
(* directories are a stack.  readdir gives the entries that were there     *)
(* when the directory was opened.  Colours, owners, times and link counts  *)
(* of the entries are left out.                                            *)
(***************************************************************************)
EXTENDS XFile, XString

CONSTANTS NameText,        \* the characters of a path's name
          SearchOptions,   \* what searches are made with
          SearchTops       \* paths that are searched

VARIABLE srch

NewLine == <<"\n">>
NotSearching == [pc |-> "idle", opt |-> << >>, top |-> << >>, stack |-> << >>, item |-> << >>, stat |-> NoNode,
                 report |-> << >>, found |-> << >>, handles |-> 0, interrupted |-> FALSE,
                 ret |-> 0, before |-> << >>, other |-> 0, whole |-> TRUE]

\* An entry; num is 0 for the file itself, -1 for a match that no line shows.
Entry(p, num, key) == [path |-> p, num |-> num, line |-> key]
Binary(p) == Entry(p, -1, << >>)

Lowered(s) == [i \in 1..Len(s) |-> IF s[i] = "A" THEN "a" ELSE s[i]]

Octal(m, i) == (IF i \in m THEN 4 ELSE 0) + (IF i + 1 \in m THEN 2 ELSE 0) + (IF i + 2 \in m THEN 1 ELSE 0)
XPath_ModeToChmod(m) == 100 * Octal(m, 1) + 10 * Octal(m, 4) + Octal(m, 7)
XFile_IsExec(m) == m \cap {3, 6, 9} # {}

\* XSearch_Name and XSearch_Multy: one of the patterns between semicolons.
XSearch_Name(name, pattern) ==
    IF xstrsrc(pattern, <<";">>) < 0 THEN xstrmatch(name, pattern)
    ELSE LET ps == xstrsplita(pattern, <<";">>, FALSE) IN \E i \in 1..Len(ps) : xstrnmatch(name, ps[i])

\* XSearch_CheckCriteria without the text.
XSearch_CheckCriteria(o, p, st) ==
    LET size == Len(st.data)
        name == IF o.fold THEN Lowered(NameText[Last(p)]) ELSE NameText[Last(p)] IN
    /\ o.size < 0 \/ o.size = size
    /\ o.max = 0 \/ size <= o.max
    /\ o.min = 0 \/ size >= o.min
    /\ o.perm = 0 \/ XPath_ModeToChmod(st.mode) = o.perm
    /\ "exec" \in o.types => XFile_IsExec(st.mode)
    /\ o.types \ {"exec"} # {} => st.kind \in o.types
    /\ o.name # << >> => XSearch_Name(name, o.name)
    /\ o.text # << >> => st.kind = "file"

XSearch_Lines(p, data, key) ==
    LET ls == xstrsplita(data, NewLine, TRUE)
        hits == SetToSortSeq({i \in 1..Len(ls) : xstrsrc(ls[i], key) >= 0}, <) IN
    IF hits = << >> THEN <<Binary(p)>> ELSE [j \in 1..Len(hits) |-> Entry(p, hits[j], ls[hits[j]])]

\* The loop of XSearch_Buffer from the match at offset at: back to the newline before it,
\* but not to the first character of the data, and on to the newline after it.
RECURSIVE BufferFrom(_, _, _, _)
BufferFrom(p, data, key, at) ==
    LET breaks == {i \in 0..at : i <= 1 \/ data[i + 1] = "\n"}
        b == IF at <= 1 THEN at ELSE Max(breaks)
        from == IF data[b + 1] = "\n" THEN b + 1 ELSE b
        n == xstrsrc(SubSeq(data, from + 1, Len(data)), NewLine)
        next == xstrsrc(SubSeq(data, from + n + 1, Len(data)), key) IN
    IF n <= 0 THEN << >>
    ELSE <<Entry(p, 0, SubSeq(data, from + 1, from + n))>> \o
         (IF next < 0 THEN << >> ELSE BufferFrom(p, data, key, from + n + next))

\* Mutant: the loop ends with the first line.
BufferFirstLine(p, data, key, at) ==
    LET es == BufferFrom(p, data, key, at) IN IF es = << >> THEN <<Binary(p)>> ELSE SubSeq(es, 1, 1)

XSearch_Buffer(p, data, key, at) ==
    LET es == BufferFrom(p, data, key, at) IN IF es = << >> THEN <<Binary(p)>> ELSE es

\* XSearch_Text: what is reported for a file that was loaded, at most buffer bytes of it.
XSearch_Text(o, p, data) ==
    LET d == IF o.buffer = 0 THEN data ELSE SubSeq(data, 1, Min({o.buffer, Len(data)}))
        at == xstrsrc(d, o.text) IN
    CASE at < 0 -> << >>
      [] at >= 0 /\ o.matchOnly -> <<Entry(p, 0, << >>)>>
      [] OTHER -> IF o.lines THEN XSearch_Lines(p, d, o.text) ELSE XSearch_Buffer(p, d, o.text, at)

-----------------------------------------------------------------------------
At(pc) == srch.pc = pc
Stopping(left) == [srch EXCEPT !.pc = "end", !.ret = -1, !.stack = << >>, !.handles = left, !.whole = FALSE]
\* XSearch_ErrorCallback with the verdict v of the user's callback.
Told(s, v) == [s EXCEPT !.interrupted = @ \/ v < 0, !.whole = FALSE]
\* A call of XSearch that ends well: its caller reads on.
Leave(s, stack) == [s EXCEPT !.stack = stack, !.pc = IF stack = << >> THEN "end" ELSE "read", !.ret = IF stack = << >> THEN 1 ELSE 0]

\* XSearch up to the loop, for the directory item.
SearchOpen ==
    /\ At("open") /\ UNCHANGED fs
    /\ \/ srch.interrupted /\ srch' = Stopping(0)
       \/ /\ ~srch.interrupted /\ IsDir(srch.item)
          /\ srch' = [srch EXCEPT !.pc = "read", !.handles = @ + 1,
                                  !.stack = Append(@, [dir |-> srch.item, left |-> Listed(srch.item)])]
       \/ ~srch.interrupted /\ \E v \in {-1, 1} :
              srch' = IF v < 0 THEN Told(Stopping(0), v) ELSE Leave(Told(srch, v), srch.stack)

\* XDir_Read, then the test for an interruption.
SearchRead ==
    /\ At("read") /\ UNCHANGED fs
    /\ LET d == Last(srch.stack) IN
       IF d.left = {} \/ srch.interrupted
         THEN srch' = Leave([srch EXCEPT !.handles = @ - 1], Front(srch.stack))
         ELSE \E p \in d.left :
                  srch' = [srch EXCEPT !.pc = "stat", !.item = p, !.stack[Len(srch.stack)].left = @ \ {p}]

\* An entry that cannot be looked at ends an interrupted search, with its directory left open.
SearchStat ==
    /\ At("stat") /\ UNCHANGED fs
    /\ LET st == fs[srch.item]
           ok == XSearch_CheckCriteria(srch.opt, srch.item, st)
           s == [srch EXCEPT !.stat = st] IN
       IF ~There(srch.item)
         THEN \E v \in {-1, 1} : srch' = IF v < 0 \/ srch.interrupted THEN Told(Stopping(1), v)
                                         ELSE [Told(srch, v) EXCEPT !.pc = "read"]
         ELSE srch' = CASE ~ok -> [s EXCEPT !.pc = "descend"]
                        [] ok /\ srch.opt.text = << >> ->
                               [s EXCEPT !.pc = "report", !.report = <<Entry(srch.item, 0, << >>)>>]
                        [] OTHER -> [s EXCEPT !.pc = "text"]

\* The file is loaded later than it was looked at, and may not load.
SearchText ==
    /\ At("text") /\ UNCHANGED fs
    /\ \/ /\ fs[srch.item].kind = "file"
          /\ srch' = [srch EXCEPT !.pc = "report", !.report = XSearch_Text(srch.opt, srch.item, fs[srch.item].data)]
       \/ srch' = [srch EXCEPT !.pc = "descend", !.whole = FALSE]

\* XSearch_NewEntry and XSearch_Callback for one entry after the other.
SearchReport ==
    /\ At("report") /\ UNCHANGED fs
    /\ LET rest == [srch EXCEPT !.report = Tail(@)] IN
       \/ srch.report = << >> /\ srch' = [srch EXCEPT !.pc = "descend"]
       \/ /\ srch.report # << >>
          /\ \/ srch' = [rest EXCEPT !.found = Append(@, Head(srch.report))]
             \/ srch' = [rest EXCEPT !.whole = FALSE]
             \/ \E v \in {-1, 1} : srch' = Told(Stopping(0), v)

SearchDescend ==
    /\ At("descend") /\ UNCHANGED fs
    /\ srch' = [srch EXCEPT !.pc = IF srch.opt.recursive /\ srch.stat.kind = "dir" THEN "open" ELSE "read"]

\* Another thread sets pInterrupted.
SearchInterrupt ==
    /\ srch.pc \notin {"idle", "end"} /\ ~srch.interrupted
    /\ srch' = [srch EXCEPT !.interrupted = TRUE, !.whole = FALSE] /\ UNCHANGED fs

\* External: another process.
SearchOther ==
    /\ srch.pc \notin {"idle", "end"} /\ srch.other < MaxOther
    /\ srch' = [srch EXCEPT !.other = @ + 1, !.whole = FALSE]
    /\ \E p \in Paths : Altered(p)

SearchBegin ==
    /\ At("idle") /\ UNCHANGED fs
    /\ \E o \in SearchOptions, p \in SearchTops :
           srch' = [srch EXCEPT !.pc = "open", !.opt = o, !.top = p, !.item = p, !.before = fs]

SearchInit == fs \in Trees /\ srch = NotSearching
SearchNext == SearchBegin \/ SearchOpen \/ SearchRead \/ SearchStat \/ SearchText \/ SearchReport
              \/ SearchDescend \/ SearchInterrupt \/ SearchOther

-----------------------------------------------------------------------------
\* The lines of a text by the definition: what is between newlines.
IsLine(d, i, j) ==
    /\ i = 1 \/ d[i - 1] = "\n"
    /\ j = Len(d) \/ d[j + 1] = "\n"
    /\ \A k \in i..j : d[k] # "\n"
LineNumber(d, i) == Cardinality({k \in 1..(i - 1) : d[k] = "\n"}) + 1
Holds(d, key) == \E i \in 1..(Len(d) - Len(key) + 1) : SubSeq(d, i, i + Len(key) - 1) = key
Matching(p, d, key) ==
    {Entry(p, LineNumber(d, r[1]), SubSeq(d, r[1], r[2])) :
        r \in {r \in (1..Len(d)) \X (1..Len(d)) : IsLine(d, r[1], r[2]) /\ Holds(SubSeq(d, r[1], r[2]), key)}}

\* The entries that a search of an unchanged tree reports.
Expected(f, o, top) ==
    LET inside == {p \in Paths : Under(top, p) /\ p # top /\ f[p].kind # "none" /\ (o.recursive \/ Front(p) = top)}
        good == {p \in inside : XSearch_CheckCriteria(o, p, f[p])} IN
    IF o.text = << >> THEN {Entry(p, 0, << >>) : p \in good}
    ELSE LET hits == {p \in good : Holds(f[p].data, o.text)} IN
         IF o.matchOnly THEN {Entry(p, 0, << >>) : p \in hits}
         ELSE UNION {Matching(p, f[p].data, o.text) : p \in hits}

\* The search by buffer reports the end of each matching line that a newline follows.
BufferRight(p, d, key, at) ==
    LET es == XSearch_Buffer(p, d, key, at)
        ref == SetToSortSeq({e \in Matching(p, d, key) :
                   LineNumber(d, Len(d) + 1) > e.num}, LAMBDA a, b : a.num < b.num) IN
    IF ref = << >> THEN es = <<Binary(p)>>
    ELSE Len(es) = Len(ref) /\ \A i \in 1..Len(es) : IsSuffix(es[i].line, ref[i].line)

\* Nothing is reported twice or from outside the directory that is searched, a search that nothing
\* disturbs reports every match of the tree and nothing else, with the right line numbers, and no
\* directory stays open behind it, except the one whose entry could not be looked at.
SearchFaithful ==
    /\ \A i, j \in 1..Len(srch.found) : i # j => srch.found[i] # srch.found[j]
    /\ \A i \in 1..Len(srch.found) : Under(srch.top, srch.found[i].path) /\ srch.found[i].path # srch.top
    /\ At("end") /\ srch.whole /\ (srch.opt.lines \/ srch.opt.text = << >>) =>
           srch.ret = 1 /\ ToSet(srch.found) = Expected(srch.before, srch.opt, srch.top)
    /\ ~At("end") => srch.handles = Len(srch.stack)
    /\ At("end") => srch.handles = 0 \/ (srch.handles = 1 /\ srch.ret < 0 /\ ~There(srch.item))
    /\ At("text") /\ fs[srch.item].kind = "file" =>
           LET d == fs[srch.item].data
               at == xstrsrc(d, srch.opt.text) IN
           at >= 0 => BufferRight(srch.item, d, srch.opt.text, at)
=============================================================================
