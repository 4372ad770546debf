------------------------------- MODULE XString -------------------------------
(***************************************************************************)
(* The strings of src/data/str.c: the growing xstring_t, whose memory is a *)
(* sequence of characters, and the functions on C strings for matching,    *)
(* searching, splitting, replacing and cutting.  A C string is the         *)
(* sequence of its characters without the terminator.                      *)
(***************************************************************************)
EXTENDS Integers, Sequences, SequencesExt

CONSTANTS TextChars,     \* characters of texts; "a" has an upper case "A"
          Delimiters,    \* strings that texts are split at
          Patterns,      \* patterns that texts are matched with
          StringSizes,   \* sizes that strings are created with
          MaxText        \* bound: length of a text

ASSUME StringAssumption ==
    /\ StringSizes \subseteq Nat /\ MaxText \in Nat /\ Delimiters \subseteq Seq(STRING) \ {<< >>}
    /\ Patterns \subseteq Seq(STRING)

VARIABLES
    str,    \* the xstring_t: pData (empty when NULL), nSize (0 when borrowed), nLength,
            \* nFast and nStatus
    text    \* what the string must hold

stringVars == <<str, text>>

Nul == "NUL"
Junk(n) == [i \in 1..n |-> "?"]
Shorter(i, j) == IF i < j THEN i ELSE j
Put(mem, at, s) == [i \in 1..Len(mem) |-> IF i > at /\ i <= at + Len(s) THEN s[i - at] ELSE mem[i]]

-----------------------------------------------------------------------------
(* C strings.                                                              *)

\* xstrncpys, xstrncpy and xstrncpyf into n bytes.
xstrncpys(s, n) == SubSeq(s, 1, Shorter(Len(s), n - 1))

\* xstrsrc: where sub begins in s, counted from 0, or -1.
xstrsrc(s, sub) ==
    LET at == {i \in 0..(Len(s) - Len(sub)) : SubSeq(s, i + 1, i + Len(sub)) = sub}
    IN  IF s = << >> \/ sub = << >> \/ at = {} THEN -1 ELSE CHOOSE i \in at : \A j \in at : i <= j

\* xstrnmatch
RECURSIVE xstrnmatch(_, _)
xstrnmatch(s, p) ==
    CASE p = << >> -> s = << >>
      [] p # << >> /\ p[1] = "*" ->
             IF Len(p) = 1 THEN TRUE
             ELSE IF p[2] = "*" THEN xstrnmatch(s, Tail(p))
             ELSE \E i \in 0..Len(s) : xstrnmatch(SubSeq(s, i + 1, Len(s)), Tail(p))
      [] OTHER -> s # << >> /\ p[1] \in {"?", s[1]} /\ xstrnmatch(Tail(s), Tail(p))

\* xstrmatch: an empty string matches the empty pattern only.
xstrmatch(s, p) == IF s = << >> THEN p = << >> ELSE xstrnmatch(s, p)

\* xstrntok and xstrntokn from position at: the token, and where the next one begins; 0
\* when it was the last one, -1 when there is none.
xstrntok(s, at, d) ==
    LET rest == SubSeq(s, at + 1, Len(s))
        n == xstrsrc(rest, d)
    IN  CASE at >= Len(s) -> [tok |-> << >>, next |-> -1]
          [] at < Len(s) /\ n < 0 -> [tok |-> rest, next |-> 0]
          [] OTHER -> [tok |-> SubSeq(rest, 1, n), next |-> at + n + Len(d)]

\* xstrsplita (xstrsplit and xstrsplite): the tokens from position at on, with or
\* without empty ones.
RECURSIVE SplitFrom(_, _, _, _)
SplitFrom(s, at, d, empties) ==
    LET t == xstrntok(s, at, d)
        this == IF t.tok # << >> \/ empties THEN <<t.tok>> ELSE << >>
    IN  CASE t.next < 0 -> << >>
          [] t.next = 0 -> this
          [] OTHER -> this \o SplitFrom(s, t.next, d, empties)
xstrsplita(s, d, empties) == SplitFrom(s, 0, d, empties)

\* xstrmatchm: one of several patterns; a delimiter in front makes it a single pattern.
xstrmatchm(s, p, d) ==
    IF s = << >> \/ xstrsrc(p, d) = 0 THEN xstrmatch(s, p)
    ELSE LET ps == xstrsplita(p, d, FALSE) IN \E i \in 1..Len(ps) : xstrnmatch(s, ps[i])

\* The number of tokens that xstrrep counts before it allocates.
RECURSIVE Occurrences(_, _, _)
Occurrences(s, at, d) ==
    LET t == xstrntok(s, at, d) IN IF t.next <= 0 THEN 0 ELSE 1 + Occurrences(s, t.next, d)

\* The copying of xstrrep and xstrnrep with avail bytes left: [out, ok].
RECURSIVE Replaced(_, _, _, _, _)
Replaced(s, d, with, count, avail) ==
    LET n == xstrsrc(s, d)
        head == xstrncpys(SubSeq(s, 1, n), avail) \o xstrncpys(with, avail - n)
        rest == Replaced(SubSeq(s, n + Len(d) + 1, Len(s)), d, with, count - 1, avail - n - Len(with))
    IN  CASE count = 0 \/ n < 0 -> [out |-> xstrncpys(s, avail), ok |-> TRUE]
          [] count > 0 /\ n >= 0 /\ avail - n - Len(with) <= 0 -> [out |-> << >>, ok |-> FALSE]
          [] OTHER -> [out |-> head \o rest.out, ok |-> rest.ok]

xstrrep(s, d, with) ==
    LET n == Occurrences(s, 0, d) IN Replaced(s, d, with, n, (Len(with) - Len(d)) * n + Len(s) + 1)
xstrnrep(s, d, with, size) == Replaced(s, d, with, Occurrences(s, 0, d), size)

\* xstrnrm and xstracut at position at.
xstrnrm(s, at, n) ==
    IF n = 0 \/ at >= Len(s) THEN s ELSE SubSeq(s, 1, at) \o SubSeq(s, Shorter(at + n, Len(s)) + 1, Len(s))
xstracut(s, at, n) == xstrncpys(SubSeq(s, at + 1, at + Shorter(n, Len(s) - at)), n + 1)

\* xstrncuts: what is between two strings.
xstrncuts(s, from, to) ==
    LET n == xstrsrc(s, from) IN IF n < 0 THEN << >> ELSE xstrntok(s, n + Len(from), to).tok

\* xstrcase, xstrncases, xstracase.
Upper(c) == IF c = "a" THEN "A" ELSE c

-----------------------------------------------------------------------------
(* xstring_t.  fail tells that the allocation of this call fails.          *)

Blank(fast) == [mem |-> << >>, size |-> 0, len |-> 0, fast |-> fast, err |-> FALSE]

XString_Resize(s, n, fail) ==
    LET old == SelectInSeq(s.mem, LAMBDA c : c = Nul) - 1 IN
    CASE n = 0 -> [s EXCEPT !.mem = << >>, !.size = 0, !.len = 0]
      [] n > 0 /\ s.mem = << >> ->
             IF fail THEN [s EXCEPT !.err = TRUE] ELSE [s EXCEPT !.mem = Junk(n), !.size = n, !.len = 0]
      [] n > 0 /\ s.mem # << >> /\ s.size = 0 ->
             IF fail THEN [s EXCEPT !.mem = << >>, !.err = TRUE]
             ELSE [s EXCEPT !.mem = Put(Junk(n), 0, Append(xstrncpys(SubSeq(s.mem, 1, old), n), Nul)),
                            !.size = n, !.len = Shorter(old, n - 1)]
      [] n > 0 /\ s.mem # << >> /\ s.size > 0 ->
             IF fail THEN [s EXCEPT !.len = Shorter(@, n), !.err = TRUE]
             ELSE [s EXCEPT !.mem = Put(Junk(n), 0, SubSeq(s.mem, 1, Shorter(s.size, n))),
                            !.size = n, !.len = Shorter(@, n)]

\* Mutant: the terminator has no place of its own.
IncreaseTight(s, n, fail) ==
    IF s.err \/ s.len + n <= s.size + 1 THEN s
    ELSE XString_Resize(s, IF s.fast THEN 2 * (s.len + n) ELSE s.len + n, fail)

XString_Increase(s, n, fail) ==
    IF s.err \/ s.len + n <= s.size THEN s
    ELSE XString_Resize(s, IF s.fast THEN 2 * (s.len + n) ELSE s.len + n, fail)

\* The characters at a position, the new length and the terminator.
Written(s, at, d, len) == [s EXCEPT !.mem = Put(Put(@, at, d), len, <<Nul>>), !.len = len]

XString_Init(n, fast, fail) ==
    LET s == XString_Resize(Blank(fast), n, fail) IN IF n = 0 \/ s.err THEN s ELSE Written(s, 0, << >>, 0)

\* XString_Set: the characters belong to the caller.
XString_Set(s, t) == [s EXCEPT !.mem = Append(t, Nul), !.size = 0, !.len = Len(t), !.err = FALSE]

\* XString_Add, and XString_Append and XString_AddString, which call it.
XString_Add(s, d, fail) ==
    LET b == XString_Increase(s, Len(d) + 1, fail)
        n == Shorter(Len(d), b.size - b.len)
    IN  IF d = << >> \/ b.err THEN IF d = << >> THEN s ELSE b
        ELSE Written(b, b.len, SubSeq(d, 1, n), b.len + n)

\* XString_Insert and XString_InsertFmt.
XString_Insert(s, at, d, fail) ==
    LET b == XString_Increase(s, Len(d) + 1, fail) IN
    IF at >= s.len THEN XString_Add(s, d, fail)
    ELSE IF b.err THEN b
    ELSE Written(b, at, d \o SubSeq(b.mem, at + 1, b.len), b.len + Len(d))

XString_Remove(s, at, n) ==
    IF n = 0 \/ at >= s.len THEN s
    ELSE LET to == Shorter(at + n, s.len) IN Written(s, at, SubSeq(s.mem, to + 1, s.len), s.len - (to - at))

\* XString_Delete and XString_Advance: the memory is cut to what is used.
XString_Delete(s, at, n, fail) ==
    LET r == XString_Remove(s, at, n) IN XString_Resize(r, r.len + 1, fail)

XString_Case(s, at, n) ==
    [s EXCEPT !.mem = [i \in 1..Len(@) |-> IF i > at /\ i <= Shorter(at + n, s.len) THEN Upper(@[i]) ELSE @[i]]]

\* XString_Color: built in a second string, which replaces the text.
XString_Color(s, at, n, fail) ==
    LET body == SubSeq(s.mem, 1, s.len)
        whole == SubSeq(body, 1, at) \o <<"<">> \o SubSeq(body, at + 1, at + n) \o <<">">> \o SubSeq(body, at + n + 1, s.len)
    IN  IF s.len = 0 \/ at >= s.len \/ at + n > s.len THEN s
        ELSE XString_Add([s EXCEPT !.len = 0], whole, fail)

\* XString_Search, and XString_Replace from position pos: the search is relative to pos,
\* and its result is used as a position in the string.  A borrowed string that lost its
\* memory is not followed further (the code would read through the null pointer).
XString_Search(s, pos, d) == IF pos >= s.len THEN -1 ELSE xstrsrc(SubSeq(s.mem, pos + 1, s.len), d)
RECURSIVE ReplaceFrom(_, _, _, _, _)
ReplaceFrom(s, pos, d, with, fail) ==
    LET at == XString_Search(s, pos, d)
        r == XString_Insert(XString_Remove(s, at, Len(d)), at, with, fail)
    IN  IF s.mem = << >> \/ at < 0 THEN s ELSE ReplaceFrom(r, at + Len(with), d, with, fail)
XString_Replace(s, d, with, fail) == IF s.len = 0 THEN s ELSE ReplaceFrom(s, 0, d, with, fail)

\* XString_Sub, XString_SubStr and XString_SubNew: a new string.
XString_SubStr(s, at, n, fail) ==
    LET b == XString_Init(n + 1, s.fast, fail)
        c == Shorter(n, s.len - at)
    IN  IF b.err THEN b ELSE Written(b, 0, SubSeq(s.mem, at + 1, at + c), c)

\* XString_Cut, XString_CutSub and XString_CutNew: what is between two strings; no
\* string (an empty one here) when it is not there.
XString_Cut(s, from, to, fail) ==
    LET b == XString_Init(s.len, s.fast, fail)
        at == XString_Search(s, 0, from)
        n == XString_Search(s, at + Len(from), to)
    IN  IF b.err THEN b
        ELSE IF at < 0 \/ at + Len(from) >= s.len \/ n <= 0 THEN Blank(s.fast)
        ELSE Written(b, 0, SubSeq(s.mem, at + Len(from) + 1, at + Len(from) + n), n)

\* XString_Copy of a string with memory of its own.
XString_Copy(s, fail) ==
    LET b == XString_Init(s.size, s.fast, fail) IN
    IF b.err THEN b ELSE [b EXCEPT !.mem = Put(s.mem, s.len, <<Nul>>), !.len = s.len]

\* XString_From, XString_FromFmt, XString_InitFrom, XString_FromStr.
XString_From(t, fail) == XString_Add(XString_Init(Len(t), FALSE, fail), t, fail)

\* XString_Token: a delimiter in front counts as none.  XString_SplitStr, XString_Split.
XString_Token(t, at, d) ==
    LET n == xstrsrc(SubSeq(t, at + 1, Len(t)), d) IN
    CASE at >= Len(t) -> [tok |-> << >>, next |-> -1]
      [] at < Len(t) /\ n <= 0 -> [tok |-> SubSeq(t, at + 1, Len(t)), next |-> 0]
      [] OTHER -> [tok |-> SubSeq(t, at + 1, at + n), next |-> at + n + Len(d)]
RECURSIVE TokensFrom(_, _, _)
TokensFrom(t, at, d) ==
    LET r == XString_Token(t, at, d) IN
    CASE r.next < 0 -> << >> [] r.next = 0 -> <<r.tok>> [] OTHER -> <<r.tok>> \o TokensFrom(t, r.next, d)
XString_SplitStr(t, d) == TokensFrom(t, 0, d)

-----------------------------------------------------------------------------
TextsUpTo(n) == UNION {[1..k -> TextChars] : k \in 0..n}
Becomes(s, t) == str' = s /\ text' = (IF s.err THEN text ELSE t)
Room4(n) == Len(text) + n <= MaxText
Usable == ~str.err
Between(t, i, j) == SubSeq(t, i + 1, Shorter(j, Len(t)))
Without(t, at, n) == Between(t, 0, at) \o Between(t, at + n, Len(t))

StringInit == str = Blank(FALSE) /\ text = << >>

StrInit ==
    /\ str = Blank(FALSE)
    /\ \/ \E n \in StringSizes, fast, fail \in BOOLEAN : Becomes(XString_Init(n, fast, fail), << >>)
       \/ \E t \in TextsUpTo(2) \ {<< >>}, fail \in BOOLEAN : Becomes(XString_From(t, fail), t)
       \/ \E t \in TextsUpTo(MaxText) : Becomes(XString_Set(str, t), t)

StrAdd ==
    \E d \in TextsUpTo(2), fail \in BOOLEAN : Room4(Len(d)) /\ Becomes(XString_Add(str, d, fail), text \o d)

StrInsert ==
    \E d \in TextsUpTo(1), at \in 0..(MaxText - 1), fail \in BOOLEAN :
        /\ Room4(Len(d))
        /\ Becomes(XString_Insert(str, at, d, fail),
                   Between(text, 0, at) \o d \o Between(text, at, Len(text)))

StrRemove ==
    \E at, n \in 0..2, fail \in BOOLEAN :
        /\ Usable /\ str.mem # << >>
        /\ \/ Becomes(XString_Remove(str, at, n), Without(text, at, n))
           \/ Becomes(XString_Delete(str, at, n, fail), Without(text, at, n))

StrCase ==
    \E at, n \in 0..2 : Usable /\ Becomes(XString_Case(str, at, n),
        [i \in 1..Len(text) |-> IF i > at /\ i <= at + n THEN Upper(text[i]) ELSE text[i]])

\* A borrowed string would be copied once more behind its own text.
StrColor ==
    \E at \in 0..(Len(text) - 1), n \in 1..2, fail \in BOOLEAN :
        /\ Usable /\ str.size > 0 /\ Room4(2) /\ at + n <= Len(text)
        /\ Becomes(XString_Color(str, at, n, fail),
                   SubSeq(text, 1, at) \o <<"<">> \o Between(text, at, at + n) \o <<">">>
                   \o Between(text, at + n, Len(text)))

\* At most one occurrence: a second one would be looked for at the wrong place.
StrReplace ==
    \E d \in Delimiters, with \in TextsUpTo(2), fail \in BOOLEAN :
        /\ Usable /\ Room4(Len(with) - Len(d)) /\ Occurrences(text, 0, d) <= 1 /\ xstrsrc(with, d) < 0
        /\ LET n == xstrsrc(text, d) IN
           /\ n >= 0 => xstrsrc(Between(text, n + 1, Len(text)), d) < 0
           /\ Becomes(XString_Replace(str, d, with, fail),
                      IF n < 0 THEN text ELSE SubSeq(text, 1, n) \o with \o Between(text, n + Len(d), Len(text)))

\* A part, or a copy, takes the place of the string.
StrSub ==
    \E at \in 0..(Len(text) - 1), n \in 1..2, fail \in BOOLEAN :
        Usable /\ Becomes(XString_SubStr(str, at, n, fail), Between(text, at, Shorter(at + n, Len(text))))
StrCut ==
    \E from, to \in Delimiters, fail \in BOOLEAN :
        LET at == xstrsrc(text, from) + Len(from)
            n == xstrsrc(Between(text, at, Len(text)), to)
        IN  /\ Usable /\ str.len > 0
            /\ Becomes(XString_Cut(str, from, to, fail),
                       IF at < Len(from) \/ n <= 0 THEN << >> ELSE Between(text, at, at + n))
StrCopy == \E fail \in BOOLEAN : Usable /\ str.size > 0 /\ Becomes(XString_Copy(str, fail), text)

\* XString_Clear
StrClear == str' = Blank(FALSE) /\ text' = << >>

StringNext == StrInit \/ StrAdd \/ StrInsert \/ StrRemove \/ StrCase \/ StrColor \/ StrReplace \/ StrSub
              \/ StrCut \/ StrCopy \/ StrClear

-----------------------------------------------------------------------------
(* What matching, splitting and replacing mean.                            *)

\* Each character of p stands for a piece of s that begins at f[i] + 1.
Globs(s, p) ==
    \E f \in [1..(Len(p) + 1) -> 0..Len(s)] :
        /\ f[1] = 0 /\ f[Len(p) + 1] = Len(s)
        /\ \A i \in 1..Len(p) : IF p[i] = "*" THEN f[i] <= f[i + 1]
                                ELSE f[i + 1] = f[i] + 1 /\ p[i] \in {"?", s[f[i + 1]]}

Joined(ts, d) == FoldLeft(LAMBDA acc, t : acc \o d \o t, Head(ts), Tail(ts))

\* ts are the pieces of s between the delimiters, without an empty one at the end.
Splits(ts, s, d) ==
    IF s = << >> THEN ts = << >>
    ELSE /\ \A i \in 1..Len(ts) : xstrsrc(ts[i], d) < 0
         /\ Joined(ts, d) \in {s, SubSeq(s, 1, Len(s) - Len(d))}
         /\ ts[Len(ts)] = << >> => Joined(ts, d) # s

\* xstrmatch is a glob except on an empty string, and xstrmatchm one of several.
MatchesRight ==
    /\ \A p \in Patterns : xstrmatch(text, p) <=> IF text = << >> THEN p = << >> ELSE Globs(text, p)
    /\ \A p, q \in Patterns : text # << >> /\ p # << >> =>
           (xstrmatchm(text, p \o <<";">> \o q, <<";">>) <=> xstrmatch(text, p) \/ (q # << >> /\ xstrmatch(text, q)))

\* The tokens of xstrsplite and of XString_Split put together are the text, xstrsplit
\* has those that are not empty, xstrrep replaces every occurrence in exactly the memory
\* it asked for, and xstrnrep writes as much of that as fits when it says it is done.
SplitsRight ==
    \A d \in Delimiters :
        LET ts == xstrsplita(text, d, TRUE) IN
        /\ Splits(ts, text, d)
        /\ xstrsplita(text, d, FALSE) = SelectSeq(ts, LAMBDA t : t # << >>)
        /\ text # << >> => Joined(XString_SplitStr(text, d), d) \in {text, SubSeq(text, 1, Len(text) - Len(d))}
        /\ \A with \in {<< >>, <<"x">>, <<"x", "y", "z">>} :
               LET all == IF text = << >> THEN << >>
                          ELSE Joined(IF Joined(ts, d) = text THEN ts ELSE Append(ts, << >>), with)
               IN  /\ xstrrep(text, d, with).out = all
                   /\ \A size \in 1..4 : LET r == xstrnrep(text, d, with, size) IN
                          r.ok => r.out = SubSeq(all, 1, Shorter(Len(all), size - 1))

\* xstrnrm and xstracut remove and copy a part, xstrncuts what follows a delimiter.
CutsRight ==
    /\ \A at, n \in 0..2 :
           /\ xstrnrm(text, at, n) = Without(text, at, n)
           /\ at < Len(text) => xstracut(text, at, n) = Between(text, at, at + n)
    /\ \A from, to \in Delimiters :
           LET n == xstrsrc(text, from) IN
           n >= 0 => IsPrefix(xstrncuts(text, from, to), Between(text, n + Len(from), Len(text)))

\* A string that no call has failed on holds its text, with the terminator in its own
\* memory behind it, however it was grown, cut or replaced (XString_Increase,
\* str.c:1221, counts the terminator; XString_Add cuts at nSize); and on every text the
\* functions on C strings (str.c:178, 817, 953, 1069) do what their names say.
StringsFaithful ==
    /\ ~str.err => /\ SubSeq(str.mem, 1, str.len) = text
                   /\ str.size > 0 => str.len < str.size /\ str.mem[str.len + 1] = Nul
    /\ str = XString_Set(Blank(FALSE), text) => MatchesRight /\ SplitsRight /\ CutsRight
=============================================================================
