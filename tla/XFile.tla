-------------------------------- MODULE XFile --------------------------------
(***************************************************************************)
(* The files and directories of src/sys/xfs.c (POSIX build), one system    *)
(* call at a time: copying, loading and writing a file, making and         *)
(* removing a directory tree, while another process changes the same tree. *)
(* Every call of the system may fail for a reason of its own (no memory,   *)
(* no descriptor, an I/O error, a full disk); reads and writes may be      *)
(* short.  An open file stays the same file when its path is removed or    *)
(* given to another.  A path is a sequence of names, a permission mode the *)
(* set of its bits 1..9, from the owner's r to the others' x.  The other   *)
(* process makes no links.                                                 *)
(***************************************************************************)
EXTENDS Integers, Sequences, FiniteSets, FiniteSetsExt, SequencesExt

CONSTANTS Paths,       \* the paths that may exist, the prefixes of each among them
          FileData,    \* what files hold
          FileModes,   \* permissions of files
          Umask,       \* permissions that a new file does not get
          BlockSize,   \* bound: most that one read or write moves
          MaxOther     \* bound: changes by the other process

ASSUME FileAssumption ==
    /\ \A p \in Paths : p # << >> /\ (Len(p) > 1 => Front(p) \in Paths)
    /\ BlockSize \in Nat \ {0} /\ MaxOther \in Nat
    /\ \A m \in FileModes \cup {Umask} : m \subseteq 1..9

VARIABLES
    fs,     \* fs[p]: what is at a path
    job     \* the call that runs, its local variables, what it returned; history

fileVars == <<fs, job>>

NoNode == [kind |-> "none", data |-> << >>, mode |-> {}]
Inode(kind, data, mode) == [kind |-> kind, data |-> data, mode |-> mode]

Under(d, p) == IsPrefix(d, p)
There(p) == fs[p].kind # "none"
IsDir(p) == IF p = << >> THEN TRUE ELSE fs[p].kind = "dir"
Listed(d) == {p \in Paths : Front(p) = d /\ There(p)}

\* An open file: the path it has, or without one what it holds.
Closed == [path |-> << >>, node |-> NoNode]
OpenAt(p) == [path |-> p, node |-> NoNode]
FileOf(f) == IF f.path = << >> THEN f.node ELSE fs[f.path]

\* in, out: the files that are read and written.  History: the files found when they were opened
\* (source, target), the tree before the call, the changes of the other process, and whether
\* everything succeeded that the code does not look at.
NoJob == [call |-> "none", pc |-> "idle", path |-> << >>, dst |-> << >>, data |-> << >>, existed |-> FALSE,
          in |-> Closed, out |-> Closed, limit |-> 0, stack |-> << >>, done |-> 0, ret |-> 0,
          source |-> NoNode, target |-> NoNode, before |-> << >>, other |-> {}, clean |-> TRUE]
Start(call, p) == [NoJob EXCEPT !.call = call, !.pc = call, !.path = p, !.before = fs]
Gone(p) == fs' = [fs EXCEPT ![p] = NoNode]
Running(pc) == job.pc = pc
GoTo(pc) == job' = [job EXCEPT !.pc = pc]
Returns(v) == [job EXCEPT !.pc = "end", !.ret = v]

-----------------------------------------------------------------------------
\* Permission strings and modes.
PermLetters == <<"r", "w", "x", "r", "w", "x", "r", "w", "x">>
XPath_PermToMode(s) == {i \in 1..9 : s[i] = PermLetters[i]}
XPath_ModeToPerm(m) == [i \in 1..9 |-> IF i \in m THEN PermLetters[i] ELSE "-"]

\* XFile_GetLine with room for size - 1 bytes, from offset at: the bytes read.
XFile_GetLine(data, at, size) ==
    LET rest == SubSeq(data, at + 1, Len(data))
        ends == {i \in 1..Len(rest) : rest[i] = "\n"}
        n == Min({Len(rest), size - 1} \cup ends) IN
    SubSeq(rest, 1, n)

\* The lines that repeated calls give; XFile_GetLineCount counts them.
RECURSIVE LinesFrom(_, _, _)
LinesFrom(data, at, size) ==
    LET l == XFile_GetLine(data, at, size) IN
    IF l = << >> THEN << >> ELSE <<l>> \o LinesFrom(data, at + Len(l), size)
XFile_GetLineCount(data, size) == IF data = << >> THEN -1 ELSE Len(LinesFrom(data, 0, size))
XFile_ReadLine(data, size, n) ==
    LET ls == LinesFrom(data, 0, size) IN IF n \in 1..Len(ls) THEN ls[n] ELSE << >>

-----------------------------------------------------------------------------
\* What k bytes written at an offset leave; a gap before them is filled.
WrittenAt(data, at, bytes) ==
    [i \in 1..Max({Len(data), at + Len(bytes)}) |->
        IF i \in (at + 1)..(at + Len(bytes)) THEN bytes[i - at] ELSE IF i <= Len(data) THEN data[i] ELSE "zero"]

\* open with "cwt": the file that is there is emptied, or one is made.
OpensFor(p, mode) ==
    /\ fs[p].kind \in {"none", "file"} /\ IsDir(Front(p))
    /\ fs' = [fs EXCEPT ![p] = Inode("file", << >>, IF There(p) THEN @.mode ELSE mode \ Umask)]

\* write to the file that is open, at its path or without one; j is what the call goes on with.
Puts(bytes, at, j) ==
    LET p == job.out.path
        data == WrittenAt(FileOf(job.out).data, at, bytes) IN
    IF p = << >> THEN job' = [j EXCEPT !.out.node.data = data] /\ UNCHANGED fs
    ELSE job' = j /\ fs' = [fs EXCEPT ![p].data = data]

\* XPath_CopyFile.  Files of other kinds have no content to copy.
CopyOpenSrc ==
    /\ Running("copy") /\ UNCHANGED fs
    /\ \/ /\ fs[job.path].kind = "file"
          /\ job' = [job EXCEPT !.pc = "look", !.in = OpenAt(job.path), !.source = fs[job.path]]
       \/ job' = Returns(-1)

\* bExisted is asked for before the file is created; a stat that fails says that it is not there.
CopyLook ==
    /\ Running("look") /\ UNCHANGED fs
    /\ \E seen \in {There(job.dst), FALSE} :
          job' = [job EXCEPT !.existed = seen, !.clean = (seen = There(job.dst)), !.pc = "open"]

CopyOpenDst ==
    /\ Running("open")
    /\ \/ /\ OpensFor(job.dst, job.source.mode)
          /\ job' = [job EXCEPT !.pc = "read", !.out = OpenAt(job.dst), !.target = fs[job.dst]]
       \/ job' = Returns(-1) /\ UNCHANGED fs

\* XFile_Copy: a block is read, then written until all of it is.
CopyRead ==
    LET data == FileOf(job.in).data
        left == Len(data) - job.done IN
    /\ Running("read") /\ UNCHANGED fs
    /\ \/ \E k \in 1..Min({left, BlockSize}) :
              job' = [job EXCEPT !.pc = "write", !.done = @ + k, !.data = SubSeq(data, job.done + 1, job.done + k)]
       \/ left <= 0 /\ GoTo("copied")
       \/ GoTo("failed")

CopyWrite ==
    LET at == job.done - Len(job.data) IN
    /\ Running("write")
    /\ \/ \E k \in 1..Len(job.data) :
              Puts(SubSeq(job.data, 1, k), at,
                   [job EXCEPT !.pc = IF k = Len(job.data) THEN "read" ELSE "write", !.data = SubSeq(@, k + 1, Len(@))])
       \/ GoTo("failed") /\ UNCHANGED fs

\* A new file gets the permissions of the source.  Nobody looks whether it does.
CopyPerms ==
    \/ /\ ~job.existed /\ There(job.dst)
       /\ fs' = [fs EXCEPT ![job.dst].mode = XPath_PermToMode(XPath_ModeToPerm(job.source.mode))]
       /\ job' = Returns(job.done)
    \/ job' = [Returns(job.done) EXCEPT !.clean = @ /\ job.existed] /\ UNCHANGED fs

\* Mutant: what a failed copy has written stays.
CopyLeavesPart ==
    \/ Running("copied") /\ CopyPerms
    \/ Running("failed") /\ job' = Returns(-1) /\ UNCHANGED fs

\* The file goes when it is new and the copy failed, if it can be removed.
CopyEnd ==
    \/ Running("copied") /\ CopyPerms
    \/ /\ Running("failed")
       /\ \/ ~job.existed /\ There(job.dst) /\ ~IsDir(job.dst) /\ Gone(job.dst) /\ job' = Returns(-1)
          \/ job' = [Returns(-1) EXCEPT !.clean = @ /\ job.existed] /\ UNCHANGED fs

-----------------------------------------------------------------------------
\* XPath_Load, XPath_LoadSize, XPath_LoadBuffer: at most limit bytes, all when it is 0.
LoadOpen ==
    /\ Running("load") /\ UNCHANGED fs
    /\ \/ /\ fs[job.path].kind = "file" /\ fs[job.path].data # << >>
          /\ LET size == Len(fs[job.path].data) IN
                 job' = [job EXCEPT !.pc = "fill", !.limit = IF @ = 0 THEN size ELSE Min({@, size}),
                                    !.in = OpenAt(job.path), !.source = fs[job.path]]
       \/ job' = Returns(0)

\* The file may have become shorter since its size was asked for.
LoadRead ==
    LET data == FileOf(job.in).data
        n == Len(job.data)
        left == Min({job.limit - n, BlockSize, Len(data) - n}) IN
    /\ Running("fill") /\ UNCHANGED fs
    /\ \/ \E k \in 1..left : job' = [job EXCEPT !.data = @ \o SubSeq(data, n + 1, n + k)]
       \/ left <= 0 /\ job' = Returns(n)
       \/ job' = [Returns(n) EXCEPT !.clean = FALSE]

\* XPath_Write of job.data, creating or replacing the file; every write asks for all
\* the bytes again, from where the last one ended.
DefaultPerm == <<"r", "w", "-", "r", "-", "-", "r", "-", "-">>
WriteOpen ==
    /\ Running("store")
    /\ \/ /\ OpensFor(job.path, XPath_PermToMode(DefaultPerm))
          /\ job' = [job EXCEPT !.pc = "put", !.out = OpenAt(job.path), !.target = fs[job.path]]
       \/ job' = Returns(-1) /\ UNCHANGED fs

Beyond(n) == [i \in 1..n |-> "junk"]
WritePut ==
    LET n == Len(job.data)
        from == job.data \o Beyond(n) IN
    /\ Running("put")
    /\ \/ \E k \in 1..n :
              Puts(SubSeq(from, job.done + 1, job.done + k), job.done,
                   [job EXCEPT !.done = @ + k, !.clean = @ /\ k = n,
                               !.pc = IF job.done + k < n THEN "put" ELSE "end", !.ret = job.done + k])
       \/ job' = Returns(job.done) /\ UNCHANGED fs

-----------------------------------------------------------------------------
\* XDir_Create: every prefix of the path in turn; done is the length of the last.
\* What exists, whatever it is, is passed, and mkdir decides when stat fails.
DirCreate ==
    /\ Running("create") /\ UNCHANGED fs
    /\ \/ There(job.path) /\ job' = Returns(1)
       \/ job' = [job EXCEPT !.pc = "make", !.done = 1]

\* XDir_Make.
Made == IF job.done = Len(job.path) THEN Returns(1) ELSE [job EXCEPT !.pc = "make", !.done = @ + 1]
Component == SubSeq(job.path, 1, job.done)
DirMake == Running("make") /\ UNCHANGED fs /\ (GoTo("mkdir") \/ (There(Component) /\ job' = Made))

DirMkdir ==
    /\ Running("mkdir")
    /\ \/ /\ ~There(Component) /\ IsDir(Front(Component))
          /\ fs' = [fs EXCEPT ![Component] = Inode("dir", << >>, {})]
          /\ job' = Made
       \/ There(Component) /\ job' = Made /\ UNCHANGED fs
       \/ job' = Returns(0) /\ UNCHANGED fs

-----------------------------------------------------------------------------
\* XPath_Remove and XDir_Remove, which calls it for each entry it finds: the
\* stack holds the paths of the calls.  A link is removed, never followed.
Deepest == Last(job.stack)
Popped(v) == IF Len(job.stack) = 1 THEN Returns(v) ELSE [job EXCEPT !.stack = Front(@), !.pc = "list"]

RemoveStat ==
    /\ Running("remove") /\ UNCHANGED fs
    /\ \/ There(Deepest) /\ GoTo(IF IsDir(Deepest) THEN "list" ELSE "unlink")
       \/ job' = Returns(-1)

RemoveUnlink ==
    /\ Running("unlink")
    /\ \/ There(Deepest) /\ ~IsDir(Deepest) /\ Gone(Deepest) /\ job' = Popped(0)
       \/ job' = Returns(-1) /\ UNCHANGED fs

\* The directory is opened again for every entry.
RemoveList ==
    /\ Running("list") /\ UNCHANGED fs
    /\ \/ IsDir(Deepest) /\ \E p \in Listed(Deepest) : job' = [job EXCEPT !.stack = Append(@, p), !.pc = "remove"]
       \/ IsDir(Deepest) /\ GoTo("rmdir")
       \/ job' = Returns(-1)

RemoveRmdir ==
    /\ Running("rmdir")
    /\ \/ IsDir(Deepest) /\ Listed(Deepest) = {} /\ Gone(Deepest) /\ job' = Popped(1)
       \/ job' = Returns(-1) /\ UNCHANGED fs

-----------------------------------------------------------------------------
\* External: another process makes, removes or rewrites something.
Appears(p) ==
    /\ ~There(p) /\ IsDir(Front(p))
    /\ \E n \in {Inode("file", << >>, {}), Inode("dir", << >>, {})} : fs' = [fs EXCEPT ![p] = n]
Vanishes(p) == There(p) /\ (IsDir(p) => Listed(p) = {}) /\ Gone(p)
Rewritten(p) == fs[p].kind = "file" /\ \E d \in FileData : d # fs[p].data /\ fs' = [fs EXCEPT ![p].data = d]
Altered(p) == Appears(p) \/ Vanishes(p) \/ Rewritten(p)

\* A file that is open loses its path, not what it holds.
Nameless(f, p) == IF f.path = p THEN [path |-> << >>, node |-> fs[p]] ELSE f
OtherChange ==
    /\ job.pc \notin {"idle", "end"} /\ Cardinality(job.other) < MaxOther
    /\ \E p \in Paths :
          \/ Appears(p) /\ job' = [job EXCEPT !.other = @ \cup {<<"made", p>>}]
          \/ /\ Vanishes(p)
             /\ job' = [job EXCEPT !.other = @ \cup {<<"removed", p>>}, !.in = Nameless(@, p), !.out = Nameless(@, p)]
          \/ /\ Rewritten(p)
             /\ job' = [job EXCEPT !.other = @ \cup {<<IF p \in {job.in.path, job.out.path} THEN "spoilt" ELSE "rewritten", p>>}]

\* A directory holds what is below it, a link is a leaf.
Trees ==
    {f \in [Paths -> {NoNode, Inode("dir", << >>, {}), Inode("link", << >>, {})} \cup
                     {Inode("file", d, m) : d \in FileData, m \in FileModes}] :
        \A p \in Paths : /\ f[p].kind # "none" /\ Len(p) > 1 => f[Front(p)].kind = "dir"
                         /\ f[p].kind # "dir" => \A q \in Paths : Under(p, q) /\ p # q => f[q].kind = "none"}

FileInit == fs \in Trees /\ job = NoJob

\* Reading and writing through a link is left out.
Followable(S) == \A p \in S : fs[p].kind # "link"

FileBegin ==
    /\ Running("idle") /\ UNCHANGED fs
    /\ \E p \in Paths :
          \/ \E q \in Paths : Followable({p, q}) /\ p # q /\ ~Under(p, q) /\ ~Under(q, p) /\ job' = [Start("copy", p) EXCEPT !.dst = q]
          \/ Followable({p}) /\ \E n \in {0, 1} : job' = [Start("load", p) EXCEPT !.limit = n]
          \/ Followable({p}) /\ \E d \in FileData \ {<< >>} : job' = [Start("store", p) EXCEPT !.data = d]
          \/ job' = Start("create", p)
          \/ job' = [Start("remove", p) EXCEPT !.stack = <<p>>]

FileNext ==
    \/ FileBegin \/ OtherChange
    \/ CopyOpenSrc \/ CopyLook \/ CopyOpenDst \/ CopyRead \/ CopyWrite \/ CopyEnd
    \/ LoadOpen \/ LoadRead \/ WriteOpen \/ WritePut
    \/ DirCreate \/ DirMake \/ DirMkdir
    \/ RemoveStat \/ RemoveUnlink \/ RemoveList \/ RemoveRmdir

-----------------------------------------------------------------------------
Ended(call) == job.pc = "end" /\ job.call = call
Was(p) == job.before[p]
Others(did) == {o[2] : o \in {o \in job.other : o[1] = did}}
Unspoilt == Others("spoilt") = {}
Found == job.target.kind = "file"
Named == job.out.path = job.dst

\* A copy that succeeds is complete, however short the reads and writes are and whatever happens to
\* the paths meanwhile; a file it made has the source's permissions, one that was there keeps its
\* own; a copy that fails takes away what is at the path that it found free, never a file it found.
CopiesRight ==
    Ended("copy") =>
        /\ job.ret >= 0 /\ Unspoilt => FileOf(job.out).data = job.source.data /\ job.ret = Len(job.source.data)
        /\ job.ret >= 0 /\ job.clean /\ Named /\ job.existed = Found =>
               fs[job.dst].mode = IF Found THEN job.target.mode ELSE job.source.mode
        /\ job.ret < 0 /\ job.clean /\ job.out # Closed =>
               IF job.existed THEN Named /\ Found => fs[job.dst].mode = job.target.mode /\ There(job.dst)
               ELSE ~There(job.dst)

\* What is loaded is the beginning of the file that was opened, as much as was asked for unless a
\* read failed, whatever happens to its path.
LoadsRight ==
    Ended("load") /\ Unspoilt =>
        /\ IsPrefix(job.data, job.source.data)
        /\ job.data # << >> /\ job.clean => Len(job.data) = job.limit

\* A file that was written without a short write holds what was given.
WritesRight ==
    Ended("store") /\ job.clean /\ job.ret = Len(job.data) /\ Unspoilt => FileOf(job.out).data = job.data

\* A directory that was created is there unless another process took it away, and it is one
\* unless something else had the path before.
CreatesRight ==
    Ended("create") /\ job.ret = 1 /\ Others("removed") = {} =>
        /\ There(job.path)
        /\ IsDir(job.path) \/ Was(job.path).kind # "none" \/ job.path \in Others("made")

\* When a removal succeeds, nothing of the tree is left, whatever another process does in it.
RemovesRight == Ended("remove") /\ job.ret >= 0 => \A p \in Paths : Under(job.path, p) => ~There(p)

\* Nothing else of the tree changes: a copy and a write change the file they are for, a creation
\* makes directories on the way to its path, a removal takes what is under its path, and not what
\* a link points to.
NothingElse ==
    job.pc # "idle" => \A p \in Paths :
        \/ fs[p] = Was(p)
        \/ \E o \in job.other : o[2] = p
        \/ job.call = "copy" /\ p = job.dst
        \/ job.call = "store" /\ p = job.path
        \/ job.call = "create" /\ Under(p, job.path) /\ Was(p) = NoNode /\ IsDir(p)
        \/ job.call = "remove" /\ Under(job.path, p) /\ ~There(p)

\* Every path that exists is in a directory that does; the lines that are read make up the file.
LinesMakeFile == \A d \in FileData, size \in {2, 3} : FlattenSeq(LinesFrom(d, 0, size)) = d
TreeRight == LinesMakeFile /\ \A p \in Paths : There(p) => IsDir(Front(p))

\* The functions of xfs.c do to the files what their results say.
FilesFaithful == CopiesRight /\ LoadsRight /\ WritesRight /\ CreatesRight /\ RemovesRight /\ NothingElse /\ TreeRight
=============================================================================
