----------------------------- MODULE XLogProofs -----------------------------
(***************************************************************************)
(* The log file for any number of days, lines, names and changes of the    *)
(* configuration.  LogKept is not inductive.  That a rename never lands on *)
(* an archive needs that every archive is older than the file's date and   *)
(* than nCurrDay (Dated), for nCurrDay names the archive; that a line is   *)
(* never in two places and no archive has a line later than its name needs *)
(* the same of the file and of stdio's buffer (Apart, Fresh).              *)
(*                                                                         *)
(* Kept states these of one work record; each function of log.c keeps it   *)
(* and the lines on record but for those a write fails for.  The two       *)
(* failures that misdate a file end it for good (LogInv).                  *)
(***************************************************************************)
EXTENDS XLog, TLAPS

Days == 0..MaxDay
LogLines == [n : Nat, day : Nat]
Archives == LogNames \X Days

LgFields == {"init", "toFile", "keepOpen", "rotate", "flush", "flags", "name", "path", "open", "buf", "day"}

\* A file of the disk; one that is not there has no lines.
FileOK(f) ==
    /\ DOMAIN f = {"there", "lines", "mtime"}
    /\ f.there \in BOOLEAN /\ f.lines \subseteq LogLines /\ f.mtime \in Days
    /\ ~f.there => f.lines = {}
    /\ f.there => f.mtime # NoDay

\* The configuration and the disk have their fields; only an open file has
\* a buffer, and the file that is open is there and has its day.
LogShape(w) ==
    /\ DOMAIN w = {"lg", "disk"}
    /\ DOMAIN w.lg = LgFields
    /\ DOMAIN w.disk = {"now", "old"}
    /\ DOMAIN w.disk.now = LogNames /\ \A n \in LogNames : FileOK(w.disk.now[n])
    /\ DOMAIN w.disk.old = Archives /\ \A k \in Archives : FileOK(w.disk.old[k])
    /\ w.lg.day \in Days /\ w.lg.buf \subseteq LogLines
    /\ w.lg.init \in BOOLEAN /\ w.lg.open \in BOOLEAN /\ w.lg.rotate \in BOOLEAN

Held(w) ==
    /\ w.lg.init => w.lg.name \in LogNames /\ w.lg.path \in {"", w.lg.name}
    /\ ~w.lg.init => ~w.lg.open /\ w.lg.name = ""
    /\ w.lg.buf # {} => w.lg.open
    /\ w.lg.open => w.lg.path = w.lg.name /\ w.disk.now[w.lg.path].there /\ w.lg.day # NoDay

\* No line is in two places.
Apart(w) ==
    /\ \A k, l \in Archives : k # l => w.disk.old[k].lines \cap w.disk.old[l].lines = {}
    /\ \A n \in LogNames, k \in Archives : w.disk.now[n].lines \cap w.disk.old[k].lines = {}
    /\ \A m, n \in LogNames : m # n => w.disk.now[m].lines \cap w.disk.now[n].lines = {}
    /\ \A k \in Archives : w.lg.buf \cap w.disk.old[k].lines = {}
    /\ \A n \in LogNames : w.lg.buf \cap w.disk.now[n].lines = {}

\* nCurrDay speaks of file n: it is the current file, or was before path was cleared.
Ours(w, n, ren) == n = w.lg.name /\ (w.lg.path = n \/ ~ren) /\ w.lg.day # NoDay

\* Every archive is of a day before day, and older than the file and than nCurrDay.
Dated(w, day, now, ren) ==
    /\ \A k \in Archives : w.disk.old[k].there => k[2] < day
    /\ \A n \in LogNames : w.disk.now[n].there => w.disk.now[n].mtime <= now
    /\ w.lg.day <= now
    /\ \A k \in Archives :
           w.disk.now[k[1]].there /\ w.disk.old[k].there =>
               k[2] < w.disk.now[k[1]].mtime /\ (Ours(w, k[1], ren) => k[2] < w.lg.day)

\* No line is later than the date of its file, nor, with rotation, than the name of its archive will be.
Fresh(w, day, rot, ren) ==
    /\ \A n \in LogNames : \A y \in w.disk.now[n].lines :
           y.day <= day /\ y.day <= w.disk.now[n].mtime /\ (rot /\ Ours(w, n, ren) => y.day <= w.lg.day)
    /\ \A y \in w.lg.buf : y.day <= day /\ (rot => y.day <= w.lg.day)
    /\ rot => \A k \in Archives : \A y \in w.disk.old[k].lines : y.day <= k[2]
    /\ rot /\ w.lg.init => w.lg.rotate

Kept(w, day, now, rot, ren) ==
    LogShape(w) /\ Held(w) /\ Apart(w) /\ Dated(w, day, now, ren) /\ Fresh(w, day, rot, ren)

PastFields == {"lines", "n", "changes", "rotating", "renamed", "misdated"}

InOrder ==
    /\ Kept(LogNow, today, today, past.rotating, past.renamed)
    /\ today \in 1..MaxDay
    /\ DOMAIN past = PastFields
    /\ past.rotating \in BOOLEAN /\ past.renamed \in BOOLEAN
    /\ past.n \in Nat /\ \A y \in past.lines : y.n <= past.n
    /\ past.lines = OnRecord(LogNow)

LogInv ==
    /\ DOMAIN past = PastFields /\ past.misdated \in BOOLEAN
    /\ ~past.misdated => InOrder

\* Days are numbers, NoDay among them.
LEMMA DaysAreNumbers == MaxDay \in Nat /\ Days \subseteq Nat /\ Days \subseteq Int /\ 0 \in Days
<1>1. MaxDay \in Nat BY LogAssumption
<1> QED BY <1>1 DEF Days

\* An archive is named by its file and a day.
LEMMA ArchiveNames == \A k \in Archives : k[1] \in LogNames /\ k[2] \in Days /\ k[2] \in Int
BY DaysAreNumbers DEF Archives

-----------------------------------------------------------------------------
(* The lines on record                                                     *)

\* The line y reached the disk.
OnDisk(w, y) ==
    (\E n \in LogNames : y \in w.disk.now[n].lines) \/ (\E k \in Archives : y \in w.disk.old[k].lines)

\* OnRecord by membership.
LEMMA Recorded ==
    ASSUME NEW w, LogShape(w), NEW y
    PROVE  y \in OnRecord(w) <=> y \in w.lg.buf \/ OnDisk(w, y)
<1>1. DOMAIN w.disk.old = Archives BY DEF LogShape
<1> DEFINE A == UNION {w.disk.now[n].lines : n \in LogNames}
           B == UNION {w.disk.old[k].lines : k \in DOMAIN w.disk.old}
<1>2. y \in A <=> \E n \in LogNames : y \in w.disk.now[n].lines OBVIOUS
<1>3. y \in B <=> \E k \in Archives : y \in w.disk.old[k].lines BY <1>1
<1>4. y \in OnRecord(w) <=> y \in w.lg.buf \/ y \in A \/ y \in B BY DEF OnRecord
<1> HIDE DEF A, B
<1> QED BY <1>2, <1>3, <1>4 DEF OnDisk

\* Two work records with the same lines, wherever they are on the disk.
SameLines(v, w) == v.lg.buf = w.lg.buf /\ \A y : OnDisk(v, y) <=> OnDisk(w, y)

\* v comes from w by writing lines of the buffer, some of those of lost excepted.
Less(v, w, lost) ==
    \A y : /\ y \in v.lg.buf => y \in w.lg.buf
           /\ OnDisk(w, y) => OnDisk(v, y)
           /\ OnDisk(v, y) => OnDisk(w, y) \/ (y \in w.lg.buf /\ y \notin lost)
           /\ y \in w.lg.buf => y \in v.lg.buf \/ OnDisk(v, y) \/ y \in lost

\* What is only moved is not lost, and losses add up.
LEMMA LessLines ==
    ASSUME NEW w, NEW v, NEW lost
    PROVE  /\ SameLines(v, w) => Less(v, w, lost)
           /\ \A z : Less(z, v, lost) /\ Less(v, w, lost) => Less(z, w, lost)
<1>1. SameLines(v, w) => Less(v, w, lost) BY DEF SameLines, Less
<1>2. ASSUME NEW z, Less(z, v, lost), Less(v, w, lost) PROVE Less(z, w, lost)
  <2>1. ASSUME NEW y
        PROVE  /\ y \in z.lg.buf => y \in w.lg.buf
               /\ OnDisk(w, y) => OnDisk(z, y)
               /\ OnDisk(z, y) => OnDisk(w, y) \/ (y \in w.lg.buf /\ y \notin lost)
               /\ y \in w.lg.buf => y \in z.lg.buf \/ OnDisk(z, y) \/ y \in lost
    BY <1>2 DEF Less
  <2> QED BY <2>1 DEF Less
<1> QED BY <1>1, <1>2

\* What is on record when the lost lines were written out.
LEMMA LessRecord ==
    ASSUME NEW w, LogShape(w), Apart(w), NEW v, LogShape(v), NEW lost, Less(v, w, lost),
           lost \subseteq w.lg.buf, lost \cap v.lg.buf = {}
    PROVE  OnRecord(v) = OnRecord(w) \ lost
<1>1. ASSUME NEW y PROVE y \in OnRecord(v) <=> y \in OnRecord(w) /\ y \notin lost
  <2>1. y \in OnRecord(w) <=> y \in w.lg.buf \/ OnDisk(w, y) BY Recorded
  <2>2. y \in OnRecord(v) <=> y \in v.lg.buf \/ OnDisk(v, y) BY Recorded
  <2>3. y \in lost => y \in w.lg.buf /\ y \notin v.lg.buf OBVIOUS
  <2>4. ~(y \in w.lg.buf /\ OnDisk(w, y)) BY DEF Apart, OnDisk
  <2> QED BY <2>1, <2>2, <2>3, <2>4 DEF Less
<1> QED BY <1>1

\* The functions on the file leave the configuration alone.
SameConfig(v, w) ==
    /\ DOMAIN v = {"lg", "disk"} /\ DOMAIN v.lg = LgFields /\ DOMAIN v.disk = {"now", "old"}
    /\ v.lg.init = w.lg.init /\ v.lg.rotate = w.lg.rotate /\ v.lg.name = w.lg.name
    /\ v.lg.keepOpen = w.lg.keepOpen /\ v.lg.flush = w.lg.flush /\ v.lg.flags = w.lg.flags
    /\ v.lg.toFile = w.lg.toFile

-----------------------------------------------------------------------------
(* Flush and close                                                         *)

\* What a write of the buffer changes: its lines but for lost ones go to the file.
WrittenBy(v, w, now, lost) ==
    /\ SameConfig(v, w) /\ v.lg.path = w.lg.path /\ v.lg.day = w.lg.day
    /\ v.lg.buf = {} /\ v.disk.old = w.disk.old
    /\ v.disk.now = IF w.lg.buf \ lost = {} THEN w.disk.now
                    ELSE [w.disk.now EXCEPT ![w.lg.path] =
                             [there |-> TRUE, lines |-> @.lines \cup (w.lg.buf \ lost), mtime |-> now]]

\* What fflush changes.
LEMMA FlushFields ==
    ASSUME NEW w, LogShape(w), NEW now, NEW lost
    PROVE  WrittenBy(Flush(w, now, lost), w, now, lost) /\ Flush(w, now, lost).lg.open = w.lg.open
<1> DEFINE p == w.lg.path
           b == w.lg.buf \ lost
           g == [there |-> TRUE, lines |-> w.disk.now[p].lines \cup b, mtime |-> now]
           d == IF b = {} THEN w.disk.now ELSE [w.disk.now EXCEPT ![p] = g]
           v == Flush(w, now, lost)
<1>1. DOMAIN v = {"lg", "disk"} /\ v.lg = [w.lg EXCEPT !.buf = {}] /\ DOMAIN v.disk = {"now", "old"}
      /\ v.disk.now = d /\ v.disk.old = w.disk.old
  <2>1. CASE b = {}
    <3>1. v = [w EXCEPT !.lg.buf = {}] BY <2>1 DEF Flush
    <3> QED BY <2>1, <3>1 DEF LogShape
  <2>2. CASE b # {}
    <3>1. v = [w EXCEPT !.lg.buf = {}, !.disk.now = [w.disk.now EXCEPT ![p] = g]] BY <2>2 DEF Flush
    <3> HIDE DEF v, g, b
    <3>2. DOMAIN v = {"lg", "disk"} /\ v.lg = [w.lg EXCEPT !.buf = {}] /\ v.disk = [w.disk EXCEPT !.now = [w.disk.now EXCEPT ![p] = g]]
      BY <3>1 DEF LogShape
    <3> QED BY <2>2, <3>2 DEF LogShape
  <2> QED BY <2>1, <2>2
<1> HIDE DEF v
<1>2. SameConfig(v, w) /\ v.lg.path = p /\ v.lg.open = w.lg.open /\ v.lg.day = w.lg.day /\ v.lg.buf = {}
  BY <1>1 DEF LogShape, SameConfig, LgFields
<1> QED BY <1>1, <1>2 DEF v, WrittenBy

\* What fclose changes, when there is a file to close.
LEMMA CloseFields ==
    ASSUME NEW w, LogShape(w), Held(w), NEW now, NEW lost
    PROVE  LET v == XLog_CloseFile(w, now, lost) IN
           WrittenBy(v, w, now, lost) /\ ~v.lg.open /\ v.lg.open \in BOOLEAN
<1>1. CASE ~w.lg.open
  <2>1. w.lg.buf = {} /\ w.lg.buf \ lost = {} BY <1>1 DEF Held
  <2> QED BY <1>1, <2>1 DEF XLog_CloseFile, LogShape, SameConfig, WrittenBy
<1>2. CASE w.lg.open
  <2> DEFINE u == Flush(w, now, lost)
             v == XLog_CloseFile(w, now, lost)
  <2>1. v = [u EXCEPT !.lg.open = FALSE] BY <1>2 DEF XLog_CloseFile
  <2>2. WrittenBy(u, w, now, lost) BY FlushFields
  <2> HIDE DEF u, v
  <2>4. DOMAIN v = {"lg", "disk"} /\ v.lg = [u.lg EXCEPT !.open = FALSE] /\ v.disk = u.disk
    BY <2>1, <2>2 DEF SameConfig, WrittenBy
  <2>5. SameConfig(v, u) /\ v.lg.path = u.lg.path /\ v.lg.day = u.lg.day /\ v.lg.buf = u.lg.buf /\ ~v.lg.open /\ v.lg.open \in BOOLEAN
    BY <2>2, <2>4 DEF SameConfig, LgFields, WrittenBy
  <2>6. SameConfig(v, w) BY <2>2, <2>5 DEF SameConfig, WrittenBy
  <2>7. WrittenBy(v, w, now, lost) BY <2>2, <2>4, <2>5, <2>6 DEF WrittenBy
  <2> QED BY <2>5, <2>7 DEF v
<1> QED BY <1>1, <1>2 DEF LogShape

\* Writing out the buffer moves its lines and dates the file: to now, the clock
\* of the moment, which is day or later.
LEMMA WrittenKept ==
    ASSUME NEW day \in 1..MaxDay, NEW then \in Days, NEW now \in Days, day <= now, then <= now,
           NEW rot \in BOOLEAN, NEW ren \in BOOLEAN, NEW lost,
           NEW w, Kept(w, day, then, rot, ren), NEW v, WrittenBy(v, w, now, lost),
           v.lg.open \in BOOLEAN, v.lg.open => w.lg.open
    PROVE  Kept(v, day, now, rot, ren) /\ Less(v, w, lost)
<1> DEFINE p == w.lg.path
           b == w.lg.buf \ lost
           g == [there |-> TRUE, lines |-> w.disk.now[p].lines \cup b, mtime |-> now]
<1>a. /\ SameConfig(v, w) /\ v.lg.path = w.lg.path /\ v.lg.day = w.lg.day /\ v.lg.buf = {} /\ v.disk.old = w.disk.old
      /\ v.disk.now = IF b = {} THEN w.disk.now ELSE [w.disk.now EXCEPT ![p] = g]
  BY DEF WrittenBy
<1>b. b \subseteq w.lg.buf OBVIOUS
<1>1. LogShape(w) /\ Held(w) /\ Apart(w) /\ Dated(w, day, then, ren) /\ Fresh(w, day, rot, ren)
  BY DEF Kept
<1>2. CASE b = {}
  <2>1. v.disk.now = w.disk.now BY <1>a, <1>2
  <2>2. LogShape(v) BY <1>1, <1>a, <2>1 DEF LogShape, SameConfig
  <2>3. Held(v) BY <1>1, <1>a, <2>1 DEF Held, SameConfig
  <2>4. Apart(v) BY <1>1, <1>a, <2>1 DEF Apart
  <2>5. \A n : Ours(v, n, ren) <=> Ours(w, n, ren) BY <1>a DEF Ours, SameConfig
  <2>6. Dated(v, day, now, ren)
    <3>1. \A n \in LogNames : w.disk.now[n].mtime \in Days BY <1>1 DEF LogShape, FileOK
    <3>2. w.lg.day \in Days BY <1>1 DEF LogShape
    <3>3. ASSUME NEW n \in LogNames, v.disk.now[n].there PROVE v.disk.now[n].mtime <= now
      <4>1. v.disk.now[n] = w.disk.now[n] BY <2>1
      <4>2. w.disk.now[n].mtime <= then BY <1>1, <3>3, <4>1 DEF Dated
      <4>3. v.disk.now[n].mtime \in Days /\ v.disk.now[n].mtime <= then BY <3>1, <4>1, <4>2
      <4> QED BY <4>3 DEF Days
    <3>4. v.lg.day <= now
      <4>1. w.lg.day <= then BY <1>1 DEF Dated
      <4> QED BY <1>a, <3>2, <4>1 DEF Days
    <3>5. \A k \in Archives : v.disk.old[k].there => k[2] < day BY <1>1, <1>a, Zenon DEF Dated
    <3>6. \A k \in Archives :
              v.disk.now[k[1]].there /\ v.disk.old[k].there =>
                  k[2] < v.disk.now[k[1]].mtime /\ (Ours(v, k[1], ren) => k[2] < v.lg.day)
      BY <1>1, <1>a, <2>1, <2>5, Zenon DEF Dated
    <3> QED BY <3>3, <3>4, <3>5, <3>6 DEF Dated
  <2>7. Fresh(v, day, rot, ren) BY <1>1, <1>a, <2>1, <2>5 DEF Fresh, SameConfig
  <2>8. Less(v, w, lost)
    <3>1. \A y : OnDisk(v, y) <=> OnDisk(w, y) BY <1>a, <2>1 DEF OnDisk
    <3>2. \A y : y \in w.lg.buf => y \in lost BY <1>2
    <3> QED BY <1>a, <3>1, <3>2 DEF Less
  <2> QED BY <2>2, <2>3, <2>4, <2>6, <2>7, <2>8 DEF Kept
<1>3. CASE b # {}
  <2>1. v.disk.now = [w.disk.now EXCEPT ![p] = g] BY <1>a, <1>3
  <2>2. /\ w.lg.open /\ p = w.lg.name /\ p \in LogNames /\ w.disk.now[p].there /\ w.lg.day # NoDay
        /\ w.lg.init /\ w.lg.buf \subseteq LogLines /\ DOMAIN w.disk.now = LogNames
    BY <1>1, <1>b, <1>3 DEF Held, LogShape
  <2>3. /\ v.disk.now[p] = g /\ DOMAIN v.disk.now = LogNames
        /\ \A n \in LogNames : n # p => v.disk.now[n] = w.disk.now[n]
    BY <2>1, <2>2
  <2>4. g.there /\ g.lines = w.disk.now[p].lines \cup b /\ g.mtime = now /\ FileOK(g)
    <3>1. now # NoDay BY DEF Days, NoDay
    <3>2. b \subseteq LogLines BY <1>b, <2>2
    <3>3. FileOK(w.disk.now[p]) BY <1>1, <2>2 DEF LogShape
    <3> HIDE DEF b
    <3> QED BY <3>1, <3>2, <3>3 DEF FileOK
  <2> HIDE DEF g
  <2>5. LogShape(v) BY <1>1, <1>a, <2>3, <2>4 DEF LogShape, SameConfig
  <2>6. Held(v) BY <1>1, <1>a, <2>2, <2>3, <2>4 DEF Held, SameConfig
  <2>7. Apart(v)
    <3>1. \A n \in LogNames, k \in Archives : v.disk.now[n].lines \cap v.disk.old[k].lines = {}
      <4>1. ASSUME NEW n \in LogNames, NEW k \in Archives, NEW y, y \in v.disk.now[n].lines, y \in w.disk.old[k].lines
            PROVE  FALSE
        <5>1. CASE y \in w.disk.now[n].lines BY <1>1, <4>1, <5>1 DEF Apart
        <5>2. CASE y \notin w.disk.now[n].lines
          <6>1. y \in b BY <2>3, <2>4, <4>1, <5>2
          <6> QED BY <1>1, <1>b, <4>1, <6>1 DEF Apart
        <5> QED BY <5>1, <5>2
      <4> QED BY <1>a, <4>1
    <3>2. ASSUME NEW m \in LogNames, NEW n \in LogNames, m # n PROVE v.disk.now[m].lines \cap v.disk.now[n].lines = {}
      <4>1. w.disk.now[m].lines \cap w.disk.now[n].lines = {} /\ w.lg.buf \cap w.disk.now[m].lines = {}
            /\ w.lg.buf \cap w.disk.now[n].lines = {}
        BY <1>1, <3>2 DEF Apart
      <4>2. CASE m = p
        <5>1. v.disk.now[m].lines = w.disk.now[m].lines \cup b /\ v.disk.now[n] = w.disk.now[n] BY <2>3, <2>4, <3>2, <4>2
        <5> QED BY <1>b, <4>1, <5>1
      <4>3. CASE n = p
        <5>1. v.disk.now[n].lines = w.disk.now[n].lines \cup b /\ v.disk.now[m] = w.disk.now[m] BY <2>3, <2>4, <3>2, <4>3
        <5> QED BY <1>b, <4>1, <5>1
      <4>4. CASE m # p /\ n # p
        <5>1. v.disk.now[m] = w.disk.now[m] /\ v.disk.now[n] = w.disk.now[n] BY <2>3, <4>4
        <5> QED BY <4>1, <5>1
      <4> QED BY <4>2, <4>3, <4>4
    <3> QED BY <1>1, <1>a, <3>1, <3>2 DEF Apart
  <2>8. \A n : Ours(v, n, ren) <=> Ours(w, n, ren) BY <1>a DEF Ours, SameConfig
  <2>9. Dated(v, day, now, ren)
    <3>1. \A n \in LogNames : w.disk.now[n].mtime \in Days BY <1>1 DEF LogShape, FileOK
    <3>2. w.lg.day \in Days BY <1>1 DEF LogShape
    <3>3. ASSUME NEW n \in LogNames, v.disk.now[n].there PROVE v.disk.now[n].mtime <= now
      <4>1. CASE n = p
        <5>1. v.disk.now[n].mtime = now BY <2>3, <2>4, <4>1
        <5> QED BY <5>1 DEF Days
      <4>2. CASE n # p
        <5>1. v.disk.now[n] = w.disk.now[n] BY <2>3, <4>2
        <5>2. w.disk.now[n].mtime <= then BY <1>1, <3>3, <5>1 DEF Dated
        <5>3. v.disk.now[n].mtime \in Days /\ v.disk.now[n].mtime <= then BY <3>1, <5>1, <5>2
        <5> QED BY <5>3 DEF Days
      <4> QED BY <4>1, <4>2
    <3>4. ASSUME NEW k \in Archives, v.disk.now[k[1]].there, v.disk.old[k].there
          PROVE  k[2] < v.disk.now[k[1]].mtime /\ (Ours(v, k[1], ren) => k[2] < v.lg.day)
      <4>1. k[1] \in LogNames /\ k[2] \in Int BY ArchiveNames
      <4>2. CASE k[1] = p
        <5>1. k[2] < day BY <1>1, <1>a, <3>4 DEF Dated
        <5>2. v.disk.now[k[1]].mtime = now BY <4>2, <2>3, <2>4
        <5>3. Ours(v, k[1], ren) => k[2] < v.lg.day BY <1>1, <1>a, <2>2, <2>8, <3>4, <4>2 DEF Dated
        <5> QED BY <4>1, <5>1, <5>2, <5>3 DEF Days
      <4>3. CASE k[1] # p
        BY <1>1, <1>a, <2>3, <2>8, <3>4, <4>1, <4>3 DEF Dated
      <4> QED BY <4>2, <4>3
    <3>5. v.lg.day <= now BY <1>1, <1>a, <3>2 DEF Dated, Days
    <3> QED BY <1>1, <1>a, <3>3, <3>4, <3>5 DEF Dated
  <2>10. Fresh(v, day, rot, ren)
    <3>1. ASSUME NEW n \in LogNames, NEW y \in v.disk.now[n].lines
          PROVE  y.day <= day /\ y.day <= v.disk.now[n].mtime /\ (rot /\ Ours(v, n, ren) => y.day <= v.lg.day)
      <4>1. CASE n # p
        BY <1>1, <1>a, <2>3, <2>8, <4>1 DEF Fresh
      <4>2. CASE n = p /\ y \in w.disk.now[p].lines
        <5>1. y.day <= day /\ y.day <= w.disk.now[p].mtime /\ (rot /\ Ours(w, p, ren) => y.day <= w.lg.day)
          BY <1>1, <2>2, <4>2 DEF Fresh
        <5>2. w.disk.now[p].mtime <= then /\ w.disk.now[p].mtime \in Days /\ y \in LogLines
          BY <1>1, <2>2, <4>2 DEF Dated, LogShape, FileOK
        <5>3. v.disk.now[n].mtime = now BY <2>3, <2>4, <4>2
        <5> QED BY <1>a, <2>8, <4>2, <5>1, <5>2, <5>3 DEF Days, LogLines
      <4>3. CASE n = p /\ y \in b
        <5>1. y.day <= day /\ (rot => y.day <= w.lg.day) /\ y \in LogLines
          BY <1>1, <1>b, <2>2, <4>3 DEF Fresh
        <5>2. v.disk.now[n].mtime = now BY <2>3, <2>4, <4>3
        <5> QED BY <1>a, <5>1, <5>2 DEF Days, LogLines
      <4> QED BY <2>3, <2>4, <4>1, <4>2, <4>3
    <3> QED BY <1>1, <1>a, <3>1 DEF Fresh, SameConfig
  <2>11. Less(v, w, lost)
    <3>1. ASSUME NEW y PROVE OnDisk(v, y) <=> y \in b \/ OnDisk(w, y)
      <4>1. (\E n \in LogNames : y \in v.disk.now[n].lines) <=> y \in b \/ \E n \in LogNames : y \in w.disk.now[n].lines
        BY <2>2, <2>3, <2>4
      <4> QED BY <1>a, <4>1 DEF OnDisk
    <3>2. \A y : y \in b <=> y \in w.lg.buf /\ y \notin lost OBVIOUS
    <3> QED BY <1>a, <3>1, <3>2 DEF Less
  <2> QED BY <2>5, <2>6, <2>7, <2>9, <2>10, <2>11 DEF Kept
<1> QED BY <1>2, <1>3

\* XLog_CloseFile.
LEMMA CloseKept ==
    ASSUME NEW day \in 1..MaxDay, NEW then \in Days, NEW now \in Days, day <= now, then <= now,
           NEW rot \in BOOLEAN, NEW ren \in BOOLEAN, NEW lost,
           NEW w, Kept(w, day, then, rot, ren)
    PROVE  LET v == XLog_CloseFile(w, now, lost) IN
           /\ Kept(v, day, now, rot, ren) /\ Less(v, w, lost) /\ SameConfig(v, w)
           /\ v.lg.path = w.lg.path /\ v.lg.day = w.lg.day /\ ~v.lg.open /\ v.lg.buf = {}
           /\ w.lg.buf \ lost = {} => v.disk.now = w.disk.now
<1> DEFINE v == XLog_CloseFile(w, now, lost)
<1>1. LogShape(w) /\ Held(w) BY DEF Kept
<1>2. WrittenBy(v, w, now, lost) /\ ~v.lg.open /\ v.lg.open \in BOOLEAN BY <1>1, CloseFields
<1> HIDE DEF v
<1>3. Kept(v, day, now, rot, ren) /\ Less(v, w, lost) BY <1>2, WrittenKept
<1> QED BY <1>2, <1>3 DEF v, WrittenBy

\* fflush.
LEMMA FlushKept ==
    ASSUME NEW day \in 1..MaxDay, NEW then \in Days, NEW now \in Days, day <= now, then <= now,
           NEW rot \in BOOLEAN, NEW ren \in BOOLEAN, NEW lost,
           NEW w, Kept(w, day, then, rot, ren)
    PROVE  LET v == Flush(w, now, lost) IN
           /\ Kept(v, day, now, rot, ren) /\ Less(v, w, lost) /\ SameConfig(v, w)
           /\ v.lg.path = w.lg.path /\ v.lg.day = w.lg.day /\ v.lg.open = w.lg.open
<1> DEFINE v == Flush(w, now, lost)
<1>1. LogShape(w) /\ w.lg.open \in BOOLEAN BY DEF Kept, LogShape
<1>2. WrittenBy(v, w, now, lost) /\ v.lg.open = w.lg.open BY <1>1, FlushFields
<1> HIDE DEF v
<1>3. Kept(v, day, now, rot, ren) /\ Less(v, w, lost) BY <1>1, <1>2, WrittenKept
<1> QED BY <1>2, <1>3 DEF v, WrittenBy

-----------------------------------------------------------------------------
(* Rotation                                                                *)

\* rename moves the lines of the file to an archive that was not there: every archive of the
\* file is older than nCurrDay, which names the new one.
LEMMA ArchiveKept ==
    ASSUME NEW day \in 1..MaxDay, NEW now \in Days, day <= now,
           NEW rot \in BOOLEAN, NEW ren \in BOOLEAN,
           NEW w, Kept(w, day, now, rot, ren), ~w.lg.open, w.lg.path \in LogNames,
           w.disk.now[w.lg.path].there, w.lg.day # NoDay, w.lg.day < day, w.lg.init,
           NEW v, SameConfig(v, w), v.lg = w.lg,
           NEW a, a \in Archives, a[1] = w.lg.path, a[2] = w.lg.day,
           v.disk.old = [w.disk.old EXCEPT ![a] = w.disk.now[w.lg.path]],
           v.disk.now = [w.disk.now EXCEPT ![w.lg.path] = NoFile]
    PROVE  Kept(v, day, now, rot, ren) /\ SameLines(v, w)
<1> DEFINE p == w.lg.path
           d == w.lg.day
<1>1. LogShape(w) /\ Held(w) /\ Apart(w) /\ Dated(w, day, now, ren) /\ Fresh(w, day, rot, ren)
  BY DEF Kept
<1>2. /\ p = w.lg.name /\ p \in LogNames /\ d \in Days /\ d \in Int /\ a[1] = p /\ a[2] = d
      /\ DOMAIN w.disk.now = LogNames /\ DOMAIN w.disk.old = Archives /\ w.lg.buf = {}
  <2>1. "" \notin LogNames BY LogAssumption
  <2>2. p = w.lg.name BY <1>1, <2>1 DEF Held
  <2> QED BY <1>1, <2>2, DaysAreNumbers DEF Held, LogShape
<1>3. Ours(w, p, ren) BY <1>2 DEF Ours
<1>4. FileOK(NoFile) /\ ~NoFile.there /\ NoFile.lines = {}
  <2>1. DOMAIN NoFile = {"there", "lines", "mtime"} /\ NoFile.there = FALSE /\ NoFile.lines = {} /\ NoFile.mtime = 0
    BY DEF NoFile
  <2>2. 0 \in Days BY DaysAreNumbers
  <2> HIDE DEF NoFile
  <2> QED BY <2>1, <2>2 DEF FileOK
<1>5. ~w.disk.old[a].there
  <2>1. SUFFICES ASSUME w.disk.old[a].there PROVE FALSE OBVIOUS
  <2>2. d < w.lg.day BY <1>1, <1>2, <1>3, <2>1 DEF Dated
  <2> QED BY <1>2, <2>2, DaysAreNumbers
<1>6. w.disk.old[a].lines = {} BY <1>1, <1>2, <1>5 DEF LogShape, FileOK
<1>7. /\ v.disk.old[a] = w.disk.now[p] /\ v.disk.now[p] = NoFile
      /\ DOMAIN v.disk.old = Archives /\ DOMAIN v.disk.now = LogNames
      /\ \A k \in Archives : k # a => v.disk.old[k] = w.disk.old[k]
      /\ \A n \in LogNames : n # p => v.disk.now[n] = w.disk.now[n]
  <2>1. v.disk.old = [w.disk.old EXCEPT ![a] = w.disk.now[p]] OBVIOUS
  <2>2. v.disk.now = [w.disk.now EXCEPT ![p] = NoFile] OBVIOUS
  <2> HIDE DEF p, d, NoFile
  <2> QED BY <1>2, <2>1, <2>2
<1> HIDE DEF p, d
<1>8. LogShape(v)
  <2>1. \A n \in LogNames : FileOK(v.disk.now[n]) BY <1>1, <1>4, <1>7 DEF LogShape
  <2>2. \A k \in Archives : FileOK(v.disk.old[k])
    <3> TAKE k \in Archives
    <3>1. CASE k = a BY <1>1, <1>2, <1>7, <3>1 DEF LogShape
    <3>2. CASE k # a BY <1>1, <1>7, <3>2 DEF LogShape
    <3> QED BY <3>1, <3>2
  <2> QED BY <1>1, <1>7, <2>1, <2>2 DEF LogShape, SameConfig
<1>9. Held(v) BY <1>1, <1>2 DEF Held, SameConfig, LogShape
<1>10. Apart(v)
  <2>1. \A k, l \in Archives : k # l => v.disk.old[k].lines \cap v.disk.old[l].lines = {}
    <3>1. ASSUME NEW k \in Archives, NEW l \in Archives, k # l,
                 NEW y, y \in v.disk.old[k].lines, y \in v.disk.old[l].lines
          PROVE  FALSE
      <4>1. CASE k = a
        <5>1. y \in w.disk.now[p].lines /\ y \in w.disk.old[l].lines BY <1>7, <3>1, <4>1
        <5> QED BY <1>1, <1>2, <5>1 DEF Apart
      <4>2. CASE l = a
        <5>1. y \in w.disk.now[p].lines /\ y \in w.disk.old[k].lines BY <1>7, <3>1, <4>2
        <5> QED BY <1>1, <1>2, <5>1 DEF Apart
      <4>3. CASE k # a /\ l # a
        <5>1. y \in w.disk.old[k].lines /\ y \in w.disk.old[l].lines BY <1>7, <3>1, <4>3
        <5> QED BY <1>1, <3>1, <5>1 DEF Apart
      <4> QED BY <4>1, <4>2, <4>3
    <3> QED BY <3>1
  <2>2. \A n \in LogNames, k \in Archives : v.disk.now[n].lines \cap v.disk.old[k].lines = {}
    <3>1. ASSUME NEW n \in LogNames, NEW k \in Archives, NEW y, y \in v.disk.now[n].lines, y \in v.disk.old[k].lines
          PROVE  FALSE
      <4>1. n # p BY <1>4, <1>7, <3>1
      <4>2. y \in w.disk.now[n].lines BY <1>7, <3>1, <4>1
      <4>3. CASE k = a BY <1>1, <1>2, <1>7, <3>1, <4>1, <4>2, <4>3 DEF Apart
      <4>4. CASE k # a BY <1>1, <1>7, <3>1, <4>2, <4>4 DEF Apart
      <4> QED BY <4>3, <4>4
    <3> QED BY <3>1
  <2>3. \A m, n \in LogNames : m # n => v.disk.now[m].lines \cap v.disk.now[n].lines = {}
    <3>1. ASSUME NEW m \in LogNames, NEW n \in LogNames, m # n, NEW y, y \in v.disk.now[m].lines, y \in v.disk.now[n].lines
          PROVE  FALSE
      <4>1. n # p /\ m # p BY <1>4, <1>7, <3>1
      <4> QED BY <1>1, <1>7, <3>1, <4>1 DEF Apart
    <3> QED BY <3>1
  <2> QED BY <1>2, <2>1, <2>2, <2>3, ZenonT(60) DEF Apart
<1>11. Dated(v, day, now, ren)
  <2>1. \A k \in Archives : v.disk.old[k].there => k[2] < day
    BY <1>1, <1>2, <1>7 DEF Dated, d
  <2>2. \A n \in LogNames : v.disk.now[n].there => v.disk.now[n].mtime <= now
    BY <1>1, <1>4, <1>7 DEF Dated
  <2>3. ASSUME NEW k \in Archives, v.disk.now[k[1]].there, v.disk.old[k].there
        PROVE  k[2] < v.disk.now[k[1]].mtime /\ (Ours(v, k[1], ren) => k[2] < v.lg.day)
    <3>1. k[1] \in LogNames /\ k[1] # p /\ k # a BY <1>2, <1>4, <1>7, <2>3, ArchiveNames
    <3>2. ~Ours(v, k[1], ren) BY <1>2, <3>1 DEF Ours, SameConfig
    <3> QED BY <1>1, <1>7, <2>3, <3>1, <3>2 DEF Dated
  <2> QED BY <1>1, <2>1, <2>2, <2>3 DEF Dated
<1>12. Fresh(v, day, rot, ren)
  <2>1. ASSUME NEW n \in LogNames, NEW y \in v.disk.now[n].lines
        PROVE  y.day <= day /\ y.day <= v.disk.now[n].mtime /\ (rot /\ Ours(v, n, ren) => y.day <= v.lg.day)
    <3>1. n # p BY <1>4, <1>7, <2>1
    <3>2. ~Ours(v, n, ren) BY <1>2, <3>1 DEF Ours, SameConfig
    <3> QED BY <1>1, <1>7, <3>1, <3>2 DEF Fresh
  <2>2. ASSUME rot, NEW k \in Archives, NEW y \in v.disk.old[k].lines
        PROVE  y.day <= k[2]
    <3>1. CASE k = a
      <4>1. y \in w.disk.now[p].lines BY <1>7, <3>1
      <4> QED BY <1>1, <1>2, <1>3, <2>2, <3>1, <4>1 DEF Fresh, d
    <3>2. CASE k # a BY <1>1, <1>7, <2>2, <3>2 DEF Fresh
    <3> QED BY <3>1, <3>2
  <2> QED BY <1>1, <1>2, <2>1, <2>2 DEF Fresh, SameConfig
<1>13. SameLines(v, w)
  <2>1. ASSUME NEW y PROVE OnDisk(v, y) <=> OnDisk(w, y)
    <3>3. ASSUME NEW n \in LogNames, y \in w.disk.now[n].lines PROVE OnDisk(v, y)
      <4>1. CASE n = p BY <1>2, <1>7, <3>3, <4>1 DEF OnDisk
      <4>2. CASE n # p BY <1>7, <3>3, <4>2 DEF OnDisk
      <4> QED BY <4>1, <4>2
    <3>4. ASSUME NEW k \in Archives, y \in w.disk.old[k].lines PROVE OnDisk(v, y)
      <4>1. k # a BY <1>6, <3>4
      <4> QED BY <1>7, <3>4, <4>1 DEF OnDisk
    <3>5. ASSUME NEW n \in LogNames, y \in v.disk.now[n].lines PROVE OnDisk(w, y)
      <4>1. n # p BY <1>4, <1>7, <3>5
      <4> QED BY <1>7, <3>5, <4>1 DEF OnDisk
    <3>6. ASSUME NEW k \in Archives, y \in v.disk.old[k].lines PROVE OnDisk(w, y)
      <4>1. CASE k = a BY <1>2, <1>7, <3>6, <4>1 DEF OnDisk
      <4>2. CASE k # a BY <1>7, <3>6, <4>2 DEF OnDisk
      <4> QED BY <4>1, <4>2
    <3> QED BY <3>3, <3>4, <3>5, <3>6 DEF OnDisk
  <2> QED BY <2>1 DEF SameLines
<1> QED BY <1>8, <1>9, <1>10, <1>11, <1>12, <1>13 DEF Kept

\* XLog_RotateFile of a day that is over.
LEMMA RotateKept ==
    ASSUME NEW day \in 1..MaxDay, NEW then \in Days, NEW now \in Days, day <= now, then <= now,
           NEW rot \in BOOLEAN, NEW ren \in BOOLEAN, NEW failed \in BOOLEAN, NEW lost,
           NEW w, Kept(w, day, then, rot, ren), w.lg.init,
           w.lg.day # NoDay, ~failed => w.lg.day < day
    PROVE  LET v == XLog_RotateFile(w, now, failed, lost) IN
           /\ Kept(v, day, now, rot, ren) /\ Less(v, w, lost) /\ SameConfig(v, w)
           /\ v.lg.path = w.lg.path /\ v.lg.day = w.lg.day /\ ~v.lg.open
           /\ w.lg.path \in LogNames /\ ~failed => ~v.disk.now[w.lg.path].there
           /\ w.lg.path \notin LogNames => v.disk = w.disk
           /\ failed /\ w.lg.buf \ lost = {} => v.disk.now = w.disk.now
<1> DEFINE u == XLog_CloseFile(w, now, lost)
           p == u.lg.path
           r == XLog_RotateFile(w, now, failed, lost)
           x == [u EXCEPT !.disk.old[<<p, u.lg.day>>] = u.disk.now[p], !.disk.now[p] = NoFile]
<1>1. /\ Kept(u, day, now, rot, ren) /\ Less(u, w, lost) /\ SameConfig(u, w)
      /\ u.lg.path = w.lg.path /\ u.lg.day = w.lg.day /\ ~u.lg.open /\ u.lg.buf = {}
      /\ w.lg.buf \ lost = {} => u.disk.now = w.disk.now
  BY CloseKept
<1>2. w.lg.path \notin LogNames => u = w
  <2>1. LogShape(w) /\ Held(w) BY DEF Kept
  <2>2. w.lg.path \notin LogNames => ~w.lg.open BY <2>1 DEF Held
  <2> QED BY <2>2 DEF XLog_CloseFile
<1>3. p \in {"", w.lg.name} /\ w.lg.name \in LogNames
  BY <1>1 DEF Kept, Held, SameConfig
<1>4. CASE p = "" \/ failed \/ ~u.disk.now[p].there
  <2>1. r = u BY <1>4 DEF XLog_RotateFile
  <2> HIDE DEF u, r
  <2>2. p \in LogNames /\ ~failed => ~u.disk.now[p].there BY <1>4, LogAssumption
  <2> QED BY <1>1, <1>2, <2>1, <2>2 DEF r
<1>5. CASE ~(p = "" \/ failed \/ ~u.disk.now[p].there)
  <2>1. r = x BY <1>5 DEF XLog_RotateFile
  <2> HIDE DEF u, r
  <2>2. LogShape(u) BY <1>1 DEF Kept
  <2>3. DOMAIN x = {"lg", "disk"} /\ x.lg = u.lg BY <2>2 DEF LogShape
  <2>b. p \in LogNames BY <1>3, <1>5
  <2>a. PICK a \in Archives : a = <<p, u.lg.day>> /\ a[1] = p /\ a[2] = u.lg.day
    <3>1. u.lg.day \in Days BY <2>2 DEF LogShape
    <3>2. <<p, u.lg.day>> \in Archives BY <2>b, <3>1 DEF Archives
    <3>3. <<p, u.lg.day>>[1] = p /\ <<p, u.lg.day>>[2] = u.lg.day OBVIOUS
    <3> QED BY <3>2, <3>3
  <2>4. /\ x.disk.old = [u.disk.old EXCEPT ![a] = u.disk.now[p]]
        /\ x.disk.now = [u.disk.now EXCEPT ![p] = NoFile] /\ DOMAIN x.disk = {"now", "old"}
    BY <2>2, <2>a DEF LogShape
  <2> HIDE DEF x
  <2>5. SameConfig(x, u) BY <2>2, <2>3, <2>4 DEF LogShape, SameConfig
  <2>6. u.lg.init BY <1>1 DEF SameConfig
  <2>7. Kept(x, day, now, rot, ren) /\ SameLines(x, u)
    <3>1. /\ u.lg.path \in LogNames /\ u.disk.now[u.lg.path].there /\ u.lg.day # NoDay /\ u.lg.day < day
      BY <1>1, <1>5, <2>b
    <3> QED BY <1>1, <2>a, <2>3, <2>4, <2>5, <2>6, <3>1, ArchiveKept, SMTT(30)
  <2>8. Less(x, w, lost) /\ SameConfig(x, w) BY <1>1, <2>5, <2>7, LessLines DEF SameConfig
  <2>9. ~x.disk.now[p].there
    <3>1. DOMAIN u.disk.now = LogNames /\ p \in LogNames BY <1>3, <1>5, <2>2 DEF LogShape
    <3> QED BY <2>4, <3>1 DEF NoFile
  <2> QED BY <1>1, <1>5, <2>b, <2>1, <2>3, <2>7, <2>8, <2>9 DEF r
<1> QED BY <1>4, <1>5

-----------------------------------------------------------------------------
(* Opening                                                                 *)

\* The path is set to the name, and nCurrDay to the date of the file there, or left alone
\* as long as the file was never renamed.
LEMMA PointKept ==
    ASSUME NEW day \in 1..MaxDay, NEW now \in Days,
           NEW rot \in BOOLEAN, NEW ren \in BOOLEAN,
           NEW w, Kept(w, day, now, rot, ren), ~w.lg.open, w.lg.init,
           NEW v, SameConfig(v, w), v.disk = w.disk, v.lg.path = w.lg.name, v.lg.open = w.lg.open,
           v.lg.buf = w.lg.buf,
           \/ v.lg.day = w.lg.day /\ ~ren
           \/ v.lg.day = w.disk.now[w.lg.name].mtime /\ w.disk.now[w.lg.name].there
    PROVE  Kept(v, day, now, rot, ren) /\ SameLines(v, w)
<1>1. LogShape(w) /\ Held(w) /\ Apart(w) /\ Dated(w, day, now, ren) /\ Fresh(w, day, rot, ren)
  BY DEF Kept
<1>2. w.lg.name \in LogNames /\ w.lg.buf = {} BY <1>1 DEF Held
<1>3. v.lg.day \in Days /\ v.lg.day <= now
  BY <1>1, <1>2 DEF LogShape, FileOK, Dated
<1>4. LogShape(v) BY <1>1, <1>3 DEF LogShape, SameConfig
<1>5. Held(v) BY <1>1, <1>2 DEF Held, SameConfig
<1>6. Apart(v) BY <1>1 DEF Apart
<1>7. ASSUME v.lg.day = w.lg.day /\ ~ren PROVE Dated(v, day, now, ren) /\ Fresh(v, day, rot, ren)
  <2>1. \A n : Ours(v, n, ren) <=> Ours(w, n, ren) BY <1>7 DEF Ours, SameConfig
  <2>2. Dated(v, day, now, ren) BY <1>1, <1>7, <2>1 DEF Dated
  <2>3. Fresh(v, day, rot, ren) BY <1>1, <1>2, <1>7, <2>1 DEF Fresh, SameConfig
  <2> QED BY <2>2, <2>3
<1>8. ASSUME v.lg.day = w.disk.now[w.lg.name].mtime /\ w.disk.now[w.lg.name].there
      PROVE  Dated(v, day, now, ren) /\ Fresh(v, day, rot, ren)
  <2>1. \A n : Ours(v, n, ren) => n = w.lg.name BY DEF Ours, SameConfig
  <2>2. Dated(v, day, now, ren) BY <1>1, <1>3, <1>8, <2>1 DEF Dated
  <2>3. Fresh(v, day, rot, ren) BY <1>1, <1>2, <1>8, <2>1 DEF Fresh, SameConfig
  <2> QED BY <2>2, <2>3
<1>9. SameLines(v, w) BY DEF SameLines, OnDisk
<1> QED BY <1>4, <1>5, <1>6, <1>7, <1>8, <1>9 DEF Kept

\* v is w with the file of its name open as g.
IsOpened(v, w, g, day, now) ==
    /\ SameConfig(v, w) /\ v.lg.path = w.lg.name /\ v.lg.open /\ v.lg.open \in BOOLEAN
    /\ v.lg.buf = w.lg.buf /\ v.lg.day = day /\ v.disk.old = w.disk.old
    /\ v.disk.now = [w.disk.now EXCEPT ![w.lg.name] = g]
    /\ DOMAIN g = {"there", "lines", "mtime"} /\ g.there /\ g.there \in BOOLEAN
    /\ g.lines = w.disk.now[w.lg.name].lines
    /\ w.disk.now[w.lg.name].there => g.mtime = w.disk.now[w.lg.name].mtime
    /\ ~w.disk.now[w.lg.name].there => g.mtime = now

\* fopen: the file is there, and its nCurrDay is today.
LEMMA OpenedKept ==
    ASSUME NEW day \in 1..MaxDay, NEW now \in Days, day <= now,
           NEW rot \in BOOLEAN, NEW ren \in BOOLEAN,
           NEW w, Kept(w, day, now, rot, ren), ~w.lg.open, w.lg.init,
           NEW v, NEW g, IsOpened(v, w, g, day, now)
    PROVE  Kept(v, day, now, rot, ren) /\ SameLines(v, w)
<1> USE DEF IsOpened
<1> DEFINE p == w.lg.name
<1>1. LogShape(w) /\ Held(w) /\ Apart(w) /\ Dated(w, day, now, ren) /\ Fresh(w, day, rot, ren)
  BY DEF Kept
<1>2. /\ p \in LogNames /\ w.lg.buf = {} /\ day \in Days /\ day # NoDay /\ now # NoDay /\ now \in Int
      /\ FileOK(w.disk.now[p]) /\ DOMAIN w.disk.now = LogNames
  <2>1. day \in Days /\ day # NoDay /\ now # NoDay /\ now \in Int
    <3>1. MaxDay \in Int BY DaysAreNumbers
    <3> QED BY <3>1 DEF Days, NoDay
  <2> QED BY <1>1, <2>1 DEF Held, LogShape
<1>3. /\ v.disk.now[p] = g /\ DOMAIN v.disk.now = LogNames
      /\ \A n \in LogNames : n # p => v.disk.now[n] = w.disk.now[n]
  BY <1>2
<1>4. FileOK(g) BY <1>2 DEF FileOK
<1>5. \A n \in LogNames : v.disk.now[n].lines = w.disk.now[n].lines BY <1>3
<1>6. v.lg.name = p BY DEF SameConfig
<1> HIDE DEF p
<1>7. LogShape(v)
  <2>1. \A n \in LogNames : FileOK(v.disk.now[n]) BY <1>1, <1>3, <1>4 DEF LogShape
  <2> QED BY <1>1, <1>2, <1>3, <2>1 DEF LogShape, SameConfig
<1>8. Held(v)
  <2>1. v.disk.now[v.lg.path].there BY <1>3 DEF p
  <2> QED BY <1>1, <1>2, <2>1 DEF Held, SameConfig
<1>9. Apart(v) BY <1>1, <1>5 DEF Apart
<1>10. g.mtime <= now /\ g.mtime \in Int
  <2>1. CASE w.disk.now[p].there
    <3>1. g.mtime = w.disk.now[p].mtime BY <2>1 DEF p
    <3>2. w.disk.now[p].mtime \in Int BY <1>2, DaysAreNumbers DEF FileOK
    <3> QED BY <1>1, <1>2, <2>1, <3>1, <3>2 DEF Dated
  <2>2. CASE ~w.disk.now[p].there
    <3>1. g.mtime = now BY <2>2 DEF p
    <3> QED BY <1>2, <3>1
  <2> QED BY <2>1, <2>2
<1>11. Dated(v, day, now, ren)
  <2>1. \A n \in LogNames : v.disk.now[n].there => v.disk.now[n].mtime <= now
    BY <1>1, <1>3, <1>10 DEF Dated
  <2>2. ASSUME NEW k \in Archives, v.disk.now[k[1]].there, v.disk.old[k].there
        PROVE  k[2] < v.disk.now[k[1]].mtime /\ (Ours(v, k[1], ren) => k[2] < v.lg.day)
    <3>1. k[1] \in LogNames /\ k[2] \in Int BY ArchiveNames
    <3>2. k[2] < day BY <1>1, <2>2 DEF Dated
    <3>3. CASE k[1] = p
      <4>1. CASE w.disk.now[p].there
        BY <1>1, <1>3, <2>2, <3>2, <3>3, <4>1 DEF Dated, p
      <4>2. CASE ~w.disk.now[p].there
        <5>1. g.mtime = now BY <4>2 DEF p
        <5> QED BY <1>2, <1>3, <3>1, <3>2, <3>3, <5>1
      <4> QED BY <4>1, <4>2
    <3>4. CASE k[1] # p
      BY <1>1, <1>3, <2>2, <3>1, <3>2, <3>4 DEF Dated
    <3> QED BY <3>3, <3>4
  <2> QED BY <1>1, <2>1, <2>2 DEF Dated
<1>12. Fresh(v, day, rot, ren)
  <2>1. ASSUME NEW n \in LogNames, NEW y \in v.disk.now[n].lines
        PROVE  y.day <= day /\ y.day <= v.disk.now[n].mtime /\ (rot /\ Ours(v, n, ren) => y.day <= v.lg.day)
    <3>1. y.day <= day /\ y.day <= w.disk.now[n].mtime BY <1>1, <1>5 DEF Fresh
    <3>2. CASE n # p BY <1>3, <3>1, <3>2
    <3>3. CASE n = p
      <4>1. w.disk.now[p].there BY <1>2, <1>5, <3>3 DEF FileOK
      <4> QED BY <1>3, <3>1, <3>3, <4>1 DEF p
    <3> QED BY <3>2, <3>3
  <2> QED BY <1>1, <1>2, <2>1 DEF Fresh, SameConfig
<1>13. SameLines(v, w) BY <1>2, <1>5 DEF SameLines, OnDisk
<1> QED BY <1>7, <1>8, <1>9, <1>11, <1>12, <1>13 DEF Kept

\* The file can be archived under its date, unless its rename fails.
Ready(w, day, fail) ==
    w.disk.now[w.lg.name].there /\ "rename" \notin fail => w.disk.now[w.lg.name].mtime <= day

\* XLog_OpenFile, called for a file that is not open.
LEMMA OpenKept ==
    ASSUME NEW day \in 1..MaxDay, NEW now \in Days, day <= now,
           NEW rot \in BOOLEAN, NEW ren \in BOOLEAN, NEW fail, NEW lost,
           NEW w, Kept(w, day, now, rot, ren), ~w.lg.open, w.lg.init,
           Ready(w, day, fail), "open" \in fail => ~ren
    PROVE  LET v == XLog_OpenFile(w, day, now, fail, lost) IN
           /\ Kept(v, day, now, rot, ren) /\ Less(v, w, lost) /\ SameConfig(v, w)
           /\ v.lg.open <=> "open" \notin fail
           /\ "open" \notin fail => v.lg.day = day
<1> DEFINE u == [w EXCEPT !.lg.path = w.lg.name]
           f == w.disk.now[w.lg.name]
           b == "rename" \in fail
           o == OldFileRotated(u, day, now, b, lost)
           v == XLog_OpenFile(w, day, now, fail, lost)
           x == [Opened(o, now) EXCEPT !.lg.day = day]
<1>1. LogShape(w) /\ Held(w) /\ w.lg.name \in LogNames BY DEF Kept, Held
<1>2. v = IF "open" \in fail THEN o ELSE x
  BY DEF XLog_OpenFile, XLog_CloseFile
<1>3. /\ DOMAIN u = {"lg", "disk"} /\ DOMAIN u.lg = LgFields /\ u.lg = [w.lg EXCEPT !.path = w.lg.name]
      /\ u.disk = w.disk
  BY <1>1 DEF LogShape
<1> HIDE DEF u
<1>4. /\ SameConfig(u, w) /\ u.lg.path = w.lg.name /\ u.lg.open = w.lg.open /\ u.lg.buf = w.lg.buf
      /\ u.lg.day = w.lg.day
  BY <1>1, <1>3, ZenonT(60) DEF LogShape, SameConfig, LgFields
<1>5. ASSUME w.lg.rotate /\ f.there /\ f.mtime # day
      PROVE  /\ Kept(o, day, now, rot, ren) /\ Less(o, w, lost) /\ SameConfig(o, w) /\ ~o.lg.open
             /\ o.lg.path = w.lg.name
  <2> DEFINE t == [u EXCEPT !.lg.day = f.mtime]
  <2>1. DOMAIN t = {"lg", "disk"} /\ DOMAIN t.lg = LgFields /\ t.lg = [u.lg EXCEPT !.day = f.mtime] /\ t.disk = w.disk
    BY <1>3
  <2>2. o = XLog_RotateFile(t, now, b, lost)
    <3>1. u.lg.rotate /\ u.disk.now[u.lg.path] = f BY <1>3, <1>4, <1>5 DEF SameConfig
    <3> QED BY <1>5, <3>1 DEF OldFileRotated
  <2> HIDE DEF t, o
  <2>3. /\ SameConfig(t, w) /\ t.lg.path = w.lg.name /\ t.lg.open = w.lg.open /\ t.lg.buf = w.lg.buf
        /\ t.lg.day = f.mtime
    BY <1>1, <1>3, <1>4, <2>1 DEF LogShape, SameConfig, LgFields
  <2>4. Kept(t, day, now, rot, ren) /\ SameLines(t, w) BY <1>5, <2>1, <2>3, PointKept
  <2>5. f.mtime # NoDay /\ f.mtime \in Int BY <1>1, <1>5, DaysAreNumbers DEF LogShape, FileOK
  <2>6. ~b => f.mtime < day BY <1>5, <2>5 DEF Ready
  <2>7. t.lg.init BY <2>3 DEF SameConfig
  <2>8. b \in BOOLEAN OBVIOUS
  <2> HIDE DEF b
  <2>9. /\ Kept(o, day, now, rot, ren) /\ Less(o, t, lost) /\ SameConfig(o, t) /\ ~o.lg.open
        /\ o.lg.path = t.lg.path
    <3>1. t.lg.day # NoDay /\ (~b => t.lg.day < day) BY <2>3, <2>5, <2>6
    <3>2. now <= now BY DaysAreNumbers
    <3> QED BY <2>2, <2>4, <2>7, <2>8, <3>1, <3>2, RotateKept
  <2> QED BY <2>3, <2>4, <2>9, LessLines DEF SameConfig
<1>6. ASSUME ~(w.lg.rotate /\ f.there /\ f.mtime # day)
      PROVE  o = u
  <2>1. (u.lg.rotate <=> w.lg.rotate) /\ u.disk.now[u.lg.path] = f BY <1>3, <1>4 DEF SameConfig
  <2> QED BY <1>6, <2>1 DEF OldFileRotated
<1>7. CASE "open" \in fail
  <2>1. v = o BY <1>2, <1>7
  <2>2. /\ Kept(o, day, now, rot, ren) /\ Less(o, w, lost) /\ SameConfig(o, w) /\ ~o.lg.open
    <3>1. CASE w.lg.rotate /\ f.there /\ f.mtime # day BY <1>5, <3>1
    <3>2. CASE ~(w.lg.rotate /\ f.there /\ f.mtime # day)
      <4>1. o = u BY <1>6, <3>2
      <4> HIDE DEF o
      <4>2. ~ren BY <1>7
      <4>3. Kept(u, day, now, rot, ren) /\ SameLines(u, w) BY <1>3, <1>4, <4>2, PointKept
      <4> QED BY <1>4, <4>1, <4>3, LessLines
    <3> QED BY <3>1, <3>2
  <2> HIDE DEF o, v
  <2> QED BY <1>7, <2>1, <2>2 DEF v
<1>8. CASE "open" \notin fail
  <2>1. v = x BY <1>2, <1>8
  <2>2. PICK r : /\ Kept(r, day, now, rot, ren) /\ ~r.lg.open /\ SameConfig(r, w) /\ Less(r, w, lost)
                 /\ SameConfig(o, r) /\ o.disk = r.disk /\ o.lg.buf = {} /\ r.lg.buf = {} /\ o.lg.path = w.lg.name
    <3>1. CASE w.lg.rotate /\ f.there /\ f.mtime # day
      <4>1. /\ Kept(o, day, now, rot, ren) /\ Less(o, w, lost) /\ SameConfig(o, w) /\ ~o.lg.open
            /\ o.lg.path = w.lg.name
        BY <1>5, <3>1
      <4> HIDE DEF o
      <4>2. SameConfig(o, o) BY <4>1 DEF SameConfig
      <4>3. o.lg.buf = {} BY <4>1 DEF Kept, Held
      <4> QED BY <4>1, <4>2, <4>3
    <3>2. CASE ~(w.lg.rotate /\ f.there /\ f.mtime # day)
      <4>1. o = u BY <1>6, <3>2
      <4> HIDE DEF o
      <4>2. SameConfig(w, w) BY <1>1 DEF SameConfig, LogShape
      <4>3. w.lg.buf = {} BY <1>1 DEF Held
      <4>4. Less(w, w, lost) BY LessLines DEF SameLines
      <4>5. SameConfig(u, w) /\ u.disk = w.disk /\ u.lg.buf = {} /\ u.lg.path = w.lg.name BY <1>3, <1>4, <4>3
      <4> QED BY <4>1, <4>2, <4>3, <4>4, <4>5
    <3> QED BY <3>1, <3>2
  <2> HIDE DEF o, v
  <2>3. r.lg.name = w.lg.name /\ r.lg.init /\ LogShape(r) BY <2>2 DEF SameConfig, Kept
  <2> DEFINE F == r.disk.now[w.lg.name]
             g == IF F.there THEN F ELSE [F EXCEPT !.there = TRUE, !.mtime = now]
             q == Opened(o, now)
  <2>4. q = [o EXCEPT !.lg.open = TRUE, !.disk.now[w.lg.name] = g] BY <2>2 DEF Opened
  <2>5. /\ DOMAIN g = {"there", "lines", "mtime"} /\ g.there /\ g.there \in BOOLEAN /\ g.lines = F.lines
        /\ g.mtime = IF F.there THEN F.mtime ELSE now
    <3>1. FileOK(F) BY <1>1, <2>3 DEF LogShape
    <3> HIDE DEF F
    <3> QED BY <3>1 DEF FileOK
  <2>6. x = [q EXCEPT !.lg.day = day] OBVIOUS
  <2> HIDE DEF g, q, x
  <2>7. DOMAIN q = {"lg", "disk"} /\ q.lg = [o.lg EXCEPT !.open = TRUE] /\ q.disk = [r.disk EXCEPT !.now[w.lg.name] = g]
    BY <2>2, <2>4 DEF SameConfig
  <2>8. DOMAIN x = {"lg", "disk"} /\ x.lg = [q.lg EXCEPT !.day = day] /\ x.disk = q.disk BY <2>6, <2>7
  <2>9. DOMAIN x.disk = {"now", "old"} /\ x.disk.old = r.disk.old /\ x.disk.now = [r.disk.now EXCEPT ![w.lg.name] = g]
    BY <2>3, <2>7, <2>8 DEF LogShape
  <2>10. /\ SameConfig(x, r) /\ x.lg.open /\ x.lg.open \in BOOLEAN /\ x.lg.buf = {} /\ x.lg.path = w.lg.name
         /\ x.lg.day = day
    <3>1. /\ DOMAIN q.lg = LgFields /\ q.lg.open = TRUE /\ q.lg.buf = {} /\ q.lg.path = w.lg.name
      BY <2>2, <2>7 DEF SameConfig, LgFields
    <3>2. /\ q.lg.init = r.lg.init /\ q.lg.rotate = r.lg.rotate /\ q.lg.name = r.lg.name
          /\ q.lg.keepOpen = r.lg.keepOpen /\ q.lg.flush = r.lg.flush /\ q.lg.flags = r.lg.flags
          /\ q.lg.toFile = r.lg.toFile
      BY <2>2, <2>7 DEF SameConfig, LgFields
    <3>3. DOMAIN x.lg = LgFields /\ x.lg.open = TRUE /\ x.lg.buf = {} /\ x.lg.path = w.lg.name /\ x.lg.day = day
      BY <2>8, <3>1 DEF LgFields
    <3>4. SameConfig(x, r) BY <2>8, <2>9, <3>1, <3>2, <3>3 DEF SameConfig, LgFields
    <3> QED BY <3>3, <3>4
  <2>11. Kept(x, day, now, rot, ren) /\ SameLines(x, r)
    <3>1. /\ x.lg.path = r.lg.name /\ x.lg.buf = r.lg.buf
          /\ x.disk.now = [r.disk.now EXCEPT ![r.lg.name] = g] /\ g.lines = r.disk.now[r.lg.name].lines
          /\ r.disk.now[r.lg.name].there => g.mtime = r.disk.now[r.lg.name].mtime
          /\ ~r.disk.now[r.lg.name].there => g.mtime = now
      BY <2>2, <2>3, <2>5, <2>9, <2>10
    <3>2. /\ Kept(r, day, now, rot, ren) /\ ~r.lg.open /\ r.lg.init
          /\ SameConfig(x, r) /\ x.lg.open /\ x.lg.open \in BOOLEAN /\ x.lg.day = day /\ x.disk.old = r.disk.old
          /\ DOMAIN g = {"there", "lines", "mtime"} /\ g.there /\ g.there \in BOOLEAN
      BY <2>2, <2>3, <2>5, <2>9, <2>10
    <3>3. IsOpened(x, r, g, day, now) BY <3>1, <3>2 DEF IsOpened
    <3> QED BY <3>2, <3>3, OpenedKept
  <2>12. Less(x, w, lost) /\ SameConfig(x, w) BY <2>2, <2>10, <2>11, LessLines DEF SameConfig
  <2> QED BY <1>8, <2>1, <2>10, <2>11, <2>12 DEF v
<1> QED BY <1>7, <1>8

-----------------------------------------------------------------------------
(* A message                                                               *)

\* Kept stays true when time passes.
LEMMA LaterKept ==
    ASSUME NEW d1 \in 1..MaxDay, NEW d2 \in 1..MaxDay, NEW n1 \in Days, NEW n2 \in Days, d1 <= d2, n1 <= n2,
           NEW rot \in BOOLEAN, NEW ren \in BOOLEAN, NEW w, Kept(w, d1, n1, rot, ren)
    PROVE  Kept(w, d2, n2, rot, ren)
<1>1. LogShape(w) /\ Dated(w, d1, n1, ren) /\ Fresh(w, d1, rot, ren) BY DEF Kept
<1>2. MaxDay \in Nat /\ Days \subseteq Int BY DaysAreNumbers
<1>3. Dated(w, d2, n2, ren)
  <2>1. ASSUME NEW k \in Archives, w.disk.old[k].there PROVE k[2] < d2
    <3>1. k[2] < d1 BY <1>1, <2>1 DEF Dated
    <3>2. k[2] \in Int BY ArchiveNames
    <3> QED BY <1>2, <3>1, <3>2
  <2>2. ASSUME NEW n \in LogNames, w.disk.now[n].there PROVE w.disk.now[n].mtime <= n2
    <3>1. w.disk.now[n].mtime <= n1 BY <1>1, <2>2 DEF Dated
    <3>2. w.disk.now[n].mtime \in Int BY <1>1, <1>2 DEF LogShape, FileOK
    <3> QED BY <1>2, <3>1, <3>2
  <2>3. w.lg.day <= n2
    <3>1. w.lg.day <= n1 /\ w.lg.day \in Int BY <1>1, <1>2 DEF Dated, LogShape
    <3> QED BY <1>2, <3>1
  <2> QED BY <1>1, <2>1, <2>2, <2>3 DEF Dated
<1>4. Fresh(w, d2, rot, ren)
  <2>1. ASSUME NEW y \in LogLines, y.day <= d1 PROVE y.day <= d2
    BY <1>2, <2>1 DEF LogLines
  <2>2. \A n \in LogNames : \A y \in w.disk.now[n].lines : y.day <= d2
    BY <1>1, <2>1 DEF Fresh, LogShape, FileOK
  <2>3. \A y \in w.lg.buf : y.day <= d2 BY <1>1, <2>1 DEF Fresh, LogShape
  <2> QED BY <1>1, <2>2, <2>3 DEF Fresh
<1> QED BY <1>3, <1>4 DEF Kept

\* Before the line is written, the file of another day is archived or at least closed.
LEMMA DayKept ==
    ASSUME NEW day \in 1..MaxDay, NEW now \in Days, day <= now,
           NEW rot \in BOOLEAN, NEW ren \in BOOLEAN, NEW fail, NEW lost,
           NEW w, Kept(w, day, day, rot, ren), w.lg.init
    PROVE  LET u == DayChecked(w, day, now, fail, lost) IN
           /\ Kept(u, day, now, rot, ren) /\ Less(u, w, lost) /\ SameConfig(u, w)
           /\ u.lg.open <=> w.lg.open /\ (~w.lg.rotate \/ w.lg.day = day)
           /\ rot /\ u.lg.open => u.lg.day = day
           /\ ~ArchivedAhead(w, day, now, fail, lost) => Ready(u, day, fail)
<1> DEFINE u == DayChecked(w, day, now, fail, lost)
           b == "archive" \in fail
<1>1. LogShape(w) /\ Held(w) /\ Dated(w, day, day, ren) /\ Fresh(w, day, rot, ren) BY DEF Kept
<1>2. MaxDay \in Nat /\ Days \subseteq Int /\ day \in Days /\ day <= day
  BY DaysAreNumbers DEF Days
<1>3. /\ Kept(w, day, now, rot, ren) /\ Less(w, w, lost) /\ SameConfig(w, w)
  BY <1>1, <1>2, LaterKept, LessLines DEF SameLines, SameConfig, LogShape
<1>4. w.disk.now[w.lg.name].there => w.disk.now[w.lg.name].mtime <= day BY <1>1 DEF Held, Dated
<1>a. Ready(w, day, fail) BY <1>4 DEF Ready
<1>5. CASE ~w.lg.rotate \/ w.lg.day = day
  <2>1. u = w BY <1>5 DEF DayChecked
  <2>2. rot => w.lg.day = day BY <1>1, <1>5 DEF Fresh
  <2> HIDE DEF u
  <2> QED BY <1>3, <1>a, <1>5, <2>1, <2>2 DEF u
<1>6. CASE ~(~w.lg.rotate \/ w.lg.day = day) /\ w.lg.day = NoDay
  <2>1. u = XLog_CloseFile(w, now, lost) BY <1>6 DEF DayChecked
  <2>2. ~w.lg.open BY <1>1, <1>6 DEF Held
  <2>3. u = w BY <2>1, <2>2 DEF XLog_CloseFile
  <2> HIDE DEF u
  <2> QED BY <1>3, <1>a, <2>2, <2>3 DEF u
<1>7. CASE ~(~w.lg.rotate \/ w.lg.day = day) /\ w.lg.day # NoDay
  <2>1. u = XLog_RotateFile(w, now, b, lost) BY <1>7 DEF DayChecked
  <2>2. w.lg.day < day
    <3>1. w.lg.day \in Int /\ w.lg.day <= day BY <1>1, <1>2 DEF LogShape, Dated
    <3> QED BY <1>2, <1>7, <3>1
  <2>3. b \in BOOLEAN OBVIOUS
  <2> HIDE DEF u, b
  <2>4. /\ Kept(u, day, now, rot, ren) /\ Less(u, w, lost) /\ SameConfig(u, w)
        /\ ~u.lg.open
        /\ w.lg.path \in LogNames /\ ~b => ~u.disk.now[w.lg.path].there
        /\ w.lg.path \notin LogNames => u.disk = w.disk
        /\ b /\ w.lg.buf \ lost = {} => u.disk.now = w.disk.now
    BY <1>2, <1>7, <2>1, <2>2, <2>3, RotateKept
  <2>5. ASSUME ~ArchivedAhead(w, day, now, fail, lost) PROVE Ready(u, day, fail)
    <3>1. u.lg.name = w.lg.name BY <2>4 DEF SameConfig
    <3>2. CASE w.lg.path \in LogNames
      <4>1. w.lg.path = w.lg.name
        <5>1. "" \notin LogNames BY LogAssumption
        <5> QED BY <1>1, <3>2, <5>1 DEF Held
      <4>2. CASE ~b BY <2>4, <3>1, <3>2, <4>1, <4>2 DEF Ready
      <4>3. CASE b /\ w.lg.buf \ lost = {} BY <1>4, <2>4, <3>1, <4>3 DEF Ready
      <4>4. CASE now = day
        <5>1. u.disk.now[w.lg.path].there => u.disk.now[w.lg.path].mtime <= day BY <2>4, <3>2, <4>4 DEF Kept, Dated
        <5> QED BY <3>1, <4>1, <5>1 DEF Ready
      <4>5. CASE "rename" \in fail BY <4>5 DEF Ready
      <4> QED BY <1>7, <2>5, <4>2, <4>3, <4>4, <4>5 DEF ArchivedAhead, b
    <3>3. CASE w.lg.path \notin LogNames
      BY <1>a, <2>4, <3>1, <3>3 DEF Ready
    <3> QED BY <3>2, <3>3
  <2> QED BY <1>7, <2>4, <2>5 DEF u
<1> QED BY <1>5, <1>6, <1>7

\* v is w with the line in stdio's buffer.
Added(v, w, line) == v = [w EXCEPT !.lg.buf = @ \cup {line}]

\* fprintf: a line that is nowhere else goes to the buffer of the file of its day.
LEMMA PrintKept ==
    ASSUME NEW day \in 1..MaxDay, NEW now \in Days,
           NEW rot \in BOOLEAN, NEW ren \in BOOLEAN,
           NEW w, Kept(w, day, now, rot, ren), w.lg.open, rot => w.lg.day = day,
           NEW line \in LogLines, line.day = day, line \notin OnRecord(w),
           NEW v, Added(v, w, line)
    PROVE  /\ Kept(v, day, now, rot, ren) /\ SameConfig(v, w) /\ v.lg.path = w.lg.path
           /\ v.lg.buf = w.lg.buf \cup {line} /\ v.disk = w.disk
<1>1. LogShape(w) /\ Held(w) /\ Apart(w) /\ Dated(w, day, now, ren) /\ Fresh(w, day, rot, ren)
  BY DEF Kept
<1>2. DOMAIN v = {"lg", "disk"} /\ v.lg = [w.lg EXCEPT !.buf = @ \cup {line}] /\ v.disk = w.disk
  BY <1>1 DEF LogShape, Added
<1>3. /\ SameConfig(v, w) /\ v.lg.buf = w.lg.buf \cup {line} /\ v.lg.open = w.lg.open /\ v.lg.path = w.lg.path
      /\ v.lg.day = w.lg.day
  BY <1>1, <1>2, ZenonT(60) DEF LogShape, SameConfig, LgFields
<1>4. LogShape(v) BY <1>1, <1>2, <1>3 DEF LogShape, SameConfig
<1>5. Held(v) BY <1>1, <1>2, <1>3 DEF Held, SameConfig
<1>6. /\ \A n \in LogNames : line \notin w.disk.now[n].lines
      /\ \A k \in Archives : line \notin w.disk.old[k].lines
  BY <1>1, Recorded DEF OnDisk
<1>7. Apart(v)
  <2>1. \A k \in Archives : v.lg.buf \cap v.disk.old[k].lines = {} BY <1>1, <1>2, <1>3, <1>6 DEF Apart
  <2>2. \A n \in LogNames : v.lg.buf \cap v.disk.now[n].lines = {} BY <1>1, <1>2, <1>3, <1>6 DEF Apart
  <2> QED BY <1>1, <1>2, <2>1, <2>2 DEF Apart
<1>8. \A n : Ours(v, n, ren) <=> Ours(w, n, ren) BY <1>3 DEF Ours, SameConfig
<1>9. Dated(v, day, now, ren) BY <1>1, <1>2, <1>3, <1>8 DEF Dated
<1>10. Fresh(v, day, rot, ren)
  <2>1. \A y \in v.lg.buf : y.day <= day /\ (rot => y.day <= v.lg.day)
    <3>1. day <= day /\ line.day <= day OBVIOUS
    <3> QED BY <1>1, <1>3, <3>1 DEF Fresh
  <2> QED BY <1>1, <1>2, <1>3, <1>8, <2>1 DEF Fresh, SameConfig
<1> QED BY <1>2, <1>3, <1>4, <1>5, <1>7, <1>9, <1>10 DEF Kept

\* r is w after the message.
After(r, w, line, now, fail, lost, spill) == r = XLog_DisplayMessage(w, line, now, fail, lost, spill)

\* A line that is printed goes to the file of the name, and r has it and what w has, but for what is lost.
Told(r, w, line, day, fail, lost) ==
    /\ Printed(w, day, fail) => r.lg.path = r.lg.name
    /\ Writes(r, lost) =>
           OnRecord(r) = (IF Printed(w, day, fail) THEN OnRecord(w) \cup {line} ELSE OnRecord(w)) \ lost

\* XLog_DisplayMessage: the line is on record if the file could be opened and the line written, and
\* nothing else changes but for what else a write fails for.
LEMMA DisplayKept ==
    ASSUME NEW day \in 1..MaxDay, NEW now \in Days, day <= now,
           NEW rot \in BOOLEAN, NEW ren \in BOOLEAN, NEW fail, NEW lost, NEW spill,
           NEW w, Kept(w, day, day, rot, ren), w.lg.init,
           ~ArchivedAhead(w, day, now, fail, lost), Printed(w, day, fail) \/ ~ren,
           NEW line \in LogLines, line.day = day, line \notin OnRecord(w),
           lost \subseteq w.lg.buf \cup {line},
           NEW r, After(r, w, line, now, fail, lost, spill)
    PROVE  Kept(r, day, now, rot, ren) /\ Told(r, w, line, day, fail, lost)
<1> DEFINE u == DayChecked(w, day, now, fail, lost)
           v == IF u.lg.open THEN u ELSE XLog_OpenFile(u, day, now, fail, lost)
           p == [v EXCEPT !.lg.buf = @ \cup {line}]
           q == IF (w.lg.flush /\ "flush" \notin fail) \/ spill THEN Flush(p, now, lost) ELSE p
<1>1. r = IF ~v.lg.open THEN v ELSE IF w.lg.keepOpen THEN q ELSE XLog_CloseFile(q, now, lost)
  BY DEF XLog_DisplayMessage, After
<1>2. day \in Days /\ day <= day /\ now <= now
  <2>1. MaxDay \in Nat BY DaysAreNumbers
  <2> QED BY <2>1 DEF Days
<1>3. /\ Kept(u, day, now, rot, ren) /\ Less(u, w, lost) /\ SameConfig(u, w)
      /\ u.lg.open <=> w.lg.open /\ (~w.lg.rotate \/ w.lg.day = day)
      /\ rot /\ u.lg.open => u.lg.day = day
      /\ Ready(u, day, fail)
  BY DayKept
<1>4. Printed(w, day, fail) <=> u.lg.open \/ "open" \notin fail BY <1>3 DEF Printed
<1> HIDE DEF u
<1>5. u.lg.init BY <1>3 DEF SameConfig
<1>6. /\ Kept(v, day, now, rot, ren) /\ Less(v, w, lost)
      /\ v.lg.open <=> Printed(w, day, fail)
      /\ rot /\ v.lg.open => v.lg.day = day
  <2>1. CASE u.lg.open BY <1>3, <1>4, <2>1
  <2>2. CASE ~u.lg.open
    <3> DEFINE t == XLog_OpenFile(u, day, now, fail, lost)
    <3>1. v = t BY <2>2
    <3>2. /\ Kept(t, day, now, rot, ren) /\ Less(t, u, lost)
          /\ t.lg.open <=> "open" \notin fail
          /\ "open" \notin fail => t.lg.day = day
      BY <1>3, <1>4, <1>5, <2>2, OpenKept
    <3> HIDE DEF t, v
    <3>3. Less(t, w, lost) BY <1>3, <3>2, LessLines
    <3> QED BY <1>4, <2>2, <3>1, <3>2, <3>3
  <2> QED BY <2>1, <2>2
<1> HIDE DEF v
<1>7. /\ LogShape(w) /\ Apart(w) /\ \A y : y \in OnRecord(w) <=> y \in w.lg.buf \/ OnDisk(w, y)
  BY Recorded DEF Kept
<1>8. CASE ~v.lg.open
  <2>1. r = v BY <1>1, <1>8
  <2>2. ASSUME Writes(v, lost) PROVE OnRecord(v) = OnRecord(w) \ lost
    <3>1. ASSUME NEW y PROVE y \in OnRecord(v) <=> y \in OnRecord(w) /\ y \notin lost
      <4>1. y \in OnRecord(v) <=> y \in v.lg.buf \/ OnDisk(v, y) BY <1>6, Recorded DEF Kept
      <4>2. y \in lost => y \notin v.lg.buf /\ (y \in w.lg.buf \/ y = line) BY <2>2 DEF Writes
      <4>3. ~(y \in w.lg.buf /\ OnDisk(w, y)) BY <1>7 DEF Apart, OnDisk
      <4>4. y = line => ~OnDisk(w, y) /\ y \notin w.lg.buf BY <1>7
      <4> QED BY <1>6, <1>7, <4>1, <4>2, <4>3, <4>4 DEF Less
    <3> QED BY <3>1
  <2> QED BY <1>6, <1>8, <2>1, <2>2 DEF Told
<1>9. CASE v.lg.open
  <2>1. line \notin OnRecord(v)
    <3>1. line \in OnRecord(v) <=> line \in v.lg.buf \/ OnDisk(v, line) BY <1>6, Recorded DEF Kept
    <3> QED BY <1>6, <1>7, <3>1 DEF Less
  <2>a. rot => v.lg.day = day BY <1>6, <1>9
  <2>2. /\ Kept(p, day, now, rot, ren) /\ SameConfig(p, v) /\ p.lg.path = v.lg.path
        /\ p.lg.buf = v.lg.buf \cup {line} /\ p.disk = v.disk
    <3>1. Added(p, v, line) BY DEF Added
    <3> HIDE DEF p
    <3>2. Kept(v, day, now, rot, ren) BY <1>6
    <3> QED BY <1>9, <2>1, <2>a, <3>1, <3>2, PrintKept
  <2>b. Kept(p, day, now, rot, ren) BY <2>2
  <2> HIDE DEF p
  <2>3. Kept(q, day, now, rot, ren) /\ Less(q, p, lost) /\ q.lg.path = v.lg.path /\ q.lg.name = v.lg.name
    <3>a. now \in Days /\ now <= now BY <1>2
    <3>1. LET f == Flush(p, now, lost) IN
          /\ Kept(f, day, now, rot, ren) /\ Less(f, p, lost) /\ SameConfig(f, p)
          /\ f.lg.path = p.lg.path /\ f.lg.day = p.lg.day /\ f.lg.open = p.lg.open
      BY <2>b, <3>a, FlushKept
    <3>2. Less(p, p, lost) BY LessLines DEF SameLines
    <3> QED BY <2>2, <3>1, <3>2 DEF SameConfig
  <2> HIDE DEF q
  <2> DEFINE c == XLog_CloseFile(q, now, lost)
  <2>4. Kept(c, day, now, rot, ren) /\ Less(c, q, lost) /\ SameConfig(c, q) /\ c.lg.path = q.lg.path
    BY <1>2, <2>3, CloseKept
  <2>5. r = q \/ r = c BY <1>1, <1>9
  <2> HIDE DEF c
  <2>6. Kept(r, day, now, rot, ren) /\ Less(r, p, lost) BY <2>3, <2>4, <2>5, LessLines
  <2>7. r.lg.path = r.lg.name
    <3>1. v.lg.path = v.lg.name BY <1>6, <1>9 DEF Kept, Held
    <3> QED BY <2>3, <2>4, <2>5, <3>1 DEF SameConfig
  <2>8. ASSUME Writes(r, lost) PROVE OnRecord(r) = (OnRecord(w) \cup {line}) \ lost
    <3>1. ASSUME NEW y PROVE y \in OnRecord(r) <=> (y \in OnRecord(w) \/ y = line) /\ y \notin lost
      <4>1. y \in OnRecord(r) <=> y \in r.lg.buf \/ OnDisk(r, y) BY <2>6, Recorded DEF Kept
      <4>2. y \in lost => y \notin r.lg.buf /\ (y \in w.lg.buf \/ y = line) BY <2>8 DEF Writes
      <4>3. ~(y \in w.lg.buf /\ OnDisk(w, y)) BY <1>7 DEF Apart, OnDisk
      <4>4. y = line => ~OnDisk(w, y) /\ y \notin w.lg.buf BY <1>7
      <4>6. y \in p.lg.buf <=> y \in v.lg.buf \/ y = line BY <2>2
      <4>7. OnDisk(p, y) <=> OnDisk(v, y) BY <2>2 DEF OnDisk
      <4>8. /\ y \in r.lg.buf => y \in p.lg.buf
            /\ OnDisk(p, y) => OnDisk(r, y)
            /\ OnDisk(r, y) => OnDisk(p, y) \/ (y \in p.lg.buf /\ y \notin lost)
            /\ y \in p.lg.buf => y \in r.lg.buf \/ OnDisk(r, y) \/ y \in lost
        BY <2>6 DEF Less
      <4>9. /\ y \in v.lg.buf => y \in w.lg.buf
            /\ OnDisk(w, y) => OnDisk(v, y)
            /\ OnDisk(v, y) => OnDisk(w, y) \/ (y \in w.lg.buf /\ y \notin lost)
            /\ y \in w.lg.buf => y \in v.lg.buf \/ OnDisk(v, y) \/ y \in lost
        BY <1>6 DEF Less
      <4> QED BY <1>7, <4>1, <4>2, <4>3, <4>4, <4>6, <4>7, <4>8, <4>9
    <3> QED BY <3>1
  <2> QED BY <1>6, <1>9, <2>6, <2>7, <2>8 DEF Told
<1> QED BY <1>8, <1>9

-----------------------------------------------------------------------------
(* The steps                                                               *)

\* At the beginning there is nothing.
LEMMA LogInitInv == LogInit => LogInv
<1> SUFFICES ASSUME LogInit PROVE LogInv OBVIOUS
<1> USE DEF LogInit
<1>1. DOMAIN NoFile = {"there", "lines", "mtime"} /\ ~NoFile.there /\ NoFile.there \in BOOLEAN /\ NoFile.lines = {} /\ NoFile.mtime = 0
  BY DEF NoFile
<1>2. MaxDay \in Nat \ {0} /\ 0 \in Days BY LogAssumption, DaysAreNumbers
<1> HIDE DEF NoFile
<1>3. FileOK(NoFile) BY <1>1, <1>2 DEF FileOK
<1>4. /\ DOMAIN LogNow = {"lg", "disk"} /\ LogNow.lg = NoLog /\ DOMAIN LogNow.disk = {"now", "old"}
      /\ DOMAIN LogNow.disk.now = LogNames /\ \A n \in LogNames : LogNow.disk.now[n] = NoFile
      /\ DOMAIN LogNow.disk.old = Archives /\ \A k \in Archives : LogNow.disk.old[k] = NoFile
  BY DEF LogNow, Archives, Days
<1>5. /\ DOMAIN NoLog = LgFields /\ NoLog.init = FALSE /\ NoLog.open = FALSE /\ NoLog.rotate = FALSE
      /\ NoLog.buf = {} /\ NoLog.name = ""
  BY DEF NoLog, LgFields
<1>a. NoLog.day = 0 BY DEF NoLog, NoDay
<1> DEFINE w == LogNow
<1> HIDE DEF w, NoLog
<1>6. LogShape(w)
  <2>1. w.lg.day \in Days BY <1>2, <1>4, <1>a DEF w
  <2> QED BY <1>3, <1>4, <1>5, <2>1 DEF LogShape, w
<1>7. Held(w) BY <1>4, <1>5 DEF Held, w
<1>8. Apart(w) BY <1>1, <1>4, <1>5 DEF Apart, w
<1>9. ASSUME NEW ren PROVE Dated(w, 1, 1, ren)
  <2>1. \A n \in LogNames : ~w.disk.now[n].there BY <1>1, <1>4 DEF w
  <2>2. \A k \in Archives : ~w.disk.old[k].there BY <1>1, <1>4 DEF w
  <2>3. w.lg.day <= 1 BY <1>4, <1>a DEF w
  <2> QED BY <2>1, <2>2, <2>3 DEF Dated
<1>10. \A rot, ren : Fresh(w, 1, rot, ren) BY <1>1, <1>4, <1>5 DEF Fresh, w
<1>11. OnRecord(w) = {}
  <2>1. ASSUME NEW y, y \in OnRecord(w) PROVE FALSE
    <3>1. y \in w.lg.buf \/ OnDisk(w, y) BY <1>6, <2>1, Recorded
    <3> QED BY <1>1, <1>4, <1>5, <3>1 DEF OnDisk, w
  <2> QED BY <2>1
<1>12. Kept(w, today, today, past.rotating, past.renamed)
  BY <1>6, <1>7, <1>8, <1>9, <1>10 DEF Kept
<1>13. Kept(LogNow, today, today, past.rotating, past.renamed) /\ past.lines = OnRecord(LogNow)
  BY <1>11, <1>12 DEF w
<1>14. /\ today \in 1..MaxDay /\ DOMAIN past = PastFields /\ past.misdated = FALSE
       /\ past.rotating \in BOOLEAN /\ past.renamed \in BOOLEAN /\ past.n \in Nat /\ past.lines = {}
  BY <1>2 DEF PastFields
<1> QED BY <1>13, <1>14 DEF LogInv, InOrder

\* Kept speaks of the two fields only.
LEMMA SameKept ==
    ASSUME NEW day, NEW now, NEW rot, NEW ren, NEW w, Kept(w, day, now, rot, ren),
           NEW v, DOMAIN v = {"lg", "disk"}, v.lg = w.lg, v.disk = w.disk
    PROVE  Kept(v, day, now, rot, ren) /\ OnRecord(v) = OnRecord(w)
<1>1. LogShape(v) BY DEF Kept, LogShape
<1>2. Held(v) BY DEF Kept, Held
<1>3. Apart(v) BY DEF Kept, Apart
<1>4. \A n : Ours(v, n, ren) <=> Ours(w, n, ren) BY DEF Ours
<1>5. Dated(v, day, now, ren) BY <1>4 DEF Kept, Dated
<1>6. Fresh(v, day, rot, ren) BY <1>4 DEF Kept, Fresh
<1> QED BY <1>1, <1>2, <1>3, <1>5, <1>6 DEF Kept, OnRecord

\* A step that commits w and keeps the time.
LEMMA CommitInv ==
    ASSUME InOrder, NEW w, LogCommit(w), today' = today,
           DOMAIN past' = DOMAIN past, past'.rotating \in BOOLEAN, past'.renamed \in BOOLEAN,
           past'.n = past.n, NEW lost, past'.lines = past.lines \ lost, OnRecord(w) = OnRecord(LogNow) \ lost,
           Kept(w, today, today, past'.rotating, past'.renamed)
    PROVE  InOrder'
<1> DEFINE v == LogNow'
<1>1. DOMAIN v = {"lg", "disk"} /\ v.lg = w.lg /\ v.disk = w.disk BY DEF LogNow, LogCommit
<1> HIDE DEF v
<1>2. Kept(v, today, today, past'.rotating, past'.renamed) /\ OnRecord(v) = OnRecord(w)
  BY <1>1, SameKept
<1>3. Kept(LogNow, today, today, past.rotating, past.renamed)' BY <1>2 DEF v
<1>4. past'.lines = OnRecord(v) BY <1>2 DEF InOrder
<1>5. (past.lines = OnRecord(LogNow))' BY <1>4 DEF v
<1>6. \A y \in past'.lines : y.n <= past'.n BY DEF InOrder
<1>7. /\ today' \in 1..MaxDay /\ DOMAIN past' = PastFields /\ past'.n \in Nat BY DEF InOrder
<1> QED BY <1>3, <1>5, <1>6, <1>7 DEF InOrder

\* A step that commits w, keeps the time and loses nothing.
LEMMA CommitAll ==
    ASSUME InOrder, NEW w, LogCommit(w), today' = today,
           DOMAIN past' = DOMAIN past, past'.rotating \in BOOLEAN, past'.renamed \in BOOLEAN,
           past'.n = past.n, past'.lines = past.lines, OnRecord(w) = OnRecord(LogNow),
           Kept(w, today, today, past'.rotating, past'.renamed)
    PROVE  InOrder'
<1> DEFINE none == {}
<1>1. past'.lines = past.lines \ none /\ OnRecord(w) = OnRecord(LogNow) \ none OBVIOUS
<1> HIDE DEF none
<1> QED BY <1>1, CommitInv

\* v is w with other switches.
Switched(v, w, rot) ==
    /\ DOMAIN v = {"lg", "disk"} /\ DOMAIN v.lg = LgFields /\ v.disk = w.disk
    /\ v.lg.init = w.lg.init /\ v.lg.name = w.lg.name /\ v.lg.path = w.lg.path /\ v.lg.open = w.lg.open
    /\ v.lg.buf = w.lg.buf /\ v.lg.day = w.lg.day /\ v.lg.rotate \in BOOLEAN
    /\ rot /\ v.lg.init => v.lg.rotate

\* A change of the configuration that leaves the file alone.
LEMMA SwitchedKept ==
    ASSUME NEW day, NEW now, NEW rot \in BOOLEAN, NEW ren \in BOOLEAN, NEW rot2 \in BOOLEAN,
           NEW w, Kept(w, day, now, rot, ren),
           NEW v, Switched(v, w, rot2), rot2 => rot
    PROVE  Kept(v, day, now, rot2, ren) /\ OnRecord(v) = OnRecord(w)
<1> USE DEF Switched
<1>1. LogShape(w) /\ Held(w) /\ Apart(w) /\ Dated(w, day, now, ren) /\ Fresh(w, day, rot, ren)
  BY DEF Kept
<1>2. LogShape(v) BY <1>1 DEF LogShape
<1>3. Held(v) BY <1>1 DEF Held
<1>4. Apart(v) BY <1>1 DEF Apart
<1>5. \A n : Ours(v, n, ren) <=> Ours(w, n, ren) BY DEF Ours
<1>6. Dated(v, day, now, ren) BY <1>1, <1>5 DEF Dated
<1>7. Fresh(v, day, rot2, ren) BY <1>1, <1>5 DEF Fresh
<1> QED BY <1>2, <1>3, <1>4, <1>6, <1>7 DEF Kept, OnRecord

\* v is w under another configuration, and its file is not open.
Closed(v, w, now, rot) ==
    /\ DOMAIN v = {"lg", "disk"} /\ DOMAIN v.lg = LgFields /\ v.disk = w.disk /\ v.lg.buf = {}
    /\ v.lg.open \in BOOLEAN /\ ~v.lg.open /\ v.lg.init \in BOOLEAN /\ v.lg.rotate \in BOOLEAN
    /\ v.lg.day \in Days /\ v.lg.day <= now
    /\ v.lg.init => v.lg.name \in LogNames /\ v.lg.path \in {"", v.lg.name}
    /\ ~v.lg.init => v.lg.name = ""
    /\ rot /\ v.lg.init => v.lg.rotate

\* A change of the configuration after the file was closed: nCurrDay speaks of no other file than before.
LEMMA ReconfiguredKept ==
    ASSUME NEW day, NEW now, NEW rot \in BOOLEAN, NEW ren \in BOOLEAN, NEW rot2 \in BOOLEAN, NEW ren2 \in BOOLEAN,
           NEW w, Kept(w, day, now, rot, ren), ~w.lg.open,
           NEW v, Closed(v, w, now, rot2), rot2 => rot,
           \A n \in LogNames : Ours(v, n, ren2) => Ours(w, n, ren) /\ v.lg.day = w.lg.day
    PROVE  Kept(v, day, now, rot2, ren2) /\ OnRecord(v) = OnRecord(w)
<1> USE DEF Closed
<1>1. LogShape(w) /\ Held(w) /\ Apart(w) /\ Dated(w, day, now, ren) /\ Fresh(w, day, rot, ren)
  BY DEF Kept
<1>2. w.lg.buf = {} BY <1>1 DEF Held
<1>3. LogShape(v) BY <1>1 DEF LogShape
<1>4. Held(v) BY DEF Held
<1>5. Apart(v) BY <1>1, <1>2 DEF Apart
<1>6. Dated(v, day, now, ren2)
  <2>1. ASSUME NEW k \in Archives, v.disk.now[k[1]].there, v.disk.old[k].there
        PROVE  k[2] < v.disk.now[k[1]].mtime /\ (Ours(v, k[1], ren2) => k[2] < v.lg.day)
    BY <1>1, <2>1, ArchiveNames DEF Dated
  <2> QED BY <1>1, <2>1 DEF Dated
<1>7. Fresh(v, day, rot2, ren2) BY <1>1 DEF Fresh
<1> QED BY <1>2, <1>3, <1>4, <1>5, <1>6, <1>7 DEF Kept, OnRecord

\* The fields of a logger that was not initialised.
LEMMA NoLogFields ==
    /\ DOMAIN NoLog = LgFields /\ ~NoLog.init /\ NoLog.init \in BOOLEAN /\ ~NoLog.open /\ NoLog.open \in BOOLEAN
    /\ NoLog.rotate \in BOOLEAN /\ NoLog.buf = {} /\ NoLog.name = "" /\ NoLog.path = "" /\ NoLog.day = NoDay
BY DEF NoLog, LgFields

\* What InOrder says of the present.
LEMMA PresentKept ==
    ASSUME InOrder
    PROVE  /\ Kept(LogNow, today, today, past.rotating, past.renamed)
           /\ today \in 1..MaxDay /\ today \in Days /\ today <= today /\ MaxDay \in Nat
           /\ past.rotating \in BOOLEAN /\ past.renamed \in BOOLEAN
           /\ LogNow.lg = lg /\ LogNow.disk = disk /\ DOMAIN lg = LgFields
<1>1. MaxDay \in Nat BY DaysAreNumbers
<1>2. LogNow.lg = lg /\ LogNow.disk = disk BY DEF LogNow
<1>3. DOMAIN lg = LgFields BY <1>2 DEF InOrder, Kept, LogShape
<1>4. today \in Days /\ today <= today BY <1>1 DEF InOrder, Days
<1> QED BY <1>1, <1>2, <1>3, <1>4 DEF InOrder

\* XLog_Init: path and nCurrDay are cleared, so that nCurrDay speaks of no file.
LEMMA InitStep == ASSUME InOrder, XLog_Init PROVE InOrder'
<1> DEFINE w == LogNow
           v == [lg |-> lg', disk |-> disk]
<1>1. PICK n \in LogNames :
          lg' = [NoLog EXCEPT !.init = TRUE, !.keepOpen = TRUE, !.rotate = TRUE, !.flags = LogFlags, !.name = n]
  BY DEF XLog_Init
<1>2. /\ Kept(w, today, today, past.rotating, past.renamed) /\ past.rotating \in BOOLEAN /\ past.renamed \in BOOLEAN
      /\ w.lg = lg /\ w.disk = disk /\ today \in 1..MaxDay /\ MaxDay \in Nat
  BY PresentKept
<1> HIDE DEF w
<1>3. ~w.lg.open BY <1>2 DEF Kept, Held, XLog_Init
<1>4. /\ DOMAIN lg' = LgFields /\ lg'.init = TRUE /\ lg'.rotate = TRUE /\ lg'.name = n /\ lg'.path = ""
      /\ lg'.buf = {} /\ lg'.day = NoDay /\ ~lg'.open /\ lg'.open \in BOOLEAN
  BY <1>1, NoLogFields DEF LgFields
<1>5. v.lg = lg' /\ v.disk = disk /\ DOMAIN v = {"lg", "disk"} OBVIOUS
<1> HIDE DEF v
<1>6. NoDay \in Days /\ NoDay <= today BY <1>2, DaysAreNumbers DEF NoDay
<1>7. \A m : ~Ours(v, m, past'.renamed) BY <1>4, <1>5 DEF Ours
<1>10. /\ DOMAIN past' = DOMAIN past /\ past'.rotating = past.rotating /\ past'.renamed \in BOOLEAN
       /\ past'.n = past.n /\ past'.lines = past.lines
  BY DEF XLog_Init, InOrder, PastFields
<1>8. Kept(v, today, today, past.rotating, past'.renamed) /\ OnRecord(v) = OnRecord(w)
  <2>1. /\ v.disk = w.disk /\ DOMAIN v.lg = LgFields /\ v.lg.buf = {} /\ v.lg.open \in BOOLEAN /\ ~v.lg.open
        /\ v.lg.init \in BOOLEAN /\ v.lg.rotate \in BOOLEAN /\ v.lg.rotate
    BY <1>2, <1>4, <1>5
  <2>2. v.lg.init /\ v.lg.name \in LogNames /\ v.lg.path \in {"", v.lg.name} BY <1>4, <1>5
  <2>3. v.lg.day \in Days /\ v.lg.day <= today BY <1>4, <1>5, <1>6
  <2>4. Closed(v, w, today, past.rotating) BY <1>5, <2>1, <2>2, <2>3 DEF Closed
  <2> QED BY <1>2, <1>3, <1>7, <1>10, <2>4, ReconfiguredKept
<1>9. LogCommit(v) BY <1>5 DEF LogCommit, XLog_Init
<1>11. today' = today BY DEF XLog_Init
<1> QED BY <1>2, <1>8, <1>9, <1>10, <1>11, CommitAll DEF w

\* The file is closed, whatever is configured next.
LEMMA ClosedNow ==
    ASSUME InOrder, NEW lost \in SUBSET lg.buf
    PROVE  LET w == XLog_CloseFile(LogNow, today, lost) IN
           /\ Kept(w, today, today, past.rotating, past.renamed) /\ OnRecord(w) = OnRecord(LogNow) \ lost
           /\ DOMAIN w = {"lg", "disk"} /\ DOMAIN w.lg = LgFields /\ w.lg.init = lg.init /\ w.lg.rotate = lg.rotate
           /\ w.lg.name = lg.name /\ w.lg.path = lg.path /\ w.lg.day = lg.day /\ w.lg.buf = {}
           /\ ~w.lg.open /\ w.lg.open \in BOOLEAN /\ w.lg.day \in Days /\ w.lg.day <= today
           /\ w.lg.init \in BOOLEAN /\ w.lg.rotate \in BOOLEAN
           /\ w.lg.init => w.lg.name \in LogNames /\ w.lg.path \in {"", w.lg.name}
<1> DEFINE w == XLog_CloseFile(LogNow, today, lost)
<1>1. /\ Kept(LogNow, today, today, past.rotating, past.renamed) /\ past.rotating \in BOOLEAN
      /\ past.renamed \in BOOLEAN /\ LogNow.lg = lg /\ LogNow.disk = disk /\ today \in 1..MaxDay
      /\ today \in Days /\ today <= today
  BY PresentKept
<1>2. /\ Kept(w, today, today, past.rotating, past.renamed) /\ Less(w, LogNow, lost) /\ SameConfig(w, LogNow)
      /\ w.lg.path = LogNow.lg.path /\ w.lg.day = LogNow.lg.day /\ ~w.lg.open /\ w.lg.buf = {}
  BY <1>1, CloseKept
<1> HIDE DEF w
<1>3. /\ DOMAIN w = {"lg", "disk"} /\ DOMAIN w.lg = LgFields /\ w.lg.init = lg.init /\ w.lg.rotate = lg.rotate
      /\ w.lg.name = lg.name /\ w.lg.path = lg.path /\ w.lg.day = lg.day
  BY <1>1, <1>2 DEF SameConfig
<1>4. /\ w.lg.day \in Days /\ w.lg.day <= today /\ w.lg.init \in BOOLEAN /\ w.lg.rotate \in BOOLEAN
      /\ w.lg.open \in BOOLEAN
  BY <1>2 DEF Kept, LogShape, Dated
<1>5. w.lg.init => w.lg.name \in LogNames /\ w.lg.path \in {"", w.lg.name} BY <1>2 DEF Kept, Held
<1>6. OnRecord(w) = OnRecord(LogNow) \ lost
  <2>1. LogShape(LogNow) /\ Apart(LogNow) /\ LogShape(w) BY <1>1, <1>2 DEF Kept
  <2>2. lost \subseteq LogNow.lg.buf /\ lost \cap w.lg.buf = {} BY <1>1, <1>2
  <2> QED BY <1>2, <2>1, <2>2, LessRecord
<1> QED BY <1>2, <1>3, <1>4, <1>5, <1>6 DEF w

\* XLog_Destroy.
LEMMA DestroyStep == ASSUME InOrder, XLog_Destroy PROVE InOrder'
<1>a. PICK lost \in SUBSET lg.buf :
          LET w == XLog_CloseFile(LogNow, today, lost) IN
          /\ lg.init
          /\ LogCommit([w EXCEPT !.lg = [NoLog EXCEPT !.path = w.lg.path, !.day = w.lg.day]])
          /\ past' = [past EXCEPT !.lines = @ \ lost]
          /\ UNCHANGED today
  BY Zenon DEF XLog_Destroy
<1> DEFINE w == XLog_CloseFile(LogNow, today, lost)
           v == [w EXCEPT !.lg = [NoLog EXCEPT !.path = w.lg.path, !.day = w.lg.day]]
<1>1. /\ Kept(w, today, today, past.rotating, past.renamed) /\ OnRecord(w) = OnRecord(LogNow) \ lost
      /\ DOMAIN w = {"lg", "disk"} /\ ~w.lg.open /\ w.lg.day \in Days /\ w.lg.day <= today
  BY ClosedNow
<1>2. LogCommit(v) /\ today' = today BY <1>a
<1>b. /\ DOMAIN past' = DOMAIN past /\ past'.rotating = past.rotating /\ past'.renamed = past.renamed
      /\ past'.n = past.n /\ past'.lines = past.lines \ lost
  BY <1>a DEF InOrder, PastFields
<1> HIDE DEF w
<1>3. DOMAIN v = {"lg", "disk"} /\ v.lg = [NoLog EXCEPT !.path = w.lg.path, !.day = w.lg.day] /\ v.disk = w.disk
  BY <1>1
<1> HIDE DEF v
<1>4. /\ DOMAIN v.lg = LgFields /\ ~v.lg.init /\ v.lg.init \in BOOLEAN /\ ~v.lg.open /\ v.lg.open \in BOOLEAN
      /\ v.lg.rotate \in BOOLEAN /\ v.lg.buf = {}
  BY <1>3, NoLogFields DEF LgFields
<1>5. v.lg.name = "" BY <1>3, NoLogFields DEF LgFields
<1>6. v.lg.day = w.lg.day BY <1>3, NoLogFields DEF LgFields
<1>7. past.rotating \in BOOLEAN /\ past.renamed \in BOOLEAN BY PresentKept
<1>8. Kept(v, today, today, past.rotating, past.renamed) /\ OnRecord(v) = OnRecord(w)
  <2>1. \A n \in LogNames : ~Ours(v, n, past.renamed) BY <1>5, LogAssumption DEF Ours
  <2>2. v.lg.day \in Days /\ v.lg.day <= today BY <1>1, <1>6
  <2>3. Closed(v, w, today, past.rotating) BY <1>3, <1>4, <1>5, <2>2 DEF Closed
  <2> QED BY <1>1, <1>7, <2>1, <2>3, ReconfiguredKept
<1> QED BY <1>1, <1>2, <1>b, <1>7, <1>8, CommitInv

\* DayPasses.
LEMMA DayStep == ASSUME InOrder, DayPasses PROVE InOrder'
<1>1. /\ Kept(LogNow, today, today, past.rotating, past.renamed) /\ past.rotating \in BOOLEAN
      /\ past.renamed \in BOOLEAN /\ today \in 1..MaxDay /\ MaxDay \in Nat
  BY PresentKept
<1>2. today' \in 1..MaxDay /\ today <= today' BY <1>1 DEF DayPasses
<1>3. 1..MaxDay \subseteq Days BY <1>1 DEF Days
<1>4. Kept(LogNow, today', today', past.rotating, past.renamed) BY <1>1, <1>2, <1>3, LaterKept
<1>5. LogNow' = LogNow /\ past' = past BY DEF DayPasses, LogNow
<1>6. Kept(LogNow, today, today, past.rotating, past.renamed)' BY <1>4, <1>5
<1>7. (past.lines = OnRecord(LogNow))' BY <1>5 DEF InOrder
<1> QED BY <1>2, <1>5, <1>6, <1>7 DEF InOrder

\* A crash loses what is in the buffer and nothing else.
LEMMA CrashStep == ASSUME InOrder, LogCrash PROVE InOrder'
<1> DEFINE w == LogNow
           v == LogNow'
<1>1. /\ Kept(w, today, today, past.rotating, past.renamed) /\ past.rotating \in BOOLEAN /\ past.renamed \in BOOLEAN
      /\ w.lg = lg /\ w.disk = disk /\ today \in 1..MaxDay
  BY PresentKept
<1>2. v.lg = NoLog /\ v.disk = w.disk /\ DOMAIN v = {"lg", "disk"} BY DEF LogNow, LogCrash
<1>3. past.lines = OnRecord(w) /\ \A y \in past.lines : y.n <= past.n BY DEF InOrder
<1> HIDE DEF w, v
<1>4. LogShape(w) /\ Apart(w) /\ Dated(w, today, today, past.renamed) /\ Fresh(w, today, past.rotating, past.renamed)
  BY <1>1 DEF Kept
<1>5. NoDay \in Days /\ NoDay <= today BY <1>1, DaysAreNumbers DEF NoDay
<1>6. LogShape(v)
  <2>1. v.lg.day \in Days BY <1>2, <1>5, NoLogFields
  <2>2. /\ DOMAIN v.lg = LgFields /\ v.lg.init \in BOOLEAN /\ v.lg.open \in BOOLEAN /\ v.lg.rotate \in BOOLEAN
        /\ v.lg.buf = {}
    BY <1>2, NoLogFields
  <2> QED BY <1>2, <1>4, <2>1, <2>2 DEF LogShape
<1>7. Held(v) BY <1>2, NoLogFields DEF Held
<1>8. v.lg.buf = {} BY <1>2, NoLogFields
<1>9. Apart(v) BY <1>2, <1>4, <1>8 DEF Apart
<1>10. \A n : ~Ours(v, n, past.renamed) BY <1>2, NoLogFields DEF Ours
<1>11. Dated(v, today, today, past.renamed)
  <2>1. v.lg.day <= today BY <1>2, <1>5, NoLogFields
  <2> QED BY <1>2, <1>4, <1>10, <2>1 DEF Dated
<1>12. Fresh(v, today, past.rotating, past.renamed)
  <2>1. ~v.lg.init BY <1>2, NoLogFields
  <2> QED BY <1>2, <1>4, <1>8, <1>10, <2>1 DEF Fresh
<1>13. OnRecord(v) = past.lines \ lg.buf
  <2>1. ASSUME NEW y PROVE y \in OnRecord(v) <=> y \in OnRecord(w) /\ y \notin w.lg.buf
    <3>1. y \in OnRecord(w) <=> y \in w.lg.buf \/ OnDisk(w, y) BY <1>4, Recorded
    <3>2. y \in OnRecord(v) <=> y \in v.lg.buf \/ OnDisk(v, y) BY <1>6, Recorded
    <3>3. ~(y \in w.lg.buf /\ OnDisk(w, y)) BY <1>4 DEF Apart, OnDisk
    <3>4. OnDisk(v, y) <=> OnDisk(w, y) BY <1>2 DEF OnDisk
    <3> QED BY <1>8, <3>1, <3>2, <3>3, <3>4
  <2> QED BY <1>1, <1>3, <2>1
<1>14. past' = [past EXCEPT !.lines = @ \ lg.buf] /\ today' = today BY DEF LogCrash
<1>15. /\ DOMAIN past' = DOMAIN past /\ past'.rotating = past.rotating /\ past'.renamed = past.renamed
       /\ past'.n = past.n /\ past'.lines = past.lines \ lg.buf
  BY <1>14 DEF InOrder, PastFields
<1>16. Kept(v, today, today, past.rotating, past.renamed)
  BY <1>6, <1>7, <1>9, <1>11, <1>12 DEF Kept
<1>17. Kept(LogNow, today, today, past.rotating, past.renamed)' BY <1>14, <1>15, <1>16 DEF v
<1>18. (past.lines = OnRecord(LogNow))' BY <1>13, <1>15 DEF v
<1>19. \A y \in past'.lines : y.n <= past'.n BY <1>3, <1>15
<1> QED BY <1>14, <1>15, <1>17, <1>18, <1>19 DEF InOrder

\* XLog_FlushSet and the flags.
LEMMA SwitchStep == ASSUME InOrder, LogSwitch PROVE InOrder'
<1> DEFINE w == LogNow
           v == [lg |-> lg', disk |-> disk]
<1>1. /\ Kept(w, today, today, past.rotating, past.renamed) /\ past.rotating \in BOOLEAN /\ past.renamed \in BOOLEAN
      /\ w.lg = lg /\ w.disk = disk /\ DOMAIN lg = LgFields
  BY PresentKept
<1>2. \E x : lg' = [lg EXCEPT !.flush = x] \/ lg' = [lg EXCEPT !.flags = x] BY DEF LogSwitch
<1>3. /\ DOMAIN lg' = LgFields /\ lg'.init = lg.init /\ lg'.name = lg.name /\ lg'.path = lg.path
      /\ lg'.open = lg.open /\ lg'.buf = lg.buf /\ lg'.day = lg.day /\ lg'.rotate = lg.rotate
  <2>1. PICK x : lg' = [lg EXCEPT !.flush = x] \/ lg' = [lg EXCEPT !.flags = x] BY <1>2
  <2>2. CASE lg' = [lg EXCEPT !.flush = x] BY <1>1, <2>2 DEF LgFields
  <2>3. CASE lg' = [lg EXCEPT !.flags = x] BY <1>1, <2>3 DEF LgFields
  <2> QED BY <2>1, <2>2, <2>3
<1>4. v.lg = lg' /\ v.disk = disk /\ DOMAIN v = {"lg", "disk"} OBVIOUS
<1> HIDE DEF v, w
<1>5. w.lg.rotate \in BOOLEAN /\ (past.rotating /\ w.lg.init => w.lg.rotate) BY <1>1 DEF Kept, LogShape, Fresh
<1>6. Kept(v, today, today, past.rotating, past.renamed) /\ OnRecord(v) = OnRecord(w)
  <2>1. /\ DOMAIN v.lg = LgFields /\ v.disk = w.disk /\ v.lg.init = w.lg.init /\ v.lg.name = w.lg.name
        /\ v.lg.path = w.lg.path /\ v.lg.open = w.lg.open /\ v.lg.buf = w.lg.buf /\ v.lg.day = w.lg.day
    BY <1>1, <1>3, <1>4
  <2>2. v.lg.rotate \in BOOLEAN /\ (past.rotating /\ v.lg.init => v.lg.rotate) BY <1>1, <1>3, <1>4, <1>5
  <2>3. Switched(v, w, past.rotating) BY <1>4, <2>1, <2>2 DEF Switched
  <2> QED BY <1>1, <2>3, SwitchedKept
<1>7. LogCommit(v) BY <1>4 DEF LogCommit, LogSwitch
<1>8. /\ DOMAIN past' = DOMAIN past /\ past'.rotating = past.rotating /\ past'.renamed = past.renamed
      /\ past'.n = past.n /\ past'.lines = past.lines
  BY DEF LogSwitch, InOrder, PastFields
<1>9. today' = today BY DEF LogSwitch
<1> QED BY <1>1, <1>6, <1>7, <1>8, <1>9, CommitAll DEF w

\* After a line was printed nCurrDay speaks of the file, whatever was renamed before.
LEMMA SettledKept ==
    ASSUME NEW day, NEW now, NEW rot, NEW ren, NEW w, Kept(w, day, now, rot, ren), w.lg.path = w.lg.name
    PROVE  Kept(w, day, now, rot, FALSE)
<1>1. \A n : Ours(w, n, FALSE) <=> Ours(w, n, ren) BY DEF Ours
<1>2. Dated(w, day, now, FALSE) BY <1>1 DEF Kept, Dated
<1>3. Fresh(w, day, rot, FALSE) BY <1>1 DEF Kept, Fresh
<1> QED BY <1>2, <1>3 DEF Kept

\* What happened to the line of a message.
Display(line, now, fail, lost, spill) ==
    LET w == XLog_DisplayMessage(LogNow, line, now, fail, lost, spill)
        printed == Printed(LogNow, today, fail) IN
    /\ lg.init /\ now <= MaxDay /\ today' = now
    /\ Writes(w, lost) /\ LogCommit(w)
    /\ past' = [past EXCEPT !.n = @ + 1,
                            !.lines = (IF printed THEN @ \cup {line} ELSE @) \ lost,
                            !.renamed = @ /\ ~printed,
                            !.misdated = @ \/ (past.renamed /\ ~printed)
                                           \/ ArchivedAhead(LogNow, today, now, fail, lost)]

LEMMA Displayed ==
    ASSUME LogDisplay
    PROVE  LET line == [n |-> past.n + 1, day |-> today] IN
           \E now \in {today, today + 1}, spill \in BOOLEAN, fail \in SUBSET {"archive", "rename", "open", "flush"},
              lost \in SUBSET (lg.buf \cup {line}) : Display(line, now, fail, lost, spill)
<1>1. PICK f \in LogFlags, late \in BOOLEAN, spill \in BOOLEAN, fail \in SUBSET Attempted(today) :
        LET now == IF late THEN today + 1 ELSE today
            line == [n |-> past.n + 1, day |-> today]
            printed == Printed(LogNow, today, fail) IN
        /\ lg.init /\ past.n < MaxLines /\ now <= MaxDay
        /\ f \in lg.flags
        /\ lg.toFile /\ (spill => ~lg.flush)
        /\ \E lost \in SUBSET (lg.buf \cup {line}) :
              LET w == XLog_DisplayMessage(LogNow, line, now, fail, lost, spill) IN
              /\ Writes(w, lost)
              /\ LogCommit(w)
              /\ past' = [past EXCEPT !.n = @ + 1,
                                      !.lines = (IF printed THEN @ \cup {line} ELSE @) \ lost,
                                      !.renamed = @ /\ ~printed,
                                      !.misdated = @ \/ (past.renamed /\ ~printed)
                                                     \/ ArchivedAhead(LogNow, today, now, fail, lost)]
        /\ today' = now
  BY Zenon DEF LogDisplay
<1> DEFINE now == IF late THEN today + 1 ELSE today
           line == [n |-> past.n + 1, day |-> today]
<1>2. now \in {today, today + 1} OBVIOUS
<1>f. fail \in SUBSET {"archive", "rename", "open", "flush"} BY DEF Attempted
<1>3. PICK lost \in SUBSET (lg.buf \cup {line}) :
        LET w == XLog_DisplayMessage(LogNow, line, now, fail, lost, spill)
            printed == Printed(LogNow, today, fail) IN
        /\ Writes(w, lost)
        /\ LogCommit(w)
        /\ past' = [past EXCEPT !.n = @ + 1,
                                !.lines = (IF printed THEN @ \cup {line} ELSE @) \ lost,
                                !.renamed = @ /\ ~printed,
                                !.misdated = @ \/ (past.renamed /\ ~printed)
                                               \/ ArchivedAhead(LogNow, today, now, fail, lost)]
  BY <1>1, Zenon
<1>4. lg.init /\ now <= MaxDay /\ today' = now BY <1>1
<1> HIDE DEF now, line
<1>5. Display(line, now, fail, lost, spill) BY <1>3, <1>4, Zenon DEF Display
<1> QED BY <1>2, <1>f, <1>5, Zenon DEF line

\* XLog_Display: no line has the number of the next one.
LEMMA DisplayStep == ASSUME InOrder, past.misdated \in BOOLEAN, LogDisplay, ~past'.misdated PROVE InOrder'
<1> DEFINE w == LogNow
           line == [n |-> past.n + 1, day |-> today]
<1>1. PICK now \in {today, today + 1}, spill \in BOOLEAN, fail \in SUBSET {"archive", "rename", "open", "flush"},
           lost \in SUBSET (lg.buf \cup {line}) : Display(line, now, fail, lost, spill)
  BY Displayed
<1>2. /\ Kept(w, today, today, past.rotating, past.renamed) /\ past.rotating \in BOOLEAN /\ past.renamed \in BOOLEAN
      /\ w.lg = lg /\ w.disk = disk /\ today \in 1..MaxDay /\ MaxDay \in Nat
  BY PresentKept
<1>3. past.n \in Nat /\ past.lines = OnRecord(w) /\ \A y \in past.lines : y.n <= past.n BY DEF InOrder
<1>4. today' = now BY <1>1 DEF Display
<1>5. Display(line, today', fail, lost, spill) BY <1>1, <1>4
<1>d. lost \subseteq lg.buf \cup {line} OBVIOUS
<1> DEFINE x == XLog_DisplayMessage(w, line, today', fail, lost, spill)
           printed == Printed(w, today, fail)
           ahead == ArchivedAhead(w, today, today', fail, lost)
<1>6. line \in LogLines /\ line.n = past.n + 1 /\ line.day = today BY <1>2, <1>3 DEF LogLines
<1>a. /\ lg.init /\ today' <= MaxDay /\ Writes(x, lost) /\ LogCommit(x)
      /\ past' = [past EXCEPT !.n = @ + 1, !.lines = (IF printed THEN @ \cup {line} ELSE @) \ lost,
                              !.renamed = @ /\ ~printed,
                              !.misdated = @ \/ (past.renamed /\ ~printed) \/ ahead]
  BY <1>5 DEF Display
<1>7. line \notin OnRecord(w)
  <2>1. \A y \in OnRecord(w) : y.n <= past.n BY <1>3
  <2>2. ~(past.n + 1 <= past.n) BY <1>3
  <2> HIDE DEF line
  <2> QED BY <1>6, <2>1, <2>2
<1> HIDE DEF line, w, x, printed, ahead
<1>8. today' \in 1..MaxDay /\ today' \in Days /\ today <= today' BY <1>2, <1>4, <1>a DEF Days
<1>12. /\ DOMAIN past' = PastFields /\ past'.rotating = past.rotating
       /\ past'.renamed = (past.renamed /\ ~printed)
       /\ past'.misdated = (past.misdated \/ (past.renamed /\ ~printed) \/ ahead)
       /\ past'.n = past.n + 1
       /\ past'.lines = (IF printed THEN past.lines \cup {line} ELSE past.lines) \ lost
  BY <1>a DEF InOrder, PastFields
<1>b. ~ahead /\ (printed \/ ~past.renamed) BY <1>12
<1>c. lost \subseteq w.lg.buf \cup {line} BY <1>2, <1>d
<1>9. /\ Kept(x, today, today', past.rotating, past.renamed)
      /\ printed => x.lg.path = x.lg.name
      /\ OnRecord(x) = (IF printed THEN OnRecord(w) \cup {line} ELSE OnRecord(w)) \ lost
  <2>1. ~ArchivedAhead(w, today, today', fail, lost) /\ (Printed(w, today, fail) \/ ~past.renamed)
    BY <1>b DEF ahead, printed
  <2>2. w.lg.init BY <1>2, <1>a
  <2>3. Writes(x, lost) BY <1>a
  <2>4. After(x, w, line, today', fail, lost, spill) BY DEF After, x
  <2>5. Kept(x, today, today', past.rotating, past.renamed) /\ Told(x, w, line, today, fail, lost)
    BY <1>2, <1>6, <1>7, <1>8, <1>c, <2>1, <2>2, <2>4, DisplayKept
  <2> QED BY <2>3, <2>5 DEF printed, Told
<1>10. today' <= today' BY <1>2, <1>8
<1>11. Kept(x, today', today', past.rotating, past'.renamed)
  <2>1. Kept(x, today', today', past.rotating, past.renamed) BY <1>2, <1>8, <1>9, <1>10, LaterKept
  <2>2. CASE printed
    <3>1. past'.renamed = FALSE BY <1>12, <2>2
    <3> QED BY <1>9, <2>1, <2>2, <3>1, SettledKept
  <2>3. CASE ~printed
    <3>1. past'.renamed = FALSE /\ past.renamed = FALSE BY <1>2, <1>12, <1>b, <2>3
    <3> QED BY <2>1, <3>1
  <2> QED BY <2>2, <2>3
<1>13. \A y \in past'.lines : y.n <= past'.n
  <2>1. ASSUME NEW y \in past.lines PROVE y.n <= past.n + 1
    <3>1. y \in OnRecord(w) BY <1>3
    <3>2. LogShape(w) BY <1>2 DEF Kept
    <3>3. y \in LogLines
      <4>1. y \in w.lg.buf \/ OnDisk(w, y) BY <3>1, <3>2, Recorded
      <4> QED BY <3>2, <4>1 DEF LogShape, FileOK, OnDisk
    <3>4. y.n \in Nat /\ y.n <= past.n BY <1>3, <3>3 DEF LogLines
    <3> QED BY <1>3, <3>4
  <2>2. line.n <= past.n + 1 BY <1>3, <1>6
  <2> QED BY <1>12, <2>1, <2>2
<1> DEFINE v == LogNow'
<1>14. DOMAIN v = {"lg", "disk"} /\ v.lg = x.lg /\ v.disk = x.disk BY <1>a DEF LogNow, LogCommit
<1> HIDE DEF v
<1>15. Kept(v, today', today', past.rotating, past'.renamed) /\ OnRecord(v) = OnRecord(x)
  BY <1>11, <1>14, SameKept
<1>16. Kept(LogNow, today, today, past.rotating, past.renamed)' BY <1>12, <1>15 DEF v
<1>17. past'.lines = OnRecord(v) BY <1>3, <1>9, <1>12, <1>15
<1>18. (past.lines = OnRecord(LogNow))' BY <1>17 DEF v
<1>19. past'.n \in Nat BY <1>3, <1>12
<1>20. past'.rotating \in BOOLEAN /\ past'.renamed \in BOOLEAN BY <1>2, <1>12
<1> QED BY <1>8, <1>12, <1>13, <1>16, <1>18, <1>19, <1>20 DEF InOrder

\* v is c with the path cleared and the name set.
Unnamed(v, c, n) ==
    /\ DOMAIN v = {"lg", "disk"} /\ DOMAIN v.lg = LgFields /\ v.disk = c.disk
    /\ v.lg.init = c.lg.init /\ v.lg.open = c.lg.open /\ v.lg.buf = c.lg.buf /\ v.lg.day = c.lg.day
    /\ v.lg.path = "" /\ v.lg.name = n /\ v.lg.rotate \in BOOLEAN

\* Closing the file and clearing its path: as long as the name is the one nCurrDay was
\* set for it still speaks of the file, afterwards of none.
LEMMA UnnamedKept ==
    ASSUME InOrder, lg.init, NEW lost \in SUBSET lg.buf, NEW n \in LogNames, NEW v, Unnamed(v, XLog_CloseFile(LogNow, today, lost), n),
           NEW rot2 \in BOOLEAN, NEW ren2 \in BOOLEAN, rot2 => past.rotating /\ v.lg.rotate,
           ~ren2 => ~past.renamed /\ (n = lg.name \/ lg.day = NoDay)
    PROVE  Kept(v, today, today, rot2, ren2) /\ OnRecord(v) = OnRecord(LogNow) \ lost
<1> DEFINE c == XLog_CloseFile(LogNow, today, lost)
<1>1. /\ Kept(c, today, today, past.rotating, past.renamed) /\ OnRecord(c) = OnRecord(LogNow) \ lost
      /\ c.lg.init = lg.init /\ c.lg.name = lg.name /\ c.lg.buf = {} /\ c.lg.day = lg.day
      /\ ~c.lg.open /\ c.lg.open \in BOOLEAN /\ c.lg.day \in Days /\ c.lg.day <= today
      /\ c.lg.init \in BOOLEAN
  BY ClosedNow
<1>2. past.rotating \in BOOLEAN /\ past.renamed \in BOOLEAN BY PresentKept
<1>3. Unnamed(v, c, n) OBVIOUS
<1> HIDE DEF c
<1>4. Closed(v, c, today, rot2) BY <1>1, <1>3 DEF Closed, Unnamed
<1>5. ASSUME NEW m \in LogNames, Ours(v, m, ren2) PROVE Ours(c, m, past.renamed) /\ v.lg.day = c.lg.day
  <2>1. v.lg.path # m
    <3>1. "" \notin LogNames BY LogAssumption
    <3> QED BY <1>3, <3>1 DEF Unnamed
  <2>2. m = v.lg.name /\ ~ren2 /\ v.lg.day # NoDay BY <1>5, <2>1 DEF Ours
  <2>3. v.lg.name = n /\ v.lg.day = c.lg.day BY <1>3 DEF Unnamed
  <2>4. m = c.lg.name /\ ~past.renamed /\ c.lg.day # NoDay BY <1>1, <2>2, <2>3
  <2> QED BY <2>3, <2>4 DEF Ours
<1>6. \A m \in LogNames : Ours(v, m, ren2) => Ours(c, m, past.renamed) /\ v.lg.day = c.lg.day BY <1>5
<1>7. Kept(c, today, today, past.rotating, past.renamed) /\ ~c.lg.open /\ (rot2 => past.rotating) BY <1>1
<1>8. Kept(v, today, today, rot2, ren2) /\ OnRecord(v) = OnRecord(c) BY <1>2, <1>4, <1>6, <1>7, ReconfiguredKept
<1> QED BY <1>1, <1>8

\* XLog_ConfigSet.
LEMMA ConfigStep == ASSUME InOrder, LogConfigSet PROVE InOrder'
<1>1. PICK n \in LogNames, toFile \in BOOLEAN, keep \in BOOLEAN, rot \in BOOLEAN, fl \in BOOLEAN,
            lost \in SUBSET lg.buf :
          LET w == IF ~toFile \/ n # lg.name THEN [XLog_CloseFile(LogNow, today, lost) EXCEPT !.lg.path = ""] ELSE LogNow IN
          /\ MayChange /\ Writes(w, lost)
          /\ LogCommit([w EXCEPT !.lg.name = n, !.lg.toFile = toFile, !.lg.keepOpen = keep, !.lg.rotate = rot, !.lg.flush = fl])
          /\ past' = [past EXCEPT !.lines = @ \ lost, !.changes = Counted, !.rotating = @ /\ rot, !.renamed = Renamed(n)]
          /\ UNCHANGED today
  BY Zenon DEF LogConfigSet
<1> DEFINE c == XLog_CloseFile(LogNow, today, lost)
           u == [c EXCEPT !.lg.path = ""]
           v == [u EXCEPT !.lg.name = n, !.lg.toFile = toFile, !.lg.keepOpen = keep, !.lg.rotate = rot, !.lg.flush = fl]
           x == [LogNow EXCEPT !.lg.name = n, !.lg.toFile = toFile, !.lg.keepOpen = keep, !.lg.rotate = rot, !.lg.flush = fl]
<1>2. /\ Kept(LogNow, today, today, past.rotating, past.renamed) /\ past.rotating \in BOOLEAN
      /\ past.renamed \in BOOLEAN /\ LogNow.lg = lg /\ LogNow.disk = disk /\ DOMAIN lg = LgFields
  BY PresentKept
<1>3. /\ DOMAIN past' = DOMAIN past /\ past'.rotating \in BOOLEAN /\ past'.renamed \in BOOLEAN
      /\ past'.n = past.n /\ past'.lines = past.lines \ lost
      /\ (past'.rotating <=> past.rotating /\ rot)
      /\ (past'.renamed <=> past.renamed \/ (n # lg.name /\ lg.day # NoDay))
  BY <1>1, <1>2 DEF InOrder, PastFields, Renamed
<1>4. today' = today /\ lg.init BY <1>1 DEF MayChange
<1>5. CASE ~toFile \/ n # lg.name
  <2>1. LogCommit(v) BY <1>1, <1>5
  <2>2. DOMAIN c = {"lg", "disk"} /\ DOMAIN c.lg = LgFields BY ClosedNow
  <2>3. Unnamed(v, c, n)
    <3> HIDE DEF c
    <3>1. DOMAIN u = {"lg", "disk"} /\ u.lg = [c.lg EXCEPT !.path = ""] /\ u.disk = c.disk BY <2>2
    <3> HIDE DEF u
    <3>2. DOMAIN u.lg = LgFields /\ u.lg.init = c.lg.init /\ u.lg.open = c.lg.open /\ u.lg.buf = c.lg.buf /\ u.lg.day = c.lg.day
      BY <2>2, <3>1 DEF LgFields
    <3>3. u.lg.path = "" BY <2>2, <3>1 DEF LgFields
    <3>4. /\ DOMAIN v = {"lg", "disk"} /\ v.disk = c.disk
          /\ v.lg = [u.lg EXCEPT !.name = n, !.toFile = toFile, !.keepOpen = keep, !.rotate = rot, !.flush = fl]
      BY <3>1
    <3> HIDE DEF v
    <3>5. /\ DOMAIN v.lg = LgFields /\ v.lg.init = u.lg.init /\ v.lg.open = u.lg.open /\ v.lg.buf = u.lg.buf
          /\ v.lg.day = u.lg.day /\ v.lg.rotate = rot /\ v.lg.name = n
      BY <3>2, <3>4 DEF LgFields
    <3>6. v.lg.path = "" BY <3>2, <3>3, <3>4 DEF LgFields
    <3> QED BY <3>2, <3>4, <3>5, <3>6 DEF Unnamed
  <2>4. v.lg.rotate = rot
    <3> HIDE DEF c
    <3>1. DOMAIN u = {"lg", "disk"} /\ DOMAIN u.lg = LgFields BY <2>2
    <3> HIDE DEF u
    <3> QED BY <3>1 DEF LgFields
  <2> HIDE DEF v
  <2>5. Kept(v, today, today, past'.rotating, past'.renamed) /\ OnRecord(v) = OnRecord(LogNow) \ lost
    BY <1>3, <1>4, <2>3, <2>4, UnnamedKept
  <2> QED BY <1>3, <1>4, <2>1, <2>5, CommitInv
<1>6. CASE ~(~toFile \/ n # lg.name)
  <2>1. LogCommit(x) BY <1>1, <1>6
  <2> DEFINE w == LogNow
  <2>2. DOMAIN w = {"lg", "disk"} BY DEF LogNow
  <2> HIDE DEF w
  <2>3. /\ DOMAIN x = {"lg", "disk"} /\ x.disk = w.disk
        /\ x.lg = [w.lg EXCEPT !.name = n, !.toFile = toFile, !.keepOpen = keep, !.rotate = rot, !.flush = fl]
    BY <2>2 DEF w
  <2> HIDE DEF x
  <2>4. /\ DOMAIN x.lg = LgFields /\ x.lg.init = w.lg.init /\ x.lg.open = w.lg.open /\ x.lg.buf = w.lg.buf
        /\ x.lg.day = w.lg.day /\ x.lg.rotate = rot /\ x.lg.name = w.lg.name /\ x.lg.path = w.lg.path
    <3>1. w.lg = lg BY <1>2 DEF w
    <3>2. n = w.lg.name BY <1>6, <3>1
    <3> QED BY <1>2, <2>3, <3>1, <3>2 DEF LgFields
  <2>5. (past'.renamed <=> past.renamed) /\ (past'.rotating => past.rotating /\ rot) BY <1>3, <1>6
  <2>6. past'.renamed = past.renamed BY <1>2, <1>3, <2>5
  <2>7. Kept(w, today, today, past.rotating, past.renamed) BY <1>2 DEF w
  <2>8. Kept(x, today, today, past'.rotating, past.renamed) /\ OnRecord(x) = OnRecord(w)
    <3>1. x.lg.rotate \in BOOLEAN /\ (past'.rotating => past.rotating) /\ (past'.rotating /\ x.lg.init => x.lg.rotate)
      BY <2>4, <2>5
    <3>2. Switched(x, w, past'.rotating) BY <2>3, <2>4, <3>1 DEF Switched
    <3> QED BY <1>2, <1>3, <2>7, <3>1, <3>2, SwitchedKept
  <2>9. past'.lines = past.lines /\ OnRecord(x) = OnRecord(LogNow)
    <3>1. lost = {} BY <1>1, <1>2, <1>6 DEF Writes
    <3> QED BY <1>3, <2>8, <3>1 DEF w
  <2> QED BY <1>3, <1>4, <2>1, <2>6, <2>8, <2>9, CommitAll DEF w
<1> QED BY <1>5, <1>6

\* XLog_NameSet and XLog_PathSet.
LEMMA NameStep == ASSUME InOrder, LogNameSet PROVE InOrder'
<1>1. PICK n \in LogNames, lost \in SUBSET lg.buf :
          LET w == IF n # lg.name THEN [XLog_CloseFile(LogNow, today, lost) EXCEPT !.lg.path = ""] ELSE LogNow IN
          /\ MayChange /\ Writes(w, lost)
          /\ LogCommit([w EXCEPT !.lg.name = n])
          /\ past' = [past EXCEPT !.lines = @ \ lost, !.changes = Counted, !.renamed = Renamed(n)]
          /\ UNCHANGED today
  BY Zenon DEF LogNameSet
<1> DEFINE c == XLog_CloseFile(LogNow, today, lost)
           u == [c EXCEPT !.lg.path = ""]
           v == [u EXCEPT !.lg.name = n]
           x == [LogNow EXCEPT !.lg.name = n]
<1>2. /\ Kept(LogNow, today, today, past.rotating, past.renamed) /\ past.rotating \in BOOLEAN
      /\ past.renamed \in BOOLEAN /\ LogNow.lg = lg /\ LogNow.disk = disk /\ DOMAIN lg = LgFields
  BY PresentKept
<1>3. /\ DOMAIN past' = DOMAIN past /\ past'.rotating = past.rotating /\ past'.renamed \in BOOLEAN
      /\ past'.n = past.n /\ past'.lines = past.lines \ lost
      /\ (past'.renamed <=> past.renamed \/ (n # lg.name /\ lg.day # NoDay))
  BY <1>1, <1>2 DEF InOrder, PastFields, Renamed
<1>4. today' = today /\ lg.init BY <1>1 DEF MayChange
<1>5. CASE n # lg.name
  <2>1. LogCommit(v) BY <1>1, <1>5
  <2>2. /\ DOMAIN c = {"lg", "disk"} /\ DOMAIN c.lg = LgFields /\ c.lg.rotate \in BOOLEAN /\ c.lg.init = lg.init
        /\ Kept(c, today, today, past.rotating, past.renamed)
    BY ClosedNow
  <2> HIDE DEF c
  <2>3. Unnamed(v, c, n) /\ v.lg.rotate = c.lg.rotate
    <3>1. DOMAIN u = {"lg", "disk"} /\ u.lg = [c.lg EXCEPT !.path = ""] /\ u.disk = c.disk BY <2>2
    <3> HIDE DEF u
    <3>2. /\ DOMAIN u.lg = LgFields /\ u.lg.init = c.lg.init /\ u.lg.open = c.lg.open /\ u.lg.buf = c.lg.buf
          /\ u.lg.day = c.lg.day /\ u.lg.rotate = c.lg.rotate
      BY <2>2, <3>1 DEF LgFields
    <3>3. u.lg.path = "" BY <2>2, <3>1 DEF LgFields
    <3>4. DOMAIN v = {"lg", "disk"} /\ v.disk = c.disk /\ v.lg = [u.lg EXCEPT !.name = n] BY <3>1
    <3> HIDE DEF v
    <3>5. /\ DOMAIN v.lg = LgFields /\ v.lg.init = u.lg.init /\ v.lg.open = u.lg.open /\ v.lg.buf = u.lg.buf
          /\ v.lg.day = u.lg.day /\ v.lg.rotate = u.lg.rotate /\ v.lg.name = n
      BY <3>2, <3>4 DEF LgFields
    <3>6. v.lg.path = "" BY <3>2, <3>3, <3>4 DEF LgFields
    <3> QED BY <2>2, <3>2, <3>4, <3>5, <3>6 DEF Unnamed
  <2> HIDE DEF v
  <2>4. past'.rotating => past.rotating /\ v.lg.rotate
    BY <1>3, <1>4, <2>2, <2>3 DEF Kept, Fresh
  <2>5. Kept(v, today, today, past'.rotating, past'.renamed) /\ OnRecord(v) = OnRecord(LogNow) \ lost
    BY <1>2, <1>3, <1>4, <2>3, <2>4, UnnamedKept DEF c
  <2> QED BY <1>2, <1>3, <1>4, <2>1, <2>5, CommitInv
<1>6. CASE n = lg.name
  <2>1. LogCommit(x) BY <1>1, <1>6
  <2> DEFINE w == LogNow
  <2>2. DOMAIN w = {"lg", "disk"} BY DEF LogNow
  <2> HIDE DEF w
  <2>3. DOMAIN x = {"lg", "disk"} /\ x.disk = w.disk /\ x.lg = [w.lg EXCEPT !.name = n] BY <2>2 DEF w
  <2> HIDE DEF x
  <2>4. /\ DOMAIN x.lg = LgFields /\ x.lg.init = w.lg.init /\ x.lg.open = w.lg.open /\ x.lg.buf = w.lg.buf
        /\ x.lg.day = w.lg.day /\ x.lg.rotate = w.lg.rotate /\ x.lg.name = w.lg.name /\ x.lg.path = w.lg.path
    <3>1. w.lg = lg BY <1>2 DEF w
    <3>2. n = w.lg.name BY <1>6, <3>1
    <3> QED BY <1>2, <2>3, <3>1, <3>2 DEF LgFields
  <2>5. Kept(w, today, today, past.rotating, past.renamed) BY <1>2 DEF w
  <2>6. w.lg.rotate \in BOOLEAN /\ (past.rotating /\ w.lg.init => w.lg.rotate) BY <2>5 DEF Kept, LogShape, Fresh
  <2>7. Switched(x, w, past.rotating) BY <2>3, <2>4, <2>6 DEF Switched
  <2>8. Kept(x, today, today, past.rotating, past.renamed) /\ OnRecord(x) = OnRecord(w)
    BY <1>2, <2>5, <2>7, SwitchedKept
  <2>9. past'.renamed = past.renamed BY <1>2, <1>3, <1>6
  <2>10. past'.lines = past.lines /\ OnRecord(x) = OnRecord(LogNow)
    <3>1. lost = {} BY <1>1, <1>2, <1>6 DEF Writes
    <3> QED BY <1>3, <2>8, <3>1 DEF w
  <2> QED BY <1>2, <1>3, <1>4, <2>1, <2>8, <2>9, <2>10, CommitAll DEF w
<1> QED BY <1>5, <1>6

\* XLog_FileLogSet.
LEMMA FileLogStep == ASSUME InOrder, LogFileLogSet PROVE InOrder'
<1>1. PICK on \in BOOLEAN, lost \in SUBSET lg.buf :
          LET w == IF on THEN LogNow ELSE XLog_CloseFile(LogNow, today, lost) IN
          /\ MayChange /\ Writes(w, lost)
          /\ LogCommit([w EXCEPT !.lg.toFile = on])
          /\ past' = [past EXCEPT !.lines = @ \ lost, !.changes = Counted]
          /\ UNCHANGED today
  BY Zenon DEF LogFileLogSet
<1> DEFINE w == IF on THEN LogNow ELSE XLog_CloseFile(LogNow, today, lost)
           v == [w EXCEPT !.lg.toFile = on]
<1>2. /\ Kept(LogNow, today, today, past.rotating, past.renamed) /\ past.rotating \in BOOLEAN
      /\ past.renamed \in BOOLEAN /\ LogNow.lg = lg
  BY PresentKept
<1>3. Kept(XLog_CloseFile(LogNow, today, lost), today, today, past.rotating, past.renamed)
      /\ OnRecord(XLog_CloseFile(LogNow, today, lost)) = OnRecord(LogNow) \ lost
  BY ClosedNow
<1>4. Kept(w, today, today, past.rotating, past.renamed) /\ OnRecord(w) = OnRecord(LogNow) \ lost
  <2>1. CASE on
    <3>1. w = LogNow BY <2>1
    <3>2. lost = {} BY <1>1, <1>2, <2>1 DEF Writes
    <3> HIDE DEF w
    <3> QED BY <1>2, <3>1, <3>2
  <2>2. CASE ~on
    <3>1. w = XLog_CloseFile(LogNow, today, lost) BY <2>2
    <3> HIDE DEF w
    <3> QED BY <1>3, <3>1
  <2> QED BY <2>1, <2>2
<1>5. LogCommit(v) BY <1>1
<1> HIDE DEF w
<1>6. LogShape(w) /\ (past.rotating /\ w.lg.init => w.lg.rotate) BY <1>4 DEF Kept, Fresh
<1>7. DOMAIN v = {"lg", "disk"} /\ v.disk = w.disk /\ v.lg = [w.lg EXCEPT !.toFile = on] BY <1>6 DEF LogShape
<1> HIDE DEF v
<1>8. Switched(v, w, past.rotating)
  <2>1. /\ DOMAIN v.lg = LgFields /\ v.lg.init = w.lg.init /\ v.lg.open = w.lg.open /\ v.lg.buf = w.lg.buf
        /\ v.lg.day = w.lg.day /\ v.lg.rotate = w.lg.rotate /\ v.lg.name = w.lg.name /\ v.lg.path = w.lg.path
    BY <1>6, <1>7 DEF LogShape, LgFields
  <2>2. w.lg.rotate \in BOOLEAN BY <1>6 DEF LogShape
  <2> QED BY <1>6, <1>7, <2>1, <2>2 DEF Switched
<1>9. Kept(v, today, today, past.rotating, past.renamed) /\ OnRecord(v) = OnRecord(w)
  BY <1>2, <1>4, <1>8, SwitchedKept
<1>10. /\ DOMAIN past' = DOMAIN past /\ past'.rotating = past.rotating /\ past'.renamed = past.renamed
       /\ past'.n = past.n /\ past'.lines = past.lines \ lost /\ today' = today
  BY <1>1 DEF InOrder, PastFields
<1> QED BY <1>2, <1>4, <1>5, <1>9, <1>10, CommitInv

\* What happened to the files is not forgotten.
LEMMA PastGrows ==
    ASSUME DOMAIN past = PastFields, past.misdated \in BOOLEAN, LogNext
    PROVE  DOMAIN past' = PastFields /\ past'.misdated \in BOOLEAN /\ (past.misdated => past'.misdated)
<1> USE DEF PastFields
<1>1. CASE LogDisplay
  <2>1. PICK line, now, spill, fail, lost : Display(line, now, fail, lost, spill) BY <1>1, Displayed, Zenon
  <2> QED BY <2>1 DEF Display
<1>2. CASE XLog_Init BY <1>2 DEF XLog_Init
<1>3. CASE XLog_Destroy
  <2>1. PICK lost \in SUBSET lg.buf : past' = [past EXCEPT !.lines = @ \ lost] BY <1>3, Zenon DEF XLog_Destroy
  <2> QED BY <2>1
<1>4. CASE LogConfigSet
  <2>1. PICK n \in LogNames, toFile \in BOOLEAN, keep \in BOOLEAN, rot \in BOOLEAN, fl \in BOOLEAN,
              lost \in SUBSET lg.buf :
          LET w == IF ~toFile \/ n # lg.name THEN [XLog_CloseFile(LogNow, today, lost) EXCEPT !.lg.path = ""] ELSE LogNow IN
          /\ MayChange /\ Writes(w, lost)
          /\ LogCommit([w EXCEPT !.lg.name = n, !.lg.toFile = toFile, !.lg.keepOpen = keep, !.lg.rotate = rot, !.lg.flush = fl])
          /\ past' = [past EXCEPT !.lines = @ \ lost, !.changes = Counted, !.rotating = @ /\ rot, !.renamed = Renamed(n)]
          /\ UNCHANGED today
    BY <1>4, Zenon DEF LogConfigSet
  <2> DEFINE rotating == past.rotating /\ rot
  <2>2. past' = [past EXCEPT !.lines = @ \ lost, !.changes = Counted, !.rotating = rotating, !.renamed = Renamed(n)]
    BY <2>1, Zenon
  <2> HIDE DEF rotating
  <2> QED BY <2>2
<1>5. CASE LogNameSet
  <2>1. PICK n \in LogNames, lost \in SUBSET lg.buf :
            past' = [past EXCEPT !.lines = @ \ lost, !.changes = Counted, !.renamed = Renamed(n)]
    BY <1>5, Zenon DEF LogNameSet
  <2> QED BY <2>1
<1>6. CASE LogFileLogSet
  <2>1. PICK lost \in SUBSET lg.buf : past' = [past EXCEPT !.lines = @ \ lost, !.changes = Counted]
    BY <1>6, Zenon DEF LogFileLogSet
  <2> QED BY <2>1
<1>7. CASE LogSwitch BY <1>7 DEF LogSwitch
<1>8. CASE DayPasses BY <1>8 DEF DayPasses
<1>9. CASE LogCrash BY <1>9 DEF LogCrash
<1> QED BY <1>1, <1>2, <1>3, <1>4, <1>5, <1>6, <1>7, <1>8, <1>9 DEF LogNext

\* The invariant of the logger, for any number of files, days, lines and changes.
THEOREM LogInvariant == LogSpec => []LogInv
<1>1. LogInit => LogInv BY LogInitInv
<1>2. LogInv /\ [LogNext]_logVars => LogInv'
  <2> SUFFICES ASSUME LogInv, [LogNext]_logVars PROVE LogInv' OBVIOUS
  <2>1. CASE UNCHANGED logVars
    <3>1. LogNow' = LogNow /\ today' = today /\ past' = past BY <2>1 DEF logVars, LogNow
    <3> QED BY <3>1 DEF LogInv, InOrder
  <2>2. CASE LogNext
    <3>1. DOMAIN past' = PastFields /\ past'.misdated \in BOOLEAN /\ (past.misdated => past'.misdated)
      BY <2>2, PastGrows DEF LogInv
    <3>2. ASSUME ~past'.misdated PROVE InOrder'
      <4>1. InOrder /\ past.misdated \in BOOLEAN BY <3>1, <3>2 DEF LogInv
      <4> QED BY <2>2, <3>2, <4>1, InitStep, DestroyStep, DisplayStep, ConfigStep, NameStep, FileLogStep, SwitchStep,
                 DayStep, CrashStep
          DEF LogNext
    <3> QED BY <3>1, <3>2 DEF LogInv
  <2> QED BY <2>1, <2>2
<1> QED BY <1>1, <1>2, PTL DEF LogSpec

\* Until two failures in a row misdated a file, no rotation of log.c destroys or repeats a line
\* that reached it, and no archive holds a line of a later day than its name says.
THEOREM LogStaysKept == LogSpec => []LogKept
<1>1. LogInv => LogKept
  <2> SUFFICES ASSUME LogInv, ~past.misdated
               PROVE  /\ past.lines = OnRecord(LogNow)
                      /\ \A k, l \in DOMAIN disk.old : k # l => disk.old[k].lines \cap disk.old[l].lines = {}
                      /\ past.rotating => \A k \in DOMAIN disk.old :
                                              \A y \in disk.old[k].lines : y.day <= k[2]
    BY DEF LogKept
  <2>1. Apart(LogNow) /\ LogShape(LogNow) /\ Fresh(LogNow, today, past.rotating, past.renamed)
    BY DEF LogInv, InOrder, Kept
  <2>2. LogNow.disk = disk BY DEF LogNow
  <2>3. DOMAIN disk.old = Archives BY <2>1, <2>2 DEF LogShape
  <2>4. past.lines = OnRecord(LogNow) BY DEF LogInv, InOrder
  <2>5. \A k, l \in DOMAIN disk.old : k # l => disk.old[k].lines \cap disk.old[l].lines = {}
    BY <2>1, <2>2, <2>3 DEF Apart
  <2>6. past.rotating => \A k \in DOMAIN disk.old : \A y \in disk.old[k].lines : y.day <= k[2]
    BY <2>1, <2>2, <2>3 DEF Fresh
  <2> QED BY <2>4, <2>5, <2>6
<1> QED BY <1>1, LogInvariant, PTL
=============================================================================
