-------------------------------- MODULE XLog --------------------------------
(***************************************************************************)
(* The logger of src/sys/log.c in one process: routing of a message, the   *)
(* log file with stdio's buffer, its daily rotation, the changes of the    *)
(* configuration, crash and restart.  The mutex makes each function one    *)
(* step.  Directory and name of the file are one value, a line is known by *)
(* its number and the day it was made on; it is written whole or not at    *)
(* all.  Colours, tags, formats and the screen are left out.               *)
(***************************************************************************)
EXTENDS Integers, FiniteSets

CONSTANTS LogNames,    \* names (with their directories) of log files
          LogFlags,    \* message types
          MaxDay,      \* bound: days that pass
          MaxLines,    \* bound: lines that are logged; after the last one no day passes and nothing is configured
          MaxChanges   \* bound: changes of the configuration after the first line

ASSUME LogAssumption ==
    "" \notin LogNames /\ LogNames # {} /\ MaxDay \in Nat \ {0} /\ {MaxLines, MaxChanges} \subseteq Nat

VARIABLES
    lg,       \* g_bInit and g_xlog: configuration, file path, handle, its buffer, nCurrDay
    disk,     \* now: name -> the log file, old: name and day -> its archives
    today,    \* the day of the clock
    past      \* history: the lines given to the file that no failing write and no crash lost; whether
              \* rotation was ever off, nCurrDay is of a file of another name, and something was misdated

logVars == <<lg, disk, today, past>>

NoFile == [there |-> FALSE, lines |-> {}, mtime |-> 0]
NoDay == 0
NoLog == [init |-> FALSE, toFile |-> FALSE, keepOpen |-> FALSE, rotate |-> FALSE, flush |-> FALSE,
            flags |-> {}, name |-> "", path |-> "", open |-> FALSE, buf |-> {}, day |-> NoDay]

\* fclose and fflush write the buffer, which dates the file.  Nobody looks at what they return:
\* the lines of lost, which could not be written, are gone.
Flush(w, now, lost) ==
    LET lines == w.lg.buf \ lost IN
    IF lines = {} THEN [w EXCEPT !.lg.buf = {}]
    ELSE [w EXCEPT !.lg.buf = {},
                   !.disk.now[w.lg.path] = [there |-> TRUE, lines |-> @.lines \cup lines, mtime |-> now]]
XLog_CloseFile(w, now, lost) == IF w.lg.open THEN [Flush(w, now, lost) EXCEPT !.lg.open = FALSE] ELSE w

\* rename replaces an archive of the same name.
XLog_RotateFile(w, now, failed, lost) ==
    LET v == XLog_CloseFile(w, now, lost)
        p == v.lg.path IN
    IF p = "" \/ failed \/ ~v.disk.now[p].there THEN v
    ELSE [v EXCEPT !.disk.old[<<p, v.lg.day>>] = v.disk.now[p], !.disk.now[p] = NoFile]

\* The file of another day is archived under that day.
OldFileRotated(w, day, now, failed, lost) ==
    LET f == w.disk.now[w.lg.path] IN
    IF w.lg.rotate /\ f.there /\ f.mtime # day
      THEN XLog_RotateFile([w EXCEPT !.lg.day = f.mtime], now, failed, lost) ELSE w

\* fopen with mode "a".
Opened(w, now) ==
    LET f == w.disk.now[w.lg.path] IN
    [w EXCEPT !.lg.open = TRUE, !.disk.now[w.lg.path] = IF f.there THEN f ELSE [f EXCEPT !.there = TRUE, !.mtime = now]]

\* Mutant: nCurrDay is not set to the day on which the file is opened.
OpenKeepsDay(w, day, now, fail, lost) ==
    LET u == XLog_CloseFile(w, now, lost)
        v == OldFileRotated([u EXCEPT !.lg.path = u.lg.name], day, now, "rename" \in fail, lost) IN
    IF "open" \in fail THEN v ELSE Opened(v, now)

XLog_OpenFile(w, day, now, fail, lost) ==
    LET u == XLog_CloseFile(w, now, lost)
        v == OldFileRotated([u EXCEPT !.lg.path = u.lg.name], day, now, "rename" \in fail, lost) IN
    IF "open" \in fail THEN v ELSE [Opened(v, now) EXCEPT !.lg.day = day]

\* The file of the day before is archived before the first line of the day.
DayChecked(w, day, now, fail, lost) ==
    IF ~w.lg.rotate \/ w.lg.day = day THEN w
    ELSE IF w.lg.day = NoDay THEN XLog_CloseFile(w, now, lost)
         ELSE XLog_RotateFile(w, now, "archive" \in fail, lost)

\* The end of XLog_DisplayMessage.  Each call fails or not by itself: the rename of the file of
\* the day before ("archive"), the one before an old file is opened ("rename"), fopen ("open"),
\* and fflush, when stdio keeps the buffer ("flush"); spill: stdio's buffer is full.
XLog_DisplayMessage(w, line, now, fail, lost, spill) ==
    LET u == DayChecked(w, line.day, now, fail, lost)
        v == IF u.lg.open THEN u ELSE XLog_OpenFile(u, line.day, now, fail, lost)
        p == [v EXCEPT !.lg.buf = @ \cup {line}]
        q == IF (w.lg.flush /\ "flush" \notin fail) \/ spill THEN Flush(p, now, lost) ELSE p IN
    IF ~v.lg.open THEN v ELSE IF w.lg.keepOpen THEN q ELSE XLog_CloseFile(q, now, lost)

Printed(w, day, fail) == (w.lg.open /\ (~w.lg.rotate \/ w.lg.day = day)) \/ "open" \notin fail

\* The last lines of the day before date the file tomorrow, its rename fails, and that of
\* XLog_OpenFile archives it under that date.
ArchivedAhead(w, day, now, fail, lost) ==
    /\ w.lg.rotate /\ w.lg.day # day /\ now # day
    /\ w.lg.buf \ lost # {}
    /\ "archive" \in fail /\ "rename" \notin fail

-----------------------------------------------------------------------------
LogNow == [lg |-> lg, disk |-> disk]
LogCommit(w) == lg' = w.lg /\ disk' = w.disk
MayChange == lg.init /\ past.n < MaxLines /\ past.changes < MaxChanges
Counted == IF past.n = 0 THEN 0 ELSE past.changes + 1
OnRecord(w) == w.lg.buf \cup (UNION {w.disk.now[n].lines : n \in LogNames})
               \cup (UNION {w.disk.old[k].lines : k \in DOMAIN w.disk.old})

LogInit ==
    /\ lg = NoLog /\ today = 1
    /\ disk = [now |-> [n \in LogNames |-> NoFile], old |-> [k \in LogNames \X (0..MaxDay) |-> NoFile]]
    /\ past = [lines |-> {}, n |-> 0, changes |-> 0, rotating |-> TRUE, renamed |-> FALSE, misdated |-> FALSE]

\* XLog_Init with every type of message; the file log is off.
XLog_Init ==
    /\ ~lg.init
    /\ \E n \in LogNames :
           lg' = [NoLog EXCEPT !.init = TRUE, !.keepOpen = TRUE, !.rotate = TRUE, !.flags = LogFlags, !.name = n]
    /\ past' = [past EXCEPT !.renamed = FALSE]
    /\ UNCHANGED <<disk, today>>

\* What a step may lose is what it writes.
Writes(w, lost) == lost \cap w.lg.buf = {}

XLog_Destroy ==
    \E lost \in SUBSET lg.buf :
        LET w == XLog_CloseFile(LogNow, today, lost) IN
        /\ lg.init
        /\ LogCommit([w EXCEPT !.lg = [NoLog EXCEPT !.path = w.lg.path, !.day = w.lg.day]])
        /\ past' = [past EXCEPT !.lines = @ \ lost]
        /\ UNCHANGED today

\* The calls of a message that may fail: those it may come to make.
Attempted(day) ==
    LET another == lg.rotate /\ lg.day # day
        opens == another \/ ~lg.open IN
    {c \in {"archive", "rename", "open", "flush"} :
        CASE c = "archive" -> another /\ lg.day # NoDay
          [] c = "rename" -> opens /\ lg.rotate
          [] c = "open" -> opens
          [] c = "flush" -> lg.flush}

\* XLog_Display: a message of type f that the user's callback does not
\* withhold from the file; the day may end while it is written.
LogDisplay ==
    \E f \in LogFlags, late, spill \in BOOLEAN, fail \in SUBSET Attempted(today) :
        LET now == IF late THEN today + 1 ELSE today
            line == [n |-> past.n + 1, day |-> today]
            printed == Printed(LogNow, today, fail) IN
        /\ lg.init /\ past.n < MaxLines /\ now <= MaxDay
        /\ f \in lg.flags
        /\ lg.toFile /\ (spill => ~lg.flush)
        /\ \E lost \in SUBSET (lg.buf \cup {line}) :
              LET w == XLog_DisplayMessage(LogNow, line, now, fail, lost, spill) IN
              /\ Writes(w, lost)
              /\ LogCommit(w)
              /\ past' = [past EXCEPT !.n = @ + 1,
                                      !.lines = (IF printed THEN @ \cup {line} ELSE @) \ lost,
                                      !.renamed = @ /\ ~printed,
                                      !.misdated = @ \/ (past.renamed /\ ~printed)
                                                     \/ ArchivedAhead(LogNow, today, now, fail, lost)]
        /\ today' = now

\* nCurrDay is still that of the file before.
Renamed(n) == past.renamed \/ (n # lg.name /\ lg.day # NoDay)

\* XLog_ConfigSet of a new name, file log, keepOpen, rotation and flush.
LogConfigSet ==
    \E n \in LogNames, toFile, keep, rot, fl \in BOOLEAN, lost \in SUBSET lg.buf :
        LET w == IF ~toFile \/ n # lg.name THEN [XLog_CloseFile(LogNow, today, lost) EXCEPT !.lg.path = ""] ELSE LogNow IN
        /\ MayChange /\ Writes(w, lost)
        /\ LogCommit([w EXCEPT !.lg.name = n, !.lg.toFile = toFile, !.lg.keepOpen = keep, !.lg.rotate = rot, !.lg.flush = fl])
        /\ past' = [past EXCEPT !.lines = @ \ lost, !.changes = Counted, !.rotating = @ /\ rot, !.renamed = Renamed(n)]
        /\ UNCHANGED today

\* XLog_NameSet, XLog_PathSet.
LogNameSet ==
    \E n \in LogNames, lost \in SUBSET lg.buf :
        LET w == IF n # lg.name THEN [XLog_CloseFile(LogNow, today, lost) EXCEPT !.lg.path = ""] ELSE LogNow IN
        /\ MayChange /\ Writes(w, lost)
        /\ LogCommit([w EXCEPT !.lg.name = n])
        /\ past' = [past EXCEPT !.lines = @ \ lost, !.changes = Counted, !.renamed = Renamed(n)]
        /\ UNCHANGED today

LogFileLogSet ==
    \E on \in BOOLEAN, lost \in SUBSET lg.buf :
        LET w == IF on THEN LogNow ELSE XLog_CloseFile(LogNow, today, lost) IN
        /\ MayChange /\ Writes(w, lost)
        /\ LogCommit([w EXCEPT !.lg.toFile = on])
        /\ past' = [past EXCEPT !.lines = @ \ lost, !.changes = Counted]
        /\ UNCHANGED today

\* XLog_FlushSet, XLog_FlagsSet, XLog_FlagEnable, XLog_FlagDisable.
LogSwitch ==
    /\ MayChange
    /\ \/ lg' = [lg EXCEPT !.flush = ~@]
       \/ \E f \in LogFlags : lg' = [lg EXCEPT !.flags = IF f = "NONE" THEN {f} ELSE @ \cup {f}]
       \/ \E f \in LogFlags : lg' = [lg EXCEPT !.flags = @ \ {f}]
       \/ \E F \in {{}, LogFlags} : lg' = [lg EXCEPT !.flags = F]
    /\ past' = [past EXCEPT !.changes = Counted]
    /\ UNCHANGED <<disk, today>>

DayPasses == today < MaxDay /\ past.n < MaxLines /\ today' = today + 1 /\ UNCHANGED <<lg, disk, past>>

\* The process dies, and what stdio holds with it.
LogCrash ==
    /\ lg.init
    /\ past' = [past EXCEPT !.lines = @ \ lg.buf]
    /\ lg' = NoLog
    /\ UNCHANGED <<disk, today>>

LogNext == XLog_Init \/ XLog_Destroy \/ LogDisplay \/ LogConfigSet \/ LogNameSet \/ LogFileLogSet \/ LogSwitch
           \/ DayPasses \/ LogCrash

LogSpec == LogInit /\ [][LogNext]_logVars

-----------------------------------------------------------------------------
\* Whatever is switched, whichever write, rename and open fail and whenever the process ends, no
\* rotation destroys or repeats a line that reached the file (XLog_RotateFile renames over an
\* archive), and as long as rotation was never off, no archive holds a line of a later day than its
\* name says.  Two failures misdate a file and with it a later archive: nothing is claimed of what
\* is logged after one whose file was archived ahead of its day (ArchivedAhead), or after an open
\* that failed while nCurrDay was still that of a file of another name.
LogKept ==
    ~past.misdated =>
        /\ past.lines = OnRecord(LogNow)
        /\ \A k, l \in DOMAIN disk.old : k # l => disk.old[k].lines \cap disk.old[l].lines = {}
        /\ past.rotating => \A k \in DOMAIN disk.old :
                                \A y \in disk.old[k].lines : y.day <= k[2]
=============================================================================
